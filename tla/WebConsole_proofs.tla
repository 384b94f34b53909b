--------------------------- MODULE WebConsole_proofs ---------------------------
(***************************************************************************)
(* Theorems about pages of the consoles.  The option pages of the three     *)
(* consoles, for any number of edits and of submits under way: what is      *)
(* shown is stored, only what was touched is sent, the page is locked while *)
(* it sends, and a stored secret is one that was entered.  The tables of the*)
(* three consoles, for any items and any requests under way: no row says of *)
(* its item what was never so, one administrator who waits for the answers  *)
(* sees what is so, and a loader that turns waits for a request.            *)
(***************************************************************************)
EXTENDS MCWebConsole, FiniteSetTheorems, SequenceTheorems, WellFoundedInduction, TLAPS

----------------------------------------------------------------------------
(* The option pages. *)

(* What the sections of the pages have in common. *)

OwnFields(f) == f.fields \cup {f.submit[i].key : i \in DOMAIN f.submit} \cup ({f.switch} \ {Blank})

FormSound(f) ==
  /\ f.theme \in {"default", "air", "berry"}
  /\ DOMAIN f.submit \subseteq 1..6
  /\ \A n \in DOMAIN f.submit : f.submit[n].key \in Hidden => f.submit[n].test = "filled"
  /\ \A n \in DOMAIN f.submit : f.submit[n].test = "always" => f.submit[n] = Always(f.submit[n].key)
  /\ \A m, n \in DOMAIN f.submit : f.submit[m].key = f.submit[n].key => m = n
  /\ f.switch # Blank => f.fields = {} /\ DOMAIN f.submit = {} /\ f.switch \notin Hidden
  /\ \A n \in DOMAIN f.submit : f.submit[n].test = "joined" => DOMAIN f.submit = {n}
  /\ "OidcWellKnown" \in OwnFields(f) =>
       /\ f.theme = "berry" /\ Endpoints \subseteq OwnFields(f)
       /\ \A n \in DOMAIN f.submit : /\ f.submit[n].test \in {"changed", "filled"}
                                     /\ f.submit[n].key # "ServerAddress"
  /\ f.fields \cap SentAsTyped[f.theme] # {} => f.fields \subseteq SentAsTyped[f.theme]

Values == {"", "a", "b", "true", "false"}
Shown == [Keys -> Values \cup {None}]
TodoTyped(t) ==
  /\ t \in [DOMAIN t -> [key : Keys, value : Values]]
  /\ DOMAIN t \subseteq 1..6 /\ DOMAIN t # {}
JobsAre == jobs = [j \in Jobs |-> jobs[j]]
JobTyped(job) ==
  \/ job = NoJob
  \/ /\ job = [at |-> job.at, todo |-> job.todo, early |-> job.early]
     /\ job.at \in {"sent", "stored", "refused"} /\ TodoTyped(job.todo)
     /\ ~job.early => fetched = "loaded"
  \/ /\ job = [at |-> "discovering", shown |-> job.shown, early |-> job.early]
     /\ "OidcWellKnown" \in Keys /\ job.shown \in Shown
     /\ \A k \in Keys : job.shown[k] = None => k \in Hidden
     /\ ~job.early => fetched = "loaded"

PlainTypes ==
  /\ form \in DefaultForms \cup AirForms \cup BerryForms
  /\ fetched \in {"asked", "read", "loaded", "lost"}
  /\ formLoading \in BOOLEAN /\ dialogOpen \in BOOLEAN /\ upset \in BOOLEAN /\ hung \in BOOLEAN
  /\ edits \in 0..MaxEdits
  /\ dialogOpen => form.switch # Blank
  /\ fetched # "loaded" => originInputs = Undefined

ValueTypes ==
  /\ inputs \in Shown /\ originInputs \in Shown
  /\ \A k \in Keys : inputs[k] = None => k \in Hidden
  /\ \A k \in Hidden \cap Keys : originInputs[k] = None
  /\ stored \in [Keys -> Values]
  /\ fetched = "read" => reading \in [Keys -> Values]

MarkTypes ==
  /\ touched \subseteq Keys /\ typedSince \subseteq touched
  /\ typedSince \subseteq form.fields \ SentAsTyped[form.theme]

JobTypes == JobsAre /\ \A j \in Jobs : JobTyped(jobs[j])

PageTypes == PlainTypes /\ ValueTypes /\ MarkTypes /\ JobTypes

\* What a job that began on a loaded page sends, or may send, was touched.
JobTouched(job) ==
  ~job.early =>
    /\ job.at = "discovering" => \A k \in Keys : job.shown[k] = originInputs[k] \/ k \in touched
    /\ job.at # "discovering" => \A i \in DOMAIN job.todo :
         \/ job.todo[i].key \in touched
         \/ \E n \in DOMAIN form.submit : form.submit[n] = Always(job.todo[i].key)

TouchedInv ==
  /\ fetched = "loaded" => \A k \in Keys : inputs[k] = originInputs[k] \/ k \in touched
  /\ \A j \in UnderWay : JobTouched(jobs[j])

\* The calls of a submit are of different options; no secret is sent blank, and what is
\* sent without a slash has none.
TodoSound(t) ==
  /\ \A m, n \in DOMAIN t : t[m].key = t[n].key => m = n
  /\ \A m \in DOMAIN t, n \in DOMAIN form.submit :
       t[m].key = form.submit[n].key /\ t[m].key \notin SentAsTyped[form.theme] =>
         /\ form.submit[n].test = "filled" => t[m].value # Blank
         /\ form.submit[n].test = "address" \/ t[m].key = "ServerAddress" =>
              removeTrailingSlash(t[m].value) = t[m].value

SentInv == \A j \in Sending : TodoSound(jobs[j].todo)

LockedInv ==
  /\ SettingsLocked
  /\ Overlay(form.theme) =>
       /\ \A i, j \in UnderWay : i = j
       /\ dialogOpen => UnderWay = {}

\* The submit under way sends option k, or may send it once the endpoints are known.
Pending(k) ==
  \E j \in UnderWay :
    jobs[j].at # "discovering" => \E m \in DOMAIN jobs[j].todo : jobs[j].todo[m].key = k
\* Option k, the n-th of the submit, is not for sending, or it was stored as it is shown.
Settled(n, k) ==
  \/ form.submit[n].test # "always" /\ originInputs[k] = inputs[k]
  \/ form.submit[n].test = "filled" /\ inputs[k] = Blank
  \/ stored[k] = IF k \in SentAsTyped[form.theme] THEN inputs[k]
                 ELSE ValueSent(form.submit[n], inputs)

\* While nothing disturbs the page: before it is loaded nothing is under way; then one
\* submit at most, and every option that was touched is settled or pending.
CalmBefore ==
  ~upset => /\ fetched # "loaded" => UnderWay = {}
            /\ fetched = "read" => reading = stored
CalmJobs ==
  ~upset /\ fetched = "loaded" =>
    /\ \A i, j \in UnderWay : i = j
    /\ \A j \in UnderWay :
         /\ ~jobs[j].early /\ jobs[j].at # "refused"
         /\ jobs[j].at = "discovering" =>
              \A k \in Keys : jobs[j].shown[k] = inputs[k] \/ k \in typedSince
         /\ jobs[j].at = "stored" =>
              stored[First(jobs[j].todo).key] = First(jobs[j].todo).value
CalmItems ==
  ~upset /\ fetched = "loaded" =>
    \A n \in DOMAIN form.submit, k \in touched \ typedSince :
      k = form.submit[n].key => Settled(n, k) \/ Pending(k)
CalmSwitch ==
  ~upset /\ fetched = "loaded" =>
    \A k \in Keys : k = form.switch /\ k # Blank => inputs[k] = stored[k] \/ Pending(k)
CalmInv == CalmBefore /\ CalmJobs /\ CalmItems /\ CalmSwitch

SettingsInv == PageTypes /\ TouchedInv /\ SentInv /\ LockedInv /\ CalmInv

----------------------------------------------------------------------------
(* What holds of every section of every page. *)

LoneItemSound(x) ==
  (x.key \in Hidden => x.test = "filled") /\ (x.test = "always" => x = Always(x.key))
ItemSound(x) == x.test # "joined" /\ LoneItemSound(x)
KeysOf(sub) == {sub[i].key : i \in DOMAIN sub}
SubmitSound(sub) ==
  /\ DOMAIN sub \subseteq 1..6
  /\ \A n \in DOMAIN sub : sub[n].key \in Hidden => sub[n].test = "filled"
  /\ \A n \in DOMAIN sub : sub[n].test = "always" => sub[n] = Always(sub[n].key)
  /\ \A m, n \in DOMAIN sub : sub[m].key = sub[n].key => m = n
  /\ \A n \in DOMAIN sub : sub[n].test = "joined" => DOMAIN sub = {n}

LEMMA Submit1 ==
  ASSUME NEW u,
         LoneItemSound(u)
  PROVE  SubmitSound(<<u>>) /\ KeysOf(<<u>>) = {u.key}
<1>. DEFINE sub == <<u>>
<1>1. DOMAIN sub = 1..1
  OBVIOUS
<1>2. sub[1] = u
  OBVIOUS
<1>3. \A n \in DOMAIN sub : n = 1
  BY <1>1
<1>. HIDE DEF sub
<1>4. SubmitSound(sub)
  BY <1>1, <1>2, <1>3 DEF SubmitSound, LoneItemSound
<1>5. KeysOf(sub) = {u.key}
  BY <1>1, <1>2, <1>3 DEF KeysOf
<1>. QED BY <1>4, <1>5 DEF sub

LEMMA Submit2 ==
  ASSUME NEW u, NEW v,
         ItemSound(u), ItemSound(v),
         u.key # v.key
  PROVE  SubmitSound(<<u, v>>) /\ KeysOf(<<u, v>>) = {u.key, v.key}
<1>. DEFINE sub == <<u, v>>
<1>1. DOMAIN sub = 1..2
  OBVIOUS
<1>2. sub[1] = u /\ sub[2] = v
  OBVIOUS
<1>3. \A n \in DOMAIN sub : n = 1 \/ n = 2
  BY <1>1
<1>. HIDE DEF sub
<1>4. SubmitSound(sub)
  BY <1>1, <1>2, <1>3 DEF SubmitSound, LoneItemSound, ItemSound
<1>5. KeysOf(sub) = {u.key, v.key}
  BY <1>1, <1>2, <1>3 DEF KeysOf
<1>. QED BY <1>4, <1>5 DEF sub

LEMMA Submit3 ==
  ASSUME NEW u, NEW v, NEW w,
         ItemSound(u), ItemSound(v), ItemSound(w),
         u.key # v.key, u.key # w.key,
         v.key # w.key
  PROVE  SubmitSound(<<u, v, w>>) /\ KeysOf(<<u, v, w>>) = {u.key, v.key, w.key}
<1>. DEFINE sub == <<u, v, w>>
<1>1. DOMAIN sub = 1..3
  OBVIOUS
<1>2. sub[1] = u /\ sub[2] = v /\ sub[3] = w
  OBVIOUS
<1>3. \A n \in DOMAIN sub : n = 1 \/ n = 2 \/ n = 3
  BY <1>1
<1>. HIDE DEF sub
<1>4. SubmitSound(sub)
  BY <1>1, <1>2, <1>3 DEF SubmitSound, LoneItemSound, ItemSound
<1>5. KeysOf(sub) = {u.key, v.key, w.key}
  BY <1>1, <1>2, <1>3 DEF KeysOf
<1>. QED BY <1>4, <1>5 DEF sub

LEMMA Submit4 ==
  ASSUME NEW u, NEW v, NEW w, NEW x,
         ItemSound(u), ItemSound(v), ItemSound(w), ItemSound(x),
         u.key # v.key, u.key # w.key, u.key # x.key,
         v.key # w.key, v.key # x.key,
         w.key # x.key
  PROVE  SubmitSound(<<u, v, w, x>>) /\ KeysOf(<<u, v, w, x>>) = {u.key, v.key, w.key, x.key}
<1>. DEFINE sub == <<u, v, w, x>>
<1>1. DOMAIN sub = 1..4
  OBVIOUS
<1>2. sub[1] = u /\ sub[2] = v /\ sub[3] = w /\ sub[4] = x
  OBVIOUS
<1>3. \A n \in DOMAIN sub : n = 1 \/ n = 2 \/ n = 3 \/ n = 4
  BY <1>1
<1>. HIDE DEF sub
<1>4. SubmitSound(sub)
  BY <1>1, <1>2, <1>3 DEF SubmitSound, LoneItemSound, ItemSound
<1>5. KeysOf(sub) = {u.key, v.key, w.key, x.key}
  BY <1>1, <1>2, <1>3 DEF KeysOf
<1>. QED BY <1>4, <1>5 DEF sub

LEMMA Submit5 ==
  ASSUME NEW u, NEW v, NEW w, NEW x, NEW y,
         ItemSound(u), ItemSound(v), ItemSound(w), ItemSound(x), ItemSound(y),
         u.key # v.key, u.key # w.key, u.key # x.key, u.key # y.key,
         v.key # w.key, v.key # x.key, v.key # y.key,
         w.key # x.key, w.key # y.key,
         x.key # y.key
  PROVE  SubmitSound(<<u, v, w, x, y>>) /\ KeysOf(<<u, v, w, x, y>>) = {u.key, v.key, w.key,
         x.key, y.key}
<1>. DEFINE sub == <<u, v, w, x, y>>
<1>1. DOMAIN sub = 1..5
  OBVIOUS
<1>2. sub[1] = u /\ sub[2] = v /\ sub[3] = w /\ sub[4] = x /\ sub[5] = y
  OBVIOUS
<1>3. \A n \in DOMAIN sub : n = 1 \/ n = 2 \/ n = 3 \/ n = 4 \/ n = 5
  BY <1>1
<1>. HIDE DEF sub
<1>4. SubmitSound(sub)
  BY <1>1, <1>2, <1>3 DEF SubmitSound, LoneItemSound, ItemSound
<1>5. KeysOf(sub) = {u.key, v.key, w.key, x.key, y.key}
  BY <1>1, <1>2, <1>3 DEF KeysOf
<1>. QED BY <1>4, <1>5 DEF sub

LEMMA Submit6 ==
  ASSUME NEW u, NEW v, NEW w, NEW x, NEW y, NEW z,
         ItemSound(u), ItemSound(v), ItemSound(w), ItemSound(x), ItemSound(y), ItemSound(z),
         u.key # v.key, u.key # w.key, u.key # x.key, u.key # y.key, u.key # z.key,
         v.key # w.key, v.key # x.key, v.key # y.key, v.key # z.key,
         w.key # x.key, w.key # y.key, w.key # z.key,
         x.key # y.key, x.key # z.key,
         y.key # z.key
  PROVE  SubmitSound(<<u, v, w, x, y, z>>) /\ KeysOf(<<u, v, w, x, y, z>>) = {u.key, v.key,
         w.key, x.key, y.key, z.key}
<1>. DEFINE sub == <<u, v, w, x, y, z>>
<1>1. DOMAIN sub = 1..6
  OBVIOUS
<1>2. sub[1] = u /\ sub[2] = v /\ sub[3] = w /\ sub[4] = x /\ sub[5] = y /\ sub[6] = z
  OBVIOUS
<1>3. \A n \in DOMAIN sub : n = 1 \/ n = 2 \/ n = 3 \/ n = 4 \/ n = 5 \/ n = 6
  BY <1>1
<1>. HIDE DEF sub
<1>4. SubmitSound(sub)
  BY <1>1, <1>2, <1>3 DEF SubmitSound, LoneItemSound, ItemSound
<1>5. KeysOf(sub) = {u.key, v.key, w.key, x.key, y.key, z.key}
  BY <1>1, <1>2, <1>3 DEF KeysOf
<1>. QED BY <1>4, <1>5 DEF sub

\* The submits of the pages, each with its own lemma.
LEMMA SubmitsOfDefault ==
  ASSUME NEW s \in DOMAIN submitsDefault
  PROVE  /\ SubmitSound(submitsDefault[s])
         /\ s # "oidc" => "OidcWellKnown" \notin KeysOf(submitsDefault[s])
<1>. USE DEF submitsDefault, ItemSound, LoneItemSound, Hidden, Always, Changed, Filled, Joined,
     Address, Json
<1>1. CASE s = "server"
  <2>1. submitsDefault[s] =
        <<Always("ServerAddress")>>
    BY <1>1
  <2>. QED BY <1>1, <2>1, Submit1
<1>2. CASE s = "smtp"
  <2>1. submitsDefault[s] =
        <<Changed("SMTPServer"), Changed("SMTPAccount"), Changed("SMTPFrom"),
          Filled("SMTPPort"), Filled("SMTPToken")>>
    BY <1>2
  <2>. QED BY <1>2, <2>1, Submit5
<1>3. CASE s = "whitelist"
  <2>1. submitsDefault[s] =
        <<Joined("EmailDomainWhitelist")>>
    BY <1>3
  <2>. QED BY <1>3, <2>1, Submit1
<1>4. CASE s = "wechat"
  <2>1. submitsDefault[s] =
        <<Address("WeChatServerAddress"), Changed("WeChatAccountQRCodeImageURL"),
          Filled("WeChatServerToken")>>
    BY <1>4
  <2>. QED BY <1>4, <2>1, Submit3
<1>5. CASE s = "github"
  <2>1. submitsDefault[s] =
        <<Changed("GitHubClientId"), Filled("GitHubClientSecret")>>
    BY <1>5
  <2>. QED BY <1>5, <2>1, Submit2
<1>6. CASE s = "lark"
  <2>1. submitsDefault[s] =
        <<Changed("LarkClientId"), Filled("LarkClientSecret")>>
    BY <1>6
  <2>. QED BY <1>6, <2>1, Submit2
<1>7. CASE s = "turnstile"
  <2>1. submitsDefault[s] =
        <<Changed("TurnstileSiteKey"), Filled("TurnstileSecretKey")>>
    BY <1>7
  <2>. QED BY <1>7, <2>1, Submit2
<1>. QED BY <1>1, <1>2, <1>3, <1>4, <1>5, <1>6, <1>7

LEMMA SubmitsOfAir ==
  ASSUME NEW s \in DOMAIN submitsAir
  PROVE  /\ SubmitSound(submitsAir[s])
         /\ s # "oidc" => "OidcWellKnown" \notin KeysOf(submitsAir[s])
<1>. USE DEF submitsAir, ItemSound, LoneItemSound, Hidden, Always, Changed, Filled, Joined,
     Address, Json
<1>1. CASE s = "server"
  BY <1>1, SubmitsOfDefault, submitsDefault.server = submitsDefault["server"],
     "server" \in DOMAIN submitsDefault DEF submitsDefault
<1>2. CASE s = "smtp"
  BY <1>2, SubmitsOfDefault, submitsDefault.smtp = submitsDefault["smtp"],
     "smtp" \in DOMAIN submitsDefault DEF submitsDefault
<1>3. CASE s = "whitelist"
  BY <1>3, SubmitsOfDefault, submitsDefault.whitelist = submitsDefault["whitelist"],
     "whitelist" \in DOMAIN submitsDefault DEF submitsDefault
<1>4. CASE s = "wechat"
  BY <1>4, SubmitsOfDefault, submitsDefault.wechat = submitsDefault["wechat"],
     "wechat" \in DOMAIN submitsDefault DEF submitsDefault
<1>5. CASE s = "github"
  BY <1>5, SubmitsOfDefault, submitsDefault.github = submitsDefault["github"],
     "github" \in DOMAIN submitsDefault DEF submitsDefault
<1>6. CASE s = "turnstile"
  BY <1>6, SubmitsOfDefault, submitsDefault.turnstile = submitsDefault["turnstile"],
     "turnstile" \in DOMAIN submitsDefault DEF submitsDefault
<1>7. CASE s = "pusher"
  <2>1. submitsAir[s] =
        <<Address("MessagePusherAddress"), Filled("MessagePusherToken")>>
    BY <1>7
  <2>. QED BY <1>7, <2>1, Submit2
<1>. QED BY <1>1, <1>2, <1>3, <1>4, <1>5, <1>6, <1>7

LEMMA SubmitsOfBerry ==
  ASSUME NEW s \in DOMAIN submitsBerry
  PROVE  /\ SubmitSound(submitsBerry[s])
         /\ s # "oidc" => "OidcWellKnown" \notin KeysOf(submitsBerry[s])
<1>. USE DEF submitsBerry, ItemSound, LoneItemSound, Hidden, Always, Changed, Filled, Joined,
     Address, Json
<1>1. CASE s = "server"
  BY <1>1, SubmitsOfDefault, submitsDefault.server = submitsDefault["server"],
     "server" \in DOMAIN submitsDefault DEF submitsDefault
<1>2. CASE s = "smtp"
  BY <1>2, SubmitsOfDefault, submitsDefault.smtp = submitsDefault["smtp"],
     "smtp" \in DOMAIN submitsDefault DEF submitsDefault
<1>3. CASE s = "whitelist"
  <2>1. submitsBerry[s] =
        <<Always("EmailDomainWhitelist")>>
    BY <1>3
  <2>. QED BY <1>3, <2>1, Submit1
<1>4. CASE s = "wechat"
  BY <1>4, SubmitsOfDefault, submitsDefault.wechat = submitsDefault["wechat"],
     "wechat" \in DOMAIN submitsDefault DEF submitsDefault
<1>5. CASE s = "github"
  BY <1>5, SubmitsOfDefault, submitsDefault.github = submitsDefault["github"],
     "github" \in DOMAIN submitsDefault DEF submitsDefault
<1>6. CASE s = "lark"
  BY <1>6, SubmitsOfDefault, submitsDefault.lark = submitsDefault["lark"],
     "lark" \in DOMAIN submitsDefault DEF submitsDefault
<1>7. CASE s = "turnstile"
  BY <1>7, SubmitsOfDefault, submitsDefault.turnstile = submitsDefault["turnstile"],
     "turnstile" \in DOMAIN submitsDefault DEF submitsDefault
<1>8. CASE s = "pusher"
  <2>1. submitsBerry[s] =
        <<Address("MessagePusherAddress"), Filled("MessagePusherToken")>>
    BY <1>8
  <2>. QED BY <1>8, <2>1, Submit2
<1>9. CASE s = "oidc"
  <2>1. submitsBerry[s] =
        <<Changed("OidcWellKnown"), Changed("OidcClientId"), Filled("OidcClientSecret"),
          Changed("OidcAuthorizationEndpoint"), Changed("OidcTokenEndpoint"),
          Changed("OidcUserinfoEndpoint")>>
    BY <1>9
  <2>. QED BY <1>9, <2>1, Submit6
<1>. QED BY <1>1, <1>2, <1>3, <1>4, <1>5, <1>6, <1>7, <1>8, <1>9

LEMMA SubmitsOfConfig ==
  ASSUME NEW s \in DOMAIN submitConfigDefault
  PROVE  /\ SubmitSound(submitConfigDefault[s])
         /\ s # "oidc" => "OidcWellKnown" \notin KeysOf(submitConfigDefault[s])
<1>. USE DEF submitConfigDefault, ItemSound, LoneItemSound, Hidden, Always, Changed, Filled,
     Joined, Address, Json
<1>1. CASE s = "monitor"
  <2>1. submitConfigDefault[s] =
        <<Changed("ChannelDisableThreshold"), Changed("QuotaRemindThreshold")>>
    BY <1>1
  <2>. QED BY <1>1, <2>1, Submit2
<1>2. CASE s = "ratio"
  <2>1. submitConfigDefault[s] =
        <<Json("ModelRatio"), Json("GroupRatio"), Json("CompletionRatio")>>
    BY <1>2
  <2>. QED BY <1>2, <2>1, Submit3
<1>3. CASE s = "quota"
  <2>1. submitConfigDefault[s] =
        <<Changed("QuotaForNewUser"), Changed("QuotaForInvitee"), Changed("QuotaForInviter"),
          Changed("PreConsumedQuota")>>
    BY <1>3
  <2>. QED BY <1>3, <2>1, Submit4
<1>4. CASE s = "general"
  <2>1. submitConfigDefault[s] =
        <<Changed("TopUpLink"), Changed("ChatLink"), Changed("QuotaPerUnit"),
          Changed("RetryTimes")>>
    BY <1>4
  <2>. QED BY <1>4, <2>1, Submit4
<1>. QED BY <1>1, <1>2, <1>3, <1>4

\* Sections of fields and a submit, where no OIDC endpoint is asked for.
LEMMA PlainSections ==
  ASSUME NEW theme \in {"default", "air", "berry"}, NEW fields, NEW submits,
         \A s \in DOMAIN fields :
           /\ SubmitSound(submits[s])
           /\ "OidcWellKnown" \notin fields[s] \cup KeysOf(submits[s])
           /\ theme = "air" /\ fields[s] \cap SentAsTypedAir # {} =>
              fields[s] \subseteq SentAsTypedAir,
         NEW f \in Sections(theme, fields, submits)
  PROVE  FormSound(f)
<1>1. PICK s \in DOMAIN fields :
        f = [theme |-> theme, switch |-> Blank, fields |-> fields[s], submit |-> submits[s]]
  BY DEF Sections
<1>2. f.theme = theme /\ f.switch = Blank /\ f.fields = fields[s] /\ f.submit = submits[s]
  BY <1>1
<1>3. "OidcWellKnown" \notin OwnFields(f)
  BY <1>2 DEF OwnFields, KeysOf, Blank
<1>4. f.fields \cap SentAsTyped[f.theme] # {} => f.fields \subseteq SentAsTyped[f.theme]
  BY <1>2 DEF SentAsTyped, SentAsTypedDefault, SentAsTypedAir, SentAsTypedBerry
<1>. QED BY <1>2, <1>3, <1>4 DEF FormSound, SubmitSound

\* A checkbox has no fields and no submit.
LEMMA SwitchesAreSound ==
  ASSUME NEW theme \in {"default", "air", "berry"}, NEW keys,
         Blank \notin keys, "OidcWellKnown" \notin keys, keys \cap Hidden = {},
         NEW f \in Switches(theme, keys)
  PROVE  FormSound(f)
<1>1. PICK k \in keys : f = [theme |-> theme, switch |-> k, fields |-> {}, submit |-> <<>>]
  BY DEF Switches
<1>2. f.theme = theme /\ f.switch = k /\ f.fields = {} /\ DOMAIN f.submit = {}
  BY <1>1
<1>3. "OidcWellKnown" \notin OwnFields(f)
  BY <1>2 DEF OwnFields, Blank
<1>. QED BY <1>2, <1>3 DEF FormSound

\* A text of the other settings is sent as it is typed, or by its own button.
LEMMA OthersAreSound ==
  ASSUME NEW theme \in {"default", "air", "berry"},
         NEW f \in Sections(theme, [k \in OtherOptions |-> {k}],
            [k \in OtherOptions |-> <<Always(k)>>])
  PROVE  FormSound(f)
<1>. DEFINE fields == [k \in OtherOptions |-> {k}]
            submits == [k \in OtherOptions |-> <<Always(k)>>]
<1>1. ASSUME NEW s \in OtherOptions
      PROVE  /\ SubmitSound(submits[s]) /\ KeysOf(submits[s]) = {s}
             /\ fields[s] = {s} /\ s # "OidcWellKnown" /\ s \notin SentAsTypedAir
  <2>1. Always(s).key = s /\ Always(s).test = "always" /\ s \notin Hidden
    BY DEF Always, OtherOptions, Hidden
  <2>2. SubmitSound(<<Always(s)>>) /\ KeysOf(<<Always(s)>>) = {s}
    BY <2>1, Submit1 DEF LoneItemSound
  <2>3. s # "OidcWellKnown" /\ s \notin SentAsTypedAir
    BY DEF OtherOptions, SentAsTypedAir
  <2>. QED BY <2>2, <2>3
<1>2. DOMAIN fields = OtherOptions
  OBVIOUS
<1>3. f \in Sections(theme, fields, submits)
  OBVIOUS
<1>. HIDE DEF fields, submits
<1>4. \A s \in DOMAIN fields :
        /\ SubmitSound(submits[s])
        /\ "OidcWellKnown" \notin fields[s] \cup KeysOf(submits[s])
        /\ fields[s] \cap SentAsTypedAir = {}
  <2>1. \A s \in OtherOptions : "OidcWellKnown" \notin fields[s] \cup KeysOf(submits[s])
    BY <1>1
  <2>2. \A s \in OtherOptions : fields[s] \cap SentAsTypedAir = {}
    BY <1>1
  <2>3. \A s \in OtherOptions : SubmitSound(submits[s])
    BY <1>1
  <2>. QED BY <1>2, <2>1, <2>2, <2>3
<1>. QED BY <1>3, <1>4, PlainSections

\* The OIDC section has its endpoints among its fields.
LEMMA OidcIsSound ==
  ASSUME NEW f \in Sections("berry", oidcBerry, submitsBerry)
  PROVE  FormSound(f)
<1>1. f = [theme |-> "berry", switch |-> Blank, fields |-> oidcBerry["oidc"],
      submit |-> submitsBerry["oidc"]]
  BY DEF Sections, oidcBerry
<1>2. f.theme = "berry" /\ f.switch = Blank /\ f.fields = oidcBerry["oidc"]
      /\ f.submit = submitsBerry["oidc"]
  BY <1>1
<1>3. SubmitSound(f.submit)
  BY <1>2, SubmitsOfBerry, "oidc" \in DOMAIN submitsBerry DEF submitsBerry
<1>4. Endpoints \subseteq f.fields
  BY <1>2 DEF oidcBerry, Endpoints
<1>5. \A n \in DOMAIN f.submit : f.submit[n].test \in {"changed", "filled"}
      /\ f.submit[n].key # "ServerAddress"
  <2>1. f.submit = <<Changed("OidcWellKnown"), Changed("OidcClientId"),
                     Filled("OidcClientSecret"), Changed("OidcAuthorizationEndpoint"),
                     Changed("OidcTokenEndpoint"), Changed("OidcUserinfoEndpoint")>>
    BY <1>2 DEF submitsBerry
  <2>. DEFINE sub == f.submit
  <2>2. DOMAIN sub = 1..6 /\ sub[1] = Changed("OidcWellKnown") /\ sub[2] = Changed("OidcClientId")
        /\ sub[3] = Filled("OidcClientSecret") /\ sub[4] = Changed("OidcAuthorizationEndpoint")
        /\ sub[5] = Changed("OidcTokenEndpoint") /\ sub[6] = Changed("OidcUserinfoEndpoint")
    BY <2>1
  <2>. HIDE DEF sub
  <2>3. \A n \in DOMAIN sub : n = 1 \/ n = 2 \/ n = 3 \/ n = 4 \/ n = 5 \/ n = 6
    BY <2>2
  <2>4. \A n \in DOMAIN sub : sub[n].test \in {"changed", "filled"} /\ sub[n].key # "ServerAddress"
    BY <2>2, <2>3 DEF Changed, Filled
  <2>. QED BY <2>4 DEF sub
<1>6. Endpoints \subseteq OwnFields(f)
  BY <1>4 DEF OwnFields
<1>7. SentAsTyped[f.theme] = {}
  BY <1>2 DEF SentAsTyped, SentAsTypedBerry
<1>. QED BY <1>2, <1>3, <1>5, <1>6, <1>7 DEF FormSound, SubmitSound

\* The sections of the three consoles.
LEMMA FormsOfDefault ==
  ASSUME NEW f \in DefaultForms
  PROVE  FormSound(f)
<1>1. CASE f \in Sections("default", serverDefault, submitsDefault)
  <2>1. \A s \in DOMAIN serverDefault : s \in DOMAIN submitsDefault /\ s # "oidc"
        /\ "OidcWellKnown" \notin serverDefault[s]
    BY DEF serverDefault, submitsDefault
  <2>. QED BY <1>1, <2>1, SubmitsOfDefault, PlainSections
<1>2. CASE f \in Sections("default", whitelistDefault, submitsDefault)
  <2>1. \A s \in DOMAIN whitelistDefault : s \in DOMAIN submitsDefault /\ s # "oidc"
        /\ "OidcWellKnown" \notin whitelistDefault[s]
    BY DEF whitelistDefault, submitsDefault
  <2>. QED BY <1>2, <2>1, SubmitsOfDefault, PlainSections
<1>3. CASE f \in Sections("default", mailDefault, submitsDefault)
  <2>1. \A s \in DOMAIN mailDefault : s \in DOMAIN submitsDefault /\ s # "oidc"
        /\ "OidcWellKnown" \notin mailDefault[s]
    BY DEF mailDefault, submitsDefault
  <2>. QED BY <1>3, <2>1, SubmitsOfDefault, PlainSections
<1>4. CASE f \in Sections("default", wechatDefault, submitsDefault)
  <2>1. \A s \in DOMAIN wechatDefault : s \in DOMAIN submitsDefault /\ s # "oidc"
        /\ "OidcWellKnown" \notin wechatDefault[s]
    BY DEF wechatDefault, submitsDefault
  <2>. QED BY <1>4, <2>1, SubmitsOfDefault, PlainSections
<1>5. CASE f \in Sections("default", quotaDefault, submitConfigDefault)
  <2>1. \A s \in DOMAIN quotaDefault : s \in DOMAIN submitConfigDefault /\ s # "oidc"
        /\ "OidcWellKnown" \notin quotaDefault[s]
    BY DEF quotaDefault, submitConfigDefault
  <2>. QED BY <1>5, <2>1, SubmitsOfConfig, PlainSections
<1>6. CASE f \in Sections("default", generalDefault, submitConfigDefault)
  <2>1. \A s \in DOMAIN generalDefault : s \in DOMAIN submitConfigDefault /\ s # "oidc"
        /\ "OidcWellKnown" \notin generalDefault[s]
    BY DEF generalDefault, submitConfigDefault
  <2>. QED BY <1>6, <2>1, SubmitsOfConfig, PlainSections
<1>7. CASE f \in Sections("default", fieldsOtherDefault, submitsOtherDefault)
  BY <1>7, OthersAreSound DEF fieldsOtherDefault, submitsOtherDefault
<1>8. CASE f \in Switches("default", switchesDefault \cup operationSwitches)
  <2>. DEFINE keys == switchesDefault \cup operationSwitches
  <2>1. Blank \notin keys /\ "OidcWellKnown" \notin keys /\ keys \cap Hidden = {}
    BY DEF switchesDefault, loginSwitches, operationSwitches, Hidden, Blank
  <2>2. f \in Switches("default", keys)
    BY <1>8
  <2>. HIDE DEF keys
  <2>. QED BY <2>1, <2>2, SwitchesAreSound
<1>. QED BY <1>1, <1>2, <1>3, <1>4, <1>5, <1>6, <1>7, <1>8 DEF DefaultForms

LEMMA FormsOfAir ==
  ASSUME NEW f \in AirForms
  PROVE  FormSound(f)
<1>1. CASE f \in Sections("air", serverAir, submitsAir)
  <2>1. \A s \in DOMAIN serverAir : s \in DOMAIN submitsAir /\ s # "oidc"
        /\ "OidcWellKnown" \notin serverAir[s]
    BY DEF serverAir, submitsAir
  <2>2. \A s \in DOMAIN serverAir : serverAir[s] \cap SentAsTypedAir # {} =>
        serverAir[s] \subseteq SentAsTypedAir
    BY DEF serverAir, SentAsTypedAir
  <2>. QED BY <1>1, <2>1, SubmitsOfAir, <2>2, PlainSections
<1>2. CASE f \in Sections("air", mailAir, submitsAir)
  <2>1. \A s \in DOMAIN mailAir : s \in DOMAIN submitsAir /\ s # "oidc"
        /\ "OidcWellKnown" \notin mailAir[s]
    BY DEF mailAir, submitsAir
  <2>2. \A s \in DOMAIN mailAir : mailAir[s] \cap SentAsTypedAir # {} =>
        mailAir[s] \subseteq SentAsTypedAir
    BY DEF mailAir, SentAsTypedAir
  <2>. QED BY <1>2, <2>1, SubmitsOfAir, <2>2, PlainSections
<1>3. CASE f \in Sections("air", clientsAir, submitsAir)
  <2>1. \A s \in DOMAIN clientsAir : s \in DOMAIN submitsAir /\ s # "oidc"
        /\ "OidcWellKnown" \notin clientsAir[s]
    BY DEF clientsAir, submitsAir
  <2>2. \A s \in DOMAIN clientsAir : clientsAir[s] \cap SentAsTypedAir # {} =>
        clientsAir[s] \subseteq SentAsTypedAir
    BY DEF clientsAir, SentAsTypedAir
  <2>. QED BY <1>3, <2>1, SubmitsOfAir, <2>2, PlainSections
<1>4. CASE f \in Sections("air", quotaAir, submitConfigAir)
  <2>1. \A s \in DOMAIN quotaAir : s \in DOMAIN submitConfigAir /\ s # "oidc"
        /\ "OidcWellKnown" \notin quotaAir[s]
    BY DEF quotaAir, quotaDefault, submitConfigAir, submitConfigDefault
  <2>2. \A s \in DOMAIN quotaAir : quotaAir[s] \cap SentAsTypedAir # {} =>
        quotaAir[s] \subseteq SentAsTypedAir
    BY DEF quotaAir, quotaDefault, SentAsTypedAir
  <2>. QED BY <1>4, <2>1, SubmitsOfConfig, <2>2, PlainSections DEF submitConfigAir
<1>5. CASE f \in Sections("air", generalAir, submitConfigAir)
  <2>1. \A s \in DOMAIN generalAir : s \in DOMAIN submitConfigAir /\ s # "oidc"
        /\ "OidcWellKnown" \notin generalAir[s]
    BY DEF generalAir, generalDefault, submitConfigAir, submitConfigDefault
  <2>2. \A s \in DOMAIN generalAir : generalAir[s] \cap SentAsTypedAir # {} =>
        generalAir[s] \subseteq SentAsTypedAir
    BY DEF generalAir, generalDefault, SentAsTypedAir
  <2>. QED BY <1>5, <2>1, SubmitsOfConfig, <2>2, PlainSections DEF submitConfigAir
<1>6. CASE f \in Sections("air", fieldsOtherAir, submitsOtherAir)
  BY <1>6, OthersAreSound DEF fieldsOtherAir, submitsOtherAir
<1>7. CASE f \in Switches("air", switchesAir \cup operationSwitches)
  <2>. DEFINE keys == switchesAir \cup operationSwitches
  <2>1. Blank \notin keys /\ "OidcWellKnown" \notin keys /\ keys \cap Hidden = {}
    BY DEF switchesAir, loginSwitches, operationSwitches, Hidden, Blank
  <2>2. f \in Switches("air", keys)
    BY <1>7
  <2>. HIDE DEF keys
  <2>. QED BY <2>1, <2>2, SwitchesAreSound
<1>. QED BY <1>1, <1>2, <1>3, <1>4, <1>5, <1>6, <1>7 DEF AirForms

LEMMA FormsOfBerry ==
  ASSUME NEW f \in BerryForms
  PROVE  FormSound(f)
<1>1. CASE f \in Sections("berry", serverBerry, submitsBerry)
  <2>1. \A s \in DOMAIN serverBerry : s \in DOMAIN submitsBerry /\ s # "oidc"
        /\ "OidcWellKnown" \notin serverBerry[s]
    BY DEF serverBerry, submitsBerry
  <2>. QED BY <1>1, <2>1, SubmitsOfBerry, PlainSections
<1>2. CASE f \in Sections("berry", whitelistBerry, submitsBerry)
  <2>1. \A s \in DOMAIN whitelistBerry : s \in DOMAIN submitsBerry /\ s # "oidc"
        /\ "OidcWellKnown" \notin whitelistBerry[s]
    BY DEF whitelistBerry, submitsBerry
  <2>. QED BY <1>2, <2>1, SubmitsOfBerry, PlainSections
<1>3. CASE f \in Sections("berry", mailBerry, submitsBerry)
  <2>1. \A s \in DOMAIN mailBerry : s \in DOMAIN submitsBerry /\ s # "oidc"
        /\ "OidcWellKnown" \notin mailBerry[s]
    BY DEF mailBerry, submitsBerry
  <2>. QED BY <1>3, <2>1, SubmitsOfBerry, PlainSections
<1>4. CASE f \in Sections("berry", clientsBerry, submitsBerry)
  <2>1. \A s \in DOMAIN clientsBerry : s \in DOMAIN submitsBerry /\ s # "oidc"
        /\ "OidcWellKnown" \notin clientsBerry[s]
    BY DEF clientsBerry, submitsBerry
  <2>. QED BY <1>4, <2>1, SubmitsOfBerry, PlainSections
<1>5. CASE f \in Sections("berry", pusherBerry, submitsBerry)
  <2>1. \A s \in DOMAIN pusherBerry : s \in DOMAIN submitsBerry /\ s # "oidc"
        /\ "OidcWellKnown" \notin pusherBerry[s]
    BY DEF pusherBerry, submitsBerry
  <2>. QED BY <1>5, <2>1, SubmitsOfBerry, PlainSections
<1>6. CASE f \in Sections("berry", generalBerry, submitConfigBerry)
  <2>1. \A s \in DOMAIN generalBerry : s \in DOMAIN submitConfigBerry /\ s # "oidc"
        /\ "OidcWellKnown" \notin generalBerry[s]
    BY DEF generalBerry, submitConfigBerry, submitConfigDefault
  <2>. QED BY <1>6, <2>1, SubmitsOfConfig, PlainSections DEF submitConfigBerry
<1>7. CASE f \in Sections("berry", quotaBerry, submitConfigBerry)
  <2>1. \A s \in DOMAIN quotaBerry : s \in DOMAIN submitConfigBerry /\ s # "oidc"
        /\ "OidcWellKnown" \notin quotaBerry[s]
    BY DEF quotaBerry, submitConfigBerry, submitConfigDefault
  <2>. QED BY <1>7, <2>1, SubmitsOfConfig, PlainSections DEF submitConfigBerry
<1>8. CASE f \in Sections("berry", ratioBerry, submitConfigBerry)
  <2>1. \A s \in DOMAIN ratioBerry : s \in DOMAIN submitConfigBerry /\ s # "oidc"
        /\ "OidcWellKnown" \notin ratioBerry[s]
    BY DEF ratioBerry, submitConfigBerry, submitConfigDefault
  <2>. QED BY <1>8, <2>1, SubmitsOfConfig, PlainSections DEF submitConfigBerry
<1>9. CASE f \in Sections("berry", oidcBerry, submitsBerry)
  BY <1>9, OidcIsSound
<1>10. CASE f \in Sections("berry", fieldsOtherBerry, submitsOtherBerry)
  BY <1>10, OthersAreSound DEF fieldsOtherBerry, submitsOtherBerry
<1>11. CASE f \in Switches("berry", switchesBerry \cup operationSwitches)
  <2>. DEFINE keys == switchesBerry \cup operationSwitches
  <2>1. Blank \notin keys /\ "OidcWellKnown" \notin keys /\ keys \cap Hidden = {}
    BY DEF switchesBerry, loginSwitches, operationSwitches, Hidden, Blank
  <2>2. f \in Switches("berry", keys)
    BY <1>11
  <2>. HIDE DEF keys
  <2>. QED BY <2>1, <2>2, SwitchesAreSound
<1>. QED BY <1>1, <1>2, <1>3, <1>4, <1>5, <1>6, <1>7, <1>8, <1>9, <1>10, <1>11 DEF BerryForms

LEMMA FormsAreSound ==
  ASSUME form \in DefaultForms \cup AirForms \cup BerryForms
  PROVE  FormSound(form) /\ Keys = OwnFields(form)
<1>1. FormSound(form)
  BY FormsOfDefault, FormsOfAir, FormsOfBerry
<1>2. Keys = OwnFields(form)
  BY DEF Keys, SentKeys, OwnFields
<1>. QED BY <1>1, <1>2

----------------------------------------------------------------------------
(* Calls and jobs. *)

\* A submit under way has a first option.
LEMMA FirstOfTodo ==
  ASSUME NEW t, DOMAIN t \subseteq 1..6, DOMAIN t # {}
  PROVE  FirstAt(t) \in DOMAIN t /\ First(t) = t[FirstAt(t)]
<1>. DEFINE D == DOMAIN t
<1>1. D \subseteq {1, 2, 3, 4, 5, 6} /\ D # {}
  OBVIOUS
<1>. HIDE DEF D
<1>2. \E n \in D : \A i \in D : n <= i
  <2>1. CASE 1 \in D
    BY <1>1, <2>1
  <2>2. CASE 1 \notin D /\ 2 \in D
    BY <1>1, <2>2
  <2>3. CASE 1 \notin D /\ 2 \notin D /\ 3 \in D
    BY <1>1, <2>3
  <2>4. CASE 1 \notin D /\ 2 \notin D /\ 3 \notin D /\ 4 \in D
    BY <1>1, <2>4
  <2>5. CASE 1 \notin D /\ 2 \notin D /\ 3 \notin D /\ 4 \notin D /\ 5 \in D
    BY <1>1, <2>5
  <2>6. CASE 1 \notin D /\ 2 \notin D /\ 3 \notin D /\ 4 \notin D /\ 5 \notin D
    <3>1. 6 \in D /\ \A i \in D : i = 6
      BY <1>1, <2>6
    <3>. QED BY <3>1
  <2>. QED BY <2>1, <2>2, <2>3, <2>4, <2>5, <2>6
<1>3. \E n \in DOMAIN t : \A i \in DOMAIN t : n <= i
  BY <1>2 DEF D
<1>. QED BY <1>3 DEF FirstAt, First

\* The PUT of a checkbox, or of a text sent as it is typed.
LEMMA OnePut ==
  ASSUME NEW k \in Keys, NEW v \in Values
  PROVE  /\ TodoTyped(Put(k, v)) /\ DOMAIN Put(k, v) = {1}
         /\ Put(k, v)[1].key = k /\ Put(k, v)[1].value = v
BY DEF Put, TodoTyped

LEMMA OppositeIsValue ==
  ASSUME NEW k
  PROVE  Opposite(k) \in Values
BY DEF Opposite, Values

\* What a submit sends is due, typed and never undefined.
LEMMA CallsSound ==
  ASSUME FormSound(form), NEW view \in Shown, NEW origin \in Shown,
         \A k \in Keys : view[k] = None => k \in Hidden,
         \A k \in Hidden \cap Keys : origin[k] = None
  PROVE  /\ DOMAIN Calls(view, origin) \subseteq DOMAIN form.submit
         /\ \A n \in DOMAIN Calls(view, origin) :
              /\ form.submit[n].key \in Keys /\ view[form.submit[n].key] \in Values
              /\ Calls(view, origin)[n].key = form.submit[n].key
              /\ Calls(view, origin)[n].value = ValueSent(form.submit[n], view)
              /\ Calls(view, origin)[n].value \in Values
              /\ Due(form.submit[n], view, origin)
         /\ DOMAIN Calls(view, origin) # {} => TodoTyped(Calls(view, origin))
<1>. DEFINE T == {m \in ToSend(view, origin) : \A i \in Stops(view, origin) : m < i}
            t == Calls(view, origin)
<1>1. t = [n \in T |-> [key |-> form.submit[n].key, value |-> ValueSent(form.submit[n], view)]]
  BY DEF Calls
<1>2. T \subseteq DOMAIN form.submit /\ \A n \in T : Due(form.submit[n], view, origin)
  BY DEF ToSend
<1>. HIDE DEF T, t
<1>3. ASSUME NEW n \in T
      PROVE  /\ form.submit[n].key \in Keys /\ view[form.submit[n].key] \in Values
             /\ ValueSent(form.submit[n], view) \in Values
  <2>. DEFINE k == form.submit[n].key
  <2>1. n \in DOMAIN form.submit /\ Due(form.submit[n], view, origin)
    BY <1>2
  <2>2. k \in Keys
    BY <2>1 DEF Keys, SentKeys
  <2>3. view[k] # None
    <3>. SUFFICES ASSUME view[k] = None PROVE FALSE
      OBVIOUS
    <3>1. k \in Hidden /\ origin[k] = None
      BY <2>2
    <3>2. form.submit[n].test = "filled"
      BY <2>1, <3>1 DEF FormSound
    <3>. QED BY <2>1, <3>1, <3>2 DEF Due, Differs
  <2>4. view[k] \in Values
    BY <2>2, <2>3 DEF Shown
  <2>5. ValueSent(form.submit[n], view) \in {view[k], removeTrailingSlash(view[k])}
    BY DEF ValueSent
  <2>. QED BY <2>2, <2>4, <2>5 DEF removeTrailingSlash, Values
<1>4. /\ DOMAIN t = T
      /\ \A n \in T :
           /\ t[n] = [key |-> form.submit[n].key, value |-> ValueSent(form.submit[n], view)]
           /\ t[n].key = form.submit[n].key /\ t[n].value = ValueSent(form.submit[n], view)
  BY <1>1
<1>5. DOMAIN t # {} => TodoTyped(t)
  <2>1. \A n \in T : t[n] \in [key : Keys, value : Values]
    BY <1>3, <1>4
  <2>2. T \subseteq 1..6
    BY <1>2 DEF FormSound
  <2>3. t \in [T -> [key : Keys, value : Values]]
    BY <1>1, <1>4, <2>1
  <2>. QED BY <1>4, <2>2, <2>3 DEF TodoTyped
<1>6. \A n \in T :
        /\ form.submit[n].key \in Keys /\ view[form.submit[n].key] \in Values
        /\ t[n].key = form.submit[n].key
        /\ t[n].value = ValueSent(form.submit[n], view)
        /\ t[n].value \in Values
        /\ Due(form.submit[n], view, origin)
  BY <1>2, <1>3, <1>4
<1>. QED BY <1>2, <1>4, <1>5, <1>6 DEF t

\* A due option that a submit does not send comes after one that stops it.
LEMMA CallsComplete ==
  ASSUME NEW view, NEW origin, NEW n \in DOMAIN form.submit,
         Due(form.submit[n], view, origin), Stops(view, origin) = {}
  PROVE  n \in DOMAIN Calls(view, origin)
BY DEF Calls, ToSend

\* A submit begins in a slot that was free, and the others go on.
LEMMA JobAdded ==
  ASSUME JobsAre, NEW sends, updateOption(sends)
  PROVE  \E i \in Jobs :
           /\ i \notin UnderWay
           /\ jobs' = [jobs EXCEPT ![i] = [at |-> "sent", todo |-> sends,
              early |-> fetched # "loaded"]]
           /\ jobs'[i] = [at |-> "sent", todo |-> sends, early |-> fetched # "loaded"]
           /\ \A j \in Jobs : j # i => jobs'[j] = jobs[j]
           /\ UnderWay' = UnderWay \cup {i} /\ Sending' = Sending \cup {i}
           /\ JobsAre'
<1>. DEFINE i == FreeJob
            job == [at |-> "sent", todo |-> sends, early |-> fetched # "loaded"]
<1>1. i \in Jobs /\ i \notin UnderWay
  <2>1. UnderWay # Jobs /\ UnderWay \subseteq Jobs
    BY DEF updateOption, UnderWay
  <2>2. \E j \in Jobs : j \notin UnderWay
    BY <2>1
  <2>. QED BY <2>2 DEF FreeJob
<1>2. jobs' = [jobs EXCEPT ![i] = job]
  BY DEF updateOption
<1>3. job # NoJob /\ job.at = "sent"
  BY DEF NoJob
<1>. HIDE DEF i, job
<1>4. jobs'[i] = job /\ (\A j \in Jobs : j # i => jobs'[j] = jobs[j]) /\ JobsAre'
  BY <1>1, <1>2 DEF JobsAre, Jobs
<1>5. UnderWay' = UnderWay \cup {i}
  BY <1>1, <1>3, <1>4 DEF UnderWay, Jobs
<1>6. Sending' = Sending \cup {i}
  <2>1. \A j \in UnderWay : j \in Jobs /\ j # i
    BY <1>1 DEF UnderWay
  <2>2. \A j \in UnderWay : jobs'[j].at = jobs[j].at
    BY <2>1, <1>4
  <2>. QED BY <1>3, <1>4, <1>5, <2>2 DEF Sending
<1>. QED BY <1>1, <1>2, <1>4, <1>5, <1>6 DEF job

\* A submit goes on or ends, and the others are left alone.
LEMMA JobChanged ==
  ASSUME JobsAre, NEW i \in UnderWay, NEW job, jobs' = [jobs EXCEPT ![i] = job]
  PROVE  /\ JobsAre' /\ i \in Jobs /\ jobs'[i] = job
         /\ \A j \in Jobs : j # i => jobs'[j] = jobs[j]
         /\ UnderWay' = IF job = NoJob THEN UnderWay \ {i} ELSE UnderWay
<1>1. i \in Jobs
  BY DEF UnderWay
<1>2. JobsAre' /\ jobs'[i] = job /\ \A j \in Jobs : j # i => jobs'[j] = jobs[j]
  BY <1>1 DEF JobsAre, Jobs
<1>. QED BY <1>1, <1>2 DEF UnderWay, Jobs

\* The section on the screen stays, and so do its options.
LEMMA FormStays ==
  ASSUME SettingsNext
  PROVE  /\ form' = form /\ Keys' = Keys /\ SentKeys' = SentKeys
         /\ fetched = "loaded" => fetched' = "loaded"
<1>1. form' = form /\ (fetched = "loaded" => fetched' = "loaded")
  BY DEF SettingsNext, ServerReads, getOptions, OptionsLost, handleInputChange, submit,
     submitOidc, toggle,
         PasswordWarning, Discovered, UpdateOption, OptionAnswered, PutLost, OtherAdministrator
<1>2. SentKeys' = SentKeys
  BY <1>1 DEF SentKeys
<1>. QED BY <1>1, <1>2 DEF Keys

\* The marks of the page keep their types.
LEMMA PlainNext ==
  ASSUME PageTypes, SettingsNext
  PROVE  PlainTypes'
<1>. USE DEF PageTypes, PlainTypes
<1>0. form' = form /\ Keys' = Keys
  BY FormStays
<1>1. Undefined' = Undefined
  BY <1>0 DEF Undefined
<1>2. edits' \in 0..MaxEdits
  <2>1. MaxEdits \in Nat
    BY SettingsAssumption
  <2>2. edits' = edits \/ edits' = MaxEdits \/ (edits < MaxEdits /\ edits' = edits + 1)
    BY DEF SettingsNext, ServerReads, getOptions, OptionsLost, handleInputChange, submit,
       submitOidc, toggle,
         PasswordWarning, Discovered, UpdateOption, OptionAnswered, PutLost, OtherAdministrator,
            Enabled, Clicked
  <2>. QED BY <2>1, <2>2
<1>3. fetched' \in {"asked", "read", "loaded", "lost"}
      /\ (fetched' # "loaded" => originInputs' = Undefined')
  <2>1. \/ fetched' = fetched /\ originInputs' = originInputs
        \/ fetched' = "loaded"
        \/ fetched # "loaded" /\ fetched' \in {"read", "lost"} /\ originInputs' = originInputs
    BY DEF SettingsNext, ServerReads, getOptions, OptionsLost, handleInputChange, submit,
       submitOidc, toggle,
         PasswordWarning, Discovered, UpdateOption, OptionAnswered, PutLost, OtherAdministrator
  <2>. QED BY <1>1, <2>1
<1>4. dialogOpen' \in BOOLEAN /\ hung' \in BOOLEAN /\ (dialogOpen' => form'.switch # Blank)
  <2>1. hung' = hung \/ hung' = TRUE
    BY DEF SettingsNext, ServerReads, getOptions, OptionsLost, handleInputChange, submit,
       submitOidc, toggle,
         PasswordWarning, Discovered, UpdateOption, OptionAnswered, PutLost, OtherAdministrator
  <2>2. dialogOpen' = dialogOpen \/ dialogOpen' = FALSE \/ (dialogOpen' = TRUE
        /\ form.switch # Blank)
    BY DEF SettingsNext, ServerReads, getOptions, OptionsLost, handleInputChange, submit,
       submitOidc, toggle,
         PasswordWarning, Discovered, UpdateOption, OptionAnswered, PutLost, OtherAdministrator
  <2>3. hung' \in BOOLEAN /\ dialogOpen' \in BOOLEAN
    BY <2>1, <2>2
  <2>4. dialogOpen' => form.switch # Blank
    BY <2>2
  <2>. QED BY <1>0, <2>3, <2>4
<1>5. formLoading' \in BOOLEAN
  BY DEF SettingsNext, ServerReads, getOptions, OptionsLost, handleInputChange, submit,
     submitOidc, toggle,
         PasswordWarning, Discovered, UpdateOption, OptionAnswered, PutLost, OtherAdministrator,
            updateOption,
         LoadsOn
<1>6. upset' \in BOOLEAN
  BY DEF SettingsNext, ServerReads, getOptions, OptionsLost, handleInputChange, submit,
     submitOidc, toggle,
         PasswordWarning, Discovered, UpdateOption, OptionAnswered, PutLost, OtherAdministrator,
            Upsetting
<1>. QED BY <1>0, <1>2, <1>3, <1>4, <1>5, <1>6

\* A submit that sends has a first option, of the section.
LEMMA SendingTyped ==
  ASSUME JobTypes, NEW j \in Sending
  PROVE  /\ j \in Jobs /\ j \in UnderWay /\ jobs[j].at \in {"sent", "stored", "refused"}
         /\ jobs[j] = [at |-> jobs[j].at, todo |-> jobs[j].todo, early |-> jobs[j].early]
         /\ TodoTyped(jobs[j].todo)
         /\ ~jobs[j].early => fetched = "loaded"
         /\ FirstAt(jobs[j].todo) \in DOMAIN jobs[j].todo
         /\ First(jobs[j].todo) = jobs[j].todo[FirstAt(jobs[j].todo)]
         /\ First(jobs[j].todo).key \in Keys /\ First(jobs[j].todo).value \in Values
<1>1. j \in Jobs /\ j \in UnderWay /\ jobs[j] # NoJob /\ jobs[j].at # "discovering"
      /\ JobTyped(jobs[j])
  BY DEF Sending, UnderWay, JobTypes
<1>2. /\ jobs[j].at \in {"sent", "stored", "refused"} /\ TodoTyped(jobs[j].todo)
      /\ jobs[j] = [at |-> jobs[j].at, todo |-> jobs[j].todo, early |-> jobs[j].early]
      /\ ~jobs[j].early => fetched = "loaded"
  BY <1>1 DEF JobTyped
<1>. DEFINE t == jobs[j].todo
<1>3. TodoTyped(t)
  BY <1>2
<1>. HIDE DEF t
<1>4. FirstAt(t) \in DOMAIN t /\ First(t) = t[FirstAt(t)]
  BY <1>3, FirstOfTodo DEF TodoTyped
<1>5. First(t) \in [key : Keys, value : Values]
  BY <1>3, <1>4 DEF TodoTyped
<1>6. First(t).key \in Keys /\ First(t).value \in Values
  BY <1>5
<1>. QED BY <1>1, <1>2, <1>4, <1>6 DEF t

\* A submit that asks for the endpoints is of the OIDC section.
LEMMA DiscoveryTyped ==
  ASSUME JobTypes, NEW j \in UnderWay, jobs[j].at = "discovering"
  PROVE  /\ j \in Jobs
         /\ jobs[j] = [at |-> "discovering", shown |-> jobs[j].shown, early |-> jobs[j].early]
         /\ "OidcWellKnown" \in Keys /\ jobs[j].shown \in Shown
         /\ \A k \in Keys : jobs[j].shown[k] = None => k \in Hidden
         /\ ~jobs[j].early => fetched = "loaded"
<1>1. j \in Jobs /\ jobs[j] # NoJob /\ JobTyped(jobs[j])
  BY DEF UnderWay, JobTypes
<1>. QED BY <1>1 DEF JobTyped

LEMMA UndefinedShown == Undefined \in Shown /\ NothingLoaded \in Shown
  /\ \A k \in Keys : Undefined[k] = None /\ NothingLoaded[k] = Blank /\ NothingLoaded[k] # None
BY DEF Undefined, NothingLoaded, Shown, Values, None, Blank

LEMMA FormFacts ==
  ASSUME PlainTypes
  PROVE  FormSound(form) /\ Keys = OwnFields(form)
BY FormsAreSound DEF PlainTypes

\* The inputs that a submit of the OIDC section works on, once the provider has answered.
Found(job, found) ==
  IF found THEN [k \in Keys |-> IF k \in Endpoints THEN "b" ELSE job.shown[k]] ELSE job.shown
Origin(job) == IF job.early THEN Undefined ELSE originInputs

\* The inputs that the provider completed are like those of the page.
LEMMA DiscoveredCalls ==
  ASSUME PageTypes, NEW j \in UnderWay, jobs[j].at = "discovering", NEW found \in BOOLEAN
  PROVE  /\ Found(jobs[j], found) \in Shown /\ Origin(jobs[j]) \in Shown
         /\ \A k \in Keys : Found(jobs[j], found)[k] = None => k \in Hidden
         /\ \A k \in Keys : Found(jobs[j], found)[k] = jobs[j].shown[k] \/ (found
            /\ k \in Endpoints)
         /\ \A k \in Hidden \cap Keys : Origin(jobs[j])[k] = None
<1>1. jobs[j].shown \in Shown /\ \A k \in Keys : jobs[j].shown[k] = None => k \in Hidden
  BY DiscoveryTyped DEF PageTypes
<1>2. originInputs \in Shown /\ \A k \in Hidden \cap Keys : originInputs[k] = None
  BY DEF PageTypes, ValueTypes
<1>. QED BY <1>1, <1>2, UndefinedShown DEF Found, Origin, Shown, Values, None

\* What an answer of the provider changes.
LEMMA DiscoveredStep ==
  ASSUME NEW j, NEW found, Discovered(j, found)
  PROVE  LET sends == Calls(Found(jobs[j], found), Origin(jobs[j])) IN
         /\ j \in UnderWay /\ jobs[j].at = "discovering"
         /\ inputs' = IF inputs = jobs[j].shown THEN Found(jobs[j], found) ELSE inputs
         /\ touched' = IF found THEN touched \cup Endpoints ELSE touched
         /\ jobs' = [jobs EXCEPT ![j] = IF DOMAIN sends = {} THEN NoJob
                                        ELSE [at |-> "sent", todo |-> sends,
                                           early |-> jobs[j].early]]
         /\ formLoading' = (formLoading \/ DOMAIN sends # {})
         /\ upset' = (upset \/ (found /\ inputs # jobs[j].shown))
         /\ UNCHANGED <<form, originInputs, stored, fetched, reading, dialogOpen, typedSince,
                        hung, edits>>
BY DEF Discovered, Found, Origin

\* The inputs are undefined for hidden options only, and what was loaded always is.
LEMMA ValuesNext ==
  ASSUME PageTypes, SettingsNext
  PROVE  ValueTypes'
<1>0. form' = form /\ Keys' = Keys
  BY FormStays
<1>1. Shown' = Shown
  BY <1>0 DEF Shown
<1>2. ValueTypes /\ JobTypes /\ FormSound(form) /\ Keys = OwnFields(form)
  BY FormFacts DEF PageTypes
<1>. USE DEF ValueTypes
<1>3. CASE UNCHANGED <<inputs, originInputs, stored, fetched, reading>>
  BY <1>0, <1>1, <1>2, <1>3
<1>4. CASE ServerReads
  BY <1>0, <1>1, <1>2, <1>4 DEF ServerReads
<1>5. CASE getOptions
  <2>1. inputs' = [k \in Keys |-> Given(k)] /\ originInputs' = inputs' /\ stored' = stored
        /\ fetched' = "loaded"
        /\ reading \in [Keys -> Values]
    BY <1>2, <1>5 DEF getOptions
  <2>2. \A k \in Keys : /\ k \in Hidden => Given(k) = None
                        /\ k \notin Hidden => Given(k) \in Values /\ Given(k) # None
    BY <2>1 DEF Given, Values, None
  <2>3. inputs' \in Shown
    BY <2>1, <2>2 DEF Shown
  <2>. QED BY <1>0, <1>1, <1>2, <2>1, <2>2, <2>3
<1>6. CASE OptionsLost
  BY <1>0, <1>1, <1>2, <1>6 DEF OptionsLost
<1>7. ASSUME NEW k \in form.fields, NEW v \in Texts, handleInputChange(k, v)
      PROVE  ValueTypes'
  <2>1. (inputs' = [inputs EXCEPT ![k] = v] \/ inputs' = inputs)
        /\ UNCHANGED <<originInputs, stored, fetched, reading>>
    BY <1>7 DEF handleInputChange
  <2>2. v \in Values /\ v # None
    BY DEF Texts, Values, None, Blank
  <2>3. inputs' \in Shown /\ \A q \in Keys : inputs'[q] = None => q \in Hidden
    BY <1>2, <2>1, <2>2 DEF Shown
  <2>. QED BY <1>0, <1>1, <1>2, <2>1, <2>3
<1>8. ASSUME NEW j \in Jobs, NEW found \in BOOLEAN, Discovered(j, found)
      PROVE  ValueTypes'
  <2>1. /\ j \in UnderWay /\ jobs[j].at = "discovering"
        /\ inputs' = Found(jobs[j], found) \/ inputs' = inputs
        /\ UNCHANGED <<originInputs, stored, fetched, reading>>
    BY <1>8, DiscoveredStep
  <2>. QED BY <1>0, <1>1, <1>2, <2>1, DiscoveredCalls
<1>9. ASSUME NEW j \in Jobs, UpdateOption(j)
      PROVE  ValueTypes'
  <2>. DEFINE put == First(jobs[j].todo)
  <2>1. j \in Sending /\ UNCHANGED <<inputs, originInputs, fetched, reading>>
        /\ (stored' = [stored EXCEPT ![put.key] = put.value] \/ stored' = stored)
    BY <1>9 DEF UpdateOption
  <2>2. put.key \in Keys /\ put.value \in Values
    BY <1>2, <2>1, SendingTyped
  <2>. HIDE DEF put
  <2>3. stored' \in [Keys -> Values]
    BY <1>2, <2>1, <2>2
  <2>. QED BY <1>0, <1>1, <1>2, <2>1, <2>3
<1>10. ASSUME NEW j \in Jobs, OptionAnswered(j)
       PROVE  ValueTypes'
  <2>. DEFINE put == First(jobs[j].todo)
  <2>1. j \in Sending /\ UNCHANGED <<stored, originInputs, fetched, reading>>
        /\ (inputs' = [inputs EXCEPT ![put.key] = put.value] \/ inputs' = inputs)
    BY <1>10 DEF OptionAnswered
  <2>2. put.key \in Keys /\ put.value \in Values /\ put.value # None
    BY <1>2, <2>1, SendingTyped DEF Values, None
  <2>. HIDE DEF put
  <2>3. inputs' \in Shown /\ \A q \in Keys : inputs'[q] = None => q \in Hidden
    BY <1>2, <2>1, <2>2 DEF Shown
  <2>. QED BY <1>0, <1>1, <1>2, <2>1, <2>3
<1>11. ASSUME NEW k \in Keys, OtherAdministrator(k)
       PROVE  ValueTypes'
  <2>1. UNCHANGED <<inputs, originInputs, fetched, reading>>
        /\ \E v \in {"b", "true", "false"} : stored' = [stored EXCEPT ![k] = v]
    BY <1>11 DEF OtherAdministrator
  <2>2. stored' \in [Keys -> Values]
    BY <1>2, <2>1 DEF Values
  <2>. QED BY <1>0, <1>1, <1>2, <2>1, <2>2
<1>12. \/ ServerReads \/ getOptions \/ OptionsLost
       \/ \E k \in form.fields, v \in Texts : handleInputChange(k, v)
       \/ \E j \in Jobs, found \in BOOLEAN : Discovered(j, found)
       \/ \E j \in Jobs : UpdateOption(j) \/ OptionAnswered(j)
       \/ \E k \in Keys : OtherAdministrator(k)
       \/ UNCHANGED <<inputs, originInputs, stored, fetched, reading>>
  BY DEF SettingsNext, submit, submitOidc, toggle, PasswordWarning, PutLost
<1>. QED BY <1>3, <1>4, <1>5, <1>6, <1>7, <1>8, <1>9, <1>10, <1>11, <1>12

\* What was typed since the last click was touched, and is no text sent as it is typed.
LEMMA MarksNext ==
  ASSUME PageTypes, SettingsNext
  PROVE  MarkTypes'
<1>0. form' = form /\ Keys' = Keys
  BY FormStays
<1>1. MarkTypes /\ JobTypes /\ PlainTypes /\ FormSound(form) /\ Keys = OwnFields(form)
  BY FormFacts DEF PageTypes
<1>2. form.fields \subseteq Keys /\ (form.switch # Blank => form.switch \in Keys)
  BY DEF Keys
<1>. USE DEF MarkTypes
<1>3. CASE UNCHANGED <<touched, typedSince>> \/ (touched' = touched /\ typedSince' = {})
  BY <1>0, <1>1, <1>3
<1>4. CASE getOptions
  BY <1>0, <1>4 DEF getOptions
<1>5. ASSUME NEW k \in form.fields, NEW v \in Texts, handleInputChange(k, v)
      PROVE  MarkTypes'
  <2>1. touched' = touched \cup {k}
        /\ (typedSince' = {} \/ (typedSince' = typedSince \cup {k}
           /\ k \notin SentAsTyped[form.theme]))
    BY <1>5 DEF handleInputChange
  <2>. QED BY <1>0, <1>1, <1>2, <2>1
<1>6. ASSUME NEW j \in Jobs, NEW found \in BOOLEAN, Discovered(j, found)
      PROVE  MarkTypes'
  <2>1. /\ j \in UnderWay /\ jobs[j].at = "discovering"
        /\ touched' = touched \/ touched' = touched \cup Endpoints
        /\ typedSince' = typedSince
    BY <1>6, DiscoveredStep
  <2>2. "OidcWellKnown" \in Keys
    BY <1>1, <2>1, DiscoveryTyped
  <2>3. Endpoints \subseteq Keys
    BY <1>1, <2>2 DEF FormSound
  <2>. QED BY <1>0, <1>1, <2>1, <2>3
<1>7. CASE toggle \/ PasswordWarning
  <2>1. /\ form.switch # Blank
        /\ touched' = touched \/ touched' = touched \cup {form.switch}
        /\ typedSince' = typedSince \/ typedSince' = {}
    BY <1>1, <1>7 DEF toggle, PasswordWarning, PlainTypes
  <2>. QED BY <1>0, <1>1, <1>2, <2>1
<1>8. ASSUME NEW j \in Jobs, OptionAnswered(j)
      PROVE  MarkTypes'
  <2>. DEFINE k == First(jobs[j].todo).key
  <2>1. /\ j \in Sending
        /\ \/ typedSince' = typedSince \ {k} /\ touched' = touched \cup {k}
           \/ UNCHANGED <<typedSince, touched>>
    BY <1>8 DEF OptionAnswered
  <2>2. k \in Keys
    BY <1>1, <2>1, SendingTyped
  <2>. HIDE DEF k
  <2>. QED BY <1>0, <1>1, <2>1, <2>2
<1>9. \/ getOptions \/ toggle \/ PasswordWarning
      \/ \E k \in form.fields, v \in Texts : handleInputChange(k, v)
      \/ \E j \in Jobs, found \in BOOLEAN : Discovered(j, found)
      \/ \E j \in Jobs : OptionAnswered(j)
      \/ UNCHANGED <<touched, typedSince>> \/ (touched' = touched /\ typedSince' = {})
  BY DEF SettingsNext, ServerReads, OptionsLost, submit, submitOidc, UpdateOption, PutLost,
     OtherAdministrator
<1>. QED BY <1>3, <1>4, <1>5, <1>6, <1>7, <1>8, <1>9

\* A new job, and a job that another one replaces, are typed as jobs are.
LEMMA TypedJobAdded ==
  ASSUME JobTypes, Keys' = Keys, fetched' = fetched,
         NEW sends, TodoTyped(sends), updateOption(sends)
  PROVE  JobTypes'
<1>1. PICK i \in Jobs :
         /\ jobs'[i] = [at |-> "sent", todo |-> sends, early |-> fetched # "loaded"]
         /\ \A j \in Jobs : j # i => jobs'[j] = jobs[j]
         /\ JobsAre'
  BY JobAdded DEF JobTypes
<1>2. JobTyped(jobs[i])'
  <2>1. CASE fetched = "loaded"
    <3>1. jobs'[i] = [at |-> "sent", todo |-> sends, early |-> FALSE]
      BY <1>1, <2>1
    <3>. QED BY <2>1, <3>1 DEF JobTyped, TodoTyped
  <2>2. CASE fetched # "loaded"
    <3>1. jobs'[i] = [at |-> "sent", todo |-> sends, early |-> TRUE]
      BY <1>1, <2>2
    <3>. QED BY <2>2, <3>1 DEF JobTyped, TodoTyped
  <2>. QED BY <2>1, <2>2
<1>3. \A j \in Jobs : j # i => JobTyped(jobs[j])'
  BY <1>1 DEF JobTypes, JobTyped, TodoTyped, Shown
<1>. QED BY <1>1, <1>2, <1>3 DEF JobTypes, Jobs

LEMMA TypedJobChanged ==
  ASSUME JobTypes, Keys' = Keys, fetched' = fetched,
         NEW i \in UnderWay, NEW job, jobs' = [jobs EXCEPT ![i] = job], JobTyped(job)
  PROVE  JobTypes'
<1>1. /\ JobsAre' /\ i \in Jobs /\ jobs'[i] = job
      /\ \A j \in Jobs : j # i => jobs'[j] = jobs[j]
  BY JobChanged DEF JobTypes
<1>2. JobTyped(jobs[i])'
  BY <1>1 DEF JobTyped, TodoTyped, Shown
<1>3. \A j \in Jobs : j # i => JobTyped(jobs[j])'
  BY <1>1 DEF JobTypes, JobTyped, TodoTyped, Shown
<1>. QED BY <1>1, <1>2, <1>3 DEF JobTypes, Jobs

\* What is left of a submit: the options but the first.
LEMMA LeftTyped ==
  ASSUME NEW t, TodoTyped(t)
  PROVE  /\ DOMAIN Left(t) = DOMAIN t \ {FirstAt(t)}
         /\ \A n \in DOMAIN Left(t) : Left(t)[n] = t[n]
         /\ DOMAIN Left(t) # {} => TodoTyped(Left(t))
BY DEF Left, TodoTyped

LEMMA AtChanged ==
  ASSUME NEW job, job = [at |-> job.at, todo |-> job.todo, early |-> job.early], NEW s
  PROVE  [job EXCEPT !.at = s] = [at |-> s, todo |-> job.todo, early |-> job.early]
<1>. DEFINE a == job.at
            t == job.todo
            e == job.early
<1>1. job = [at |-> a, todo |-> t, early |-> e]
  OBVIOUS
<1>. HIDE DEF a, t, e
<1>2. [[at |-> a, todo |-> t, early |-> e] EXCEPT !.at = s] = [at |-> s, todo |-> t, early |-> e]
  OBVIOUS
<1>3. [job EXCEPT !.at = s] = [at |-> s, todo |-> t, early |-> e]
  BY <1>1, <1>2
<1>. QED BY <1>3 DEF t, e

\* The submits under way keep their types.
LEMMA JobsNext ==
  ASSUME PageTypes, SettingsNext
  PROVE  JobTypes'
<1>0. form' = form /\ Keys' = Keys /\ (fetched = "loaded" => fetched' = "loaded")
  BY FormStays
<1>1. JobTypes /\ PlainTypes /\ ValueTypes /\ FormSound(form) /\ Keys = OwnFields(form)
  BY FormFacts DEF PageTypes
<1>2. form.fields \subseteq Keys /\ (form.switch # Blank => form.switch \in Keys)
  BY DEF Keys
<1>3. CASE UNCHANGED jobs
  BY <1>0, <1>1, <1>3 DEF JobTypes, JobsAre, JobTyped, TodoTyped, Shown, Jobs
<1>4. ASSUME NEW k \in form.fields, NEW v \in Texts, handleInputChange(k, v)
      PROVE  JobTypes'
  <2>1. CASE jobs' = jobs
    BY <1>3, <2>1
  <2>2. CASE updateOption(Put(k, v))
    <3>1. TodoTyped(Put(k, v)) /\ fetched' = fetched
      BY <1>2, <1>4, OnePut DEF Texts, Values, Blank, handleInputChange
    <3>. QED BY <1>0, <1>1, <2>2, <3>1, TypedJobAdded
  <2>. QED BY <1>4, <2>1, <2>2 DEF handleInputChange
<1>5. CASE submit
  <2>1. updateOption(Calls(inputs, originInputs)) /\ fetched' = fetched
    BY <1>5 DEF submit
  <2>2. DOMAIN Calls(inputs, originInputs) # {}
    BY <2>1 DEF updateOption
  <2>3. TodoTyped(Calls(inputs, originInputs))
    BY <1>1, <2>2, CallsSound DEF ValueTypes
  <2>. QED BY <1>0, <1>1, <2>1, <2>3, TypedJobAdded
<1>6. CASE submitOidc
  <2>1. \E j \in Jobs : j \notin UnderWay
    BY <1>6 DEF submitOidc, UnderWay
  <2>2. FreeJob \in Jobs /\ FreeJob \notin UnderWay
    BY <2>1 DEF FreeJob
  <2>3. PICK i \in Jobs :
          jobs' = [jobs EXCEPT ![i] = [at |-> "discovering", shown |-> inputs,
                                       early |-> fetched # "loaded"]]
    BY <1>6, <2>2 DEF submitOidc
  <2>4. fetched' = fetched /\ "OidcWellKnown" \in Keys
    BY <1>6 DEF submitOidc
  <2>. DEFINE early == fetched # "loaded"
  <2>5. /\ jobs'[i] = [at |-> "discovering", shown |-> inputs, early |-> early]
        /\ (\A j \in Jobs : j # i => jobs'[j] = jobs[j]) /\ JobsAre'
    BY <1>1, <2>3 DEF JobTypes, JobsAre, Jobs
  <2>6. \A j \in Jobs : j # i => JobTyped(jobs[j])'
    BY <1>0, <1>1, <2>4, <2>5 DEF JobTypes, JobTyped, TodoTyped, Shown
  <2>7. JobTyped(jobs[i])'
    <3>1. ~early => fetched' = "loaded"
      BY <2>4
    <3>2. inputs \in Shown' /\ \A k \in Keys' : inputs[k] = None => k \in Hidden
      BY <1>0, <1>1 DEF ValueTypes, Shown
    <3>. HIDE DEF early
    <3>. QED BY <1>0, <2>4, <2>5, <3>1, <3>2 DEF JobTyped
  <2>. QED BY <2>5, <2>6, <2>7 DEF JobTypes, Jobs
<1>7. CASE toggle \/ PasswordWarning
  <2>1. CASE jobs' = jobs
    BY <1>3, <2>1
  <2>2. CASE updateOption(Put(form.switch, Opposite(form.switch)))
    <3>1. form.switch \in Keys /\ fetched' = fetched
      BY <1>1, <1>2, <1>7 DEF toggle, PasswordWarning, PlainTypes
    <3>2. TodoTyped(Put(form.switch, Opposite(form.switch)))
      BY <3>1, OnePut, OppositeIsValue
    <3>. QED BY <1>0, <1>1, <2>2, <3>1, <3>2, TypedJobAdded
  <2>. QED BY <1>7, <2>1, <2>2 DEF toggle, PasswordWarning
<1>8. ASSUME NEW j \in Jobs, NEW found \in BOOLEAN, Discovered(j, found)
      PROVE  JobTypes'
  <2>. DEFINE sends == Calls(Found(jobs[j], found), Origin(jobs[j]))
              job == IF DOMAIN sends = {} THEN NoJob
                     ELSE [at |-> "sent", todo |-> sends, early |-> jobs[j].early]
  <2>1. j \in UnderWay /\ jobs[j].at = "discovering" /\ fetched' = fetched
        /\ jobs' = [jobs EXCEPT ![j] = job]
    BY <1>8, DiscoveredStep
  <2>2. DOMAIN sends # {} => TodoTyped(sends)
    BY <1>1, <2>1, DiscoveredCalls, CallsSound
  <2>3. ~jobs[j].early => fetched = "loaded"
    BY <1>1, <2>1, DiscoveryTyped
  <2>. HIDE DEF sends
  <2>4. JobTyped(job)
    BY <2>2, <2>3 DEF JobTyped
  <2>. HIDE DEF job
  <2>. QED BY <1>0, <1>1, <2>1, <2>4, TypedJobChanged
<1>9. ASSUME NEW j \in Jobs, UpdateOption(j)
      PROVE  JobTypes'
  <2>1. j \in Sending /\ fetched' = fetched
        /\ \E s \in {"stored", "refused"} : jobs' = [jobs EXCEPT ![j].at = s]
    BY <1>9 DEF UpdateOption
  <2>2. PICK s \in {"stored", "refused"} : jobs' = [jobs EXCEPT ![j].at = s]
    BY <2>1
  <2>3. /\ j \in UnderWay /\ TodoTyped(jobs[j].todo) /\ (~jobs[j].early => fetched = "loaded")
        /\ jobs[j] = [at |-> jobs[j].at, todo |-> jobs[j].todo, early |-> jobs[j].early]
    BY <1>1, <2>1, SendingTyped
  <2>. DEFINE job == [at |-> s, todo |-> jobs[j].todo, early |-> jobs[j].early]
  <2>4. jobs' = [jobs EXCEPT ![j] = job]
    BY <2>2, <2>3, AtChanged
  <2>5. JobTyped(job)
    BY <2>3 DEF JobTyped
  <2>. HIDE DEF job
  <2>. QED BY <1>0, <1>1, <2>1, <2>3, <2>4, <2>5, TypedJobChanged
<1>10. ASSUME NEW j \in Jobs, OptionAnswered(j)
       PROVE  JobTypes'
  <2>. DEFINE rest == Left(jobs[j].todo)
              job == IF DOMAIN rest = {} THEN NoJob
                     ELSE [at |-> "sent", todo |-> rest, early |-> jobs[j].early]
  <2>1. j \in Sending /\ fetched' = fetched
        /\ jobs' = [jobs EXCEPT ![j] = job]
    BY <1>10 DEF OptionAnswered
  <2>2. /\ j \in UnderWay /\ TodoTyped(jobs[j].todo) /\ (~jobs[j].early => fetched = "loaded")
        /\ jobs[j] = [at |-> jobs[j].at, todo |-> jobs[j].todo, early |-> jobs[j].early]
    BY <1>1, <2>1, SendingTyped
  <2>3. DOMAIN rest # {} => TodoTyped(rest)
    BY <2>2, LeftTyped
  <2>. HIDE DEF rest
  <2>4. JobTyped(job)
    BY <2>2, <2>3 DEF JobTyped
  <2>. HIDE DEF job
  <2>. QED BY <1>0, <1>1, <2>1, <2>2, <2>4, TypedJobChanged
<1>11. ASSUME NEW j \in Jobs, PutLost(j)
       PROVE  JobTypes'
  <2>1. j \in Sending /\ fetched' = fetched /\ jobs' = [jobs EXCEPT ![j] = NoJob]
    BY <1>11 DEF PutLost
  <2>2. j \in UnderWay /\ JobTyped(NoJob)
    BY <2>1 DEF Sending, JobTyped
  <2>. QED BY <1>0, <1>1, <2>1, <2>2, TypedJobChanged
<1>12. \/ UNCHANGED jobs
       \/ \E k \in form.fields, v \in Texts : handleInputChange(k, v)
       \/ submit \/ submitOidc \/ toggle \/ PasswordWarning
       \/ \E j \in Jobs, found \in BOOLEAN : Discovered(j, found)
       \/ \E j \in Jobs : UpdateOption(j) \/ OptionAnswered(j) \/ PutLost(j)
  BY DEF SettingsNext, ServerReads, getOptions, OptionsLost, OtherAdministrator
<1>. QED BY <1>3, <1>4, <1>5, <1>6, <1>7, <1>8, <1>9, <1>10, <1>11, <1>12

\* What a submit of touched inputs sends was touched, or is always sent.
LEMMA CallsTouched ==
  ASSUME FormSound(form), NEW view, NEW origin,
         \A k \in Keys : view[k] = origin[k] \/ k \in touched',
         NEW i \in DOMAIN Calls(view, origin)
  PROVE  \/ Calls(view, origin)[i].key \in touched'
         \/ \E n \in DOMAIN form.submit : form.submit[n] = Always(Calls(view, origin)[i].key)
<1>1. /\ i \in DOMAIN form.submit /\ Calls(view, origin)[i].key = form.submit[i].key
      /\ Due(form.submit[i], view, origin)
  BY DEF Calls, ToSend
<1>2. form.submit[i].key \in Keys
  BY <1>1 DEF Keys, SentKeys
<1>3. CASE form.submit[i].test = "always"
  BY <1>1, <1>3 DEF FormSound
<1>4. CASE form.submit[i].test # "always"
  BY <1>1, <1>2, <1>4 DEF Due, Differs
<1>. QED BY <1>3, <1>4

LEMMA TouchedJobAdded ==
  ASSUME JobTypes, form' = form, Keys' = Keys, originInputs' = originInputs,
     touched \subseteq touched',
         \A j \in UnderWay : JobTouched(jobs[j]),
         NEW sends, updateOption(sends),
         fetched = "loaded" => \A i \in DOMAIN sends :
           sends[i].key \in touched' \/ \E n \in DOMAIN form.submit : form.submit[n] = Always(sends[i].key)
  PROVE  \A j \in UnderWay' : JobTouched(jobs[j])'
<1>1. PICK i \in Jobs :
        /\ jobs'[i] = [at |-> "sent", todo |-> sends, early |-> fetched # "loaded"]
        /\ \A j \in Jobs : j # i => jobs'[j] = jobs[j]
        /\ UnderWay' = UnderWay \cup {i}
  BY JobAdded DEF JobTypes
<1>. DEFINE job == [at |-> "sent", todo |-> sends, early |-> fetched # "loaded"]
<1>2. jobs'[i].at = "sent" /\ jobs'[i].todo = sends /\ (~jobs'[i].early => fetched = "loaded")
  <2>1. job.at = "sent" /\ job.todo = sends /\ (~job.early => fetched = "loaded")
    OBVIOUS
  <2>2. jobs'[i] = job
    BY <1>1
  <2>. HIDE DEF job
  <2>. QED BY <2>1, <2>2
<1>. HIDE DEF job
<1>3. JobTouched(jobs[i])'
  BY <1>2 DEF JobTouched
<1>4. ASSUME NEW j \in UnderWay, j # i PROVE JobTouched(jobs[j])'
  <2>1. jobs'[j] = jobs[j] /\ JobTouched(jobs[j])
    BY <1>1, <1>4 DEF UnderWay
  <2>. QED BY <2>1 DEF JobTouched
<1>. QED BY <1>1, <1>3, <1>4

LEMMA TouchedJobChanged ==
  ASSUME JobTypes, form' = form, Keys' = Keys, originInputs' = originInputs,
     touched \subseteq touched',
         \A j \in UnderWay : JobTouched(jobs[j]),
         NEW i \in UnderWay, NEW job, jobs' = [jobs EXCEPT ![i] = job],
         job # NoJob /\ ~job.early => /\ job.at # "discovering"
                        /\ \A n \in DOMAIN job.todo :
                             \/ job.todo[n].key \in touched'
                             \/ \E m \in DOMAIN form.submit : form.submit[m] = Always(job.todo[n].key)
  PROVE  \A j \in UnderWay' : JobTouched(jobs[j])'
<1>1. /\ i \in Jobs /\ jobs'[i] = job
      /\ \A j \in Jobs : j # i => jobs'[j] = jobs[j]
      /\ UnderWay' = IF job = NoJob THEN UnderWay \ {i} ELSE UnderWay
  BY JobChanged DEF JobTypes
<1>3. job # NoJob => JobTouched(jobs[i])'
  BY <1>1 DEF JobTouched
<1>4. ASSUME NEW j \in UnderWay, j # i PROVE JobTouched(jobs[j])'
  <2>1. jobs'[j] = jobs[j] /\ JobTouched(jobs[j])
    BY <1>1, <1>4 DEF UnderWay
  <2>. QED BY <2>1 DEF JobTouched
<1>. QED BY <1>1, <1>3, <1>4

\* Only what was touched is, or will be, sent.
LEMMA TouchedNext ==
  ASSUME PageTypes, TouchedInv, SettingsNext
  PROVE  TouchedInv'
<1>0. form' = form /\ Keys' = Keys
  BY FormStays
<1>1. JobTypes /\ PlainTypes /\ ValueTypes /\ FormSound(form) /\ Keys = OwnFields(form)
      /\ \A j \in UnderWay : JobTouched(jobs[j])
  BY FormFacts DEF PageTypes, TouchedInv
<1>2. fetched = "loaded" => \A k \in Keys : inputs[k] = originInputs[k] \/ k \in touched
  BY DEF TouchedInv
<1>3. CASE UNCHANGED <<inputs, originInputs, touched, jobs>>
      /\ (fetched' = "loaded" => fetched = "loaded")
  BY <1>0, <1>3 DEF TouchedInv, JobTouched, UnderWay, Jobs
<1>4. CASE getOptions
  <2>1. inputs' = originInputs' /\ jobs' = jobs /\ fetched = "read"
    BY <1>4 DEF getOptions
  <2>2. \A j \in UnderWay : jobs[j].early
    BY <1>1, <2>1 DEF JobTypes, JobTyped, UnderWay
  <2>. QED BY <2>1, <2>2 DEF TouchedInv, JobTouched, UnderWay, Jobs
<1>5. ASSUME NEW k \in form.fields, NEW v \in Texts, handleInputChange(k, v)
      PROVE  TouchedInv'
  <2>1. /\ touched' = touched \cup {k} /\ originInputs' = originInputs /\ fetched' = fetched
        /\ \A q \in Keys : q # k => inputs'[q] = inputs[q]
    BY <1>1, <1>5 DEF handleInputChange, ValueTypes, Shown
  <2>2. fetched' = "loaded" => \A q \in Keys : inputs'[q] = originInputs'[q] \/ q \in touched'
    BY <1>2, <2>1
  <2>3. \A j \in UnderWay' : JobTouched(jobs[j])'
    <3>1. CASE jobs' = jobs
      BY <1>0, <1>1, <2>1, <3>1 DEF JobTouched, UnderWay, Jobs
    <3>2. CASE updateOption(Put(k, v))
      <4>1. \A i \in DOMAIN Put(k, v) : Put(k, v)[i].key \in touched'
        BY <2>1 DEF Put
      <4>2. touched \subseteq touched'
        BY <2>1
      <4>. QED BY <1>0, <1>1, <2>1, <3>2, <4>1, <4>2, TouchedJobAdded
    <3>. QED BY <1>5, <3>1, <3>2 DEF handleInputChange
  <2>. QED BY <1>0, <2>2, <2>3 DEF TouchedInv
<1>6. CASE submit
  <2>1. updateOption(Calls(inputs, originInputs))
        /\ UNCHANGED <<inputs, originInputs, touched, fetched>>
    BY <1>6 DEF submit
  <2>2. fetched = "loaded" => \A i \in DOMAIN Calls(inputs, originInputs) :
          \/ Calls(inputs, originInputs)[i].key \in touched'
          \/ \E n \in DOMAIN form.submit : form.submit[n] = Always(Calls(inputs,
             originInputs)[i].key)
    BY <1>1, <1>2, <2>1, CallsTouched
  <2>3. \A j \in UnderWay' : JobTouched(jobs[j])'
    BY <1>0, <1>1, <2>1, <2>2, TouchedJobAdded
  <2>. QED BY <1>0, <1>2, <2>1, <2>3 DEF TouchedInv
<1>7. CASE submitOidc
  <2>1. \E j \in Jobs : j \notin UnderWay
    BY <1>7 DEF submitOidc, UnderWay
  <2>2. FreeJob \in Jobs /\ FreeJob \notin UnderWay
    BY <2>1 DEF FreeJob
  <2>3. PICK i \in Jobs :
          jobs' = [jobs EXCEPT ![i] = [at |-> "discovering", shown |-> inputs,
                                       early |-> fetched # "loaded"]]
    BY <1>7, <2>2 DEF submitOidc
  <2>4. UNCHANGED <<inputs, originInputs, touched, fetched>>
    BY <1>7 DEF submitOidc
  <2>. DEFINE job == [at |-> "discovering", shown |-> inputs, early |-> fetched # "loaded"]
  <2>5. jobs'[i] = job /\ (\A j \in Jobs : j # i => jobs'[j] = jobs[j])
    BY <1>1, <2>3 DEF JobTypes, JobsAre, Jobs
  <2>6. job.at = "discovering" /\ job.shown = inputs /\ (~job.early => fetched = "loaded")
    OBVIOUS
  <2>. HIDE DEF job
  <2>7. JobTouched(jobs[i])'
    BY <1>0, <1>2, <2>4, <2>5, <2>6 DEF JobTouched
  <2>8. ASSUME NEW j \in UnderWay', j # i PROVE JobTouched(jobs[j])'
    <3>1. jobs'[j] = jobs[j] /\ j \in UnderWay
      BY <2>5, <2>8 DEF UnderWay, Jobs
    <3>. QED BY <1>0, <1>1, <2>4, <3>1 DEF JobTouched
  <2>. QED BY <1>0, <1>2, <2>4, <2>7, <2>8 DEF TouchedInv
<1>8. CASE toggle \/ PasswordWarning
  <2>1. UNCHANGED <<inputs, originInputs, fetched>> /\ touched \subseteq touched'
    BY <1>8 DEF toggle, PasswordWarning
  <2>2. \A j \in UnderWay' : JobTouched(jobs[j])'
    <3>1. CASE jobs' = jobs
      BY <1>0, <1>1, <2>1, <3>1 DEF JobTouched, UnderWay, Jobs
    <3>2. CASE updateOption(Put(form.switch, Opposite(form.switch))) /\ form.switch \in touched'
      <4>1. \A i \in DOMAIN Put(form.switch, Opposite(form.switch)) :
              Put(form.switch, Opposite(form.switch))[i].key \in touched'
        BY <3>2 DEF Put
      <4>. QED BY <1>0, <1>1, <2>1, <3>2, <4>1, TouchedJobAdded
    <3>. QED BY <1>8, <3>1, <3>2 DEF toggle, PasswordWarning
  <2>. QED BY <1>0, <1>2, <2>1, <2>2 DEF TouchedInv
<1>9. ASSUME NEW j \in Jobs, NEW found \in BOOLEAN, Discovered(j, found)
      PROVE  TouchedInv'
  <2>. DEFINE view == Found(jobs[j], found)
              sends == Calls(view, Origin(jobs[j]))
              job == IF DOMAIN sends = {} THEN NoJob
                     ELSE [at |-> "sent", todo |-> sends, early |-> jobs[j].early]
  <2>1. /\ j \in UnderWay /\ jobs[j].at = "discovering" /\ fetched' = fetched
        /\ jobs' = [jobs EXCEPT ![j] = job] /\ originInputs' = originInputs
        /\ touched' = (IF found THEN touched \cup Endpoints ELSE touched)
        /\ inputs' = (IF inputs = jobs[j].shown THEN view ELSE inputs)
    BY <1>9, DiscoveredStep
  <2>2. \A k \in Keys : view[k] = jobs[j].shown[k] \/ k \in touched'
    BY <2>1, DiscoveredCalls
  <2>3. touched \subseteq touched'
    BY <2>1
  <2>4. ~jobs[j].early => \A k \in Keys : view[k] = originInputs[k] \/ k \in touched'
    BY <1>1, <2>1, <2>2, <2>3 DEF JobTouched
  <2>5. ~jobs[j].early => \A n \in DOMAIN sends :
          \/ sends[n].key \in touched'
          \/ \E m \in DOMAIN form.submit : form.submit[m] = Always(sends[n].key)
    BY <1>1, <2>4, CallsTouched DEF Origin
  <2>6. fetched' = "loaded" => \A k \in Keys : inputs'[k] = originInputs'[k] \/ k \in touched'
    BY <1>2, <2>1, <2>2, <2>3
  <2>. HIDE DEF sends, view
  <2>7. job # NoJob /\ ~job.early => /\ job.at # "discovering"
                        /\ \A n \in DOMAIN job.todo :
                             \/ job.todo[n].key \in touched'
                             \/ \E m \in DOMAIN form.submit : form.submit[m] = Always(job.todo[n].key)
    BY <2>5
  <2>. HIDE DEF job
  <2>8. \A i \in UnderWay' : JobTouched(jobs[i])'
    BY <1>0, <1>1, <2>1, <2>3, <2>7, TouchedJobChanged
  <2>. QED BY <1>0, <2>6, <2>8 DEF TouchedInv
<1>10. ASSUME NEW j \in Jobs, UpdateOption(j)
       PROVE  TouchedInv'
  <2>1. j \in Sending /\ UNCHANGED <<inputs, originInputs, touched, fetched>>
        /\ \E s \in {"stored", "refused"} : jobs' = [jobs EXCEPT ![j].at = s]
    BY <1>10 DEF UpdateOption
  <2>2. PICK s \in {"stored", "refused"} : jobs' = [jobs EXCEPT ![j].at = s]
    BY <2>1
  <2>3. /\ j \in UnderWay /\ jobs[j].at # "discovering"
        /\ jobs[j] = [at |-> jobs[j].at, todo |-> jobs[j].todo, early |-> jobs[j].early]
    BY <1>1, <2>1, SendingTyped
  <2>. DEFINE job == [at |-> s, todo |-> jobs[j].todo, early |-> jobs[j].early]
  <2>4. jobs' = [jobs EXCEPT ![j] = job]
    BY <2>2, <2>3, AtChanged
  <2>5. job.at # "discovering" /\ job.todo = jobs[j].todo /\ job.early = jobs[j].early
    OBVIOUS
  <2>. HIDE DEF job
  <2>6. ~job.early => \A n \in DOMAIN job.todo :
                             \/ job.todo[n].key \in touched'
                             \/ \E m \in DOMAIN form.submit : form.submit[m] = Always(job.todo[n].key)
    BY <1>1, <2>1, <2>3, <2>5 DEF JobTouched
  <2>8. \A i \in UnderWay' : JobTouched(jobs[i])'
    BY <1>0, <1>1, <2>1, <2>3, <2>4, <2>5, <2>6, TouchedJobChanged
  <2>. QED BY <1>0, <1>2, <2>1, <2>8 DEF TouchedInv
<1>11. ASSUME NEW j \in Jobs, OptionAnswered(j)
       PROVE  TouchedInv'
  <2>. DEFINE rest == Left(jobs[j].todo)
              put == First(jobs[j].todo)
              job == IF DOMAIN rest = {} THEN NoJob
                     ELSE [at |-> "sent", todo |-> rest, early |-> jobs[j].early]
  <2>1. /\ j \in Sending /\ fetched' = fetched /\ originInputs' = originInputs
        /\ jobs' = [jobs EXCEPT ![j] = job]
        /\ \/ inputs' = [inputs EXCEPT ![put.key] = put.value] /\ touched' = touched \cup {put.key}
           \/ UNCHANGED <<inputs, touched>>
    BY <1>11 DEF OptionAnswered
  <2>2. /\ j \in UnderWay /\ TodoTyped(jobs[j].todo) /\ jobs[j].at # "discovering"
    BY <1>1, <2>1, SendingTyped
  <2>3. DOMAIN rest \subseteq DOMAIN jobs[j].todo
        /\ \A n \in DOMAIN rest : rest[n] = jobs[j].todo[n]
    BY <2>2, LeftTyped
  <2>. HIDE DEF rest, put
  <2>4. touched \subseteq touched'
    BY <2>1
  <2>5. \A k \in Keys : inputs'[k] = inputs[k] \/ k \in touched'
    BY <1>1, <2>1 DEF ValueTypes, Shown
  <2>6. ~jobs[j].early => \A n \in DOMAIN rest :
          \/ rest[n].key \in touched'
          \/ \E m \in DOMAIN form.submit : form.submit[m] = Always(rest[n].key)
    BY <1>1, <2>2, <2>3, <2>4 DEF JobTouched
  <2>7. job # NoJob /\ ~job.early => /\ job.at # "discovering"
                        /\ \A n \in DOMAIN job.todo :
                             \/ job.todo[n].key \in touched'
                             \/ \E m \in DOMAIN form.submit : form.submit[m] = Always(job.todo[n].key)
    BY <2>6
  <2>. HIDE DEF job
  <2>8. \A i \in UnderWay' : JobTouched(jobs[i])'
    BY <1>0, <1>1, <2>1, <2>2, <2>4, <2>7, TouchedJobChanged
  <2>. QED BY <1>0, <1>2, <2>1, <2>4, <2>5, <2>8 DEF TouchedInv
<1>12. ASSUME NEW j \in Jobs, PutLost(j)
       PROVE  TouchedInv'
  <2>1. j \in Sending /\ UNCHANGED <<inputs, originInputs, touched, fetched>>
        /\ jobs' = [jobs EXCEPT ![j] = NoJob]
    BY <1>12 DEF PutLost
  <2>2. j \in UnderWay
    BY <2>1 DEF Sending
  <2>3. \A i \in UnderWay' : JobTouched(jobs[i])'
    BY <1>0, <1>1, <2>1, <2>2, TouchedJobChanged
  <2>. QED BY <1>0, <1>2, <2>1, <2>3 DEF TouchedInv
<1>13. \/ getOptions \/ submit \/ submitOidc \/ toggle \/ PasswordWarning
       \/ \E k \in form.fields, v \in Texts : handleInputChange(k, v)
       \/ \E j \in Jobs, found \in BOOLEAN : Discovered(j, found)
       \/ \E j \in Jobs : UpdateOption(j) \/ OptionAnswered(j) \/ PutLost(j)
       \/ UNCHANGED <<inputs, originInputs, touched, jobs>>
          /\ (fetched' = "loaded" => fetched = "loaded")
  BY DEF SettingsNext, ServerReads, OptionsLost, OtherAdministrator
<1>. QED BY <1>3, <1>4, <1>5, <1>6, <1>7, <1>8, <1>9, <1>10, <1>11, <1>12, <1>13

\* The calls of a submit are sound.
LEMMA CallsTodoSound ==
  ASSUME FormSound(form), NEW view \in Shown, NEW origin \in Shown,
         \A k \in Keys : view[k] = None => k \in Hidden,
         \A k \in Hidden \cap Keys : origin[k] = None
  PROVE  TodoSound(Calls(view, origin))
<1>. DEFINE t == Calls(view, origin)
<1>1. /\ DOMAIN t \subseteq DOMAIN form.submit
      /\ \A n \in DOMAIN t :
           /\ t[n].key = form.submit[n].key /\ t[n].value = ValueSent(form.submit[n], view)
           /\ Due(form.submit[n], view, origin)
  BY CallsSound
<1>. HIDE DEF t
<1>2. \A m, n \in DOMAIN t : t[m].key = t[n].key => m = n
  BY <1>1 DEF FormSound
<1>3. ASSUME NEW m \in DOMAIN t, NEW n \in DOMAIN form.submit, t[m].key = form.submit[n].key
      PROVE  /\ form.submit[n].test = "filled" => t[m].value # Blank
             /\ form.submit[n].test = "address" \/ t[m].key = "ServerAddress" =>
                  removeTrailingSlash(t[m].value) = t[m].value
  <2>1. m = n
    BY <1>1, <1>3 DEF FormSound
  <2>2. form.submit[n].test = "filled" => t[m].value # Blank
    BY <1>1, <2>1 DEF Due, ValueSent, removeTrailingSlash, Blank
  <2>3. form.submit[n].test = "address" \/ t[m].key = "ServerAddress" =>
          removeTrailingSlash(t[m].value) = t[m].value
    BY <1>1, <2>1 DEF ValueSent, removeTrailingSlash
  <2>. QED BY <2>2, <2>3
<1>. QED BY <1>2, <1>3 DEF TodoSound, t

\* The inputs of a click: those of the page, or those that the endpoints were asked for.
OfClick(view) ==
  \/ view = inputs
  \/ \E i \in UnderWay : jobs[i].at = "discovering"
                        /\ \A k \in Keys \ Endpoints : view[k] = jobs[i].shown[k]

\* Where the calls of a job come from.
LEMMA TodosNext ==
  ASSUME PageTypes, SettingsNext, NEW j \in Sending'
  PROVE  \/ j \in Sending /\ jobs'[j].todo = jobs[j].todo
         \/ /\ j \in Sending /\ jobs'[j].todo = Left(jobs[j].todo)
         \/ \E view, origin \in Shown :
              /\ OfClick(view)
              /\ \A k \in Keys : view[k] = None => k \in Hidden
              /\ \A k \in Hidden \cap Keys : origin[k] = None
              /\ jobs'[j].todo = Calls(view, origin)
         \/ \E k \in form.fields \cap SentAsTyped[form.theme], v \in Texts :
              handleInputChange(k, v) /\ jobs'[j].todo = Put(k, v)
         \/ form.switch # Blank /\ jobs'[j].todo = Put(form.switch, Opposite(form.switch))
<1>. DEFINE Goal ==
         \/ j \in Sending /\ jobs'[j].todo = jobs[j].todo
         \/ /\ j \in Sending /\ jobs'[j].todo = Left(jobs[j].todo)
         \/ \E view, origin \in Shown :
              /\ OfClick(view)
              /\ \A k \in Keys : view[k] = None => k \in Hidden
              /\ \A k \in Hidden \cap Keys : origin[k] = None
              /\ jobs'[j].todo = Calls(view, origin)
         \/ \E k \in form.fields \cap SentAsTyped[form.theme], v \in Texts :
              handleInputChange(k, v) /\ jobs'[j].todo = Put(k, v)
         \/ form.switch # Blank /\ jobs'[j].todo = Put(form.switch, Opposite(form.switch))
<1>1. JobTypes /\ PlainTypes /\ ValueTypes /\ FormSound(form) /\ Keys = OwnFields(form) /\ JobTypes'
  BY FormFacts, JobsNext DEF PageTypes
<1>2. j \in Jobs /\ jobs'[j] # NoJob /\ jobs'[j].at # "discovering"
  BY DEF Sending, UnderWay, Jobs
<1>3. CASE jobs'[j] = jobs[j]
  <2>1. j \in Sending
    BY <1>2, <1>3 DEF Sending, UnderWay
  <2>. QED BY <1>3, <2>1
<1>4. ASSUME NEW sends, updateOption(sends)
      PROVE  jobs'[j] = jobs[j] \/ jobs'[j].todo = sends
  <2>1. PICK i \in Jobs :
         /\ jobs'[i] = [at |-> "sent", todo |-> sends, early |-> fetched # "loaded"]
         /\ \A q \in Jobs : q # i => jobs'[q] = jobs[q]
    BY <1>1, <1>4, JobAdded DEF JobTypes
  <2>2. jobs'[i].todo = sends
    BY <2>1
  <2>. QED BY <1>2, <2>1, <2>2
<1>5. ASSUME NEW k \in form.fields, NEW v \in Texts, handleInputChange(k, v)
      PROVE  Goal
  <2>1. jobs' = jobs \/ (k \in SentAsTyped[form.theme] /\ updateOption(Put(k, v)))
    BY <1>5 DEF handleInputChange
  <2>2. jobs'[j] = jobs[j] \/ (k \in SentAsTyped[form.theme] /\ jobs'[j].todo = Put(k, v))
    BY <1>4, <2>1
  <2>. HIDE DEF Goal
  <2>3. CASE k \in SentAsTyped[form.theme] /\ jobs'[j].todo = Put(k, v)
    BY <1>5, <2>3 DEF Goal
  <2>. QED BY <1>3, <2>2, <2>3 DEF Goal
<1>6. CASE submit
  <2>1. jobs'[j] = jobs[j] \/ jobs'[j].todo = Calls(inputs, originInputs)
    BY <1>4, <1>6 DEF submit
  <2>2. inputs \in Shown /\ originInputs \in Shown
        /\ (\A k \in Keys : inputs[k] = None => k \in Hidden)
        /\ (\A k \in Hidden \cap Keys : originInputs[k] = None) /\ OfClick(inputs)
    BY <1>1 DEF ValueTypes, OfClick
  <2>. QED BY <1>3, <2>1, <2>2
<1>7. CASE submitOidc
  <2>1. \E i \in Jobs : i \notin UnderWay
    BY <1>7 DEF submitOidc, UnderWay
  <2>2. FreeJob \in Jobs
    BY <2>1 DEF FreeJob
  <2>3. PICK i \in Jobs :
          jobs' = [jobs EXCEPT ![i] = [at |-> "discovering", shown |-> inputs,
                                       early |-> fetched # "loaded"]]
    BY <1>7, <2>2 DEF submitOidc
  <2>4. jobs'[i] = [at |-> "discovering", shown |-> inputs, early |-> fetched # "loaded"]
        /\ \A q \in Jobs : q # i => jobs'[q] = jobs[q]
    BY <1>1, <2>3 DEF JobTypes, JobsAre, Jobs
  <2>5. jobs'[i].at = "discovering"
    BY <2>4
  <2>. QED BY <1>2, <1>3, <2>4, <2>5
<1>8. CASE toggle \/ PasswordWarning
  <2>1. form.switch # Blank /\ (jobs' = jobs \/ updateOption(Put(form.switch,
        Opposite(form.switch))))
    BY <1>1, <1>8 DEF toggle, PasswordWarning, PlainTypes
  <2>2. jobs'[j] = jobs[j] \/ jobs'[j].todo = Put(form.switch, Opposite(form.switch))
    BY <1>4, <2>1
  <2>. QED BY <1>3, <2>1, <2>2
<1>9. ASSUME NEW i \in Jobs, NEW found \in BOOLEAN, Discovered(i, found)
      PROVE  Goal
  <2>. DEFINE view == Found(jobs[i], found)
              origin == Origin(jobs[i])
              sends == Calls(view, origin)
              job == IF DOMAIN sends = {} THEN NoJob
                     ELSE [at |-> "sent", todo |-> sends, early |-> jobs[i].early]
  <2>1. /\ i \in UnderWay /\ jobs[i].at = "discovering" /\ jobs' = [jobs EXCEPT ![i] = job]
    BY <1>9, DiscoveredStep
  <2>2. /\ view \in Shown /\ origin \in Shown
        /\ \A k \in Keys : view[k] = None => k \in Hidden
        /\ \A k \in Hidden \cap Keys : origin[k] = None
        /\ \A k \in Keys : view[k] = jobs[i].shown[k] \/ k \in Endpoints
    BY <2>1, DiscoveredCalls
  <2>. HIDE DEF view, origin, Goal
  <2>6. OfClick(view)
    BY <2>1, <2>2 DEF OfClick
  <2>3. job # NoJob => job.todo = sends
    OBVIOUS
  <2>. HIDE DEF job
  <2>4. jobs'[j] = jobs[j] \/ jobs'[j].todo = sends
    BY <1>1, <1>2, <2>1, <2>3, JobChanged DEF JobTypes
  <2>5. CASE jobs'[j].todo = sends
    BY <2>2, <2>5, <2>6 DEF Goal
  <2>. QED BY <1>3, <2>4, <2>5 DEF Goal
<1>10. ASSUME NEW i \in Jobs, UpdateOption(i)
       PROVE  Goal
  <2>1. i \in Sending /\ \E s \in {"stored", "refused"} : jobs' = [jobs EXCEPT ![i].at = s]
    BY <1>10 DEF UpdateOption
  <2>2. PICK s \in {"stored", "refused"} : jobs' = [jobs EXCEPT ![i].at = s]
    BY <2>1
  <2>3. jobs[i] = [at |-> jobs[i].at, todo |-> jobs[i].todo, early |-> jobs[i].early]
        /\ i \in UnderWay
    BY <1>1, <2>1, SendingTyped
  <2>. DEFINE job == [at |-> s, todo |-> jobs[i].todo, early |-> jobs[i].early]
  <2>4. jobs' = [jobs EXCEPT ![i] = job]
    BY <2>2, <2>3, AtChanged
  <2>5. job.todo = jobs[i].todo
    OBVIOUS
  <2>. HIDE DEF job
  <2>6. jobs'[j] = jobs[j] \/ (j = i /\ jobs'[j].todo = jobs[j].todo)
    BY <1>1, <1>2, <2>3, <2>4, <2>5, JobChanged DEF JobTypes
  <2>. QED BY <1>3, <2>1, <2>6
<1>11. ASSUME NEW i \in Jobs, OptionAnswered(i)
       PROVE  Goal
  <2>. DEFINE rest == Left(jobs[i].todo)
              job == IF DOMAIN rest = {} THEN NoJob
                     ELSE [at |-> "sent", todo |-> rest, early |-> jobs[i].early]
  <2>1. i \in Sending /\ jobs' = [jobs EXCEPT ![i] = job]
    BY <1>11 DEF OptionAnswered
  <2>2. i \in UnderWay
    BY <2>1 DEF Sending
  <2>. HIDE DEF rest
  <2>3. job # NoJob => job.todo = rest
    OBVIOUS
  <2>. HIDE DEF job
  <2>4. jobs'[j] = jobs[j] \/ (j = i /\ jobs'[j].todo = rest)
    BY <1>1, <1>2, <2>1, <2>2, <2>3, JobChanged DEF JobTypes
  <2>. QED BY <1>3, <2>1, <2>4 DEF rest
<1>12. ASSUME NEW i \in Jobs, PutLost(i)
       PROVE  Goal
  <2>1. i \in Sending /\ jobs' = [jobs EXCEPT ![i] = NoJob]
    BY <1>12 DEF PutLost
  <2>2. i \in UnderWay
    BY <2>1 DEF Sending
  <2>3. jobs'[j] = jobs[j]
    BY <1>1, <1>2, <2>1, <2>2, JobChanged DEF JobTypes
  <2>. QED BY <1>3, <2>3
<1>13. \/ UNCHANGED jobs
       \/ \E k \in form.fields, v \in Texts : handleInputChange(k, v)
       \/ submit \/ submitOidc \/ toggle \/ PasswordWarning
       \/ \E i \in Jobs, found \in BOOLEAN : Discovered(i, found)
       \/ \E i \in Jobs : UpdateOption(i) \/ OptionAnswered(i) \/ PutLost(i)
  BY DEF SettingsNext, ServerReads, getOptions, OptionsLost, OtherAdministrator
<1>. HIDE DEF Goal
<1>14. Goal
  BY <1>3, <1>5, <1>6, <1>7, <1>8, <1>9, <1>10, <1>11, <1>12, <1>13 DEF Goal
<1>. QED BY <1>14 DEF Goal

\* The calls under way stay sound.
LEMMA SentNext ==
  ASSUME PageTypes, SentInv, SettingsNext
  PROVE  SentInv'
<1>0. form' = form
  BY FormStays
<1>1. JobTypes /\ FormSound(form)
  BY FormFacts DEF PageTypes
<1>2. ASSUME NEW j \in Sending' PROVE TodoSound(jobs'[j].todo)
  <2>. DEFINE t == jobs'[j].todo
  <2>1. CASE j \in Sending /\ t = jobs[j].todo
    BY <2>1 DEF SentInv
  <2>2. CASE j \in Sending /\ t = Left(jobs[j].todo)
    <3>1. TodoSound(jobs[j].todo) /\ TodoTyped(jobs[j].todo)
      BY <1>1, <2>2, SendingTyped DEF SentInv
    <3>2. DOMAIN t \subseteq DOMAIN jobs[j].todo /\ \A n \in DOMAIN t : t[n] = jobs[j].todo[n]
      BY <2>2, <3>1, LeftTyped
    <3>. HIDE DEF t
    <3>3. TodoSound(t)
      BY <3>1, <3>2 DEF TodoSound
    <3>. QED BY <3>3 DEF t
  <2>3. CASE \E view, origin \in Shown :
              /\ OfClick(view)
              /\ \A k \in Keys : view[k] = None => k \in Hidden
              /\ \A k \in Hidden \cap Keys : origin[k] = None
              /\ t = Calls(view, origin)
    BY <1>1, <2>3, CallsTodoSound
  <2>4. CASE \E k \in form.fields \cap SentAsTyped[form.theme], v \in Texts :
               handleInputChange(k, v) /\ t = Put(k, v)
    <3>1. PICK k \in form.fields \cap SentAsTyped[form.theme], v \in Texts : t = Put(k, v)
      BY <2>4
    <3>2. DOMAIN t = {1} /\ t[1].key = k
      BY <3>1 DEF Put
    <3>. HIDE DEF t
    <3>3. TodoSound(t)
      BY <3>1, <3>2 DEF TodoSound
    <3>. QED BY <3>3 DEF t
  <2>5. CASE form.switch # Blank /\ t = Put(form.switch, Opposite(form.switch))
    <3>1. DOMAIN form.submit = {}
      BY <1>1, <2>5 DEF FormSound
    <3>2. DOMAIN t = {1}
      BY <2>5 DEF Put
    <3>. HIDE DEF t
    <3>3. TodoSound(t)
      BY <3>1, <3>2 DEF TodoSound
    <3>. QED BY <3>3 DEF t
  <2>. QED BY <2>1, <2>2, <2>3, <2>4, <2>5, TodosNext
<1>. QED BY <1>0, <1>2 DEF SentInv, TodoSound

\* A submit that sends goes on or ends.
LEMMA SendingChanged ==
  ASSUME JobTypes, NEW i \in UnderWay, NEW job, jobs' = [jobs EXCEPT ![i] = job],
         job # NoJob => job.at # "discovering"
  PROVE  Sending' = IF job = NoJob THEN Sending \ {i} ELSE Sending \cup {i}
<1>1. /\ i \in Jobs /\ jobs'[i] = job
      /\ \A j \in Jobs : j # i => jobs'[j] = jobs[j]
      /\ UnderWay' = IF job = NoJob THEN UnderWay \ {i} ELSE UnderWay
  BY JobChanged DEF JobTypes
<1>2. \A j \in UnderWay : j # i => jobs'[j].at = jobs[j].at
  BY <1>1 DEF UnderWay
<1>. QED BY <1>1, <1>2 DEF Sending

\* A call for the provider's endpoints is under way.
LEMMA DiscoveryAdded ==
  ASSUME JobTypes, submitOidc
  PROVE  \E i \in Jobs :
           /\ i \notin UnderWay /\ i \notin Sending
           /\ jobs'[i] = [at |-> "discovering", shown |-> inputs, early |-> fetched # "loaded"]
           /\ jobs'[i].at = "discovering" /\ jobs'[i].shown = inputs
           /\ ~jobs'[i].early => fetched = "loaded"
           /\ jobs'[i].early => fetched # "loaded"
           /\ \A j \in Jobs : j # i => jobs'[j] = jobs[j]
           /\ UnderWay' = UnderWay \cup {i} /\ Sending' = Sending
<1>1. \E j \in Jobs : j \notin UnderWay
  BY DEF submitOidc, UnderWay
<1>. DEFINE i == FreeJob
            job == [at |-> "discovering", shown |-> inputs, early |-> fetched # "loaded"]
<1>2. i \in Jobs /\ i \notin UnderWay
  BY <1>1 DEF FreeJob
<1>3. jobs' = [jobs EXCEPT ![i] = job]
  BY DEF submitOidc
<1>4. job.at = "discovering" /\ job.shown = inputs /\ job # NoJob
      /\ (~job.early => fetched = "loaded") /\ (job.early => fetched # "loaded")
  BY DEF NoJob
<1>. HIDE DEF i, job
<1>5. jobs'[i] = job /\ \A j \in Jobs : j # i => jobs'[j] = jobs[j]
  BY <1>2, <1>3 DEF JobTypes, JobsAre, Jobs
<1>6. UnderWay' = UnderWay \cup {i}
  BY <1>2, <1>4, <1>5 DEF UnderWay, Jobs
<1>7. \A j \in UnderWay : j # i => jobs'[j].at = jobs[j].at
  BY <1>5 DEF UnderWay
<1>8. Sending' = Sending
  BY <1>2, <1>4, <1>5, <1>6, <1>7 DEF Sending
<1>9. i \notin Sending
  BY <1>2 DEF Sending
<1>. QED BY <1>2, <1>4, <1>5, <1>6, <1>8, <1>9 DEF job

\* Where the whole form is covered, nothing is under way but PUTs.
LEMMA OverlaySends ==
  ASSUME PageTypes, Overlay(form.theme)
  PROVE  UnderWay = Sending /\ "OidcWellKnown" \notin Keys
<1>1. JobTypes /\ FormSound(form) /\ Keys = OwnFields(form) /\ form.theme # "berry"
  BY FormFacts DEF PageTypes, Overlay
<1>2. "OidcWellKnown" \notin Keys
  BY <1>1 DEF FormSound
<1>3. \A j \in UnderWay : jobs[j].at # "discovering"
  BY <1>1, <1>2, DiscoveryTyped
<1>. QED BY <1>2, <1>3 DEF Sending

\* The page is locked for as long as a PUT is under way.
LEMMA LockedNext ==
  ASSUME PageTypes, LockedInv, SettingsNext
  PROVE  LockedInv'
<1>. DEFINE Covered == Overlay(form.theme)
<1>0. form' = form /\ (Covered' <=> Covered)
  BY FormStays DEF Overlay
<1>1. JobTypes /\ PlainTypes
  BY DEF PageTypes
<1>2. Covered => UnderWay = Sending /\ "OidcWellKnown" \notin Keys
  BY OverlaySends
<1>3. /\ formLoading => Sending # {} \/ hung
      /\ Covered /\ Sending # {} => formLoading
      /\ Covered => /\ \A i, j \in UnderWay : i = j
                    /\ dialogOpen => UnderWay = {}
  BY DEF LockedInv, SettingsLocked
<1>. SUFFICES /\ formLoading' => Sending' # {} \/ hung'
              /\ Covered /\ Sending' # {} => formLoading'
              /\ Covered => /\ \A i, j \in UnderWay' : i = j
                            /\ dialogOpen' => UnderWay' = {}
  BY <1>0 DEF LockedInv, SettingsLocked
<1>. DEFINE Goal == /\ formLoading' => Sending' # {} \/ hung'
                    /\ Covered /\ Sending' # {} => formLoading'
                    /\ Covered => /\ \A i, j \in UnderWay' : i = j
                                  /\ dialogOpen' => UnderWay' = {}
<1>. HIDE DEF Covered
<1>4. CASE UNCHANGED <<jobs, formLoading, hung, dialogOpen>>
  <2>1. UnderWay' = UnderWay /\ Sending' = Sending
    BY <1>4 DEF UnderWay, Sending, Jobs
  <2>. QED BY <1>3, <1>4, <2>1
<1>5. ASSUME Enabled \/ dialogOpen, NEW sends, updateOption(sends), dialogOpen' => dialogOpen
      /\ Enabled
      PROVE  Goal
  <2>1. PICK i \in Jobs : UnderWay' = UnderWay \cup {i} /\ Sending' = Sending \cup {i}
    BY <1>1, <1>5, JobAdded DEF JobTypes
  <2>2. formLoading'
    BY <1>5 DEF updateOption
  <2>3. Covered => UnderWay = {}
    BY <1>2, <1>3, <1>5 DEF Enabled, Covered
  <2>4. dialogOpen' => FALSE
    BY <1>5 DEF Enabled
  <2>. QED BY <2>1, <2>2, <2>3, <2>4
<1>6. ASSUME NEW k \in form.fields, NEW v \in Texts, handleInputChange(k, v)
      PROVE  Goal
  <2>1. Enabled /\ UNCHANGED <<dialogOpen, hung>>
        /\ (UNCHANGED <<jobs, formLoading>> \/ updateOption(Put(k, v)))
    BY <1>6 DEF handleInputChange
  <2>2. CASE updateOption(Put(k, v))
    <3>1. dialogOpen' => dialogOpen /\ Enabled
      BY <2>1
    <3>. HIDE DEF Goal
    <3>. QED BY <1>5, <2>1, <2>2, <3>1
  <2>. QED BY <1>4, <2>1, <2>2
<1>7. CASE submit
  <2>1. Enabled /\ UNCHANGED dialogOpen /\ updateOption(Calls(inputs, originInputs))
    BY <1>7 DEF submit
  <2>2. dialogOpen' => dialogOpen /\ Enabled
    BY <2>1
  <2>3. Goal
    <3>. HIDE DEF Goal
    <3>. QED BY <1>5, <2>1, <2>2
  <2>. QED BY <2>3
<1>8. CASE submitOidc
  <2>1. "OidcWellKnown" \in Keys /\ UNCHANGED <<formLoading, hung>>
    BY <1>8 DEF submitOidc
  <2>2. Sending' = Sending
    BY <1>1, <1>8, DiscoveryAdded
  <2>. QED BY <1>2, <1>3, <2>1, <2>2
<1>9. CASE toggle
  <2>1. CASE updateOption(Put(form.switch, Opposite(form.switch))) /\ UNCHANGED dialogOpen
    <3>1. Enabled /\ (dialogOpen' => dialogOpen /\ Enabled)
      BY <1>9, <2>1 DEF toggle
    <3>2. Goal
      <4>. HIDE DEF Goal
      <4>. QED BY <1>5, <2>1, <3>1
    <3>. QED BY <3>2
  <2>2. CASE UNCHANGED <<jobs, formLoading>> /\ dialogOpen' = TRUE
    <3>1. UnderWay' = UnderWay /\ Sending' = Sending /\ hung' = hung
      BY <1>9, <2>2 DEF UnderWay, Sending, Jobs, toggle
    <3>2. Covered => UnderWay = {}
      BY <1>2, <1>3, <1>9 DEF toggle, Enabled, Covered
    <3>. QED BY <1>3, <2>2, <3>1, <3>2
  <2>. QED BY <1>9, <2>1, <2>2 DEF toggle
<1>10. CASE PasswordWarning
  <2>1. dialogOpen /\ dialogOpen' = FALSE /\ hung' = hung
    BY <1>10 DEF PasswordWarning
  <2>2. CASE updateOption(Put(form.switch, Opposite(form.switch)))
    <3>1. Goal
      <4>1. dialogOpen' => dialogOpen /\ Enabled
        BY <2>1
      <4>. HIDE DEF Goal
      <4>. QED BY <1>5, <2>1, <2>2, <4>1
    <3>. QED BY <3>1
  <2>3. CASE UNCHANGED <<jobs, formLoading>>
    <3>1. UnderWay' = UnderWay /\ Sending' = Sending
      BY <2>3 DEF UnderWay, Sending, Jobs
    <3>. QED BY <1>3, <2>1, <2>3, <3>1
  <2>. QED BY <1>10, <2>2, <2>3 DEF PasswordWarning
<1>11. ASSUME NEW j \in Jobs, NEW found \in BOOLEAN, Discovered(j, found)
       PROVE  Goal
  <2>. DEFINE sends == Calls(Found(jobs[j], found), Origin(jobs[j]))
              job == IF DOMAIN sends = {} THEN NoJob
                     ELSE [at |-> "sent", todo |-> sends, early |-> jobs[j].early]
  <2>1. /\ j \in UnderWay /\ jobs[j].at = "discovering"
        /\ jobs' = [jobs EXCEPT ![j] = job]
        /\ formLoading' = (formLoading \/ DOMAIN sends # {})
        /\ UNCHANGED <<dialogOpen, hung>>
    BY <1>11, DiscoveredStep
  <2>2. "OidcWellKnown" \in Keys
    BY <1>1, <2>1, DiscoveryTyped
  <2>. HIDE DEF sends
  <2>3. (job # NoJob => job.at = "sent") /\ (job = NoJob <=> DOMAIN sends = {})
    BY DEF NoJob
  <2>. HIDE DEF job
  <2>4. Sending' = IF job = NoJob THEN Sending \ {j} ELSE Sending \cup {j}
    BY <1>1, <2>1, <2>3, SendingChanged
  <2>5. j \notin Sending
    BY <2>1 DEF Sending
  <2>6. formLoading' => formLoading \/ DOMAIN sends # {}
    BY <2>1
  <2>. QED BY <1>2, <1>3, <2>1, <2>2, <2>3, <2>4, <2>5, <2>6
<1>12. ASSUME NEW j \in Jobs, UpdateOption(j)
       PROVE  Goal
  <2>1. j \in Sending /\ UNCHANGED <<formLoading, dialogOpen, hung>>
        /\ \E s \in {"stored", "refused"} : jobs' = [jobs EXCEPT ![j].at = s]
    BY <1>12 DEF UpdateOption
  <2>2. PICK s \in {"stored", "refused"} : jobs' = [jobs EXCEPT ![j].at = s]
    BY <2>1
  <2>3. /\ j \in UnderWay
        /\ jobs[j] = [at |-> jobs[j].at, todo |-> jobs[j].todo, early |-> jobs[j].early]
    BY <1>1, <2>1, SendingTyped
  <2>. DEFINE job == [at |-> s, todo |-> jobs[j].todo, early |-> jobs[j].early]
  <2>4. jobs' = [jobs EXCEPT ![j] = job]
    BY <2>2, <2>3, AtChanged
  <2>5. job # NoJob /\ job.at # "discovering"
    <3>1. job.at = s
      OBVIOUS
    <3>. HIDE DEF job
    <3>. QED BY <3>1 DEF NoJob
  <2>. HIDE DEF job
  <2>6. Sending' = Sending
    <3>1. Sending' = Sending \cup {j}
      BY <1>1, <2>3, <2>4, <2>5, SendingChanged
    <3>. QED BY <2>1, <3>1
  <2>7. UnderWay' = UnderWay
    BY <1>1, <2>3, <2>4, <2>5, JobChanged DEF JobTypes
  <2>. QED BY <1>3, <2>1, <2>6, <2>7
<1>13. ASSUME NEW j \in Jobs, OptionAnswered(j)
       PROVE  Goal
  <2>. DEFINE rest == Left(jobs[j].todo)
              job == IF DOMAIN rest = {} THEN NoJob
                     ELSE [at |-> "sent", todo |-> rest, early |-> jobs[j].early]
  <2>1. /\ j \in Sending /\ jobs' = [jobs EXCEPT ![j] = job]
        /\ formLoading' = (DOMAIN rest # {}) /\ UNCHANGED <<dialogOpen, hung>>
    BY <1>13 DEF OptionAnswered, LoadsOn
  <2>2. j \in UnderWay
    BY <2>1 DEF Sending
  <2>. HIDE DEF rest
  <2>3. (job # NoJob => job.at = "sent") /\ (job = NoJob <=> DOMAIN rest = {})
    BY DEF NoJob
  <2>. HIDE DEF job
  <2>4. /\ Sending' = IF job = NoJob THEN Sending \ {j} ELSE Sending \cup {j}
        /\ UnderWay' = IF job = NoJob THEN UnderWay \ {j} ELSE UnderWay
    BY <1>1, <2>1, <2>2, <2>3, SendingChanged, JobChanged DEF JobTypes
  <2>5. formLoading' <=> DOMAIN rest # {}
    BY <2>1
  <2>. QED BY <1>2, <1>3, <2>1, <2>2, <2>3, <2>4, <2>5
<1>14. ASSUME NEW j \in Jobs, PutLost(j)
       PROVE  Goal
  <2>1. j \in Sending /\ jobs' = [jobs EXCEPT ![j] = NoJob] /\ hung' = TRUE
        /\ UNCHANGED <<formLoading, dialogOpen>>
    BY <1>14 DEF PutLost
  <2>2. j \in UnderWay
    BY <2>1 DEF Sending
  <2>3. Sending' = Sending \ {j} /\ UnderWay' = UnderWay \ {j}
    BY <1>1, <2>1, <2>2, SendingChanged, JobChanged DEF JobTypes
  <2>. QED BY <1>3, <2>1, <2>3
<1>15. \/ UNCHANGED <<jobs, formLoading, hung, dialogOpen>>
       \/ \E k \in form.fields, v \in Texts : handleInputChange(k, v)
       \/ submit \/ submitOidc \/ toggle \/ PasswordWarning
       \/ \E i \in Jobs, found \in BOOLEAN : Discovered(i, found)
       \/ \E i \in Jobs : UpdateOption(i) \/ OptionAnswered(i) \/ PutLost(i)
  BY DEF SettingsNext, ServerReads, getOptions, OptionsLost, OtherAdministrator
<1>16. Goal
  <2>. HIDE DEF Goal
  <2>1. CASE UNCHANGED <<jobs, formLoading, hung, dialogOpen>>
    BY <1>4, <2>1 DEF Goal
  <2>2. CASE submit \/ submitOidc \/ toggle \/ PasswordWarning
    BY <1>7, <1>8, <1>9, <1>10, <2>2 DEF Goal
  <2>. QED BY <1>6, <1>11, <1>12, <1>13, <1>14, <1>15, <2>1, <2>2
<1>. QED BY <1>16

----------------------------------------------------------------------------
(* Nothing disturbs the page. *)

\* The first submit of a loaded page.
LEMMA LoneJobAdded ==
  ASSUME JobTypes, UnderWay = {}, fetched = "loaded", NEW sends, updateOption(sends)
  PROVE  \E i \in Jobs : /\ UnderWay' = {i} /\ jobs'[i].at = "sent" /\ jobs'[i].todo = sends
                         /\ ~jobs'[i].early
<1>1. PICK i \in Jobs :
        /\ jobs'[i] = [at |-> "sent", todo |-> sends, early |-> fetched # "loaded"]
        /\ UnderWay' = UnderWay \cup {i}
  BY JobAdded DEF JobTypes
<1>2. jobs'[i] = [at |-> "sent", todo |-> sends, early |-> FALSE]
  BY <1>1
<1>3. jobs'[i].at = "sent" /\ jobs'[i].todo = sends /\ jobs'[i].early = FALSE
  BY <1>2
<1>. QED BY <1>1, <1>3

\* A submit that nothing disturbs, and that sends what is due of what was touched, keeps
\* the page calm.
LEMMA CalmSubmit ==
  ASSUME JobTypes, form' = form, UnderWay = {}, fetched = "loaded", fetched' = "loaded",
         NEW sends, updateOption(sends),
         \A n \in DOMAIN form.submit, k \in touched' \ typedSince' :
           k = form.submit[n].key =>
             Settled(n, k)' \/ \E m \in DOMAIN sends : sends[m].key = k,
         \A k \in Keys : k = form.switch /\ k # Blank => \E m \in DOMAIN sends : sends[m].key = k
  PROVE  CalmInv'
<1>0. Keys' = Keys
  BY DEF Keys, SentKeys
<1>1. PICK i \in Jobs : /\ UnderWay' = {i} /\ jobs'[i].at = "sent" /\ jobs'[i].todo = sends
                        /\ ~jobs'[i].early
  BY LoneJobAdded
<1>2. CalmBefore'
  BY DEF CalmBefore
<1>3. CalmJobs'
  BY <1>1 DEF CalmJobs
<1>4. ASSUME NEW k, \E m \in DOMAIN sends : sends[m].key = k
      PROVE  Pending(k)'
  BY <1>1, <1>4 DEF Pending
<1>5. CalmItems'
  BY <1>4 DEF CalmItems
<1>6. CalmSwitch'
  BY <1>0, <1>4 DEF CalmSwitch
<1>. QED BY <1>2, <1>3, <1>5, <1>6 DEF CalmInv

\* The section of a checkbox has nothing else.
LEMMA SwitchForms ==
  ASSUME PageTypes, form.switch # Blank
  PROVE  form.fields = {} /\ DOMAIN form.submit = {} /\ form.switch \notin Hidden
         /\ "OidcWellKnown" \notin Keys
<1>1. FormSound(form) /\ Keys = OwnFields(form)
  BY FormFacts DEF PageTypes
<1>2. form.fields = {} /\ DOMAIN form.submit = {} /\ form.switch \notin Hidden
  BY <1>1 DEF FormSound
<1>3. Keys = {form.switch}
  BY <1>2 DEF Keys, SentKeys
<1>4. "OidcWellKnown" \in Keys => Endpoints \subseteq Keys
  BY <1>1 DEF FormSound
<1>5. "OidcWellKnown" \notin Keys
  BY <1>3, <1>4 DEF Endpoints
<1>. QED BY <1>2, <1>5

\* The options arrive as they are stored.
LEMMA CalmRead ==
  ASSUME SettingsInv, ServerReads \/ getOptions \/ OptionsLost
  PROVE  CalmInv'
<1>0. form' = form /\ Keys' = Keys
  BY FormStays DEF SettingsNext
<1>1. CalmBefore /\ PageTypes
  BY DEF SettingsInv, CalmInv
<1>2. jobs' = jobs /\ UnderWay' = UnderWay /\ fetched # "loaded" /\ stored' = stored
  BY DEF ServerReads, getOptions, OptionsLost, UnderWay, Jobs
<1>3. CASE ServerReads \/ OptionsLost
  <2>1. fetched' # "loaded" /\ upset' = upset /\ (fetched' = "read" => reading' = stored)
    BY <1>3 DEF ServerReads, OptionsLost
  <2>. QED BY <1>1, <1>2, <2>1 DEF CalmInv, CalmBefore, CalmJobs, CalmItems, CalmSwitch
<1>4. CASE getOptions
  <2>1. /\ fetched = "read" /\ fetched' = "loaded" /\ touched' = {}
        /\ inputs' = [k \in Keys |-> Given(k)]
        /\ ~upset' => ~upset /\ UnderWay = {}
    BY <1>4 DEF getOptions
  <2>2. ~upset' => UnderWay' = {} /\ reading = stored
    BY <1>1, <1>2, <2>1 DEF CalmBefore
  <2>3. \A k \in Keys : k = form.switch /\ k # Blank => inputs'[k] = reading[k]
    BY <1>1, <2>1, SwitchForms DEF Given
  <2>. HIDE DEF CalmInv
  <2>4. CalmBefore' /\ CalmJobs' /\ CalmItems'
    BY <2>1, <2>2 DEF CalmBefore, CalmJobs, CalmItems
  <2>5. CalmSwitch'
    BY <1>0, <1>2, <2>2, <2>3 DEF CalmSwitch
  <2>. QED BY <2>4, <2>5 DEF CalmInv
<1>. QED BY <1>3, <1>4

\* What is typed is no longer shown as stored, unless it is sent at once.
LEMMA CalmTyped ==
  ASSUME SettingsInv, NEW k \in form.fields, NEW v \in Texts, handleInputChange(k, v)
  PROVE  CalmInv'
<1>0. form' = form /\ Keys' = Keys /\ fetched' = fetched /\ k \in Keys
      /\ UNCHANGED <<originInputs, stored, reading>> /\ touched' = touched \cup {k}
  BY DEF handleInputChange, Keys, SentKeys
<1>1. CalmInv /\ PageTypes /\ JobTypes /\ ValueTypes /\ MarkTypes /\ form.switch = Blank
      /\ FormSound(form)
  BY SwitchForms, FormFacts DEF SettingsInv, PageTypes
<1>2. CASE /\ k \notin SentAsTyped[form.theme] /\ inputs' = [inputs EXCEPT ![k] = v]
           /\ typedSince' = typedSince \cup {k} /\ UNCHANGED <<jobs, formLoading, upset>>
  <2>1. UnderWay' = UnderWay /\ \A q \in Keys : q # k => inputs'[q] = inputs[q]
    BY <1>1, <1>2 DEF UnderWay, Jobs, ValueTypes, Shown
  <2>2. CalmBefore' /\ CalmJobs'
    BY <1>0, <1>1, <1>2, <2>1 DEF CalmInv, CalmBefore, CalmJobs
  <2>3. ASSUME ~upset', fetched' = "loaded", NEW n \in DOMAIN form.submit,
               NEW q \in touched' \ typedSince', q = form.submit[n].key
        PROVE  Settled(n, q)' \/ Pending(q)'
    <3>1. q # k /\ q \in touched \ typedSince /\ q \in Keys
      BY <1>0, <1>1, <1>2, <2>3 DEF MarkTypes
    <3>2. Settled(n, q) \/ Pending(q)
      BY <1>0, <1>1, <1>2, <2>3, <3>1 DEF CalmInv, CalmItems
    <3>3. inputs'[q] = inputs[q] /\ ValueSent(form.submit[n],
          inputs)' = ValueSent(form.submit[n], inputs)
      BY <1>0, <2>1, <2>3, <3>1 DEF ValueSent
    <3>4. Settled(n, q) => Settled(n, q)'
      BY <1>0, <3>3 DEF Settled
    <3>5. Pending(q) => Pending(q)'
      BY <1>2, <2>1 DEF Pending
    <3>. QED BY <3>2, <3>4, <3>5
  <2>4. CalmItems'
    BY <1>0, <2>3 DEF CalmItems
  <2>5. CalmSwitch'
    BY <1>0, <1>1 DEF CalmSwitch
  <2>. QED BY <2>2, <2>4, <2>5 DEF CalmInv
<1>3. CASE /\ k \in SentAsTyped[form.theme] /\ updateOption(Put(k, v)) /\ typedSince' = {}
           /\ upset' = (upset \/ Upsetting) /\ inputs' = inputs
  <2>1. CASE upset'
    BY <2>1 DEF CalmInv, CalmBefore, CalmJobs, CalmItems, CalmSwitch
  <2>2. CASE ~upset'
    <3>1. ~upset /\ UnderWay = {} /\ fetched = "loaded"
      BY <1>3, <2>2 DEF Upsetting
    <3>2. typedSince = {}
      <4>1. form.fields \subseteq SentAsTyped[form.theme]
        BY <1>1, <1>3 DEF FormSound
      <4>. QED BY <1>1, <4>1 DEF MarkTypes
    <3>3. DOMAIN Put(k, v) = {1} /\ Put(k, v)[1].key = k
      BY DEF Put
    <3>4. ASSUME NEW n \in DOMAIN form.submit, NEW q \in touched' \ typedSince',
          q = form.submit[n].key
          PROVE  Settled(n, q)' \/ \E m \in DOMAIN Put(k, v) : Put(k, v)[m].key = q
      <4>1. CASE q = k
        BY <3>3, <4>1
      <4>2. CASE q # k
        <5>1. Settled(n, q)
          BY <1>0, <1>1, <3>1, <3>2, <3>4, <4>2 DEF CalmInv, CalmItems, Pending
        <5>2. ValueSent(form.submit[n], inputs)' = ValueSent(form.submit[n], inputs)
          BY <1>0, <1>3 DEF ValueSent
        <5>. QED BY <1>0, <1>3, <5>1, <5>2 DEF Settled
      <4>. QED BY <4>1, <4>2
    <3>. QED BY <1>0, <1>1, <1>3, <3>1, <3>4, CalmSubmit
  <2>. QED BY <2>1, <2>2
<1>. QED BY <1>2, <1>3 DEF handleInputChange

\* A page that was disturbed promises nothing until the next click.
LEMMA CalmWhenUpset ==
  ASSUME upset'
  PROVE  CalmInv'
BY DEF CalmInv, CalmBefore, CalmJobs, CalmItems, CalmSwitch

\* A submit sends what is due.
LEMMA CalmSubmitted ==
  ASSUME SettingsInv, submit
  PROVE  CalmInv'
<1>. DEFINE sends == Calls(inputs, originInputs)
<1>0. /\ form' = form /\ fetched' = fetched /\ updateOption(sends)
      /\ UNCHANGED <<inputs, originInputs, stored, touched>>
      /\ upset' = (Upsetting \/ Stops(inputs, originInputs) # {})
  BY DEF submit
<1>1. PageTypes /\ JobTypes /\ ValueTypes /\ FormSound(form)
  BY FormFacts DEF SettingsInv, PageTypes
<1>2. CASE ~upset'
  <2>1. UnderWay = {} /\ fetched = "loaded" /\ Stops(inputs, originInputs) = {}
    BY <1>0, <1>2 DEF Upsetting
  <2>2. /\ DOMAIN sends \subseteq DOMAIN form.submit /\ DOMAIN sends # {}
        /\ \A n \in DOMAIN sends : sends[n].key = form.submit[n].key
    BY <1>0, <1>1, CallsSound DEF ValueTypes, updateOption
  <2>3. ASSUME NEW n \in DOMAIN form.submit, NEW k, k = form.submit[n].key
        PROVE  Settled(n, k)' \/ \E m \in DOMAIN sends : sends[m].key = k
    <3>1. CASE Due(form.submit[n], inputs, originInputs)
      <4>1. n \in DOMAIN sends
        BY <2>1, <3>1, CallsComplete
      <4>. QED BY <2>2, <2>3, <4>1
    <3>2. CASE ~Due(form.submit[n], inputs, originInputs)
      <4>1. \/ form.submit[n].test # "always" /\ originInputs[k] = inputs[k]
            \/ form.submit[n].test = "filled" /\ inputs[k] = Blank
            \/ form.submit[n].test = "joined"
        BY <2>3, <3>2 DEF Due, Differs
      <4>2. CASE form.submit[n].test = "joined"
        <5>1. DOMAIN form.submit = {n}
          BY <1>1, <4>2 DEF FormSound
        <5>. QED BY <2>2, <2>3, <5>1
      <4>. QED BY <1>0, <4>1, <4>2 DEF Settled
    <3>. QED BY <3>1, <3>2
  <2>4. \A k \in Keys : k = form.switch /\ k # Blank => FALSE
    BY <1>1, <2>2, SwitchForms
  <2>. HIDE DEF sends
  <2>. QED BY <1>0, <1>1, <2>1, <2>3, <2>4, CalmSubmit
<1>. QED BY <1>2, CalmWhenUpset

\* A submit that asks for the endpoints first may send anything.
LEMMA CalmAsked ==
  ASSUME SettingsInv, submitOidc
  PROVE  CalmInv'
<1>0. /\ form' = form /\ fetched' = fetched /\ inputs' = inputs /\ upset' = Upsetting
      /\ "OidcWellKnown" \in Keys /\ Keys' = Keys
  BY DEF submitOidc, Keys, SentKeys
<1>1. PageTypes /\ JobTypes
  BY DEF SettingsInv, PageTypes
<1>2. CASE ~upset'
  <2>1. UnderWay = {} /\ fetched = "loaded"
    BY <1>0, <1>2 DEF Upsetting
  <2>2. PICK i \in Jobs :
          /\ jobs'[i].at = "discovering" /\ jobs'[i].shown = inputs /\ ~jobs'[i].early
          /\ UnderWay' = {i}
    BY <1>1, <2>1, DiscoveryAdded
  <2>3. CalmBefore'
    BY <1>0, <2>1 DEF CalmBefore
  <2>4. CalmJobs'
    BY <1>0, <2>2 DEF CalmJobs
  <2>5. \A k : Pending(k)'
    BY <2>2 DEF Pending
  <2>6. CalmItems' /\ CalmSwitch'
    BY <2>5 DEF CalmItems, CalmSwitch
  <2>. QED BY <2>3, <2>4, <2>6 DEF CalmInv
<1>. QED BY <1>2, CalmWhenUpset

\* A checkbox sends its option, or asks before.
LEMMA CalmToggled ==
  ASSUME SettingsInv, toggle \/ PasswordWarning
  PROVE  CalmInv'
<1>0. /\ UNCHANGED <<form, inputs, originInputs, stored, fetched, reading>> /\ Keys' = Keys
      /\ form.switch # Blank
  BY DEF toggle, PasswordWarning, Keys, SentKeys, SettingsInv, PageTypes, PlainTypes
<1>1. PageTypes /\ JobTypes /\ CalmInv /\ DOMAIN form.submit = {}
  BY <1>0, SwitchForms DEF SettingsInv, PageTypes
<1>2. CASE UNCHANGED <<jobs, upset>>
  <2>1. UnderWay' = UnderWay
    BY <1>2 DEF UnderWay, Jobs
  <2>2. /\ CalmBefore
        /\ \A i, j \in UnderWay : ~upset /\ fetched = "loaded" => i = j
        /\ \A j \in UnderWay : ~upset /\ fetched = "loaded" =>
             /\ ~jobs[j].early /\ jobs[j].at # "refused" /\ jobs[j].at # "discovering"
             /\ jobs[j].at = "stored" => stored[First(jobs[j].todo).key] = First(jobs[j].todo).value
    <3>1. \A j \in UnderWay : jobs[j].at # "discovering"
      BY <1>0, <1>1, SwitchForms, DiscoveryTyped
    <3>. QED BY <1>1, <3>1 DEF CalmInv, CalmJobs
  <2>3. CalmBefore'
    BY <1>0, <1>2, <2>1, <2>2 DEF CalmBefore
  <2>4. CalmJobs'
    BY <1>0, <1>2, <2>1, <2>2 DEF CalmJobs
  <2>5. CalmItems'
    BY <1>0, <1>1 DEF CalmItems
  <2>6. CalmSwitch'
    BY <1>0, <1>1, <1>2, <2>1 DEF CalmInv, CalmSwitch, Pending
  <2>. QED BY <2>3, <2>4, <2>5, <2>6 DEF CalmInv
<1>3. CASE /\ updateOption(Put(form.switch, Opposite(form.switch))) /\ upset' = Upsetting
  <2>1. CASE ~upset'
    <3>. DEFINE sends == Put(form.switch, Opposite(form.switch))
    <3>1. UnderWay = {} /\ fetched = "loaded"
      BY <1>3, <2>1 DEF Upsetting
    <3>2. 1 \in DOMAIN sends /\ sends[1].key = form.switch
      BY DEF Put
    <3>3. updateOption(sends)
      BY <1>3
    <3>. HIDE DEF sends
    <3>. QED BY <1>0, <1>1, <3>1, <3>2, <3>3, CalmSubmit
  <2>. QED BY <2>1, CalmWhenUpset
<1>. QED BY <1>2, <1>3 DEF toggle, PasswordWarning

\* What the submit of a calm page has under way.
LEMMA LoneJob ==
  ASSUME SettingsInv, ~upset, NEW j \in UnderWay
  PROVE  /\ fetched = "loaded" /\ UnderWay = {j} /\ ~jobs[j].early /\ jobs[j].at # "refused"
         /\ jobs[j].at = "discovering" =>
              \A k \in Keys : jobs[j].shown[k] = inputs[k] \/ k \in typedSince
         /\ jobs[j].at = "stored" =>
              stored[First(jobs[j].todo).key] = First(jobs[j].todo).value
<1>1. CalmBefore /\ CalmJobs
  BY DEF SettingsInv, CalmInv
<1>2. fetched = "loaded"
  BY <1>1 DEF CalmBefore
<1>. QED BY <1>1, <1>2 DEF CalmJobs

\* The submit goes on with what it was to send, or is done.
LEMMA CalmJobChanged ==
  ASSUME JobTypes, NEW j \in UnderWay, UnderWay = {j}, NEW job, jobs' = [jobs EXCEPT ![j] = job],
         fetched' = fetched, fetched = "loaded", stored' = stored,
         job # NoJob => ~job.early /\ job.at = "sent"
  PROVE  /\ CalmBefore' /\ CalmJobs' /\ j \in Jobs /\ jobs'[j] = job
         /\ UnderWay' = IF job = NoJob THEN {} ELSE {j}
<1>1. /\ j \in Jobs /\ jobs'[j] = job
      /\ UnderWay' = IF job = NoJob THEN UnderWay \ {j} ELSE UnderWay
  BY JobChanged DEF JobTypes
<1>2. CalmBefore'
  BY DEF CalmBefore
<1>3. CalmJobs'
  BY <1>1 DEF CalmJobs
<1>. QED BY <1>1, <1>2, <1>3

\* With the endpoints, the submit sends what is due of the inputs that are shown.
LEMMA CalmDiscovered ==
  ASSUME SettingsInv, NEW j \in Jobs, NEW found \in BOOLEAN, Discovered(j, found)
  PROVE  CalmInv'
<1>. DEFINE view == Found(jobs[j], found)
            sends == Calls(view, Origin(jobs[j]))
            job == IF DOMAIN sends = {} THEN NoJob
                   ELSE [at |-> "sent", todo |-> sends, early |-> jobs[j].early]
<1>0. /\ j \in UnderWay /\ jobs[j].at = "discovering"
      /\ inputs' = IF inputs = jobs[j].shown THEN view ELSE inputs
      /\ jobs' = [jobs EXCEPT ![j] = job]
      /\ upset' = (upset \/ (found /\ inputs # jobs[j].shown))
      /\ UNCHANGED <<form, originInputs, stored, fetched, reading, typedSince>>
  BY DiscoveredStep
<1>1. PageTypes /\ JobTypes /\ ValueTypes /\ FormSound(form) /\ Keys = OwnFields(form)
  BY FormFacts DEF SettingsInv, PageTypes
<1>2. "OidcWellKnown" \in Keys
  BY <1>0, <1>1, DiscoveryTyped
<1>3. Keys' = Keys
  BY <1>0 DEF Keys, SentKeys
<1>4. CASE ~upset'
  <2>1. ~upset /\ (found => inputs = jobs[j].shown)
    BY <1>0, <1>4
  <2>2. /\ fetched = "loaded" /\ UnderWay = {j} /\ ~jobs[j].early
        /\ \A k \in Keys : jobs[j].shown[k] = inputs[k] \/ k \in typedSince
    BY <1>0, <2>1, LoneJob
  <2>3. Origin(jobs[j]) = originInputs
    BY <2>2 DEF Origin
  <2>4. \A k \in Keys : view[k] = inputs'[k] \/ k \in typedSince
    <3>1. CASE inputs = jobs[j].shown
      BY <1>0, <3>1
    <3>2. CASE inputs # jobs[j].shown
      <4>1. view = jobs[j].shown /\ inputs' = inputs
        BY <1>0, <2>1, <3>2 DEF Found
      <4>. HIDE DEF view
      <4>. QED BY <2>2, <4>1
    <3>. QED BY <3>1, <3>2
  <2>5. /\ DOMAIN sends \subseteq DOMAIN form.submit
        /\ \A n \in DOMAIN sends : sends[n].key = form.submit[n].key
    BY <1>0, <1>1, DiscoveredCalls, CallsSound
  <2>. DEFINE at == job.at
              todo == job.todo
  <2>6. job # NoJob => ~job.early /\ job.at = "sent" /\ job.todo = sends
    <3>. HIDE DEF sends
    <3>. QED BY <2>2
  <2>7. job = NoJob <=> DOMAIN sends = {}
    <3>. HIDE DEF sends
    <3>. QED BY DEF NoJob
  <2>. HIDE DEF job
  <2>8. /\ CalmBefore' /\ CalmJobs' /\ jobs'[j] = job
        /\ UnderWay' = IF job = NoJob THEN {} ELSE {j}
    BY <1>0, <1>1, <2>2, <2>6, CalmJobChanged
  <2>9. ASSUME NEW n \in DOMAIN form.submit, NEW k, k \notin typedSince, k = form.submit[n].key
        PROVE  Settled(n, k)' \/ Pending(k)'
    <3>1. k \in Keys /\ view[k] = inputs'[k]
      BY <2>4, <2>9 DEF Keys, SentKeys
    <3>2. \A i \in DOMAIN form.submit : form.submit[i].test \in {"changed", "filled"}
      BY <1>1, <1>2 DEF FormSound
    <3>3. Stops(view, originInputs) = {}
      BY <3>2 DEF Stops, ToSend, Invalid
    <3>4. CASE Due(form.submit[n], view, originInputs)
      <4>1. n \in DOMAIN sends
        BY <2>3, <3>3, <3>4, CallsComplete
      <4>2. sends[n].key = k /\ job # NoJob
        BY <2>5, <2>7, <2>9, <4>1
      <4>. HIDE DEF sends
      <4>3. jobs'[j].todo = sends /\ j \in UnderWay'
        BY <2>6, <2>8, <4>2
      <4>. QED BY <4>1, <4>2, <4>3 DEF Pending
    <3>5. CASE ~Due(form.submit[n], view, originInputs)
      <4>. HIDE DEF view
      <4>1. \/ originInputs[k] = view[k]
            \/ form.submit[n].test = "filled" /\ view[k] = Blank
        BY <2>9, <3>2, <3>5 DEF Due, Differs
      <4>. QED BY <1>0, <3>1, <3>2, <4>1 DEF Settled
    <3>. QED BY <3>4, <3>5
  <2>10. CalmItems'
    BY <1>0, <2>9 DEF CalmItems
  <2>11. CalmSwitch'
    BY <1>0, <1>1, <1>2, <1>3, SwitchForms DEF CalmSwitch
  <2>. QED BY <2>8, <2>10, <2>11 DEF CalmInv
<1>. QED BY <1>4, CalmWhenUpset

\* The server stores the option under way.
LEMMA CalmStored ==
  ASSUME SettingsInv, NEW j \in Jobs, UpdateOption(j)
  PROVE  CalmInv'
<1>. DEFINE put == First(jobs[j].todo)
            todo == jobs[j].todo
            job == [at |-> "stored", todo |-> todo, early |-> jobs[j].early]
<1>0. /\ j \in Sending /\ jobs[j].at = "sent" /\ Keys' = Keys
      /\ UNCHANGED <<form, inputs, originInputs, fetched, reading, touched, typedSince>>
  BY DEF UpdateOption, Keys, SentKeys
<1>1. JobTypes /\ CalmInv /\ ValueTypes
  BY DEF SettingsInv, PageTypes
<1>2. CASE ~upset'
  <2>1. /\ ~upset /\ stored' = [stored EXCEPT ![put.key] = put.value]
        /\ jobs' = [jobs EXCEPT ![j].at = "stored"]
    BY <1>2 DEF UpdateOption
  <2>2. /\ j \in UnderWay
        /\ jobs[j] = [at |-> jobs[j].at, todo |-> todo, early |-> jobs[j].early]
        /\ FirstAt(todo) \in DOMAIN todo /\ put = todo[FirstAt(todo)] /\ put.key \in Keys
    BY <1>0, <1>1, SendingTyped
  <2>3. fetched = "loaded" /\ UnderWay = {j} /\ ~jobs[j].early
    BY <2>1, <2>2, LoneJob
  <2>4. jobs' = [jobs EXCEPT ![j] = job]
    BY <2>1, <2>2, AtChanged
  <2>5. job.at = "stored" /\ job.todo = todo /\ ~job.early /\ job # NoJob
    BY <2>3 DEF NoJob
  <2>. HIDE DEF job
  <2>6. UnderWay' = {j} /\ jobs'[j] = job
    BY <1>1, <2>2, <2>3, <2>4, <2>5, JobChanged DEF JobTypes
  <2>7. stored'[put.key] = put.value /\ \A k \in Keys : k # put.key => stored'[k] = stored[k]
    BY <1>1, <2>1, <2>2 DEF ValueTypes
  <2>8. \A k : Pending(k)' <=> \E m \in DOMAIN todo : todo[m].key = k
    <3>. HIDE DEF todo
    <3>. QED BY <2>5, <2>6 DEF Pending
  <2>9. \A k : Pending(k) => Pending(k)'
    <3>1. \A k : Pending(k) => \E m \in DOMAIN todo : todo[m].key = k
      BY <1>0, <2>3 DEF Pending
    <3>. QED BY <2>8, <3>1
  <2>10. ASSUME NEW k, k = put.key
         PROVE  Pending(k)'
    <3>1. \E m \in DOMAIN todo : todo[m].key = k
      BY <2>2, <2>10
    <3>. QED BY <2>8, <3>1
  <2>11. CalmBefore'
    BY <1>0, <2>3 DEF CalmBefore
  <2>12. CalmJobs'
    <3>1. First(jobs'[j].todo) = put
      BY <2>5, <2>6
    <3>. HIDE DEF put, todo
    <3>. QED BY <2>5, <2>6, <2>7, <3>1 DEF CalmJobs
  <2>13. ASSUME NEW n \in DOMAIN form.submit, NEW k \in touched \ typedSince, k = form.submit[n].key
         PROVE  Settled(n, k)' \/ Pending(k)'
    <3>1. CASE k = put.key
      BY <2>10, <3>1
    <3>2. CASE k # put.key
      <4>1. k \in Keys /\ stored'[k] = stored[k]
        BY <2>7, <2>13, <3>2 DEF Keys, SentKeys
      <4>2. Settled(n, k) \/ Pending(k)
        BY <1>1, <2>1, <2>3, <2>13 DEF CalmInv, CalmItems
      <4>3. ValueSent(form.submit[n], inputs)' = ValueSent(form.submit[n], inputs)
        BY <1>0 DEF ValueSent
      <4>4. Settled(n, k) => Settled(n, k)'
        BY <1>0, <4>1, <4>3 DEF Settled
      <4>. QED BY <2>9, <4>2, <4>4
    <3>. QED BY <3>1, <3>2
  <2>14. CalmItems'
    BY <1>0, <2>13 DEF CalmItems
  <2>15. ASSUME NEW k \in Keys, k = form.switch, k # Blank
         PROVE  inputs[k] = stored'[k] \/ Pending(k)'
    <3>1. inputs[k] = stored[k] \/ Pending(k)
      BY <1>1, <2>1, <2>3, <2>15 DEF CalmInv, CalmSwitch
    <3>. QED BY <2>7, <2>9, <2>10, <3>1
  <2>16. CalmSwitch'
    BY <1>0, <2>15 DEF CalmSwitch
  <2>. QED BY <2>11, <2>12, <2>14, <2>16 DEF CalmInv
<1>. QED BY <1>2, CalmWhenUpset

\* The page shows what the server stored.
LEMMA CalmAnswered ==
  ASSUME SettingsInv, NEW j \in Jobs, OptionAnswered(j)
  PROVE  CalmInv'
<1>. DEFINE todo == jobs[j].todo
            put == First(todo)
            rest == Left(todo)
            job == IF DOMAIN rest = {} THEN NoJob
                   ELSE [at |-> "sent", todo |-> rest, early |-> jobs[j].early]
<1>0. /\ j \in Sending /\ jobs[j].at \in {"stored", "refused"} /\ Keys' = Keys
      /\ jobs' = [jobs EXCEPT ![j] = job]
      /\ UNCHANGED <<form, originInputs, stored, fetched, reading, upset>>
      /\ jobs[j].at = "stored" => /\ inputs' = [inputs EXCEPT ![put.key] = put.value]
                                  /\ typedSince' = typedSince \ {put.key}
                                  /\ touched' = touched \cup {put.key}
  BY DEF OptionAnswered, Keys, SentKeys
<1>1. JobTypes /\ CalmInv /\ ValueTypes /\ TodoSound(todo)
  BY <1>0 DEF SettingsInv, PageTypes, SentInv
<1>2. CASE ~upset'
  <2>1. ~upset /\ j \in UnderWay
    BY <1>0, <1>2 DEF Sending
  <2>2. /\ fetched = "loaded" /\ UnderWay = {j} /\ ~jobs[j].early
        /\ jobs[j].at = "stored" /\ stored[put.key] = put.value
    BY <1>0, <2>1, LoneJob
  <2>3. /\ TodoTyped(todo) /\ FirstAt(todo) \in DOMAIN todo /\ put = todo[FirstAt(todo)]
        /\ put.key \in Keys
    BY <1>0, <1>1, SendingTyped
  <2>4. inputs'[put.key] = put.value /\ \A k \in Keys : k # put.key => inputs'[k] = inputs[k]
    BY <1>0, <1>1, <2>2, <2>3 DEF ValueTypes, Shown
  <2>5. \A m \in DOMAIN todo : todo[m].key # put.key => m \in DOMAIN rest /\ rest[m] = todo[m]
    BY <2>3, LeftTyped
  <2>6. job # NoJob => ~job.early /\ job.at = "sent" /\ job.todo = rest
    <3>. HIDE DEF rest
    <3>. QED BY <2>2
  <2>7. job = NoJob <=> DOMAIN rest = {}
    <3>. HIDE DEF rest
    <3>. QED BY DEF NoJob
  <2>. HIDE DEF job
  <2>8. /\ CalmBefore' /\ CalmJobs' /\ jobs'[j] = job
        /\ UnderWay' = IF job = NoJob THEN {} ELSE {j}
    BY <1>0, <1>1, <2>1, <2>2, <2>6, CalmJobChanged
  <2>9. ASSUME NEW k, Pending(k), k # put.key
        PROVE  Pending(k)'
    <3>1. PICK m \in DOMAIN todo : todo[m].key = k
      BY <1>0, <2>2, <2>9 DEF Pending
    <3>2. m \in DOMAIN rest /\ rest[m].key = k
      BY <2>5, <2>9, <3>1
    <3>. HIDE DEF rest
    <3>3. j \in UnderWay' /\ jobs'[j].todo = rest
      BY <2>6, <2>7, <2>8, <3>2
    <3>. QED BY <3>2, <3>3 DEF Pending
  <2>. HIDE DEF rest
  <2>10. ASSUME NEW n \in DOMAIN form.submit, NEW k \in touched' \ typedSince',
         k = form.submit[n].key
         PROVE  Settled(n, k)' \/ Pending(k)'
    <3>1. CASE k = put.key
      <4>1. stored'[k] = put.value /\ inputs'[k] = put.value
        BY <1>0, <2>2, <2>4, <3>1
      <4>2. CASE k \in SentAsTyped[form.theme]
        BY <1>0, <4>1, <4>2 DEF Settled
      <4>3. CASE k \notin SentAsTyped[form.theme]
        <5>1. form.submit[n].test = "address" \/ k = "ServerAddress" =>
                removeTrailingSlash(put.value) = put.value
          BY <1>1, <2>3, <2>10, <3>1, <4>3 DEF TodoSound
        <5>2. form'.submit[n] = form.submit[n] /\ form'.theme = form.theme
          BY <1>0
        <5>3. ValueSent(form.submit[n], inputs)' = put.value
          BY <2>10, <4>1, <5>1, <5>2 DEF ValueSent
        <5>. QED BY <4>1, <4>3, <5>2, <5>3 DEF Settled
      <4>. QED BY <4>2, <4>3
    <3>2. CASE k # put.key
      <4>1. k \in touched \ typedSince
        BY <1>0, <2>2, <2>10, <3>2
      <4>2. Settled(n, k) \/ Pending(k)
        BY <1>1, <2>1, <2>2, <2>10, <4>1 DEF CalmInv, CalmItems
      <4>3. k \in Keys /\ inputs'[k] = inputs[k]
        BY <2>4, <2>10, <3>2 DEF Keys, SentKeys
      <4>4. ValueSent(form.submit[n], inputs)' = ValueSent(form.submit[n], inputs)
        BY <1>0, <2>10, <4>3 DEF ValueSent
      <4>5. Settled(n, k) => Settled(n, k)'
        BY <1>0, <4>3, <4>4 DEF Settled
      <4>. QED BY <2>9, <3>2, <4>2, <4>5
    <3>. QED BY <3>1, <3>2
  <2>11. CalmItems'
    <3>1. DOMAIN form'.submit = DOMAIN form.submit
          /\ \A n \in DOMAIN form.submit : form'.submit[n] = form.submit[n]
      BY <1>0
    <3>. QED BY <2>10, <3>1 DEF CalmItems
  <2>12. ASSUME NEW k \in Keys, k = form.switch, k # Blank
         PROVE  inputs'[k] = stored'[k] \/ Pending(k)'
    <3>1. inputs[k] = stored[k] \/ Pending(k)
      BY <1>1, <2>1, <2>2, <2>12 DEF CalmInv, CalmSwitch
    <3>. QED BY <1>0, <2>2, <2>4, <2>9, <3>1
  <2>13. CalmSwitch'
    BY <1>0, <2>12 DEF CalmSwitch
  <2>. QED BY <2>8, <2>11, <2>13 DEF CalmInv
<1>. QED BY <1>2, CalmWhenUpset

\* Every step keeps the page calm, or upsets it.
LEMMA CalmNext ==
  ASSUME SettingsInv, SettingsNext
  PROVE  CalmInv'
<1>1. (\E j \in Jobs : PutLost(j)) \/ (\E k \in Keys : OtherAdministrator(k)) => upset'
  BY DEF PutLost, OtherAdministrator
<1>2. CASE upset'
  BY <1>2, CalmWhenUpset
<1>3. CASE ~upset'
  <2>1. \/ ServerReads \/ getOptions \/ OptionsLost
        \/ \E k \in form.fields, v \in Texts : handleInputChange(k, v)
        \/ submit \/ submitOidc \/ toggle \/ PasswordWarning
        \/ \E j \in Jobs, found \in BOOLEAN : Discovered(j, found)
        \/ \E j \in Jobs : UpdateOption(j) \/ OptionAnswered(j)
    BY <1>1, <1>3 DEF SettingsNext
  <2>. HIDE DEF CalmInv
  <2>. QED BY <2>1, CalmRead, CalmTyped, CalmSubmitted, CalmAsked, CalmToggled, CalmDiscovered,
              CalmStored, CalmAnswered
<1>. QED BY <1>2, <1>3

\* The invariant holds at first, and every step keeps it.
LEMMA SettingsInitially == ASSUME SettingsInit PROVE SettingsInv
<1>1. UnderWay = {} /\ Sending = {}
  BY DEF SettingsInit, UnderWay, Sending, NoJob
<1>2. /\ inputs = NothingLoaded /\ originInputs = Undefined /\ fetched = "asked" /\ touched = {}
      /\ typedSince = {} /\ formLoading = FALSE /\ jobs = [j \in Jobs |-> NoJob]
      /\ dialogOpen = FALSE
  BY DEF SettingsInit
<1>3. PlainTypes
  <2>1. edits \in 0..MaxEdits
    <3>1. MaxEdits \in Nat /\ edits = 0
      BY SettingsAssumption DEF SettingsInit
    <3>. QED BY <3>1
  <2>2. upset = FALSE /\ hung = FALSE /\ form \in DefaultForms \cup AirForms \cup BerryForms
    BY DEF SettingsInit
  <2>. QED BY <1>2, <2>1, <2>2 DEF PlainTypes
<1>4. ValueTypes
  <2>1. stored \in [Keys -> Values]
    BY DEF SettingsInit, Values
  <2>. QED BY <1>2, <2>1, UndefinedShown DEF ValueTypes
<1>5. MarkTypes
  BY <1>2 DEF MarkTypes
<1>6. JobTypes
  BY <1>2 DEF JobTypes, JobsAre, JobTyped
<1>7. TouchedInv /\ SentInv /\ LockedInv
  BY <1>1, <1>2 DEF TouchedInv, SentInv, LockedInv, SettingsLocked
<1>8. CalmInv
  BY <1>1, <1>2 DEF CalmInv, CalmBefore, CalmJobs, CalmItems, CalmSwitch
<1>. QED BY <1>3, <1>4, <1>5, <1>6, <1>7, <1>8 DEF SettingsInv, PageTypes

LEMMA SettingsStutter == ASSUME SettingsInv, UNCHANGED settingVars PROVE SettingsInv'
<1>. USE DEF settingVars
<1>1. Keys' = Keys /\ UnderWay' = UnderWay /\ Sending' = Sending
  BY DEF Keys, SentKeys, UnderWay, Sending
<1>2. Shown' = Shown
  BY <1>1 DEF Shown
<1>3. PlainTypes'
  BY <1>1 DEF SettingsInv, PageTypes, PlainTypes, Undefined
<1>4. ValueTypes' /\ MarkTypes'
  BY <1>1, <1>2 DEF SettingsInv, PageTypes, ValueTypes, MarkTypes
<1>5. JobTypes'
  BY <1>1, <1>2 DEF SettingsInv, PageTypes, JobTypes, JobsAre, JobTyped, TodoTyped
<1>6. TouchedInv'
  BY <1>1 DEF SettingsInv, TouchedInv, JobTouched
<1>7. SentInv' /\ LockedInv'
  BY <1>1 DEF SettingsInv, SentInv, TodoSound, LockedInv, SettingsLocked
<1>8. CalmInv'
  BY <1>1 DEF SettingsInv, CalmInv, CalmBefore, CalmJobs, CalmItems, CalmSwitch, Settled, Pending,
       ValueSent
<1>. QED BY <1>3, <1>4, <1>5, <1>6, <1>7, <1>8 DEF SettingsInv, PageTypes

LEMMA SettingsStep == ASSUME SettingsInv, [SettingsNext]_settingVars PROVE SettingsInv'
<1>1. CASE SettingsNext
  <2>1. PageTypes /\ TouchedInv /\ SentInv /\ LockedInv
    BY DEF SettingsInv
  <2>2. PageTypes'
    BY <1>1, <2>1, PlainNext, ValuesNext, MarksNext, JobsNext DEF PageTypes
  <2>. QED BY <1>1, <2>1, <2>2, TouchedNext, SentNext, LockedNext, CalmNext DEF SettingsInv
<1>. QED BY <1>1, SettingsStutter

\* The inductive invariant of the option pages.
LEMMA SettingsInvariant == SettingsSpec => []SettingsInv
<1>1. SettingsInit => SettingsInv
  BY SettingsInitially
<1>2. SettingsInv /\ [SettingsNext]_settingVars => SettingsInv'
  BY SettingsStep
<1>. QED BY <1>1, <1>2, PTL DEF SettingsSpec

----------------------------------------------------------------------------
(* The theorems. *)

LEMMA SettingsHaveTypes == SettingsInv => SettingsTypeOK
<1>1. ASSUME SettingsInv PROVE SettingsTypeOK
  <2>1. PlainTypes /\ ValueTypes /\ MarkTypes
    BY <1>1 DEF SettingsInv, PageTypes
  <2>2. Values \cup {None} = Texts \cup {None, "true", "false"}
        /\ Values = Texts \cup {"true", "false"}
    BY DEF Values, Texts, Blank
  <2>3. /\ inputs \in [Keys -> Values \cup {None}] /\ originInputs \in [Keys -> Values \cup {None}]
        /\ stored \in [Keys -> Values] /\ touched \subseteq Keys /\ typedSince \subseteq touched
        /\ \A k \in Hidden \cap Keys : originInputs[k] = None
    BY <2>1 DEF ValueTypes, MarkTypes, Shown
  <2>4. /\ form \in DefaultForms \cup AirForms \cup BerryForms
        /\ fetched \in {"asked", "read", "loaded", "lost"}
        /\ {formLoading, dialogOpen, upset, hung} \subseteq BOOLEAN
        /\ edits \in 0..MaxEdits
    BY <2>1 DEF PlainTypes
  <2>. QED BY <2>2, <2>3, <2>4 DEF SettingsTypeOK
<1>. QED BY <1>1

\* The variables of the option pages have their types at all times; what a page loaded
\* never holds a token or a secret (getOptions of the three SystemSetting pages).
THEOREM SettingsAreTyped == SettingsSpec => []SettingsTypeOK
BY SettingsHaveTypes, SettingsInvariant, PTL

\* A calm page with nothing under way shows what is stored.
LEMMA StoredIsShown == ASSUME SettingsInv PROVE ShownIsStored
<1>. SUFFICES ASSUME UnderWay = {}, fetched = "loaded", ~upset
              PROVE  /\ \A i \in DOMAIN Calls(inputs, originInputs) :
                          LET k == Calls(inputs, originInputs)[i].key IN
                          k \in touched \ typedSince =>
                            stored[k] = IF k \in SentAsTyped[form.theme] THEN inputs[k]
                                        ELSE Calls(inputs, originInputs)[i].value
                     /\ form.switch # Blank => inputs[form.switch] = stored[form.switch]
  BY DEF ShownIsStored
<1>1. PageTypes /\ ValueTypes /\ FormSound(form) /\ CalmInv
  BY FormFacts DEF SettingsInv, PageTypes
<1>2. \A k : ~Pending(k)
  BY DEF Pending
<1>. DEFINE sends == Calls(inputs, originInputs)
<1>3. ASSUME NEW i \in DOMAIN sends, sends[i].key \in touched \ typedSince
      PROVE  stored[sends[i].key] = IF sends[i].key \in SentAsTyped[form.theme]
                                    THEN inputs[sends[i].key] ELSE sends[i].value
  <2>1. /\ i \in DOMAIN form.submit /\ sends[i].key = form.submit[i].key
        /\ sends[i].value = ValueSent(form.submit[i], inputs)
        /\ Due(form.submit[i], inputs, originInputs)
    BY <1>1, <1>3, CallsSound DEF ValueTypes
  <2>2. Settled(i, form.submit[i].key)
    BY <1>1, <1>2, <1>3, <2>1 DEF CalmInv, CalmItems
  <2>. HIDE DEF sends
  <2>3. /\ originInputs[form.submit[i].key] = inputs[form.submit[i].key] =>
             form.submit[i].test = "always"
        /\ ~(form.submit[i].test = "filled" /\ inputs[form.submit[i].key] = Blank)
    BY <2>1 DEF Due, Differs
  <2>. QED BY <2>1, <2>2, <2>3 DEF Settled
<1>4. form.switch # Blank => inputs[form.switch] = stored[form.switch]
  <2>1. form.switch # Blank => form.switch \in Keys
    BY DEF Keys
  <2>. QED BY <1>1, <1>2, <2>1 DEF CalmInv, CalmSwitch
<1>. QED BY <1>3, <1>4

\* For any number of edits and of submits under way: a page that nothing disturbed shows
\* what is stored, a submit of a loaded page sends only what was touched, and the page is
\* locked exactly while a PUT is under way (submit, updateOption and handleInputChange).
THEOREM SettingsShowWhatIsStored == SettingsSpec => []SettingsAreTrue
<1>1. ASSUME SettingsInv PROVE SettingsAreTrue
  <2>1. ShownIsStored
    BY <1>1, StoredIsShown
  <2>2. OnlyTouchedAreSent
    BY <1>1 DEF SettingsInv, TouchedInv, JobTouched, OnlyTouchedAreSent, Sending
  <2>3. SettingsLocked
    BY <1>1 DEF SettingsInv, LockedInv
  <2>. QED BY <2>1, <2>2, <2>3 DEF SettingsAreTrue
<1>. QED BY <1>1, SettingsInvariant, PTL

\* What the page shows of a token or a secret, and what it sends for one, was entered.
ShowsEntered(view) ==
  \A k \in Hidden \cap Keys : view[k] \in {None, Blank} \/ <<k, view[k]>> \in entered
TodoEntered(t) ==
  \A n \in DOMAIN t :
    t[n].key \in Hidden => /\ <<t[n].key, t[n].value>> \in entered
                           /\ t[n].value = Blank => t[n].key \in SentAsTyped[form.theme]

SecretInv ==
  /\ SecretsKept
  /\ ShowsEntered(inputs)
  /\ \A j \in UnderWay : jobs[j].at = "discovering" => ShowsEntered(jobs[j].shown)
  /\ \A j \in Sending : TodoEntered(jobs[j].todo)

\* What was entered is not forgotten.
LEMMA EnteredGrows ==
  ASSUME SettingsNext
  PROVE  entered \subseteq entered'
<1>1. entered' = entered \/ \E k, v : entered' = EnteredAlso(k, v)
  BY DEF SettingsNext, ServerReads, getOptions, OptionsLost, handleInputChange, submit,
     submitOidc, toggle, PasswordWarning, Discovered, UpdateOption, OptionAnswered, PutLost,
     OtherAdministrator
<1>. QED BY <1>1 DEF EnteredAlso

\* A submit sends a token or a secret only where its field is filled, with what it shows.
LEMMA CallsEntered ==
  ASSUME FormSound(form), NEW view \in Shown, NEW origin \in Shown,
         \A k \in Keys : view[k] = None => k \in Hidden,
         \A k \in Hidden \cap Keys : origin[k] = None, ShowsEntered(view)
  PROVE  TodoEntered(Calls(view, origin))
<1>. DEFINE t == Calls(view, origin)
<1>1. \A n \in DOMAIN t :
        /\ n \in DOMAIN form.submit /\ form.submit[n].key \in Keys
        /\ t[n].key = form.submit[n].key /\ t[n].value = ValueSent(form.submit[n], view)
        /\ Due(form.submit[n], view, origin)
  BY CallsSound
<1>. HIDE DEF t
<1>2. ASSUME NEW n \in DOMAIN t, t[n].key \in Hidden
      PROVE  <<t[n].key, t[n].value>> \in entered /\ t[n].value # Blank
  <2>. DEFINE k == form.submit[n].key
  <2>1. k \in Hidden \cap Keys /\ form.submit[n].test = "filled" /\ k # "ServerAddress"
    BY <1>1, <1>2 DEF FormSound, Hidden
  <2>2. view[k] # None /\ view[k] # Blank
    BY <1>1, <2>1 DEF Due, Differs
  <2>3. t[n].key = k /\ t[n].value = view[k]
    BY <1>1, <2>1 DEF ValueSent
  <2>. QED BY <2>1, <2>2, <2>3 DEF ShowsEntered
<1>. QED BY <1>2 DEF TodoEntered, t

\* The inputs that endpoints are asked for are those of a click.
LEMMA DiscoveriesNext ==
  ASSUME PageTypes, SettingsNext, NEW j \in UnderWay', jobs'[j].at = "discovering"
  PROVE  (j \in UnderWay /\ jobs'[j] = jobs[j]) \/ jobs'[j].shown = inputs
<1>. DEFINE Goal == jobs'[j] = jobs[j] \/ jobs'[j].shown = inputs
<1>1. JobTypes /\ j \in Jobs /\ jobs'[j] # NoJob
  BY DEF PageTypes, UnderWay, Jobs
<1>2. ASSUME NEW sends, updateOption(sends)
      PROVE  Goal
  <2>1. PICK i \in Jobs :
         /\ jobs'[i] = [at |-> "sent", todo |-> sends, early |-> fetched # "loaded"]
         /\ \A q \in Jobs : q # i => jobs'[q] = jobs[q]
    BY <1>1, <1>2, JobAdded DEF JobTypes
  <2>2. jobs'[i].at = "sent"
    BY <2>1
  <2>. QED BY <1>1, <2>1, <2>2
<1>3. ASSUME submitOidc PROVE Goal
  <2>1. PICK i \in Jobs : /\ jobs'[i].shown = inputs
                          /\ \A q \in Jobs : q # i => jobs'[q] = jobs[q]
    BY <1>1, <1>3, DiscoveryAdded
  <2>. QED BY <1>1, <2>1
<1>4. ASSUME NEW i \in UnderWay, NEW job, jobs' = [jobs EXCEPT ![i] = job],
             job # NoJob => job.at # "discovering"
      PROVE  Goal
  BY <1>1, <1>4, JobChanged DEF JobTypes
<1>5. ASSUME NEW i \in Jobs, NEW found \in BOOLEAN, Discovered(i, found)
      PROVE  Goal
  <2>. DEFINE sends == Calls(Found(jobs[i], found), Origin(jobs[i]))
              job == IF DOMAIN sends = {} THEN NoJob
                     ELSE [at |-> "sent", todo |-> sends, early |-> jobs[i].early]
  <2>1. i \in UnderWay /\ jobs' = [jobs EXCEPT ![i] = job]
    BY <1>5, DiscoveredStep
  <2>. HIDE DEF sends, Goal
  <2>2. job # NoJob => job.at # "discovering"
    OBVIOUS
  <2>. HIDE DEF job
  <2>. QED BY <1>4, <2>1, <2>2
<1>6. ASSUME NEW i \in Jobs, UpdateOption(i)
      PROVE  Goal
  <2>1. i \in Sending /\ \E x \in {"stored", "refused"} : jobs' = [jobs EXCEPT ![i].at = x]
    BY <1>6 DEF UpdateOption
  <2>2. PICK x \in {"stored", "refused"} : jobs' = [jobs EXCEPT ![i].at = x]
    BY <2>1
  <2>3. jobs[i] = [at |-> jobs[i].at, todo |-> jobs[i].todo, early |-> jobs[i].early]
        /\ i \in UnderWay
    BY <1>1, <2>1, SendingTyped
  <2>. DEFINE job == [at |-> x, todo |-> jobs[i].todo, early |-> jobs[i].early]
  <2>4. jobs' = [jobs EXCEPT ![i] = job]
    BY <2>2, <2>3, AtChanged
  <2>5. job.at # "discovering"
    OBVIOUS
  <2>. HIDE DEF job, Goal
  <2>. QED BY <1>4, <2>3, <2>4, <2>5
<1>7. ASSUME NEW i \in Jobs, OptionAnswered(i) \/ PutLost(i)
      PROVE  Goal
  <2>. DEFINE rest == Left(jobs[i].todo)
              next == [at |-> "sent", todo |-> rest, early |-> jobs[i].early]
  <2>1. i \in Sending
        /\ (jobs' = [jobs EXCEPT ![i] = NoJob] \/ jobs' = [jobs EXCEPT ![i] = next])
    BY <1>7 DEF OptionAnswered, PutLost
  <2>2. i \in UnderWay /\ next.at # "discovering"
    BY <2>1 DEF Sending
  <2>. HIDE DEF next, Goal
  <2>. QED BY <1>4, <2>1, <2>2
<1>8. \/ jobs' = jobs
      \/ \E sends : updateOption(sends)
      \/ submitOidc
      \/ \E i \in Jobs, found \in BOOLEAN : Discovered(i, found)
      \/ \E i \in Jobs : UpdateOption(i) \/ OptionAnswered(i) \/ PutLost(i)
  BY DEF SettingsNext, ServerReads, getOptions, OptionsLost, handleInputChange, submit, toggle,
     PasswordWarning, OtherAdministrator
<1>9. Goal
  BY <1>2, <1>3, <1>5, <1>6, <1>7, <1>8
<1>10. jobs'[j] = jobs[j] => j \in UnderWay
  BY <1>1 DEF UnderWay
<1>. QED BY <1>9, <1>10

\* What the page shows of its secrets, and asks endpoints with, stays entered.
LEMMA ShownEntered ==
  ASSUME SettingsInv, SecretInv, SettingsNext
  PROVE  ShowsEntered(inputs)' /\ \A j \in UnderWay' :
            jobs'[j].at = "discovering" => ShowsEntered(jobs[j].shown)'
<1>1. /\ PageTypes /\ ValueTypes /\ JobTypes /\ form' = form /\ Keys' = Keys
      /\ entered \subseteq entered'
  BY EnteredGrows, FormStays DEF SettingsInv, PageTypes
<1>2. ASSUME NEW view, ShowsEntered(view)
      PROVE  \A k \in Hidden \cap Keys : view[k] \in {None, Blank} \/ <<k, view[k]>> \in entered'
  BY <1>1, <1>2 DEF ShowsEntered
<1>3. ASSUME NEW j \in UnderWay', jobs'[j].at = "discovering"
      PROVE  ShowsEntered(jobs[j].shown)'
  <2>1. \/ jobs'[j].shown = inputs
        \/ j \in UnderWay /\ jobs[j].at = "discovering" /\ jobs'[j].shown = jobs[j].shown
    BY <1>1, <1>3, DiscoveriesNext
  <2>. DEFINE view == jobs'[j].shown
  <2>2. ShowsEntered(view)
    BY <2>1 DEF SecretInv
  <2>. HIDE DEF view
  <2>3. \A k \in Hidden \cap Keys : view[k] \in {None, Blank} \/ <<k, view[k]>> \in entered'
    BY <1>2, <2>2
  <2>. QED BY <1>1, <2>3 DEF ShowsEntered, view
<1>4. ASSUME NEW k \in Hidden \cap Keys
      PROVE  inputs'[k] \in {None, Blank} \/ <<k, inputs'[k]>> \in entered'
  <2>1. inputs[k] \in {None, Blank} \/ <<k, inputs[k]>> \in entered'
    BY <1>1, <1>2 DEF SecretInv
  <2>2. CASE inputs' = inputs
    BY <2>1, <2>2
  <2>3. CASE getOptions
    <3>1. inputs'[k] = None
      BY <2>3 DEF getOptions, Given
    <3>. QED BY <3>1
  <2>4. ASSUME NEW q \in form.fields, NEW v \in Texts, handleInputChange(q, v)
        PROVE  inputs'[k] \in {None, Blank} \/ <<k, inputs'[k]>> \in entered'
    <3>1. (inputs' = [inputs EXCEPT ![q] = v] \/ inputs' = inputs) /\ entered' = EnteredAlso(q, v)
      BY <2>4 DEF handleInputChange
    <3>2. inputs'[k] = inputs[k] \/ (q = k /\ inputs'[k] = v)
      BY <1>1, <3>1 DEF ValueTypes, Shown
    <3>3. q = k => <<k, v>> \in entered'
      BY <3>1 DEF EnteredAlso
    <3>. QED BY <2>1, <3>2, <3>3
  <2>5. ASSUME NEW j \in Jobs, NEW found \in BOOLEAN, Discovered(j, found)
        PROVE  inputs'[k] \in {None, Blank} \/ <<k, inputs'[k]>> \in entered'
    <3>1. /\ j \in UnderWay /\ jobs[j].at = "discovering"
          /\ inputs' = inputs \/ inputs' = Found(jobs[j], found)
      BY <2>5, DiscoveredStep
    <3>2. k \notin Endpoints
      BY DEF Hidden, Endpoints
    <3>3. Found(jobs[j], found)[k] = jobs[j].shown[k]
      BY <1>1, <3>1, <3>2, DiscoveredCalls
    <3>4. ShowsEntered(jobs[j].shown)
      BY <3>1 DEF SecretInv
    <3>5. jobs[j].shown[k] \in {None, Blank} \/ <<k, jobs[j].shown[k]>> \in entered'
      BY <1>2, <3>4
    <3>. QED BY <2>1, <3>1, <3>3, <3>5
  <2>6. ASSUME NEW j \in Jobs, OptionAnswered(j)
        PROVE  inputs'[k] \in {None, Blank} \/ <<k, inputs'[k]>> \in entered'
    <3>. DEFINE todo == jobs[j].todo
                put == First(todo)
    <3>1. /\ j \in Sending
          /\ inputs' = [inputs EXCEPT ![put.key] = put.value] \/ inputs' = inputs
      BY <2>6 DEF OptionAnswered
    <3>2. FirstAt(todo) \in DOMAIN todo /\ put = todo[FirstAt(todo)] /\ TodoEntered(todo)
      BY <1>1, <3>1, SendingTyped DEF SecretInv
    <3>3. put.key \in Hidden => <<put.key, put.value>> \in entered
      BY <3>2 DEF TodoEntered
    <3>. HIDE DEF put
    <3>4. inputs'[k] = inputs[k] \/ (put.key = k /\ inputs'[k] = put.value)
      BY <1>1, <3>1 DEF ValueTypes, Shown
    <3>. QED BY <1>1, <2>1, <3>3, <3>4
  <2>7. \/ inputs' = inputs \/ getOptions
        \/ \E q \in form.fields, v \in Texts : handleInputChange(q, v)
        \/ \E j \in Jobs, found \in BOOLEAN : Discovered(j, found)
        \/ \E j \in Jobs : OptionAnswered(j)
    BY DEF SettingsNext, ServerReads, OptionsLost, submit, submitOidc, toggle, PasswordWarning,
       UpdateOption, PutLost, OtherAdministrator
  <2>. QED BY <2>2, <2>3, <2>4, <2>5, <2>6, <2>7
<1>5. ShowsEntered(inputs)'
  BY <1>1, <1>4 DEF ShowsEntered
<1>. QED BY <1>3, <1>5

\* What the page sends for its secrets was entered.
LEMMA SentEntered ==
  ASSUME SettingsInv, SecretInv, SettingsNext, NEW j \in Sending'
  PROVE  TodoEntered(jobs[j].todo)'
<1>1. /\ PageTypes /\ JobTypes /\ FormSound(form) /\ form' = form /\ entered \subseteq entered'
  BY EnteredGrows, FormFacts, FormStays DEF SettingsInv, PageTypes
<1>. DEFINE t == jobs'[j].todo
            Sound == \A n \in DOMAIN t :
                t[n].key \in Hidden => /\ <<t[n].key, t[n].value>> \in entered'
                                       /\ t[n].value = Blank => t[n].key \in SentAsTyped[form.theme]
<1>2. TodoEntered(t) => Sound
  BY <1>1 DEF TodoEntered
<1>3. ASSUME j \in Sending, t = jobs[j].todo PROVE Sound
  BY <1>2, <1>3 DEF SecretInv
<1>4. ASSUME j \in Sending, t = Left(jobs[j].todo) PROVE Sound
  <2>1. TodoEntered(jobs[j].todo) /\ TodoTyped(jobs[j].todo)
    BY <1>1, <1>4, SendingTyped DEF SecretInv
  <2>2. DOMAIN t \subseteq DOMAIN jobs[j].todo /\ \A n \in DOMAIN t : t[n] = jobs[j].todo[n]
    BY <1>4, <2>1, LeftTyped
  <2>3. TodoEntered(t)
    BY <2>1, <2>2 DEF TodoEntered
  <2>. QED BY <1>2, <2>3
<1>5. ASSUME \E view, origin \in Shown :
             /\ OfClick(view)
             /\ \A k \in Keys : view[k] = None => k \in Hidden
             /\ \A k \in Hidden \cap Keys : origin[k] = None
             /\ t = Calls(view, origin)
      PROVE  Sound
  <2>1. PICK view \in Shown, origin \in Shown :
             /\ OfClick(view)
             /\ \A k \in Keys : view[k] = None => k \in Hidden
             /\ \A k \in Hidden \cap Keys : origin[k] = None
             /\ t = Calls(view, origin)
    BY <1>5
  <2>2. ShowsEntered(view)
    <3>1. CASE view = inputs
      BY <3>1 DEF SecretInv
    <3>2. ASSUME NEW i \in UnderWay, jobs[i].at = "discovering",
                 \A k \in Keys \ Endpoints : view[k] = jobs[i].shown[k]
          PROVE  ShowsEntered(view)
      <4>1. ShowsEntered(jobs[i].shown) /\ Hidden \cap Endpoints = {}
        BY <3>2 DEF SecretInv, Hidden, Endpoints
      <4>. QED BY <3>2, <4>1 DEF ShowsEntered
    <3>. QED BY <2>1, <3>1, <3>2 DEF OfClick
  <2>. HIDE DEF t
  <2>3. TodoEntered(t)
    BY <1>1, <2>1, <2>2, CallsEntered
  <2>. QED BY <1>2, <2>3
<1>6. ASSUME \E k \in form.fields \cap SentAsTyped[form.theme], v \in Texts :
             handleInputChange(k, v) /\ t = Put(k, v)
      PROVE  Sound
  <2>1. PICK k \in form.fields \cap SentAsTyped[form.theme], v \in Texts :
             handleInputChange(k, v) /\ t = Put(k, v)
    BY <1>6
  <2>2. DOMAIN t = {1} /\ t[1].key = k /\ t[1].value = v
    BY <2>1 DEF Put
  <2>3. k \in Hidden => <<k, v>> \in entered'
    BY <2>1 DEF handleInputChange, EnteredAlso
  <2>. HIDE DEF t
  <2>. QED BY <2>1, <2>2, <2>3
<1>7. ASSUME form.switch # Blank, t = Put(form.switch, Opposite(form.switch)) PROVE Sound
  <2>1. DOMAIN t = {1} /\ t[1].key = form.switch /\ form.switch \notin Hidden
    BY <1>1, <1>7 DEF Put, FormSound
  <2>. HIDE DEF t
  <2>. QED BY <2>1
<1>8. Sound
  BY <1>1, <1>3, <1>4, <1>5, <1>6, <1>7, TodosNext
<1>. QED BY <1>1, <1>8 DEF TodoEntered

\* The server keeps what was entered.
LEMMA StoredEntered ==
  ASSUME SettingsInv, SecretInv, SettingsNext
  PROVE  SecretsKept'
<1>1. /\ PageTypes /\ ValueTypes /\ JobTypes /\ form' = form /\ Keys' = Keys
      /\ entered \subseteq entered'
  BY EnteredGrows, FormStays DEF SettingsInv, PageTypes
<1>2. ASSUME NEW k \in Hidden \cap Keys
      PROVE  /\ <<k, stored'[k]>> \in entered'
             /\ stored'[k] = Blank => k \in SentAsTyped[form.theme]
  <2>1. <<k, stored[k]>> \in entered' /\ (stored[k] = Blank => k \in SentAsTyped[form.theme])
    BY <1>1 DEF SecretInv, SecretsKept
  <2>2. CASE stored'[k] = stored[k]
    BY <2>1, <2>2
  <2>3. ASSUME NEW j \in Jobs, UpdateOption(j), stored'[k] # stored[k]
        PROVE  /\ <<k, stored'[k]>> \in entered'
               /\ stored'[k] = Blank => k \in SentAsTyped[form.theme]
    <3>. DEFINE todo == jobs[j].todo
                put == First(todo)
    <3>1. j \in Sending /\ stored' = [stored EXCEPT ![put.key] = put.value]
      BY <2>3 DEF UpdateOption
    <3>2. FirstAt(todo) \in DOMAIN todo /\ put = todo[FirstAt(todo)] /\ TodoEntered(todo)
      BY <1>1, <3>1, SendingTyped DEF SecretInv
    <3>3. put.key \in Hidden => /\ <<put.key, put.value>> \in entered
                                /\ put.value = Blank => put.key \in SentAsTyped[form.theme]
      BY <3>2 DEF TodoEntered
    <3>. HIDE DEF put
    <3>4. put.key = k /\ stored'[k] = put.value
      BY <1>1, <2>3, <3>1 DEF ValueTypes
    <3>. QED BY <1>1, <3>3, <3>4
  <2>4. ASSUME NEW q \in Keys, OtherAdministrator(q), stored'[k] # stored[k]
        PROVE  /\ <<k, stored'[k]>> \in entered'
               /\ stored'[k] = Blank => k \in SentAsTyped[form.theme]
    <3>1. k # form.switch
      BY <1>1, FormFacts DEF PageTypes, FormSound, Hidden, Blank
    <3>2. q = k
      BY <1>1, <2>4 DEF OtherAdministrator, ValueTypes
    <3>3. stored'[k] = "b" /\ entered' = EnteredAlso(k, "b")
      BY <1>1, <2>4, <3>1, <3>2 DEF OtherAdministrator, ValueTypes
    <3>. QED BY <3>3 DEF EnteredAlso, Blank
  <2>5. \/ stored' = stored
        \/ \E j \in Jobs : UpdateOption(j)
        \/ \E q \in Keys : OtherAdministrator(q)
    BY DEF SettingsNext, ServerReads, getOptions, OptionsLost, handleInputChange, submit,
       submitOidc, toggle, PasswordWarning, Discovered, OptionAnswered, PutLost
  <2>. QED BY <2>2, <2>3, <2>4, <2>5
<1>. QED BY <1>1, <1>2 DEF SecretsKept

LEMMA SecretsInitially == ASSUME SettingsInit PROVE SecretInv
<1>1. PICK x \in {"a", "true", "false"} :
        (x = "a" <=> form.switch = Blank) /\ stored = [k \in Keys |-> x]
  BY DEF SettingsInit
<1>2. /\ inputs = NothingLoaded /\ jobs = [j \in Jobs |-> NoJob]
      /\ entered = {<<k, "a">> : k \in Hidden \cap Keys} /\ FormSound(form)
      /\ Keys = OwnFields(form)
  BY FormsAreSound DEF SettingsInit
<1>3. ASSUME NEW k \in Hidden \cap Keys
      PROVE  stored[k] = "a" /\ inputs[k] = Blank
  <2>1. form.switch = Blank
    BY <1>2, <1>3 DEF FormSound, OwnFields
  <2>. QED BY <1>1, <1>2, <2>1 DEF NothingLoaded
<1>4. SecretsKept
  BY <1>2, <1>3 DEF SecretsKept, Blank
<1>5. ShowsEntered(inputs)
  BY <1>3 DEF ShowsEntered
<1>6. UnderWay = {} /\ Sending = {}
  BY <1>2 DEF UnderWay, Sending
<1>. QED BY <1>4, <1>5, <1>6 DEF SecretInv

LEMMA SecretsStep ==
  ASSUME SettingsInv, SecretInv, [SettingsNext]_settingVars
  PROVE  SecretInv'
<1>1. CASE SettingsNext
  <2>1. \A j \in Sending' : TodoEntered(jobs[j].todo)'
    BY <1>1, SentEntered
  <2>. QED BY <1>1, <2>1, ShownEntered, StoredEntered DEF SecretInv
<1>2. CASE UNCHANGED settingVars
  BY <1>2 DEF settingVars, SecretInv, SecretsKept, ShowsEntered, TodoEntered, UnderWay, Sending,
     Keys, SentKeys
<1>. QED BY <1>1, <1>2

\* For every section of the three consoles, and any number of edits and of submits under
\* way: the server never holds a token or a secret but one that it had or that an
\* administrator typed, and never a blank one but where air sends a field as it is cleared
\* (submitSMTP, submitWeChat and their like send such an option only when its field is
\* filled, whenever the click comes and whatever answers late).
THEOREM SecretsAreKept == SettingsSpec => []SecretsKept
<1>1. SettingsInit => SecretInv
  BY SecretsInitially
<1>2. SettingsInv /\ SecretInv /\ [SettingsNext]_settingVars => SecretInv'
  BY SecretsStep
<1>3. SecretInv => SecretsKept
  BY DEF SecretInv
<1>. QED BY <1>1, <1>2, <1>3, SettingsInvariant, PTL DEF SettingsSpec

----------------------------------------------------------------------------
(* Lists.  What would take an induction along one takes the least place that *)
(* contradicts it, or counts places.                                         *)

LEMMA Least ==
  ASSUME NEW T \in SUBSET Nat, T # {}
  PROVE  \E x \in T : \A y \in T : x <= y
<1>. DEFINE R == OpToRel(<, Nat)
<1>1. IsWellFoundedOn(R, Nat)
  BY NatLessThanWellFounded
<1>2. \A x, y \in Nat : y < x => <<y, x>> \in R
  BY DEF OpToRel
<1>. HIDE DEF R
<1>3. PICK x \in T : \A y \in T : ~ (<<y, x>> \in R)
  BY <1>1, WFMin
<1>4. \A y \in T : x \in Nat /\ y \in Nat /\ ~(y < x)
  BY <1>2, <1>3
<1>5. \A y \in T : x <= y
  BY <1>4
<1>. QED BY <1>3, <1>5

LEMMA RanksGrow ==
  ASSUME NEW S \in SUBSET Nat, IsFiniteSet(S), NEW i \in S, NEW j \in S, i < j
  PROVE  Rank(S, i) < Rank(S, j)
<1>. DEFINE lower == {x \in S : x <= i}
            upper == {x \in S : x <= j}
<1>1. lower \in SUBSET upper /\ upper \in SUBSET S /\ j \in upper /\ j \notin lower
  <2>1. i \in Nat /\ j \in Nat /\ \A x \in S : x \in Nat
    OBVIOUS
  <2>2. \A x \in S : x <= i => x <= j
    BY <2>1
  <2>3. j <= j /\ ~(j <= i)
    BY <2>1
  <2>. QED BY <2>2, <2>3
<1>2. IsFiniteSet(upper)
  BY <1>1, FS_Subset
<1>3. /\ IsFiniteSet(lower) /\ Cardinality(lower) <= Cardinality(upper)
      /\ Cardinality(upper) = Cardinality(lower) => upper = lower
  BY <1>1, <1>2, FS_Subset
<1>4. Cardinality(lower) \in Nat /\ Cardinality(upper) \in Nat
  BY <1>2, <1>3, FS_CardinalityType
<1>5. Cardinality(lower) # Cardinality(upper)
  BY <1>1, <1>3
<1>6. Rank(S, i) = Cardinality(lower) /\ Rank(S, j) = Cardinality(upper)
  BY DEF Rank
<1>. QED BY <1>3, <1>4, <1>5, <1>6

LEMMA RanksAreTyped ==
  ASSUME NEW S \in SUBSET Nat, IsFiniteSet(S), NEW i \in S
  PROVE  Rank(S, i) \in 1..Cardinality(S)
<1>. DEFINE lower == {x \in S : x <= i}
<1>1. lower \in SUBSET S /\ i \in lower
  OBVIOUS
<1>2. IsFiniteSet(lower) /\ Cardinality(lower) <= Cardinality(S)
  BY <1>1, FS_Subset
<1>3. Cardinality(lower) \in Nat /\ Cardinality(S) \in Nat /\ Cardinality(lower) # 0
  BY <1>1, <1>2, FS_CardinalityType, FS_EmptySet
<1>. QED BY <1>2, <1>3 DEF Rank

\* Every rank is that of a place.
LEMMA EveryRankHasAPlace ==
  ASSUME NEW S \in SUBSET Nat, IsFiniteSet(S), NEW k \in 1..Cardinality(S)
  PROVE  \E i \in S : Rank(S, i) = k
<1>. DEFINE n == Cardinality(S)
            f == [i \in S |-> Rank(S, i)]
<1>1. n \in Nat /\ IsFiniteSet(1..n) /\ Cardinality(1..n) = n
  BY FS_CardinalityType, FS_Interval
<1>2. f \in [S -> 1..n]
  BY RanksAreTyped
<1>3. \A i, j \in S : f[i] = f[j] => i = j
  <2>. SUFFICES ASSUME NEW i \in S, NEW j \in S, i # j PROVE f[i] # f[j]
    OBVIOUS
  <2>1. i < j \/ j < i
    OBVIOUS
  <2>2. Rank(S, i) \in Int /\ Rank(S, j) \in Int
    BY <1>1, RanksAreTyped
  <2>. QED BY <2>1, <2>2, RanksGrow
<1>4. f \in Injection(S, 1..n)
  BY <1>2, <1>3 DEF Injection, IsInjective
<1>5. f \in Surjection(S, 1..n)
  BY <1>1, <1>4, FS_Injection
<1>6. \E i \in S : f[i] = k
  BY <1>5 DEF Surjection
<1>. QED BY <1>6

\* What is picked is in the places it was picked from.
LEMMA PicksAreKept ==
  ASSUME NEW T, NEW s \in Seq(T), NEW S \in SUBSET (DOMAIN s)
  PROVE  /\ Picked(s, S) \in Seq({s[i] : i \in S})
         /\ Picked(s, S) \in Seq(T)
         /\ IsFiniteSet(S) /\ Len(Picked(s, S)) = Cardinality(S)
<1>. DEFINE place(k) == CHOOSE i \in S : Rank(S, i) = k
            n == Cardinality(S)
            p == Picked(s, S)
<1>1. IsFiniteSet(S) /\ S \in SUBSET Nat /\ n \in Nat
  <2>1. DOMAIN s = 1..Len(s) /\ Len(s) \in Nat
    OBVIOUS
  <2>2. IsFiniteSet(1..Len(s))
    BY <2>1, FS_Interval
  <2>3. IsFiniteSet(S)
    BY <2>1, <2>2, FS_Subset
  <2>. QED BY <2>1, <2>3, FS_CardinalityType
<1>2. \A k \in 1..n : place(k) \in S
  BY <1>1, EveryRankHasAPlace
<1>3. p = [k \in 1..n |-> s[place(k)]]
  BY DEF Picked
<1>. HIDE DEF place, p, n
<1>4. \A k \in 1..n : p[k] \in {s[i] : i \in S} /\ p[k] \in T
  BY <1>2, <1>3
<1>5. p = [k \in 1..n |-> p[k]]
  BY <1>3
<1>6. p \in [1..n -> {s[i] : i \in S}] /\ p \in [1..n -> T]
  BY <1>4, <1>5
<1>7. p \in Seq({s[i] : i \in S}) /\ p \in Seq(T) /\ Len(p) = n
  BY <1>1, <1>6
<1>. QED BY <1>1, <1>7 DEF p, n

\* A finite set in some order.
LEMMA SetsAreListed ==
  ASSUME NEW S, IsFiniteSet(S)
  PROVE  SetToSeq(S) \in Seq(S)
<1>. DEFINE n == Cardinality(S)
<1>1. n \in Nat /\ ExistsBijection(1..n, S)
  BY FS_CardinalityType
<1>2. PICK f \in [1..n -> S] : IsInjective(f)
  BY <1>1 DEF ExistsBijection, Bijection, Injection, IsInjective
<1>3. SetToSeq(S) \in [1..n -> S]
  BY <1>2 DEF SetToSeq
<1>. QED BY <1>1, <1>3

----------------------------------------------------------------------------
(* The tables of the consoles: what holds of the rows, of the switches that  *)
(* berry's rows mount and of the requests under way.                         *)

Row == [id : Items, born : Nat, status : Statuses]
RowList == Seq(Row)
ListType == [arr : Nat, rows : RowList]
Kinds == {"load", "reload", "search", "manage", "purge"}
Acts == {"none", "enable", "disable", "delete", "other"}
Call == [n : 1..MaxUnderWay, kind : Kinds, list : ListType, at : Nat \ {0}, p : Nat,
         order : BOOLEAN, turn : Nat, reset : BOOLEAN, flip : Acts, row : Row \cup {NoRow},
         idx : Nat, act : Acts, stage : {"sent", "back", "refused"}, data : RowList,
         mark : Statuses]

\* the tables whose rows have buttons
Managed == ChannelTables \cup TokenTables \cup UserTables \cup RedemptionTables

\* The first part: types, and which table sends which request.
CallSound(c) ==
  /\ c \in Call
  /\ c.kind \in {"manage", "reload"} => c.row \in Row /\ table \in Managed
  /\ c.kind = "manage" => c.act \in DOMAIN Asked
  /\ c.kind = "reload" => table \in BerryTables

Switch == {NoSwitch} \cup (Statuses \X Nat)

\* what rows say of their items, what was once so, and what is so
Pairs(rows) == {<<rows[k].id, rows[k].status>> : k \in DOMAIN rows}
RealPairs == {x \in Items \X Statuses : \/ x[2] \in hadStatus[x[1]]
                                        \/ table \in ChannelTables /\ items[x[1]] = "gone"}
ByPlace == table = "default channels"
OfBerryUsers == table = "berry users"

\* enabling and disabling, which the server has done
Toggling(c) ==
  \/ c.kind = "manage" /\ c.stage = "back" /\ c.act \in {"enable", "disable"}
  \/ c.kind = "reload" /\ c.flip \in {"enable", "disable"}
Turned(c) == Asked[IF c.kind = "manage" THEN c.act ELSE c.flip]

\* The second part: what is shown of an item, and what is on its way, was so once.
CallReal(c) ==
  /\ Pairs(c.list.rows) \cup Pairs(c.data) \subseteq RealPairs
  /\ c.kind = "manage" /\ c.stage = "back" => <<c.row.id, c.mark>> \in RealPairs
  /\ Toggling(c) => <<c.row.id, Turned(c)>> \in RealPairs

InPlaceOf(rows, c) == Place(c) \in DOMAIN rows => rows[Place(c)].id = c.row.id

RealInv ==
  /\ \A i \in Items : items[i] \in hadStatus[i]
  /\ Pairs(listing.rows) \subseteq RealPairs \/ (ByPlace /\ displaced)
  /\ \A c \in calls : CallReal(c)
  /\ \A i \in Items : switches[i] # NoSwitch => <<i, switches[i][1]>> \in RealPairs
  /\ ByPlace /\ ~displaced => \A c \in calls : c.kind = "manage" => InPlaceOf(listing.rows, c)
  /\ orderBy => ~ByPlace

\* The third part: while one administrator waits for every answer, what is not as it is
\* is as it was before an operation that the server has done and the page has not heard of.
TruePairs == {x \in Items \X Statuses : items[x[1]] \in {"gone", x[2]}}
There == {i \in Items : items[i] # "gone"}
PendingItems == {c.row.id : c \in {d \in calls : Toggling(d)}}

\* the page of a click holds the place
OnItsPage(c, k) == (c.at - 1) * ITEMS_PER_PAGE < k /\ k <= c.at * ITEMS_PER_PAGE

\* the rows of berry's users are only shown for the items that there are, but
\* past their number, where the list ends when items were deleted
GoneLast(rows, S) == \A k \in DOMAIN rows : k <= Cardinality(There) => rows[k].id \in There \cup S
Leaving == {c.row.id : c \in {d \in calls : \/ d.kind = "manage" /\ d.act = "delete" /\ d.stage = "back"
                                            \/ d.kind = "reload" /\ d.flip = "delete"}}

CallCalm(c) ==
  /\ c.kind \in {"load", "purge"} => Pairs(c.list.rows) \subseteq TruePairs
  /\ c.kind \in {"load", "reload", "search"} =>
       /\ Pairs(c.data) \subseteq TruePairs
       /\ \A k \in DOMAIN c.data : c.data[k].id \in There
       /\ c.stage # "refused"
  /\ c.kind = "purge" => c.stage # "refused" /\ table \in ChannelTables
  /\ c.kind = "search" => Len(c.data) <= 1
  /\ c.kind = "manage" /\ c.stage = "back" => items[c.row.id] \in {"gone", c.mark}
  /\ Toggling(c) => items[c.row.id] \in {"gone", Turned(c)}

\* the list has not moved since the click
CallStill(c) ==
  /\ c.kind = "manage" /\ ByPlace => Place(c) \in DOMAIN listing.rows /\ listing.rows[Place(c)].id = c.row.id
  /\ c.kind \in {"manage", "reload"} /\ ~ByPlace => c.list.rows = listing.rows
  /\ c.kind = "manage" /\ ~ByPlace /\ table \notin BerryTables =>
       \E k \in DOMAIN listing.rows : listing.rows[k] = c.row
  /\ c.kind \in {"manage", "reload"} /\ table \in BerryTables =>
       /\ \E k \in DOMAIN listing.rows : listing.rows[k].id = c.row.id /\ OnItsPage(c, k)
       /\ switches[c.row.id] # NoSwitch /\ switches[c.row.id][2] = c.row.born
  /\ c.kind = "reload" =>
       /\ c.p = c.at - 1
       /\ c.stage = "back" => \/ Len(c.data) = ITEMS_PER_PAGE
                              \/ c.p * ITEMS_PER_PAGE + Len(c.data) >= Cardinality(There)

CalmRows ==
  /\ ~Doubled(listing.rows)
  /\ \A k \in DOMAIN listing.rows : \/ <<listing.rows[k].id, listing.rows[k].status>> \in TruePairs
                                    \/ listing.rows[k].id \in PendingItems
  /\ table \in BerryTables =>
       \A i \in Items : switches[i] # NoSwitch => <<i, switches[i][1]>> \in TruePairs \/ i \in PendingItems
CalmCalls ==
  /\ \A c, d \in calls : c = d \/ (c.kind = "load" /\ d.kind = "load")
  /\ \A c \in calls : CallCalm(c)
  /\ \A c \in calls : CallStill(c)
CalmUsers ==
  OfBerryUsers =>
    /\ GoneLast(listing.rows, Leaving)
    /\ \A c \in calls : c.kind = "load" => GoneLast(c.list.rows, {})

CalmParts == CalmRows /\ CalmCalls /\ CalmUsers
TrueInv == ~disturbed /\ table \notin Forgetful => CalmParts

----------------------------------------------------------------------------
\* Lists of rows.

LEMMA RowsAreReal ==
  ASSUME NEW rows \in RowList
  PROVE  /\ DOMAIN rows = 1..Len(rows) /\ Len(rows) \in Nat
         /\ \A k \in DOMAIN rows : rows[k] \in Row
BY DEF RowList

\* A slice holds the rows of its places, wherever it may end.
LEMMA SliceOf ==
  ASSUME NEW rows \in RowList, NEW m \in Nat \ {0}, NEW n \in Int
  PROVE  /\ Slice(rows, m, n) \in RowList
         /\ n <= Len(rows) /\ m <= n + 1 => Len(Slice(rows, m, n)) = n - m + 1
         /\ \A k \in DOMAIN Slice(rows, m, n) :
              /\ k \in Nat \ {0} /\ m + k - 1 \in DOMAIN rows /\ m + k - 1 <= n
              /\ Slice(rows, m, n)[k] = rows[m + k - 1]
         /\ \A j \in DOMAIN rows : m <= j /\ j <= n => j - m + 1 \in DOMAIN Slice(rows, m, n)
<1>. DEFINE last == IF n < Len(rows) THEN n ELSE Len(rows)
            part == Slice(rows, m, n)
<1>1. /\ last \in Int /\ last <= Len(rows) /\ last <= n /\ part = SubSeq(rows, m, last)
      /\ n <= Len(rows) => last = n
      /\ \A j \in DOMAIN rows : j <= n => j <= last
      /\ DOMAIN rows = 1..Len(rows) /\ Len(rows) \in Nat
  BY DEF Slice, RowList
<1>. HIDE DEF last, part
<1>2. \A k \in m..last : k \in DOMAIN rows /\ rows[k] \in Row
  BY <1>1, RowsAreReal
<1>3. /\ part \in Seq(Row)
      /\ Len(part) = IF m <= last THEN last - m + 1 ELSE 0
      /\ \A k \in 1..(last - m + 1) : part[k] = rows[m + k - 1]
  <2>1. m \in Int /\ last \in Int /\ \A k \in m..last : rows[k] \in Row
    BY <1>1, <1>2
  <2>2. /\ SubSeq(rows, m, last) \in Seq(Row)
        /\ Len(SubSeq(rows, m, last)) = IF m <= last THEN last - m + 1 ELSE 0
        /\ \A k \in 1..(last - m + 1) : SubSeq(rows, m, last)[k] = rows[m + k - 1]
    BY <2>1, SubSeqProperties
  <2>. QED BY <1>1, <2>2, Zenon
<1>4. DOMAIN part = 1..Len(part)
  BY <1>3
<1>5. ASSUME NEW k \in DOMAIN part
      PROVE  /\ k \in Nat \ {0} /\ m + k - 1 \in DOMAIN rows /\ m + k - 1 <= n
             /\ part[k] = rows[m + k - 1]
  <2>1. k \in 1..(last - m + 1)
    BY <1>1, <1>3, <1>4
  <2>2. m + k - 1 \in m..last /\ m + k - 1 <= n
    BY <1>1, <2>1
  <2>. QED BY <1>2, <1>3, <2>1, <2>2
<1>6. ASSUME NEW j \in DOMAIN rows, m <= j, j <= n PROVE j - m + 1 \in DOMAIN part
  BY <1>1, <1>3, <1>4, <1>6
<1>7. n <= Len(rows) /\ m <= n + 1 => Len(part) = n - m + 1
  BY <1>1, <1>3
<1>. QED BY <1>3, <1>5, <1>6, <1>7 DEF RowList, part

LEMMA JoinOf ==
  ASSUME NEW a \in RowList, NEW b \in RowList
  PROVE  /\ a \o b \in RowList /\ Len(a \o b) = Len(a) + Len(b)
         /\ \A k \in DOMAIN (a \o b) :
              \/ k \in DOMAIN a /\ (a \o b)[k] = a[k]
              \/ k - Len(a) \in DOMAIN b /\ (a \o b)[k] = b[k - Len(a)]
         /\ Pairs(a \o b) \subseteq Pairs(a) \cup Pairs(b)
<1>1. /\ a \o b \in RowList /\ Len(a \o b) = Len(a) + Len(b)
  BY DEF RowList
<1>2. \A k \in DOMAIN (a \o b) :
              \/ k \in DOMAIN a /\ (a \o b)[k] = a[k]
              \/ k - Len(a) \in DOMAIN b /\ (a \o b)[k] = b[k - Len(a)]
  BY DEF RowList
<1>3. Pairs(a \o b) \subseteq Pairs(a) \cup Pairs(b)
  BY <1>2 DEF Pairs
<1>. QED BY <1>1, <1>2, <1>3

\* The rows with another object each.
LEMMA BornOf ==
  ASSUME NEW rows \in RowList, stamp \in Nat
  PROVE  /\ Born(rows) \in RowList /\ Len(Born(rows)) = Len(rows)
         /\ \A k \in DOMAIN rows : /\ Born(rows)[k].id = rows[k].id
                                   /\ Born(rows)[k].status = rows[k].status
         /\ Pairs(Born(rows)) = Pairs(rows)
<1>1. \A k \in DOMAIN rows : rows[k] \in Row
  BY DEF RowList
<1>2. \A r \in Row : /\ [r EXCEPT !.born = stamp + 1] \in Row
                     /\ [r EXCEPT !.born = stamp + 1].id = r.id
                     /\ [r EXCEPT !.born = stamp + 1].status = r.status
  BY DEF Row
<1>3. DOMAIN rows = 1..Len(rows) /\ Len(rows) \in Nat
  BY DEF RowList
<1>4. Born(rows) = [k \in 1..Len(rows) |-> [rows[k] EXCEPT !.born = stamp + 1]]
  BY <1>3 DEF Born
<1>5. Born(rows) \in RowList /\ Len(Born(rows)) = Len(rows)
  BY <1>1, <1>2, <1>3, <1>4 DEF RowList
<1>6. \A k \in DOMAIN rows : /\ Born(rows)[k].id = rows[k].id
                             /\ Born(rows)[k].status = rows[k].status
  BY <1>1, <1>2, <1>3, <1>4
<1>7. DOMAIN Born(rows) = DOMAIN rows
  BY <1>3, <1>4
<1>. QED BY <1>5, <1>6, <1>7 DEF Pairs

\* A page put into a list: every row is one of the list's in its own place, or of the page.
SplicedSays(s, rows, from, data) ==
  \A k \in DOMAIN s :
    \/ k \in DOMAIN rows /\ s[k] = rows[k] /\ (k <= from \/ k > from + Len(data))
    \/ \E j \in DOMAIN data : s[k] = data[j]

LEMMA SpliceOf ==
  ASSUME TablesAssumption, NEW rows \in RowList, NEW p \in Nat, NEW data \in RowList
  PROVE  /\ Splice(rows, p, data) \in RowList
         /\ Pairs(Splice(rows, p, data)) \subseteq Pairs(rows) \cup Pairs(data)
         /\ SplicedSays(Splice(rows, p, data), rows, p * ITEMS_PER_PAGE, data)
<1>. DEFINE s == Splice(rows, p, data)
            from == p * ITEMS_PER_PAGE
            start == IF from < Len(rows) THEN from ELSE Len(rows)
            a == Slice(rows, 1, start)
            b == Slice(rows, start + Len(data) + 1, Len(rows))
<1>1. from \in Nat /\ start \in Nat /\ start <= Len(rows) /\ start <= from
  BY DEF TablesAssumption, RowList
<1>2. Len(rows) \in Nat /\ Len(data) \in Nat /\ DOMAIN rows = 1..Len(rows) /\ DOMAIN data = 1..Len(data)
  BY DEF RowList
<1>3. s = a \o data \o b
  BY DEF Splice
<1>. HIDE DEF from, start
<1>4. /\ a \in RowList /\ Len(a) = start
      /\ \A k \in DOMAIN a : k \in DOMAIN rows /\ a[k] = rows[k]
  <2>1. /\ a \in RowList /\ (start <= Len(rows) /\ 1 <= start + 1 => Len(a) = start - 1 + 1)
        /\ \A k \in DOMAIN a : /\ k \in Nat \ {0} /\ 1 + k - 1 \in DOMAIN rows
                               /\ a[k] = rows[1 + k - 1]
    BY <1>1, SliceOf
  <2>2. \A k \in DOMAIN a : 1 + k - 1 = k
    BY <2>1
  <2>. QED BY <1>1, <1>2, <2>1, <2>2
<1>5. /\ b \in RowList
      /\ \A k \in DOMAIN b : /\ k \in Nat \ {0} /\ start + Len(data) + k \in DOMAIN rows
                             /\ b[k] = rows[start + Len(data) + k]
  <2>1. start + Len(data) + 1 \in Nat \ {0} /\ Len(rows) \in Int
    BY <1>1, <1>2
  <2>2. /\ b \in RowList
        /\ \A k \in DOMAIN b : /\ k \in Nat \ {0}
                               /\ start + Len(data) + 1 + k - 1 \in DOMAIN rows
                               /\ b[k] = rows[start + Len(data) + 1 + k - 1]
    BY <2>1, SliceOf
  <2>3. \A k \in DOMAIN b : start + Len(data) + 1 + k - 1 = start + Len(data) + k
    BY <1>1, <1>2, <2>2
  <2>. QED BY <2>2, <2>3
<1>6. Pairs(a) \subseteq Pairs(rows) /\ Pairs(b) \subseteq Pairs(rows)
  BY <1>4, <1>5 DEF Pairs
<1>. HIDE DEF a, b
<1>7. /\ a \o data \in RowList /\ Len(a \o data) = start + Len(data)
      /\ Pairs(a \o data) \subseteq Pairs(a) \cup Pairs(data)
  BY <1>4, JoinOf
<1>8. s \in RowList /\ Pairs(s) \subseteq Pairs(a) \cup Pairs(data) \cup Pairs(b)
  BY <1>3, <1>5, <1>7, JoinOf
<1>9. ASSUME NEW k \in DOMAIN s
      PROVE  \/ k \in DOMAIN rows /\ s[k] = rows[k] /\ (k <= start \/ k > start + Len(data))
             \/ \E j \in DOMAIN data : s[k] = data[j]
  <2>1. CASE k \in DOMAIN (a \o data) /\ s[k] = (a \o data)[k]
    <3>1. \/ k \in DOMAIN a /\ s[k] = a[k]
          \/ k - Len(a) \in DOMAIN data /\ s[k] = data[k - Len(a)]
      BY <1>4, <2>1, JoinOf
    <3>2. k \in DOMAIN a => k <= start
      BY <1>1, <1>4 DEF RowList
    <3>. QED BY <1>4, <3>1, <3>2
  <2>2. CASE k - Len(a \o data) \in DOMAIN b /\ s[k] = b[k - Len(a \o data)]
    <3>1. /\ start + Len(data) + (k - (start + Len(data))) \in DOMAIN rows
          /\ s[k] = rows[start + Len(data) + (k - (start + Len(data)))]
      BY <1>5, <1>7, <2>2
    <3>2. k \in Nat
      BY <1>8 DEF RowList
    <3>3. start + Len(data) + (k - (start + Len(data))) = k
      BY <1>1, <1>2, <3>2
    <3>4. k - (start + Len(data)) >= 1
      BY <1>5, <1>7, <2>2 DEF RowList
    <3>5. k > start + Len(data)
      BY <1>1, <1>2, <3>2, <3>4
    <3>. QED BY <3>1, <3>3, <3>5
  <2>3. \/ k \in DOMAIN (a \o data) /\ s[k] = (a \o data)[k]
        \/ k - Len(a \o data) \in DOMAIN b /\ s[k] = b[k - Len(a \o data)]
    <3>. DEFINE c == a \o data
    <3>1. k \in DOMAIN (c \o b) /\ s = c \o b /\ c \in RowList /\ b \in RowList
      BY <1>3, <1>5, <1>7, <1>9
    <3>. HIDE DEF c, s
    <3>2. \/ k \in DOMAIN c /\ (c \o b)[k] = c[k]
          \/ k - Len(c) \in DOMAIN b /\ (c \o b)[k] = b[k - Len(c)]
      BY <3>1, JoinOf
    <3>. QED BY <3>1, <3>2 DEF c
  <2>. QED BY <2>1, <2>2, <2>3
<1>10. ASSUME NEW k \in Nat, k <= Len(rows), k <= start \/ k > start + Len(data)
       PROVE  k <= from \/ k > from + Len(data)
  BY <1>1, <1>2, <1>10 DEF start
<1>11. \A k \in DOMAIN rows : k \in Nat /\ k <= Len(rows)
  BY <1>2
<1>12. SplicedSays(s, rows, from, data)
  BY <1>9, <1>10, <1>11 DEF SplicedSays
<1>. QED BY <1>6, <1>8, <1>12 DEF from, s

\* The page of a list, and the switches of its rows.
LEMMA PageRows ==
  ASSUME TablesAssumption, NEW rows \in RowList, NEW k \in Nat \ {0}
  PROVE  /\ PageOf(rows, k) \in RowList
         /\ \A j \in DOMAIN PageOf(rows, k) :
              /\ j \in Nat \ {0} /\ j <= ITEMS_PER_PAGE
              /\ (k - 1) * ITEMS_PER_PAGE + j \in DOMAIN rows
              /\ PageOf(rows, k)[j] = rows[(k - 1) * ITEMS_PER_PAGE + j]
<1>. DEFINE from == (k - 1) * ITEMS_PER_PAGE
<1>1. /\ from \in Nat /\ from + 1 \in Nat \ {0} /\ k * ITEMS_PER_PAGE \in Int
      /\ k * ITEMS_PER_PAGE = from + ITEMS_PER_PAGE /\ ITEMS_PER_PAGE \in Nat
  BY DEF TablesAssumption
<1>. HIDE DEF from
<1>2. PageOf(rows, k) = Slice(rows, from + 1, k * ITEMS_PER_PAGE)
  BY DEF PageOf, from
<1>3. /\ PageOf(rows, k) \in RowList
      /\ \A j \in DOMAIN PageOf(rows, k) :
           /\ j \in Nat \ {0} /\ from + 1 + j - 1 \in DOMAIN rows /\ from + 1 + j - 1 <= k * ITEMS_PER_PAGE
           /\ PageOf(rows, k)[j] = rows[from + 1 + j - 1]
  BY <1>1, <1>2, SliceOf
<1>4. \A j \in Nat : from + 1 + j - 1 = from + j
  BY <1>1
<1>5. \A j \in Nat : from + j <= from + ITEMS_PER_PAGE => j <= ITEMS_PER_PAGE
  BY <1>1
<1>. QED BY <1>1, <1>3, <1>4, <1>5 DEF from

LEMMA SwitchesMounted ==
  ASSUME TablesAssumption, NEW rows \in RowList, NEW k \in Nat \ {0},
         switches \in [Items -> Switch], stamp \in Nat
  PROVE  /\ Remounted(rows, k) \in [Items -> Switch]
         /\ table \in BerryTables => \A i \in OnPage(rows, k) : Remounted(rows, k)[i] # NoSwitch
         /\ \A i \in Items : Remounted(rows, k)[i] # NoSwitch =>
              \/ switches[i] # NoSwitch /\ Remounted(rows, k)[i] = switches[i]
              \/ <<i, Remounted(rows, k)[i][1]>> \in Pairs(rows)
<1>. DEFINE on == PageOf(rows, k)
            place(i) == CHOOSE j \in DOMAIN on : on[j].id = i
            fresh(i) == <<on[place(i)].status, stamp + 1>>
<1>1. on \in RowList
  BY PageRows
<1>2. \A j \in DOMAIN on : on[j] \in Row /\ <<on[j].id, on[j].status>> \in Pairs(rows)
  <2>1. \A j \in DOMAIN on : (k - 1) * ITEMS_PER_PAGE + j \in DOMAIN rows
                              /\ on[j] = rows[(k - 1) * ITEMS_PER_PAGE + j]
    BY PageRows
  <2>2. \A j \in DOMAIN on : \E i \in DOMAIN rows : on[j] = rows[i]
    BY <2>1
  <2>. HIDE DEF on
  <2>. QED BY <1>1, <2>2, RowsAreReal DEF Pairs
<1>3. OnPage(rows, k) = {on[j].id : j \in DOMAIN on}
  BY DEF OnPage
<1>4. \A i \in OnPage(rows, k) : place(i) \in DOMAIN on /\ on[place(i)].id = i
  BY <1>3
<1>5. \A i \in OnPage(rows, k) : i \in Items /\ on[place(i)].status \in Statuses
  BY <1>2, <1>4, ZenonT(30) DEF Row
<1>6. Remounted(rows, k) =
        [i \in Items |-> IF table \notin BerryTables \/ i \notin OnPage(rows, k) THEN NoSwitch
                         ELSE IF switches[i] # NoSwitch THEN switches[i] ELSE fresh(i)]
  BY DEF Remounted
<1>7. \A i \in OnPage(rows, k) : /\ fresh(i) \in Statuses \X Nat /\ fresh(i) # NoSwitch
                                 /\ fresh(i)[1] = on[place(i)].status
  BY <1>5 DEF NoSwitch
<1>8. \A i \in OnPage(rows, k) : <<i, fresh(i)[1]>> \in Pairs(rows)
  BY <1>2, <1>4, <1>7
<1>. HIDE DEF fresh, on, place
<1>9. Remounted(rows, k) \in [Items -> Switch]
  BY <1>6, <1>7 DEF Switch
<1>10. table \in BerryTables => \A i \in OnPage(rows, k) : Remounted(rows, k)[i] # NoSwitch
  BY <1>5, <1>6, <1>7
<1>11. \A i \in Items : Remounted(rows, k)[i] # NoSwitch =>
              \/ switches[i] # NoSwitch /\ Remounted(rows, k)[i] = switches[i]
              \/ <<i, Remounted(rows, k)[i][1]>> \in Pairs(rows)
  BY <1>6, <1>8
<1>. QED BY <1>9, <1>10, <1>11

LEMMA ReversedRows ==
  ASSUME NEW rows \in RowList
  PROVE  /\ Reverse(rows) \in RowList
         /\ \A k \in DOMAIN Reverse(rows) :
              k \in DOMAIN rows /\ Len(rows) - k + 1 \in DOMAIN rows /\ Reverse(rows)[k] = rows[Len(rows) - k + 1]
         /\ Pairs(Reverse(rows)) \subseteq Pairs(rows)
<1>1. Reverse(rows) = [k \in 1..Len(rows) |-> rows[(Len(rows) - k) + 1]]
  BY DEF Reverse
<1>2. \A k \in 1..Len(rows) : Len(rows) - k + 1 \in 1..Len(rows)
  BY RowsAreReal
<1>3. Reverse(rows) \in RowList
  BY <1>1, <1>2, RowsAreReal DEF RowList
<1>4. \A k \in DOMAIN Reverse(rows) :
        k \in DOMAIN rows /\ Len(rows) - k + 1 \in DOMAIN rows /\ Reverse(rows)[k] = rows[Len(rows) - k + 1]
  BY <1>1, <1>2, RowsAreReal
<1>. QED BY <1>3, <1>4 DEF Pairs

\* The same rows in a list, but for the status of some.
LEMMA MarkedOf ==
  ASSUME NEW rows \in RowList, NEW row, NEW status \in Statuses
  PROVE  /\ Marked(rows, row, status) \in RowList
         /\ DOMAIN Marked(rows, row, status) = DOMAIN rows
         /\ \A k \in DOMAIN rows :
              /\ Marked(rows, row, status)[k].id = rows[k].id
              /\ Marked(rows, row, status)[k].status =
                   IF rows[k].id = row.id /\ rows[k].born = row.born THEN status ELSE rows[k].status
         /\ Pairs(Marked(rows, row, status)) \subseteq Pairs(rows) \cup {<<row.id, status>>}
<1>. DEFINE m == Marked(rows, row, status)
<1>1. \A r \in Row : /\ [r EXCEPT !.status = status] \in Row
                     /\ [r EXCEPT !.status = status].id = r.id
                     /\ [r EXCEPT !.status = status].status = status
  BY DEF Row
<1>2. /\ m = [k \in 1..Len(rows) |->
               IF rows[k].id = row.id /\ rows[k].born = row.born
               THEN [rows[k] EXCEPT !.status = status] ELSE rows[k]]
      /\ DOMAIN rows = 1..Len(rows) /\ Len(rows) \in Nat
  BY RowsAreReal DEF Marked
<1>3. m \in RowList /\ DOMAIN m = DOMAIN rows
  BY <1>1, <1>2, RowsAreReal DEF RowList
<1>4. \A k \in DOMAIN rows :
        /\ m[k].id = rows[k].id
        /\ m[k].status = IF rows[k].id = row.id /\ rows[k].born = row.born THEN status ELSE rows[k].status
  BY <1>1, <1>2, RowsAreReal
<1>. HIDE DEF m
<1>5. Pairs(m) \subseteq Pairs(rows) \cup {<<row.id, status>>}
  BY <1>3, <1>4 DEF Pairs
<1>. QED BY <1>3, <1>4, <1>5 DEF m

LEMMA MarkedAtOf ==
  ASSUME NEW rows \in RowList, NEW at, NEW status \in Statuses
  PROVE  /\ MarkedAt(rows, at, status) \in RowList
         /\ DOMAIN MarkedAt(rows, at, status) = DOMAIN rows
         /\ \A k \in DOMAIN rows :
              /\ MarkedAt(rows, at, status)[k].id = rows[k].id
              /\ MarkedAt(rows, at, status)[k].status = IF k = at THEN status ELSE rows[k].status
<1>. DEFINE m == MarkedAt(rows, at, status)
<1>1. \A r \in Row : /\ [r EXCEPT !.status = status] \in Row
                     /\ [r EXCEPT !.status = status].id = r.id
                     /\ [r EXCEPT !.status = status].status = status
  BY DEF Row
<1>2. DOMAIN rows = 1..Len(rows) /\ Len(rows) \in Nat /\ \A k \in DOMAIN rows : rows[k] \in Row
  BY RowsAreReal
<1>3. CASE at \in DOMAIN rows
  <2>. DEFINE new == [rows[at] EXCEPT !.status = status]
  <2>1. m = [rows EXCEPT ![at] = new]
    BY <1>3 DEF MarkedAt
  <2>2. new \in Row /\ new.id = rows[at].id /\ new.status = status
    BY <1>1, <1>2, <1>3
  <2>. HIDE DEF new, m
  <2>3. m \in RowList
    BY <1>2, <1>3, <2>1, <2>2 DEF RowList
  <2>4. DOMAIN m = DOMAIN rows /\ \A k \in DOMAIN rows : m[k] = IF k = at THEN new ELSE rows[k]
    BY <1>2, <1>3, <2>1
  <2>. QED BY <2>2, <2>3, <2>4 DEF m
<1>4. CASE at \notin DOMAIN rows
  BY <1>4 DEF MarkedAt
<1>. QED BY <1>3, <1>4

\* The first of some places of a list.
LEMMA FirstOf ==
  ASSUME NEW rows \in RowList, NEW P \in SUBSET DOMAIN rows, P # {}
  PROVE  LET k == CHOOSE k \in P : \A j \in P : k <= j IN k \in P /\ \A j \in P : k <= j
<1>1. P \in SUBSET Nat
  BY RowsAreReal
<1>. QED BY <1>1, Least

LEMMA ReplacedOf ==
  ASSUME NEW rows \in RowList, NEW row \in Row, NEW status \in Statuses, stamp \in Nat
  PROVE  /\ Replaced(rows, row, status) \in RowList
         /\ DOMAIN Replaced(rows, row, status) = DOMAIN rows
         /\ \A k \in DOMAIN rows : Replaced(rows, row, status)[k].id = rows[k].id
         /\ \/ \A k \in DOMAIN rows : rows[k].id # row.id
            \/ \E j \in DOMAIN rows :
                 /\ rows[j].id = row.id /\ Replaced(rows, row, status)[j].status = status
                 /\ \A k \in DOMAIN rows : k # j => Replaced(rows, row, status)[k] = rows[k]
         /\ (\A k \in DOMAIN rows : rows[k].id # row.id) => Replaced(rows, row, status) = rows
         /\ Pairs(Replaced(rows, row, status)) \subseteq Pairs(rows) \cup {<<row.id, status>>}
<1>. DEFINE P == {k \in DOMAIN rows : rows[k].id = row.id}
            j == CHOOSE k \in P : \A i \in P : k <= i
            new == [id |-> row.id, born |-> stamp + 1, status |-> status]
            m == Replaced(rows, row, status)
<1>1. m = IF P = {} THEN rows ELSE [rows EXCEPT ![j] = new]
  BY DEF Replaced
<1>2. DOMAIN rows = 1..Len(rows) /\ Len(rows) \in Nat /\ \A k \in DOMAIN rows : rows[k] \in Row
  BY RowsAreReal
<1>3. new \in Row /\ new.id = row.id /\ new.status = status
  BY DEF Row
<1>4. P # {} => j \in DOMAIN rows /\ rows[j].id = row.id
  BY FirstOf
<1>5. P = {} <=> \A k \in DOMAIN rows : rows[k].id # row.id
  OBVIOUS
<1>. HIDE DEF P, j, new, m
<1>6. CASE P = {}
  <2>1. m = rows
    BY <1>1, <1>6
  <2>. QED BY <1>5, <1>6, <2>1 DEF m
<1>7. CASE P # {}
  <2>1. m \in RowList
    BY <1>1, <1>2, <1>3, <1>4, <1>7 DEF RowList
  <2>2. DOMAIN m = DOMAIN rows /\ m[j] = new /\ \A k \in DOMAIN rows : k # j => m[k] = rows[k]
    BY <1>1, <1>2, <1>4, <1>7
  <2>3. \A k \in DOMAIN rows : m[k].id = rows[k].id
    BY <1>3, <1>4, <1>7, <2>2
  <2>4. Pairs(m) \subseteq Pairs(rows) \cup {<<row.id, status>>}
    BY <1>3, <2>2 DEF Pairs
  <2>. QED BY <1>3, <1>4, <1>5, <1>7, <2>1, <2>2, <2>3, <2>4 DEF m
<1>. QED BY <1>6, <1>7

\* A row less, if the item is there: the rows behind it come a place forward.
LEMMA WithoutOf ==
  ASSUME NEW rows \in RowList, NEW id
  PROVE  /\ Without(rows, id) \in RowList
         /\ Pairs(Without(rows, id)) \subseteq Pairs(rows)
         /\ ~Doubled(rows) => ~Doubled(Without(rows, id))
<1>. DEFINE P == {k \in DOMAIN rows : rows[k].id = id}
            j == CHOOSE k \in P : \A i \in P : k <= i
            m == Without(rows, id)
<1>1. m = IF P = {} THEN rows ELSE RemoveAt(rows, j)
  BY DEF Without
<1>2. DOMAIN rows = 1..Len(rows) /\ Len(rows) \in Nat /\ \A k \in DOMAIN rows : rows[k] \in Row
  BY RowsAreReal
<1>3. P # {} => j \in DOMAIN rows
  BY FirstOf
<1>. HIDE DEF P, j, m
<1>4. CASE P = {}
  BY <1>1, <1>4 DEF m
<1>5. CASE P # {}
  <2>. DEFINE a == SubSeq(rows, 1, j - 1)
              b == SubSeq(rows, j + 1, Len(rows))
  <2>1. m = a \o b
    BY <1>1, <1>5 DEF RemoveAt
  <2>2. j \in Nat \ {0} /\ j <= Len(rows)
    BY <1>2, <1>3, <1>5
  <2>3. a \in RowList /\ Len(a) = j - 1 /\ \A k \in 1..(j - 1) : a[k] = rows[k]
    <3>1. \A k \in 1..(j - 1) : rows[k] \in Row
      BY <1>2, <2>2
    <3>2. /\ a \in Seq(Row) /\ Len(a) = (IF 1 <= j - 1 THEN j - 1 - 1 + 1 ELSE 0)
          /\ \A k \in 1..(j - 1 - 1 + 1) : a[k] = rows[1 + k - 1]
      BY <2>2, <3>1, SubSeqProperties
    <3>3. \A k \in 1..(j - 1) : 1 + k - 1 = k /\ k \in 1..(j - 1 - 1 + 1)
      BY <2>2
    <3>. QED BY <2>2, <3>2, <3>3 DEF RowList
  <2>4. b \in RowList /\ Len(b) = Len(rows) - j /\ \A k \in 1..(Len(rows) - j) : b[k] = rows[j + k]
    <3>1. \A k \in (j + 1)..Len(rows) : rows[k] \in Row
      BY <1>2, <2>2
    <3>2. /\ b \in Seq(Row) /\ Len(b) = (IF j + 1 <= Len(rows) THEN Len(rows) - (j + 1) + 1 ELSE 0)
          /\ \A k \in 1..(Len(rows) - (j + 1) + 1) : b[k] = rows[j + 1 + k - 1]
      BY <1>2, <2>2, <3>1, SubSeqProperties
    <3>3. \A k \in 1..(Len(rows) - j) : j + 1 + k - 1 = j + k /\ k \in 1..(Len(rows) - (j + 1) + 1)
      BY <1>2, <2>2
    <3>4. Len(b) = Len(rows) - j
      <4>1. CASE j + 1 <= Len(rows)
        BY <1>2, <2>2, <3>2, <4>1
      <4>2. CASE j = Len(rows)
        BY <1>2, <2>2, <3>2, <4>2
      <4>3. \A x, y \in Nat : x <= y => x + 1 <= y \/ x = y
        OBVIOUS
      <4>4. j \in Nat /\ Len(rows) \in Nat /\ j <= Len(rows)
        BY <1>2, <2>2
      <4>. QED BY <4>1, <4>2, <4>3, <4>4
    <3>5. \A k \in 1..(Len(rows) - j) : b[k] = rows[j + k]
      BY <3>2, <3>3
    <3>. QED BY <3>2, <3>4, <3>5 DEF RowList
  <2>. HIDE DEF a, b
  <2>5. m \in RowList
    BY <2>1, <2>3, <2>4, JoinOf
  <2>6. \A k \in DOMAIN m : m[k] = IF k < j THEN rows[k] ELSE rows[k + 1]
    <3>. SUFFICES ASSUME NEW k \in DOMAIN m PROVE m[k] = IF k < j THEN rows[k] ELSE rows[k + 1]
      OBVIOUS
    <3>1. \/ k \in DOMAIN a /\ m[k] = a[k]
          \/ k - Len(a) \in DOMAIN b /\ m[k] = b[k - Len(a)]
      BY <2>1, <2>3, <2>4, JoinOf
    <3>2. DOMAIN a = 1..(j - 1) /\ DOMAIN b = 1..(Len(rows) - j) /\ k \in Nat
      BY <2>3, <2>4, <2>5, RowsAreReal
    <3>3. CASE k \in DOMAIN a /\ m[k] = a[k]
      BY <2>2, <2>3, <3>2, <3>3
    <3>4. CASE k - (j - 1) \in DOMAIN b /\ m[k] = b[k - (j - 1)]
      <4>1. m[k] = rows[j + (k - (j - 1))]
        BY <2>4, <3>2, <3>4
      <4>2. j + (k - (j - 1)) = k + 1 /\ ~(k < j)
        BY <2>2, <3>2, <3>4
      <4>. QED BY <4>1, <4>2
    <3>. QED BY <2>3, <3>1, <3>3, <3>4
  <2>7. DOMAIN m = 1..(Len(rows) - 1)
    <3>1. Len(m) = Len(a) + Len(b) /\ DOMAIN m = 1..Len(m)
      BY <2>1, <2>3, <2>4, <2>5, JoinOf, RowsAreReal
    <3>. QED BY <1>2, <2>2, <2>3, <2>4, <3>1
  <2>8. \A k \in DOMAIN m : k \in Nat /\ (IF k < j THEN k ELSE k + 1) \in DOMAIN rows
    BY <1>2, <2>2, <2>7
  <2>. DEFINE f(k) == IF k < j THEN k ELSE k + 1
  <2>9. \A k \in DOMAIN m : f(k) \in DOMAIN rows /\ m[k] = rows[f(k)]
    BY <2>6, <2>8
  <2>10. \A k, i \in DOMAIN m : k # i => f(k) # f(i)
    BY <2>2, <2>8
  <2>. HIDE DEF f
  <2>11. Pairs(m) \subseteq Pairs(rows)
    BY <2>9 DEF Pairs
  <2>12. ~Doubled(rows) => ~Doubled(m)
    BY <2>9, <2>10 DEF Doubled
  <2>. QED BY <2>5, <2>11, <2>12 DEF m
<1>. QED BY <1>4, <1>5

\* What the sixteen loaders do, in six ways.
SplicedAtHand == {"default channels", "default logs"}
AppendedBorn == {"default users", "default redemptions"}
Appended == {"air users", "air redemptions"}
SplicedFromClick == {"air tokens", "air logs", "air drawings"} \cup BerryTables
AllTables == DefaultTables \cup AirTables \cup BerryTables

LEMMA LoadedForms ==
  ASSUME NEW c, table \in AllTables
  PROVE  /\ table \in SplicedAtHand =>
              Loaded(c) = IF c.p = 0 THEN c.data ELSE Splice(listing.rows, c.p, c.data)
         /\ table = "default tokens" =>
              Loaded(c) = IF c.p = 0 THEN Born(c.data) ELSE Splice(c.list.rows, c.p, Born(c.data))
         /\ table \in AppendedBorn =>
              Loaded(c) = IF c.p = 0 THEN Born(c.data) ELSE c.list.rows \o Born(c.data)
         /\ table = "air channels" =>
              Loaded(c) = Born(IF c.p = 0 THEN c.data ELSE Splice(c.list.rows, c.p, c.data))
         /\ table \in Appended =>
              Loaded(c) = IF c.p = 0 THEN c.data ELSE c.list.rows \o c.data
         /\ table \in SplicedFromClick =>
              Loaded(c) = IF c.p = 0 THEN c.data ELSE Splice(c.list.rows, c.p, c.data)
         /\ \/ table \in SplicedAtHand \cup AppendedBorn \cup Appended \cup SplicedFromClick
            \/ table \in {"default tokens", "air channels"}
<1>1. table \in SplicedAtHand =>
              Loaded(c) = IF c.p = 0 THEN c.data ELSE Splice(listing.rows, c.p, c.data)
  BY DEF Loaded, SplicedAtHand, loadChannelsDefault, loadLogsDefault
<1>2. table = "default tokens" =>
              Loaded(c) = IF c.p = 0 THEN Born(c.data) ELSE Splice(c.list.rows, c.p, Born(c.data))
  BY DEF Loaded, loadTokensDefault
<1>3. table \in AppendedBorn =>
              Loaded(c) = IF c.p = 0 THEN Born(c.data) ELSE c.list.rows \o Born(c.data)
  BY DEF Loaded, AppendedBorn, loadUsersDefault, loadRedemptionsDefault
<1>4. table = "air channels" =>
              Loaded(c) = Born(IF c.p = 0 THEN c.data ELSE Splice(c.list.rows, c.p, c.data))
  BY DEF Loaded, loadChannelsAir
<1>5. table \in Appended =>
              Loaded(c) = IF c.p = 0 THEN c.data ELSE c.list.rows \o c.data
  BY DEF Loaded, Appended, loadUsersAir, loadRedemptionsAir
<1>6. table \in SplicedFromClick =>
              Loaded(c) = IF c.p = 0 THEN c.data ELSE Splice(c.list.rows, c.p, c.data)
  <2>1. table \in {"air tokens", "air logs", "air drawings"} =>
              Loaded(c) = IF c.p = 0 THEN c.data ELSE Splice(c.list.rows, c.p, c.data)
    BY DEF Loaded, loadTokensAir, loadLogsAir, loadDrawingsAir
  <2>2. table \in BerryTables =>
              Loaded(c) = IF c.p = 0 THEN c.data ELSE Splice(c.list.rows, c.p, c.data)
    BY DEF Loaded, BerryTables, loadChannelsBerry, loadTokensBerry, loadUsersBerry,
           loadRedemptionsBerry, loadLogsBerry
  <2>. QED BY <2>1, <2>2 DEF SplicedFromClick
<1>7. \/ table \in SplicedAtHand \cup AppendedBorn \cup Appended \cup SplicedFromClick
      \/ table \in {"default tokens", "air channels"}
  BY DEF AllTables, DefaultTables, AirTables, SplicedAtHand, AppendedBorn, Appended, SplicedFromClick
<1>. QED BY <1>1, <1>2, <1>3, <1>4, <1>5, <1>6, <1>7

\* A load shows what it brought, and what was in the list that it went into.
LEMMA LoadedSays ==
  ASSUME TablesAssumption, NEW c, table \in AllTables, stamp \in Nat, c.p \in Nat,
         c.data \in RowList, c.list.rows \in RowList, listing.rows \in RowList
  PROVE  /\ Loaded(c) \in RowList
         /\ Pairs(Loaded(c)) \subseteq Pairs(c.data) \cup Pairs(c.list.rows)
                                \cup (IF table \in SplicedAtHand THEN Pairs(listing.rows) ELSE {})
<1>1. Splice(listing.rows, c.p, c.data) \in RowList
      /\ Pairs(Splice(listing.rows, c.p, c.data)) \subseteq Pairs(listing.rows) \cup Pairs(c.data)
  BY SpliceOf
<1>2. Splice(c.list.rows, c.p, c.data) \in RowList
      /\ Pairs(Splice(c.list.rows, c.p, c.data)) \subseteq Pairs(c.list.rows) \cup Pairs(c.data)
  BY SpliceOf
<1>3. Born(c.data) \in RowList /\ Pairs(Born(c.data)) = Pairs(c.data)
  BY BornOf
<1>4. Splice(c.list.rows, c.p, Born(c.data)) \in RowList
      /\ Pairs(Splice(c.list.rows, c.p, Born(c.data))) \subseteq Pairs(c.list.rows) \cup Pairs(Born(c.data))
  BY <1>3, SpliceOf
<1>5. c.list.rows \o Born(c.data) \in RowList
      /\ Pairs(c.list.rows \o Born(c.data)) \subseteq Pairs(c.list.rows) \cup Pairs(Born(c.data))
  BY <1>3, JoinOf
<1>6. c.list.rows \o c.data \in RowList
      /\ Pairs(c.list.rows \o c.data) \subseteq Pairs(c.list.rows) \cup Pairs(c.data)
  BY JoinOf
<1>7. CASE table \in SplicedAtHand
  <2>1. Loaded(c) = IF c.p = 0 THEN c.data ELSE Splice(listing.rows, c.p, c.data)
    BY <1>7, LoadedForms
  <2>. QED BY <1>1, <1>7, <2>1
<1>8. CASE table = "default tokens"
  <2>1. Loaded(c) = IF c.p = 0 THEN Born(c.data) ELSE Splice(c.list.rows, c.p, Born(c.data))
    BY <1>8, LoadedForms
  <2>. QED BY <1>3, <1>4, <2>1
<1>9. CASE table \in AppendedBorn
  <2>1. Loaded(c) = IF c.p = 0 THEN Born(c.data) ELSE c.list.rows \o Born(c.data)
    BY <1>9, LoadedForms
  <2>. QED BY <1>3, <1>5, <2>1
<1>10. CASE table = "air channels"
  <2>. DEFINE rows == IF c.p = 0 THEN c.data ELSE Splice(c.list.rows, c.p, c.data)
  <2>1. Loaded(c) = Born(rows)
    BY <1>10, LoadedForms
  <2>2. rows \in RowList /\ Pairs(rows) \subseteq Pairs(c.list.rows) \cup Pairs(c.data)
    BY <1>2
  <2>. HIDE DEF rows
  <2>3. Born(rows) \in RowList /\ Pairs(Born(rows)) = Pairs(rows)
    BY <2>2, BornOf
  <2>. QED BY <2>1, <2>2, <2>3
<1>11. CASE table \in Appended
  <2>1. Loaded(c) = IF c.p = 0 THEN c.data ELSE c.list.rows \o c.data
    BY <1>11, LoadedForms
  <2>. QED BY <1>6, <2>1
<1>12. CASE table \in SplicedFromClick
  <2>1. Loaded(c) = IF c.p = 0 THEN c.data ELSE Splice(c.list.rows, c.p, c.data)
    BY <1>12, LoadedForms
  <2>. QED BY <1>2, <2>1
<1>. QED BY <1>7, <1>8, <1>9, <1>10, <1>11, <1>12, LoadedForms

\* What an answer to an operation does to the rows, in four ways.
MarkedInPlace == {"default tokens", "default users", "default redemptions"}
ReplacedById == {"air tokens", "air users", "air redemptions"}

LEMMA ManagedForms ==
  ASSUME NEW c, table \in Managed \ BerryTables
  PROVE  /\ table = "default channels" => ManagedRows(c) = MarkedAt(listing.rows, Place(c), c.mark)
         /\ table \in MarkedInPlace => ManagedRows(c) = Marked(c.list.rows, c.row, c.mark)
         /\ table = "air channels" =>
              ManagedRows(c) = IF c.act = "delete" THEN Without(c.list.rows, c.row.id)
                               ELSE Marked(c.list.rows, c.row, c.mark)
         /\ table \in ReplacedById =>
              ManagedRows(c) = IF c.act = "delete" THEN Without(c.list.rows, c.row.id)
                               ELSE Replaced(c.list.rows, c.row, c.mark)
         /\ table \in MarkedInPlace \cup ReplacedById \cup {"default channels", "air channels"}
<1>1. table = "default channels" => ManagedRows(c) = MarkedAt(listing.rows, Place(c), c.mark)
  BY DEF ManagedRows, manageChannelDefault
<1>2. table \in MarkedInPlace => ManagedRows(c) = Marked(c.list.rows, c.row, c.mark)
  BY DEF ManagedRows, MarkedInPlace, manageTokenDefault, manageUserDefault, manageRedemptionDefault
<1>3. table = "air channels" =>
              ManagedRows(c) = IF c.act = "delete" THEN Without(c.list.rows, c.row.id)
                               ELSE Marked(c.list.rows, c.row, c.mark)
  BY DEF ManagedRows, manageChannelAir
<1>4. table \in ReplacedById =>
              ManagedRows(c) = IF c.act = "delete" THEN Without(c.list.rows, c.row.id)
                               ELSE Replaced(c.list.rows, c.row, c.mark)
  BY DEF ManagedRows, ReplacedById, manageTokenAir, manageUserAir, manageRedemptionAir
<1>5. table \in MarkedInPlace \cup ReplacedById \cup {"default channels", "air channels"}
  BY DEF Managed, BerryTables, MarkedInPlace, ReplacedById, ChannelTables, TokenTables, UserTables,
         RedemptionTables
<1>. QED BY <1>1, <1>2, <1>3, <1>4, <1>5

LEMMA ManagedSays ==
  ASSUME NEW c, table \in Managed \ BerryTables, stamp \in Nat, c.row \in Row,
         c.mark \in Statuses, c.list.rows \in RowList, listing.rows \in RowList
  PROVE  /\ ManagedRows(c) \in RowList
         /\ table # "default channels" =>
              Pairs(ManagedRows(c)) \subseteq Pairs(c.list.rows) \cup {<<c.row.id, c.mark>>}
         /\ table = "default channels" =>
              /\ DOMAIN ManagedRows(c) = DOMAIN listing.rows
              /\ \A k \in DOMAIN listing.rows :
                   /\ ManagedRows(c)[k].id = listing.rows[k].id
                   /\ ManagedRows(c)[k].status = IF k = Place(c) THEN c.mark ELSE listing.rows[k].status
<1>1. CASE table = "default channels"
  <2>1. ManagedRows(c) = MarkedAt(listing.rows, Place(c), c.mark)
    BY <1>1, ManagedForms
  <2>. DEFINE at == Place(c)
              m == MarkedAt(listing.rows, at, c.mark)
  <2>2. m = ManagedRows(c)
    BY <2>1
  <2>3. /\ m \in RowList /\ DOMAIN m = DOMAIN listing.rows
        /\ \A k \in DOMAIN listing.rows :
             /\ m[k].id = listing.rows[k].id
             /\ m[k].status = IF k = at THEN c.mark ELSE listing.rows[k].status
    BY MarkedAtOf
  <2>. HIDE DEF m
  <2>. QED BY <1>1, <2>2, <2>3
<1>2. /\ Without(c.list.rows, c.row.id) \in RowList
      /\ Pairs(Without(c.list.rows, c.row.id)) \subseteq Pairs(c.list.rows)
  BY WithoutOf
<1>3. /\ Marked(c.list.rows, c.row, c.mark) \in RowList
      /\ Pairs(Marked(c.list.rows, c.row, c.mark)) \subseteq Pairs(c.list.rows) \cup {<<c.row.id, c.mark>>}
  BY MarkedOf
<1>4. /\ Replaced(c.list.rows, c.row, c.mark) \in RowList
      /\ Pairs(Replaced(c.list.rows, c.row, c.mark)) \subseteq Pairs(c.list.rows) \cup {<<c.row.id, c.mark>>}
  BY ReplacedOf
<1>5. CASE table \in MarkedInPlace
  <2>1. ManagedRows(c) = Marked(c.list.rows, c.row, c.mark)
    BY <1>5, ManagedForms
  <2>. QED BY <1>3, <1>5, <2>1 DEF MarkedInPlace
<1>6. CASE table = "air channels"
  <2>1. ManagedRows(c) = IF c.act = "delete" THEN Without(c.list.rows, c.row.id)
                         ELSE Marked(c.list.rows, c.row, c.mark)
    BY <1>6, ManagedForms
  <2>. QED BY <1>2, <1>3, <1>6, <2>1
<1>7. CASE table \in ReplacedById
  <2>1. ManagedRows(c) = IF c.act = "delete" THEN Without(c.list.rows, c.row.id)
                         ELSE Replaced(c.list.rows, c.row, c.mark)
    BY <1>7, ManagedForms
  <2>. QED BY <1>2, <1>4, <1>7, <2>1 DEF ReplacedById
<1>. QED BY <1>1, <1>5, <1>6, <1>7, ManagedForms

\* A switch that is turned stays one, and keeps the row that it belongs to.
LEMMA SwitchedOf ==
  ASSUME NEW c, switches \in [Items -> Switch], c.row.born \in Nat
  PROVE  /\ Switched(c) \in [Items -> Switch]
         /\ \A i \in Items : (Switched(c)[i] = NoSwitch) <=> (switches[i] = NoSwitch)
         /\ \A i \in Items : switches[i] # NoSwitch =>
              \/ Switched(c)[i] = switches[i]
              \/ i = c.row.id /\ c.act \in {"enable", "disable"} /\ Switched(c)[i][1] = Asked[c.act]
         /\ \A i \in Items : /\ switches[i] # NoSwitch /\ switches[i][2] = c.row.born
                             /\ i = c.row.id /\ c.act \in {"enable", "disable"}
                             => Switched(c)[i][1] = Asked[c.act]
<1>. DEFINE turned == <<Asked[c.act], c.row.born>>
<1>1. c.act \in {"enable", "disable"} =>
        /\ Asked[c.act] \in Statuses /\ turned \in Statuses \X Nat /\ turned # NoSwitch
        /\ turned[1] = Asked[c.act]
  <2>1. c.act \in {"enable", "disable"} => Asked[c.act] \in Statuses
    BY DEF Asked, Statuses
  <2>2. turned # NoSwitch
    BY DEF NoSwitch
  <2>. QED BY <2>1, <2>2
<1>2. Switched(c) = [i \in Items |-> IF c.act \in {"enable", "disable"} /\ i = c.row.id
                                        /\ switches[i] # NoSwitch /\ switches[i][2] = c.row.born
                                     THEN turned ELSE switches[i]]
  BY DEF Switched
<1>. HIDE DEF turned
<1>3. Switched(c) \in [Items -> Switch]
  BY <1>1, <1>2 DEF Switch
<1>. QED BY <1>1, <1>2, <1>3

----------------------------------------------------------------------------
\* Types.

ScreenTyped ==
  /\ listing \in ListType /\ page \in Nat \ {0} /\ stamp \in Nat /\ displaced \in BOOLEAN
  /\ switches \in [Items -> Switch]
  /\ table \in BerryTables => \A i \in OnPage(listing.rows, page) : switches[i] # NoSwitch

CallsTyped == (\A c \in calls : CallSound(c)) /\ \A c, d \in calls : c.n = d.n => c = d

PlainTyped ==
  /\ table \in Tables /\ rowCount \in Nat
  /\ items \in [Items -> Statuses \ {"none"}] /\ hadStatus \in [Items -> SUBSET Statuses]
  /\ {orderBy, tableLoading, searching, disturbed} \subseteq BOOLEAN
  /\ events \in 0..MaxEvents

TypesInv == ScreenTyped /\ CallsTyped /\ PlainTyped

\* The requests as they are made.
LEMMA TableRequestTyped ==
  ASSUME NEW n \in 1..MaxUnderWay, NEW kind \in Kinds, NEW list \in ListType, NEW at \in Nat \ {0},
         NEW c, c = TableRequest(n, kind, list, at)
  PROVE  /\ c \in Call /\ c.n = n /\ c.kind = kind /\ c.list = list /\ c.at = at
         /\ c.stage = "sent" /\ c.data = <<>>
BY DEF TableRequest, Call, Row, RowList, Acts, Statuses

SentLoad(c, n, list) ==
  c \in Call /\ c.n = n /\ c.kind = "load" /\ c.list = list /\ c.stage = "sent" /\ c.data = <<>>

LEMMA LoadTyped ==
  ASSUME Captured \in ListType, page \in Nat \ {0}, NEW n \in 1..MaxUnderWay, NEW p \in Nat,
         NEW order \in BOOLEAN
  PROVE  /\ SentLoad(Load(n, p, order), n, Captured)
         /\ \A turn \in Nat : SentLoad([Load(n, p, order) EXCEPT !.turn = turn], n, Captured)
         /\ \A turn \in Nat, reset \in BOOLEAN :
              SentLoad([Load(n, p, order) EXCEPT !.turn = turn, !.reset = reset], n, Captured)
         /\ \A list \in ListType, at \in Nat \ {0} :
              SentLoad([Load(n, p, order) EXCEPT !.list = list, !.at = at], n, list)
<1>. DEFINE c == TableRequest(n, "load", Captured, page)
            e == Load(n, p, order)
<1>1. /\ c \in Call /\ c.n = n /\ c.kind = "load" /\ c.list = Captured /\ c.at = page
      /\ c.stage = "sent" /\ c.data = <<>>
  <2>1. "load" \in Kinds
    BY DEF Kinds
  <2>. QED BY <2>1, TableRequestTyped
<1>2. e = [c EXCEPT !.p = p, !.order = order]
  BY DEF Load
<1>. HIDE DEF c, e
<1>3. SentLoad(e, n, Captured)
  BY <1>1, <1>2 DEF SentLoad, Call
<1>4. ASSUME NEW turn \in Nat, NEW f, f = [e EXCEPT !.turn = turn] PROVE SentLoad(f, n, Captured)
  BY <1>3, <1>4 DEF SentLoad, Call
<1>5. ASSUME NEW turn \in Nat, NEW reset \in BOOLEAN, NEW f, f = [e EXCEPT !.turn = turn, !.reset = reset]
      PROVE  SentLoad(f, n, Captured)
  BY <1>3, <1>5 DEF SentLoad, Call
<1>6. ASSUME NEW list \in ListType, NEW at \in Nat \ {0}, NEW f, f = [e EXCEPT !.list = list, !.at = at]
      PROVE  SentLoad(f, n, list)
  BY <1>3, <1>6 DEF SentLoad, Call
<1>. QED BY <1>3, <1>4, <1>5, <1>6 DEF e

SentOther(c, n, kind, list, at) ==
  /\ c \in Call /\ c.n = n /\ c.kind = kind /\ c.list = list /\ c.at = at
  /\ c.stage = "sent" /\ c.data = <<>>

LEMMA OthersTyped ==
  ASSUME NEW n \in 1..MaxUnderWay, NEW list \in ListType, NEW at \in Nat \ {0}
  PROVE  /\ SentOther(TableRequest(n, "search", list, at), n, "search", list, at)
         /\ SentOther(TableRequest(n, "purge", list, at), n, "purge", list, at)
         /\ \A p \in Nat : SentLoad([TableRequest(n, "load", list, at) EXCEPT !.p = p], n, list)
         /\ SentOther(TableRequest(n, "manage", list, at), n, "manage", list, at)
         /\ SentOther(TableRequest(n, "reload", list, at), n, "reload", list, at)
<1>1. \A kind \in Kinds : SentOther(TableRequest(n, kind, list, at), n, kind, list, at)
  BY TableRequestTyped DEF SentOther
<1>2. {"search", "purge", "load", "manage", "reload"} \subseteq Kinds
  BY DEF Kinds
<1>. DEFINE R(kind) == TableRequest(n, kind, list, at)
<1>3. \A kind \in {"search", "purge", "load", "manage", "reload"} : SentOther(R(kind), n, kind, list, at)
  BY <1>1, <1>2
<1>. HIDE DEF R
<1>4. ASSUME NEW p \in Nat, NEW e, e = [R("load") EXCEPT !.p = p]
      PROVE  SentLoad(e, n, list)
  BY <1>3, <1>4 DEF SentOther, SentLoad, Call
<1>. QED BY <1>3, <1>4 DEF R

\* The requests as they are answered: the same, but for the answer.
SameRequest(e, c) ==
  /\ e \in Call /\ e.n = c.n /\ e.kind = c.kind /\ e.at = c.at /\ e.p = c.p /\ e.order = c.order
  /\ e.turn = c.turn /\ e.reset = c.reset /\ e.flip = c.flip /\ e.row = c.row /\ e.idx = c.idx
  /\ e.act = c.act

LEMMA StagedFields ==
  ASSUME NEW c \in Call, NEW stage \in {"sent", "back", "refused"}, NEW e, e = [c EXCEPT !.stage = stage]
  PROVE  SameRequest(e, c) /\ e.stage = stage /\ e.data = c.data /\ e.mark = c.mark /\ e.list = c.list
BY DEF Call, SameRequest

LEMMA ListedFields ==
  ASSUME NEW c \in Call, NEW list \in ListType, NEW e, e = [c EXCEPT !.list = list]
  PROVE  SameRequest(e, c) /\ e.stage = c.stage /\ e.data = c.data /\ e.mark = c.mark /\ e.list = list
BY DEF Call, SameRequest

LEMMA CallFields ==
  ASSUME NEW c \in Call
  PROVE  /\ c.n \in 1..MaxUnderWay /\ c.kind \in Kinds /\ c.list \in ListType /\ c.list.rows \in RowList
         /\ c.list.arr \in Nat /\ c.at \in Nat \ {0} /\ c.p \in Nat /\ c.order \in BOOLEAN
         /\ c.turn \in Nat /\ c.reset \in BOOLEAN /\ c.flip \in Acts /\ c.row \in Row \cup {NoRow}
         /\ c.row.born \in Nat /\ c.idx \in Nat /\ c.act \in Acts
         /\ c.stage \in {"sent", "back", "refused"} /\ c.data \in RowList /\ c.mark \in Statuses
<1>1. /\ c.n \in 1..MaxUnderWay /\ c.kind \in Kinds /\ c.list \in ListType
      /\ c.at \in Nat \ {0} /\ c.p \in Nat /\ c.order \in BOOLEAN
      /\ c.turn \in Nat /\ c.reset \in BOOLEAN /\ c.flip \in Acts /\ c.row \in Row \cup {NoRow}
      /\ c.idx \in Nat /\ c.act \in Acts
      /\ c.stage \in {"sent", "back", "refused"} /\ c.data \in RowList /\ c.mark \in Statuses
  BY DEF Call
<1>2. c.list.rows \in RowList /\ c.list.arr \in Nat
  BY <1>1 DEF ListType
<1>3. c.row.born \in Nat
  BY <1>1 DEF Row, NoRow
<1>. QED BY <1>1, <1>2, <1>3

LEMMA ListingFields ==
  ASSUME ScreenTyped
  PROVE  /\ listing.rows \in RowList /\ listing.arr \in Nat /\ Captured \in ListType /\ NoList \in ListType
         /\ Len(listing.rows) \in Nat
<1>1. listing.rows \in RowList /\ listing.arr \in Nat /\ NoList \in ListType
  BY DEF ScreenTyped, ListType, NoList, RowList
<1>. QED BY <1>1, RowsAreReal DEF Captured, ScreenTyped

LEMMA SlotIsFree ==
  ASSUME FreeSlots # {}
  PROVE  Slot \in FreeSlots /\ Slot \in 1..MaxUnderWay /\ FreeSlots \subseteq 1..MaxUnderWay
<1>1. FreeSlots \in SUBSET Nat /\ FreeSlots \subseteq 1..MaxUnderWay
  BY DEF FreeSlots
<1>2. \E n \in FreeSlots : \A m \in FreeSlots : n <= m
  BY <1>1, Least
<1>. QED BY <1>1, <1>2 DEF Slot

LEMMA NextStampTyped ==
  ASSUME stamp \in Nat PROVE NextStamp \in Nat
BY DEF NextStamp

LEMMA CountedTyped ==
  ASSUME TablesAssumption, NEW rows \in RowList, NEW at
  PROVE  Counted(rows, at) \in Nat
<1>1. Len(rows) \in Nat /\ ITEMS_PER_PAGE \in Nat
  BY RowsAreReal DEF TablesAssumption
<1>2. /\ setChannelFormat(rows, at) \in Nat /\ setTokensFormat(rows, at) \in Nat /\ setCount(rows, at) \in Nat
      /\ setRedemptionFormat(rows, at) \in Nat /\ setLogsFormat(rows, at) \in Nat
  BY <1>1 DEF setChannelFormat, setTokensFormat, setCount, setRedemptionFormat, setLogsFormat
<1>. QED BY <1>2 DEF Counted

\* The screen with another list, another page, or as it was.
LEMMA ShowTyped ==
  ASSUME TablesAssumption, ScreenTyped, NEW arr \in Nat, NEW rows \in RowList, NEW k \in Nat \ {0},
         ShowArray(arr, rows, k), table' = table
  PROVE  ScreenTyped'
<1>1. listing' \in ListType /\ listing'.rows = rows /\ page' = k
  BY DEF ShowArray, ListType
<1>2. stamp' \in Nat
  BY NextStampTyped DEF ShowArray, ScreenTyped
<1>3. displaced' \in BOOLEAN
  BY DEF ShowArray, ScreenTyped, Displaced
<1>4. /\ switches' = Remounted(rows, k) /\ switches' \in [Items -> Switch]
      /\ table \in BerryTables => \A i \in OnPage(rows, k) : switches'[i] # NoSwitch
  BY SwitchesMounted DEF ShowArray, ScreenTyped
<1>5. OnPage(listing.rows, page)' = OnPage(rows, k)
  BY <1>1 DEF OnPage, PageOf, Slice
<1>. QED BY <1>1, <1>2, <1>3, <1>4, <1>5 DEF ScreenTyped

LEMMA TurnTyped ==
  ASSUME TablesAssumption, ScreenTyped, NEW k \in Nat \ {0}, Turn(k), table' = table
  PROVE  ScreenTyped'
<1>1. listing' = listing /\ page' = k /\ displaced' = displaced
  BY DEF Turn
<1>2. stamp' \in Nat
  BY NextStampTyped DEF Turn, ScreenTyped
<1>4. /\ switches' = Remounted(listing.rows, k) /\ switches' \in [Items -> Switch]
      /\ table \in BerryTables => \A i \in OnPage(listing.rows, k) : switches'[i] # NoSwitch
  BY SwitchesMounted, ListingFields DEF Turn, ScreenTyped
<1>5. OnPage(listing.rows, page)' = OnPage(listing.rows, k)
  BY <1>1 DEF OnPage, PageOf, Slice
<1>. QED BY <1>1, <1>2, <1>4, <1>5 DEF ScreenTyped

LEMMA StandTyped ==
  ASSUME ScreenTyped, UNCHANGED <<table, listing, page, switches, stamp, displaced>>
  PROVE  ScreenTyped'
BY DEF ScreenTyped, OnPage, PageOf, Slice

\* The requests under way: one more, some fewer, or one in the place of another.
LEMMA CallsAdded ==
  ASSUME CallsTyped, NEW e, CallSound(e), e.n \in FreeSlots, table' = table, calls' = calls \cup {e}
  PROVE  CallsTyped'
<1>1. \A c \in calls : c.n # e.n
  BY DEF FreeSlots
<1>2. \A c \in calls' : CallSound(c)'
  BY DEF CallsTyped, CallSound
<1>. QED BY <1>1, <1>2 DEF CallsTyped

LEMMA CallsKept ==
  ASSUME CallsTyped, table' = table, calls' \subseteq calls
  PROVE  CallsTyped'
BY DEF CallsTyped, CallSound

LEMMA CallsAnswered ==
  ASSUME CallsTyped, NEW c \in calls, NEW e, CallSound(e), e.n = c.n, table' = table,
         calls' = (calls \ {c}) \cup {e}
  PROVE  CallsTyped'
<1>1. \A d \in calls \ {c} : d.n # e.n
  BY DEF CallsTyped
<1>2. \A d \in calls' : CallSound(d)'
  BY DEF CallsTyped, CallSound
<1>. QED BY <1>1, <1>2 DEF CallsTyped

\* Lists in other requests change with the list of the moment, or with a row.
LEMMA WithList ==
  ASSUME NEW d \in Call, CallSound(d), NEW list \in ListType, NEW e, e = [d EXCEPT !.list = list]
  PROVE  CallSound(e) /\ e.n = d.n
<1>1. /\ e \in Call /\ e.n = d.n /\ e.kind = d.kind /\ e.row = d.row /\ e.act = d.act
  BY DEF Call
<1>. QED BY <1>1 DEF CallSound

LEMMA SoundLoad ==
  ASSUME NEW c, NEW n, NEW list, SentLoad(c, n, list)
  PROVE  CallSound(c) /\ c.n = n
BY DEF SentLoad, CallSound

LEMMA TableKnown ==
  ASSUME TablesAssumption, TypesInv
  PROVE  table \in AllTables
BY DEF TypesInv, PlainTyped, TablesAssumption, AllTables

LEMMA PagingForms ==
  ASSUME table \in AllTables
  PROVE  /\ PagingOf.refresh \in {"none", "page", "first", "first now", "twice"}
         /\ PagingOf.loader \subseteq {"load", "refresh", "manage"}
         /\ table \in BerryTables => PagingOf.loader = {"load"}
BY DEF PagingOf, Paging, pagingChannelsDefault, pagingTokensDefault, pagingUsersDefault,
       pagingRedemptionsDefault, pagingLogsDefault, pagingChannelsAir, pagingTokensAir,
       pagingUsersAir, pagingRedemptionsAir, pagingLogsAir, pagingDrawingsAir,
       pagingChannelsBerry, pagingTokensBerry, pagingUsersBerry, pagingRedemptionsBerry,
       pagingLogsBerry, AllTables, DefaultTables, AirTables, BerryTables

LEMMA SearchingForms == SearchingOf.order \in BOOLEAN /\ (ByPlace => ~SearchingOf.order)
BY DEF SearchingOf, Searching, searchChannelsDefault, searchTokensDefault, searchUsersDefault,
       searchRedemptionsDefault, sortLogsDefault, searchChannelsAir, searchTokensAir, searchUsersAir,
       searchRedemptionsAir, searchChannelsBerry, searchTokensBerry, searchUsersBerry,
       searchRedemptionsBerry, searchLogsBerry, ByPlace

----------------------------------------------------------------------------
\* Every click keeps the types.

LEMMA ClickPlain ==
  ASSUME TablesAssumption, PlainTyped, Click
  PROVE  /\ table' = table /\ items' \in [Items -> Statuses \ {"none"}]
         /\ hadStatus' \in [Items -> SUBSET Statuses]
         /\ disturbed' \in BOOLEAN /\ events' \in 0..MaxEvents /\ table' \in Tables
BY DEF Click, PlainTyped, TablesAssumption, server

LEMMA LoadAdded ==
  ASSUME CallsTyped, NEW n \in FreeSlots, NEW list, NEW e, SentLoad(e, n, list), table' = table,
         calls' = calls \cup {e}
  PROVE  CallsTyped'
<1>1. CallSound(e) /\ e.n \in FreeSlots
  BY SoundLoad
<1>. QED BY <1>1, CallsAdded

\* The pages that are offered are counted from 1.
LEMMA PagesAreReal ==
  ASSUME TablesAssumption, TypesInv, NEW k \in PagesOffered
  PROVE  k \in Nat \ {0}
<1>1. k \in Int /\ 1 <= k
  <2>. DEFINE x == (rowCount + ITEMS_PER_PAGE - 1) \div ITEMS_PER_PAGE
              y == Len(listing.rows) \div ITEMS_PER_PAGE + 1
  <2>1. /\ rowCount + ITEMS_PER_PAGE - 1 \in Int /\ ITEMS_PER_PAGE \in Nat \ {0}
        /\ Len(listing.rows) \in Int
    BY ListingFields DEF TypesInv, PlainTyped, TablesAssumption
  <2>2. \A z \in Int : z \div ITEMS_PER_PAGE \in Int
    BY <2>1
  <2>3. x \in Int /\ y \in Int
    BY <2>1, <2>2
  <2>4. k \in 1..x \/ k \in 1..y
    BY DEF PagesOffered
  <2>. HIDE DEF x, y
  <2>. QED BY <2>3, <2>4
<1>. QED BY <1>1

LEMMA GoToPageTyped ==
  ASSUME TablesAssumption, TypesInv, NEW k \in PagesOffered, GoToPage(k)
  PROVE  TypesInv'
<1>1. k \in Nat \ {0}
  BY PagesAreReal
<1>2. table' = table /\ rowCount' = rowCount /\ orderBy' = orderBy /\ searching' = searching
  BY DEF GoToPage, Click
<1>3. PlainTyped'
  <2>1. tableLoading' \in BOOLEAN
    BY DEF GoToPage, Spins, TypesInv, PlainTyped
  <2>. QED BY <1>2, <2>1, ClickPlain DEF GoToPage, TypesInv, PlainTyped
<1>4. ScreenTyped'
  BY <1>1, <1>2, TurnTyped, StandTyped DEF GoToPage, TypesInv
<1>5. CallsTyped'
  <2>1. CASE calls' = calls
    BY <1>2, <2>1, CallsKept DEF TypesInv
  <2>2. CASE calls' # calls
    <3>. DEFINE t == IF k = PagesLoaded(listing.rows) + 1 /\ PagingOf.turn = "after" THEN k ELSE 0
                e == [Load(Slot, k - 1, orderBy) EXCEPT !.turn = t]
    <3>1. FreeSlots # {} /\ calls' = calls \cup {e}
      BY <2>2 DEF GoToPage
    <3>2. t \in Nat /\ k - 1 \in Nat /\ orderBy \in BOOLEAN
      BY <1>1 DEF TypesInv, PlainTyped
    <3>. HIDE DEF t
    <3>3. SentLoad(e, Slot, Captured)
      BY <3>1, <3>2, LoadTyped, ListingFields, SlotIsFree DEF TypesInv, ScreenTyped
    <3>. HIDE DEF e
    <3>. QED BY <1>2, <3>1, <3>3, LoadAdded, SlotIsFree DEF TypesInv
  <2>. QED BY <2>1, <2>2
<1>. QED BY <1>3, <1>4, <1>5 DEF TypesInv

LEMMA RefreshTableTyped ==
  ASSUME TablesAssumption, TypesInv, RefreshTable
  PROVE  TypesInv'
<1>0. FreeSlots # {} /\ page \in Nat \ {0} /\ orderBy \in BOOLEAN /\ Captured \in ListType
  BY ListingFields DEF RefreshTable, TypesInv, ScreenTyped, PlainTyped
<1>1. FreeSlots # {} /\ page - 1 \in Nat /\ 1 \in Nat \ {0} /\ 1 \in Nat /\ 0 \in Nat
      /\ orderBy \in BOOLEAN /\ Captured \in ListType /\ page \in Nat \ {0}
  BY <1>0
<1>2. table' = table /\ rowCount' = rowCount /\ orderBy' = orderBy /\ searching' = searching
  BY DEF RefreshTable, Click
<1>3. PlainTyped'
  <2>1. tableLoading' \in BOOLEAN
    BY DEF RefreshTable, TypesInv, PlainTyped
  <2>. QED BY <1>2, <2>1, ClickPlain DEF RefreshTable, TypesInv, PlainTyped
<1>4. ScreenTyped'
  BY <1>1, <1>2, TurnTyped, StandTyped DEF RefreshTable, TypesInv
<1>5. CallsTyped'
  <2>1. Slot \in FreeSlots /\ FreeSlots \subseteq 1..MaxUnderWay
    BY <1>1, SlotIsFree
  <2>2. CASE PagingOf.refresh = "page"
    <3>. DEFINE e == Load(Slot, page - 1, orderBy)
    <3>1. calls' = calls \cup {e}
      BY <2>2 DEF RefreshTable
    <3>2. SentLoad(e, Slot, Captured)
      BY <1>1, <2>1, LoadTyped
    <3>. HIDE DEF e
    <3>. QED BY <1>2, <2>1, <3>1, <3>2, LoadAdded DEF TypesInv
  <2>3. CASE PagingOf.refresh = "first"
    <3>. DEFINE e == [Load(Slot, 0, orderBy) EXCEPT !.turn = 1]
    <3>1. calls' = calls \cup {e}
      BY <2>3 DEF RefreshTable
    <3>2. SentLoad(e, Slot, Captured)
      BY <1>1, <2>1, LoadTyped
    <3>. HIDE DEF e
    <3>. QED BY <1>2, <2>1, <3>1, <3>2, LoadAdded DEF TypesInv
  <2>4. CASE PagingOf.refresh = "first now"
    <3>. DEFINE e == Load(Slot, 0, orderBy)
    <3>1. calls' = calls \cup {e}
      BY <2>4 DEF RefreshTable
    <3>2. SentLoad(e, Slot, Captured)
      BY <1>1, <2>1, LoadTyped
    <3>. HIDE DEF e
    <3>. QED BY <1>2, <2>1, <3>1, <3>2, LoadAdded DEF TypesInv
  <2>5. CASE PagingOf.refresh = "twice"
    <3>1. PICK m \in FreeSlots, n \in FreeSlots :
            m < n /\ calls' = calls \cup {Load(m, 0, orderBy), Load(n, 0, orderBy)}
      BY <2>5 DEF RefreshTable
    <3>. DEFINE e == Load(m, 0, orderBy)
                f == Load(n, 0, orderBy)
    <3>2. SentLoad(e, m, Captured) /\ SentLoad(f, n, Captured)
      BY <1>1, <2>1, LoadTyped
    <3>3. calls' = calls \cup {e, f} /\ m # n
      BY <2>1, <3>1
    <3>. HIDE DEF e, f
    <3>4. CallSound(e) /\ CallSound(f) /\ e.n = m /\ f.n = n
      BY <3>2, SoundLoad
    <3>5. \A c \in calls : c.n # m /\ c.n # n
      BY <3>1 DEF FreeSlots
    <3>6. \A c \in calls' : CallSound(c)'
      BY <1>2, <3>3, <3>4 DEF CallsTyped, CallSound, TypesInv
    <3>. QED BY <3>3, <3>4, <3>5, <3>6 DEF CallsTyped, TypesInv
  <2>6. PagingOf.refresh \in {"none", "page", "first", "first now", "twice"}
    BY PagingForms, TableKnown
  <2>. QED BY <2>2, <2>3, <2>4, <2>5, <2>6 DEF RefreshTable
<1>. QED BY <1>3, <1>4, <1>5 DEF TypesInv

LEMMA SearchBlankTyped ==
  ASSUME TablesAssumption, TypesInv, SearchBlank
  PROVE  TypesInv'
<1>1. FreeSlots # {} /\ 1 \in Nat /\ 0 \in Nat /\ orderBy \in BOOLEAN /\ Captured \in ListType
      /\ page \in Nat \ {0}
  BY ListingFields DEF SearchBlank, TypesInv, ScreenTyped, PlainTyped
<1>2. /\ table' = table /\ rowCount' = rowCount /\ orderBy' = orderBy /\ searching' = searching
      /\ UNCHANGED <<listing, page, switches, stamp, displaced>>
  BY DEF SearchBlank, Click, screen
<1>3. PlainTyped'
  <2>1. tableLoading' \in BOOLEAN
    BY DEF SearchBlank, Spins, TypesInv, PlainTyped
  <2>. QED BY <1>2, <2>1, ClickPlain DEF SearchBlank, TypesInv, PlainTyped
<1>4. ScreenTyped'
  BY <1>2, StandTyped DEF TypesInv
<1>5. CallsTyped'
  <2>. DEFINE r == SearchingOf.order
              e == [Load(Slot, 0, orderBy) EXCEPT !.turn = 1, !.reset = r]
  <2>1. calls' = calls \cup {e}
    BY DEF SearchBlank
  <2>2. r \in BOOLEAN
    BY SearchingForms
  <2>. HIDE DEF r
  <2>3. SentLoad(e, Slot, Captured)
    BY <1>1, <2>2, LoadTyped, SlotIsFree
  <2>. HIDE DEF e
  <2>. QED BY <1>1, <1>2, <2>1, <2>3, LoadAdded, SlotIsFree DEF TypesInv
<1>. QED BY <1>3, <1>4, <1>5 DEF TypesInv

LEMMA SearchKeywordTyped ==
  ASSUME TablesAssumption, TypesInv, SearchKeyword
  PROVE  TypesInv'
<1>1. FreeSlots # {} /\ NoList \in ListType /\ page \in Nat \ {0}
  BY ListingFields DEF SearchKeyword, TypesInv, ScreenTyped
<1>2. /\ table' = table /\ rowCount' = rowCount /\ orderBy' = orderBy
      /\ UNCHANGED <<listing, page, switches, stamp, displaced>>
  BY DEF SearchKeyword, Click, screen
<1>3. PlainTyped'
  <2>1. tableLoading' \in BOOLEAN /\ searching' \in BOOLEAN
    BY DEF SearchKeyword, TypesInv, PlainTyped
  <2>. QED BY <1>2, <2>1, ClickPlain DEF SearchKeyword, TypesInv, PlainTyped
<1>4. ScreenTyped'
  BY <1>2, StandTyped DEF TypesInv
<1>5. CallsTyped'
  <2>. DEFINE e == TableRequest(Slot, "search", NoList, page)
  <2>1. calls' = calls \cup {e}
    BY DEF SearchKeyword
  <2>2. SentOther(e, Slot, "search", NoList, page)
    BY <1>1, OthersTyped, SlotIsFree
  <2>. HIDE DEF e
  <2>3. CallSound(e) /\ e.n \in FreeSlots
    BY <1>1, <2>2, SlotIsFree DEF SentOther, CallSound
  <2>. QED BY <1>2, <2>1, <2>3, CallsAdded DEF TypesInv
<1>. QED BY <1>3, <1>4, <1>5 DEF TypesInv

LEMMA handleOrderByChangeTyped ==
  ASSUME TablesAssumption, TypesInv, handleOrderByChange
  PROVE  TypesInv'
<1>1. FreeSlots # {} /\ 1 \in Nat \ {0} /\ 0 \in Nat /\ (~orderBy) \in BOOLEAN /\ Captured \in ListType
      /\ page \in Nat \ {0}
  BY ListingFields DEF handleOrderByChange, TypesInv, ScreenTyped, PlainTyped
<1>2. /\ table' = table /\ rowCount' = rowCount /\ orderBy' = ~orderBy /\ searching' = searching
      /\ Turn(1)
  BY DEF handleOrderByChange, Click
<1>3. PlainTyped'
  <2>1. tableLoading' \in BOOLEAN
    BY DEF handleOrderByChange, Spins, TypesInv, PlainTyped
  <2>. QED BY <1>2, <2>1, ClickPlain DEF handleOrderByChange, TypesInv, PlainTyped
<1>4. ScreenTyped'
  BY <1>1, <1>2, TurnTyped DEF TypesInv
<1>5. CallsTyped'
  <2>. DEFINE e == Load(Slot, 0, ~orderBy)
  <2>1. calls' = calls \cup {e}
    BY DEF handleOrderByChange
  <2>3. SentLoad(e, Slot, Captured)
    BY <1>1, LoadTyped, SlotIsFree
  <2>. HIDE DEF e
  <2>. QED BY <1>1, <1>2, <2>1, <2>3, LoadAdded, SlotIsFree DEF TypesInv
<1>. QED BY <1>3, <1>4, <1>5 DEF TypesInv

LEMMA SortRowsTyped ==
  ASSUME TablesAssumption, TypesInv, SortRows
  PROVE  TypesInv'
<1>1. /\ table' = table /\ rowCount' = rowCount /\ orderBy' = orderBy /\ searching' = searching
      /\ tableLoading' = FALSE /\ calls' = calls
  BY DEF SortRows, Click
<1>2. PlainTyped'
  BY <1>1, ClickPlain DEF SortRows, TypesInv, PlainTyped
<1>3. PICK from \in [DOMAIN listing.rows -> DOMAIN listing.rows] :
        LET up == [k \in DOMAIN from |-> listing.rows[from[k]]] IN
        Show(IF up[1].id = listing.rows[1].id THEN Reverse(up) ELSE up, page)
  BY DEF SortRows
<1>. DEFINE up == [k \in DOMAIN from |-> listing.rows[from[k]]]
            rows == IF up[1].id = listing.rows[1].id THEN Reverse(up) ELSE up
<1>4. up \in RowList
  <2>1. listing.rows \in RowList
    BY ListingFields DEF TypesInv
  <2>2. /\ DOMAIN listing.rows = 1..Len(listing.rows) /\ Len(listing.rows) \in Nat
        /\ \A k \in DOMAIN listing.rows : listing.rows[k] \in Row
    BY <2>1, RowsAreReal
  <2>3. up = [k \in 1..Len(listing.rows) |-> listing.rows[from[k]]]
    BY <2>2
  <2>. QED BY <2>2, <2>3 DEF RowList
<1>5. Show(rows, page)
  BY <1>3
<1>. HIDE DEF up
<1>6. rows \in RowList
  BY <1>4, ReversedRows
<1>. HIDE DEF rows
<1>7. ScreenTyped'
  BY <1>1, <1>5, <1>6, ShowTyped, NextStampTyped DEF Show, TypesInv, ScreenTyped
<1>. QED BY <1>1, <1>2, <1>7, CallsKept DEF TypesInv

\* What a row offers is an operation of its table.
LEMMA OfferedIsManaged ==
  ASSUME NEW r, NEW act \in Offered(r)
  PROVE  table \in Managed
BY DEF Offered, Managed, ChannelTables, TokenTables, UserTables, RedemptionTables

\* The row of a click, and its switch.
LEMMA ManageSends ==
  ASSUME TablesAssumption, TypesInv, NEW k \in 1..ITEMS_PER_PAGE, NEW act \in DOMAIN Asked, Manage(k, act)
  PROVE  \E row, e :
           /\ row \in Row
           /\ calls' = calls \cup {e} /\ FreeSlots # {} /\ SentOther(e, Slot, "manage", Captured, page)
           /\ e.act = act /\ e.idx = k /\ e.row = row /\ table \in Managed /\ act \in Acts
           /\ k \in DOMAIN PageOf(listing.rows, page)
           /\ row.id = PageOf(listing.rows, page)[k].id
           /\ table \notin BerryTables => row = PageOf(listing.rows, page)[k]
           /\ table \in BerryTables => switches[row.id] # NoSwitch /\ row.born = switches[row.id][2]
<1>. DEFINE on == PageOf(listing.rows, page)
            mounted == [on[k] EXCEPT !.born = switches[on[k].id][2]]
            row == IF table \in BerryTables THEN mounted ELSE on[k]
            e == [TableRequest(Slot, "manage", Captured, page) EXCEPT !.act = act, !.idx = k, !.row = row]
<1>1. listing.rows \in RowList /\ page \in Nat \ {0} /\ Captured \in ListType
  BY ListingFields DEF TypesInv, ScreenTyped
<1>2. on \in RowList /\ k \in DOMAIN on /\ FreeSlots # {}
  BY <1>1, PageRows DEF Manage
<1>3. on[k] \in Row
  BY <1>2, RowsAreReal
<1>4. table \in BerryTables => /\ switches[on[k].id] # NoSwitch /\ switches[on[k].id][2] \in Nat
  <2>1. on[k].id \in OnPage(listing.rows, page) /\ on[k].id \in Items
    BY <1>2, <1>3 DEF OnPage, Row
  <2>. HIDE DEF on
  <2>2. table \in BerryTables => switches[on[k].id] # NoSwitch /\ switches[on[k].id] \in Switch
    BY <2>1 DEF TypesInv, ScreenTyped
  <2>. QED BY <2>2 DEF Switch
<1>5. act \in Offered(on[k]) /\ calls' = calls \cup {e}
  BY DEF Manage
<1>6. table \in Managed
  BY <1>5, OfferedIsManaged
<1>7. act \in Acts /\ k \in Nat
  BY DEF Asked, Acts, TablesAssumption
<1>. HIDE DEF on
<1>8. ASSUME table \in BerryTables
      PROVE  mounted \in Row /\ mounted.id = on[k].id /\ mounted.born = switches[on[k].id][2]
  BY <1>3, <1>4, <1>8 DEF Row
<1>. HIDE DEF mounted
<1>9. /\ row \in Row /\ row.id = on[k].id
      /\ table \notin BerryTables => row = on[k]
      /\ table \in BerryTables => switches[row.id] # NoSwitch /\ row.born = switches[row.id][2]
  BY <1>3, <1>4, <1>8
<1>. HIDE DEF row
<1>10. /\ SentOther(e, Slot, "manage", Captured, page) /\ e.act = act /\ e.idx = k /\ e.row = row
  <2>. DEFINE c == TableRequest(Slot, "manage", Captured, page)
  <2>1. SentOther(c, Slot, "manage", Captured, page)
    BY <1>1, <1>2, OthersTyped, SlotIsFree
  <2>2. e = [c EXCEPT !.act = act, !.idx = k, !.row = row]
    OBVIOUS
  <2>. HIDE DEF c, e
  <2>. QED BY <1>7, <1>9, <2>1, <2>2 DEF SentOther, Call
<1>. HIDE DEF e
<1>11. /\ row.id = PageOf(listing.rows, page)[k].id /\ k \in DOMAIN PageOf(listing.rows, page)
       /\ table \notin BerryTables => row = PageOf(listing.rows, page)[k]
  BY <1>2, <1>9 DEF on
<1>. QED BY <1>2, <1>5, <1>6, <1>7, <1>9, <1>10, <1>11

LEMMA ManageTyped ==
  ASSUME TablesAssumption, TypesInv, NEW k \in 1..ITEMS_PER_PAGE, NEW act \in DOMAIN Asked, Manage(k, act)
  PROVE  TypesInv'
<1>1. /\ table' = table /\ rowCount' = rowCount /\ orderBy' = orderBy /\ searching' = searching
      /\ UNCHANGED <<listing, page, switches, stamp, displaced>>
  BY DEF Manage, Click, screen
<1>2. PlainTyped'
  <2>1. tableLoading' \in BOOLEAN
    BY DEF Manage, Spins, TypesInv, PlainTyped
  <2>. QED BY <1>1, <2>1, ClickPlain DEF Manage, TypesInv, PlainTyped
<1>3. ScreenTyped'
  BY <1>1, StandTyped DEF TypesInv
<1>4. PICK row, e : /\ row \in Row
                    /\ calls' = calls \cup {e} /\ SentOther(e, Slot, "manage", Captured, page)
                    /\ e.act = act /\ e.row = row /\ table \in Managed /\ FreeSlots # {}
  BY ManageSends
<1>5. CallSound(e) /\ e.n \in FreeSlots
  BY <1>4, SlotIsFree DEF SentOther, CallSound
<1>. QED BY <1>1, <1>2, <1>3, <1>4, <1>5, CallsAdded DEF TypesInv

LEMMA deleteAllTyped ==
  ASSUME TablesAssumption, TypesInv, deleteAllDisabledChannels
  PROVE  TypesInv'
<1>1. /\ table' = table /\ rowCount' = rowCount /\ orderBy' = orderBy /\ searching' = searching
      /\ tableLoading' = tableLoading /\ UNCHANGED <<listing, page, switches, stamp, displaced>>
  BY DEF deleteAllDisabledChannels, Click, screen
<1>2. PlainTyped'
  BY <1>1, ClickPlain DEF deleteAllDisabledChannels, TypesInv, PlainTyped
<1>3. ScreenTyped'
  BY <1>1, StandTyped DEF TypesInv
<1>. DEFINE e == TableRequest(Slot, "purge", Captured, page)
<1>4. calls' = calls \cup {e} /\ FreeSlots # {}
  BY DEF deleteAllDisabledChannels
<1>5. SentOther(e, Slot, "purge", Captured, page)
  BY <1>4, OthersTyped, SlotIsFree, ListingFields DEF TypesInv, ScreenTyped
<1>. HIDE DEF e
<1>6. CallSound(e) /\ e.n \in FreeSlots
  BY <1>4, <1>5, SlotIsFree DEF SentOther, CallSound
<1>. QED BY <1>1, <1>2, <1>3, <1>4, <1>6, CallsAdded DEF TypesInv

----------------------------------------------------------------------------
\* What the server answers.

LEMMA RowsOf ==
  ASSUME NEW S \in SUBSET Items, items \in [Items -> Statuses \ {"none"}], NEW ids \in Seq(S)
  PROVE  /\ Rows(ids) \in RowList /\ Len(Rows(ids)) = Len(ids)
         /\ \A k \in DOMAIN Rows(ids) : Rows(ids)[k].id \in S /\ Rows(ids)[k].status = items[Rows(ids)[k].id]
<1>1. DOMAIN ids = 1..Len(ids) /\ Len(ids) \in Nat /\ \A k \in 1..Len(ids) : ids[k] \in S /\ ids[k] \in Items
  OBVIOUS
<1>2. Rows(ids) = [k \in 1..Len(ids) |-> [id |-> ids[k], born |-> 0, status |-> items[ids[k]]]]
  BY <1>1 DEF Rows
<1>3. \A i \in Items : [id |-> i, born |-> 0, status |-> items[i]] \in Row
  BY DEF Row
<1>4. Rows(ids) \in RowList /\ Len(Rows(ids)) = Len(ids)
  BY <1>1, <1>2, <1>3 DEF RowList
<1>5. \A k \in DOMAIN Rows(ids) : Rows(ids)[k].id \in S /\ Rows(ids)[k].status = items[Rows(ids)[k].id]
  BY <1>1, <1>2
<1>. QED BY <1>4, <1>5

LEMMA ServerListOf ==
  ASSUME TablesAssumption, items \in [Items -> Statuses \ {"none"}], NEW order
  PROVE  /\ ServerList(order) \in Seq(There) /\ Len(ServerList(order)) = Cardinality(There)
         /\ IsFiniteSet(There) /\ Cardinality(There) \in Nat
<1>. DEFINE s == [i \in Items |-> i]
            there == Picked(s, There)
<1>1. s \in Seq(Items) /\ There \in SUBSET DOMAIN s /\ DOMAIN s = Items
  BY DEF TablesAssumption, Items, There
<1>2. /\ there \in Seq({s[i] : i \in There})
      /\ IsFiniteSet(There) /\ Len(there) = Cardinality(There)
  <2>. HIDE DEF s
  <2>. QED BY <1>1, PicksAreKept, ZenonT(30)
<1>3. {s[i] : i \in There} = There
  BY <1>1 DEF There
<1>4. ServerList(order) = IF order THEN Reverse(there) ELSE there
  BY DEF ServerList, There
<1>. HIDE DEF s, there
<1>5. there \in Seq(There) /\ Cardinality(There) \in Nat
  BY <1>2, <1>3, FS_CardinalityType
<1>6. Reverse(there) \in Seq(There) /\ Len(Reverse(there)) = Len(there)
  <2>1. \A k \in 1..Len(there) : (Len(there) - k) + 1 \in 1..Len(there)
    BY <1>5
  <2>. QED BY <1>5, <2>1 DEF Reverse
<1>. QED BY <1>2, <1>4, <1>5, <1>6

LEMMA ServerPageOf ==
  ASSUME TablesAssumption, items \in [Items -> Statuses \ {"none"}], NEW order, NEW p \in Nat
  PROVE  LET data == ServerPage(order, p) IN
         /\ data \in RowList
         /\ \A k \in DOMAIN data : data[k].id \in There /\ data[k].status = items[data[k].id]
         /\ Len(data) = ITEMS_PER_PAGE \/ p * ITEMS_PER_PAGE + Len(data) >= Cardinality(There)
<1>. DEFINE list == ServerList(order)
            from == p * ITEMS_PER_PAGE
            last == IF from + ITEMS_PER_PAGE < Len(list) THEN from + ITEMS_PER_PAGE ELSE Len(list)
            ids == SubSeq(list, from + 1, last)
<1>1. list \in Seq(There) /\ Len(list) = Cardinality(There) /\ Cardinality(There) \in Nat
  BY ServerListOf
<1>2. from \in Nat /\ ITEMS_PER_PAGE \in Nat \ {0} /\ (p + 1) * ITEMS_PER_PAGE = from + ITEMS_PER_PAGE
  BY DEF TablesAssumption
<1>3. ServerPage(order, p) = Rows(ids)
  BY <1>2 DEF ServerPage, Slice
<1>. HIDE DEF list, from
<1>4. last \in Nat /\ last <= Len(list)
  BY <1>1, <1>2
<1>5. /\ last = from + ITEMS_PER_PAGE \/ (last = Len(list) /\ from + ITEMS_PER_PAGE >= Len(list))
  BY <1>1, <1>2
<1>. HIDE DEF last
<1>6. \A k \in (from + 1)..last : list[k] \in There
  BY <1>1, <1>2, <1>4
<1>7. /\ ids \in Seq(There)
      /\ Len(ids) = IF from + 1 <= last THEN last - (from + 1) + 1 ELSE 0
  BY <1>2, <1>4, <1>6, SubSeqProperties
<1>. HIDE DEF ids
<1>8. Len(ids) = ITEMS_PER_PAGE \/ from + Len(ids) >= Cardinality(There)
  <2>1. CASE last = from + ITEMS_PER_PAGE
    BY <1>2, <1>7, <2>1
  <2>2. CASE last = Len(list)
    BY <1>1, <1>2, <1>7, <2>2
  <2>. QED BY <1>5, <2>1, <2>2
<1>9. /\ Rows(ids) \in RowList /\ Len(Rows(ids)) = Len(ids)
      /\ \A k \in DOMAIN Rows(ids) : Rows(ids)[k].id \in There /\ Rows(ids)[k].status = items[Rows(ids)[k].id]
  BY <1>7, RowsOf DEF There
<1>. QED BY <1>3, <1>8, <1>9 DEF from

LEMMA WithKeywordOf ==
  ASSUME TablesAssumption, items \in [Items -> Statuses \ {"none"}]
  PROVE  /\ WithKeyword \in RowList /\ Len(WithKeyword) <= 1
         /\ \A k \in DOMAIN WithKeyword :
              WithKeyword[k].id \in There /\ WithKeyword[k].status = items[WithKeyword[k].id]
<1>. DEFINE ids == IF items[1] # "gone" THEN <<1>> ELSE <<>>
<1>1. 1 \in Items
  BY DEF TablesAssumption, Items
<1>2. ids \in Seq(There) /\ Len(ids) <= 1
  <2>1. CASE items[1] # "gone"
    <3>1. 1 \in There /\ ids = <<1>>
      BY <1>1, <2>1 DEF There
    <3>. QED BY <3>1
  <2>2. CASE items[1] = "gone"
    BY <2>2
  <2>. QED BY <2>1, <2>2
<1>3. WithKeyword = Rows(ids) /\ There \in SUBSET Items
  BY DEF WithKeyword, There
<1>. HIDE DEF ids
<1>. QED BY <1>2, <1>3, RowsOf

LEMMA StatusesAnswered ==
  ASSUME TypesInv, NEW c \in calls, c.kind = "manage"
  PROVE  /\ c.row.id \in Items /\ c.row \in Row /\ c.act \in {"enable", "disable", "delete", "other"}
         /\ StatusAfter(c) \in Statuses \ {"none"} /\ AnsweredStatus(c) \in Statuses
<1>1. c.row \in Row /\ c.act \in {"enable", "disable", "delete", "other"}
  BY DEF TypesInv, CallsTyped, CallSound, Asked
<1>2. c.row.id \in Items /\ items[c.row.id] \in Statuses \ {"none"}
  BY <1>1 DEF Row, TypesInv, PlainTyped
<1>3. Asked[c.act] \in Statuses /\ c.act # "other" => Asked[c.act] # "none"
  BY <1>1 DEF Asked, Statuses
<1>4. Asked[c.act] \in Statuses
  BY <1>1 DEF Asked, Statuses
<1>. QED BY <1>1, <1>2, <1>3, <1>4 DEF StatusAfter, AnsweredStatus

LEMMA ServerStepScreen ==
  ASSUME TypesInv, ServerStep
  PROVE  /\ ScreenTyped' /\ table' = table /\ rowCount' = rowCount /\ orderBy' = orderBy
         /\ tableLoading' = tableLoading /\ searching' = searching
<1>1. /\ UNCHANGED <<listing, page, switches, stamp, displaced>> /\ table' = table /\ rowCount' = rowCount
      /\ orderBy' = orderBy /\ tableLoading' = tableLoading /\ searching' = searching
  BY DEF ServerStep, screen, loaders
<1>. QED BY <1>1, StandTyped DEF TypesInv

LEMMA QueriedTyped ==
  ASSUME TablesAssumption, TypesInv, NEW c \in calls, Queried(c)
  PROVE  TypesInv'
<1>1. /\ ScreenTyped' /\ table' = table /\ rowCount' = rowCount /\ orderBy' = orderBy
      /\ tableLoading' = tableLoading /\ searching' = searching
  BY ServerStepScreen DEF Queried
<1>2. PlainTyped'
  BY <1>1 DEF Queried, Undisturbed, server, TypesInv, PlainTyped
<1>. DEFINE data == IF c.kind = "search" THEN WithKeyword ELSE ServerPage(c.order, c.p)
            e == [c EXCEPT !.stage = "back", !.data = data]
<1>3. CallSound(c) /\ c \in Call /\ c.p \in Nat
  BY CallFields DEF TypesInv, CallsTyped, CallSound
<1>4. data \in RowList
  BY <1>3, ServerPageOf, WithKeywordOf DEF TypesInv, PlainTyped
<1>5. Answered(c, e)
  BY DEF Queried
<1>. HIDE DEF data
<1>6. e \in Call /\ e.n = c.n /\ e.kind = c.kind /\ e.row = c.row /\ e.act = c.act
  BY <1>3, <1>4 DEF Call
<1>. HIDE DEF e
<1>7. CallSound(e)
  BY <1>3, <1>6 DEF CallSound
<1>. QED BY <1>1, <1>2, <1>5, <1>6, <1>7, CallsAnswered DEF TypesInv, Answered

LEMMA DoneTyped ==
  ASSUME TablesAssumption, TypesInv, NEW c \in calls, Done(c)
  PROVE  TypesInv'
<1>1. /\ ScreenTyped' /\ table' = table /\ rowCount' = rowCount /\ orderBy' = orderBy
      /\ tableLoading' = tableLoading /\ searching' = searching
  BY ServerStepScreen DEF Done
<1>2. PlainTyped'
  <2>1. StatusAfter(c) \in Statuses \ {"none"} /\ c.row.id \in Items
    BY StatusesAnswered DEF Done
  <2>. QED BY <1>1, <2>1 DEF Done, Undisturbed, TypesInv, PlainTyped
<1>. DEFINE mark == AnsweredStatus(c)
            e == [c EXCEPT !.stage = "back", !.mark = mark]
<1>3. CallSound(c) /\ c \in Call
  BY DEF TypesInv, CallsTyped, CallSound
<1>4. mark \in Statuses
  BY StatusesAnswered DEF Done
<1>5. Answered(c, e)
  BY DEF Done
<1>. HIDE DEF mark
<1>6. e \in Call /\ e.n = c.n /\ e.kind = c.kind /\ e.row = c.row /\ e.act = c.act
  BY <1>3, <1>4 DEF Call
<1>. HIDE DEF e
<1>7. CallSound(e)
  BY <1>3, <1>6 DEF CallSound
<1>. QED BY <1>1, <1>2, <1>5, <1>6, <1>7, CallsAnswered DEF TypesInv, Answered

LEMMA StageTyped ==
  ASSUME TypesInv, NEW c \in calls, NEW stage \in {"back", "refused"}, table' = table,
         Answered(c, [c EXCEPT !.stage = stage])
  PROVE  CallsTyped'
<1>. DEFINE e == [c EXCEPT !.stage = stage]
<1>1. CallSound(c) /\ c \in Call
  BY DEF TypesInv, CallsTyped, CallSound
<1>2. e \in Call /\ e.n = c.n /\ e.kind = c.kind /\ e.row = c.row /\ e.act = c.act
  BY <1>1 DEF Call
<1>3. Answered(c, e)
  OBVIOUS
<1>. HIDE DEF e
<1>4. CallSound(e)
  BY <1>1, <1>2 DEF CallSound
<1>. QED BY <1>2, <1>3, <1>4, CallsAnswered DEF TypesInv, Answered

LEMMA RefusedTyped ==
  ASSUME TablesAssumption, TypesInv, NEW c \in calls, Refused(c) \/ Failed(c)
  PROVE  TypesInv'
<1>1. /\ ScreenTyped' /\ table' = table /\ rowCount' = rowCount /\ orderBy' = orderBy
      /\ tableLoading' = tableLoading /\ searching' = searching
  BY ServerStepScreen DEF Refused, Failed
<1>2. PlainTyped'
  <2>1. CASE Refused(c)
    BY <1>1, <2>1 DEF Refused, Undisturbed, server, TypesInv, PlainTyped
  <2>2. CASE Failed(c)
    <3>1. events' \in 0..MaxEvents /\ disturbed' = TRUE /\ UNCHANGED <<items, hadStatus>>
      BY <2>2 DEF Failed, Trouble, server, TypesInv, PlainTyped, TablesAssumption
    <3>. QED BY <1>1, <3>1 DEF TypesInv, PlainTyped
  <2>. QED BY <2>1, <2>2
<1>3. CallsTyped'
  BY <1>1, StageTyped DEF Refused, Failed
<1>. QED BY <1>1, <1>2, <1>3 DEF TypesInv

LEMMA PurgedTyped ==
  ASSUME TablesAssumption, TypesInv, NEW c \in calls, Purged(c)
  PROVE  TypesInv'
<1>1. /\ ScreenTyped' /\ table' = table /\ rowCount' = rowCount /\ orderBy' = orderBy
      /\ tableLoading' = tableLoading /\ searching' = searching
  BY ServerStepScreen DEF Purged
<1>2. items' \in [Items -> Statuses \ {"none"}] /\ hadStatus' \in [Items -> SUBSET Statuses]
  BY DEF Purged, Statuses, TypesInv, PlainTyped
<1>3. PlainTyped'
  BY <1>1, <1>2 DEF Purged, Undisturbed, TypesInv, PlainTyped
<1>4. CallsTyped'
  BY <1>1, StageTyped DEF Purged
<1>. QED BY <1>1, <1>3, <1>4 DEF TypesInv

----------------------------------------------------------------------------
\* What the page makes of the answers.

LEMMA HerePlain ==
  ASSUME TablesAssumption, TypesInv, NEW c, Here(c)
  PROVE  /\ c \in calls /\ table' = table /\ table \in Tables /\ table' \in Tables
         /\ items' = items /\ hadStatus' = hadStatus /\ events' = events
         /\ items' \in [Items -> Statuses \ {"none"}] /\ hadStatus' \in [Items -> SUBSET Statuses]
         /\ events' \in 0..MaxEvents /\ rowCount \in Nat
         /\ {orderBy, tableLoading, searching, disturbed} \subseteq BOOLEAN
         /\ c \in Call /\ CallSound(c) /\ c.stage \in {"back", "refused"} /\ table \in AllTables
<1>1. c \in calls /\ UNCHANGED <<table, items, hadStatus, events>> /\ c.stage \in {"back", "refused"}
  BY DEF Here, server
<1>2. c \in Call /\ CallSound(c)
  BY <1>1 DEF TypesInv, CallsTyped, CallSound
<1>3. table \in AllTables
  BY DEF TypesInv, PlainTyped, TablesAssumption, AllTables
<1>. QED BY <1>1, <1>2, <1>3 DEF TypesInv, PlainTyped

\* The reset of a search by a blank keyword.
LEMMA ResetTyped ==
  ASSUME TablesAssumption, TypesInv, ScreenTyped', table' = table, NEW c \in calls, NEW e \in ResetAfter(c)
  PROVE  SentLoad(e, c.n, listing')
<1>1. e = [Load(c.n, 0, FALSE) EXCEPT !.list = listing', !.at = page']
  BY DEF ResetAfter
<1>2. c.n \in 1..MaxUnderWay
  BY CallFields DEF TypesInv, CallsTyped, CallSound
<1>3. listing' \in ListType /\ page' \in Nat \ {0} /\ page \in Nat \ {0} /\ Captured \in ListType
  BY ListingFields DEF ScreenTyped, TypesInv
<1>. QED BY <1>1, <1>2, <1>3, LoadTyped

LEMMA LoadAnsweredTyped ==
  ASSUME TablesAssumption, TypesInv, NEW c \in calls, LoadAnswered(c)
  PROVE  TypesInv'
<1>1. /\ Here(c) /\ searching' = searching
      /\ orderBy' = (orderBy /\ ~c.reset) /\ tableLoading' = LoaderAfterLoad(c) /\ CheckDoubled
  BY DEF LoadAnswered
<1>2. /\ table' = table /\ c \in Call /\ table \in AllTables
  BY <1>1, HerePlain
<1>3. /\ listing.rows \in RowList /\ stamp \in Nat /\ page \in Nat \ {0}
      /\ c.p \in Nat /\ c.data \in RowList /\ c.list.rows \in RowList /\ c.list.arr \in Nat
      /\ c.turn \in Nat
  BY <1>2, ListingFields, CallFields DEF TypesInv, ScreenTyped
<1>4. Loaded(c) \in RowList
  BY <1>2, <1>3, LoadedSays
<1>. DEFINE k == IF c.turn # 0 THEN c.turn ELSE page
            arr == IF table \in PushInPlace /\ c.p # 0 THEN c.list.arr ELSE NextStamp
<1>5. k \in Nat \ {0} /\ arr \in Nat
  BY <1>3, NextStampTyped
<1>6. \/ c.stage = "refused" /\ Turn(k) /\ rowCount' = rowCount
      \/ ShowArray(arr, Loaded(c), k) /\ rowCount' = Counted(Loaded(c), c.at)
  BY DEF LoadAnswered
<1>. HIDE DEF k, arr
<1>7. ScreenTyped'
  BY <1>2, <1>4, <1>5, <1>6, ShowTyped, TurnTyped DEF TypesInv
<1>8. PlainTyped'
  <2>1. rowCount' \in Nat
    BY <1>4, <1>6, CountedTyped DEF TypesInv, PlainTyped
  <2>2. tableLoading' \in BOOLEAN /\ orderBy' \in BOOLEAN /\ disturbed' \in BOOLEAN /\ searching' \in BOOLEAN
    BY <1>1, HerePlain DEF LoaderAfterLoad, CheckDoubled, Doubled
  <2>. QED BY <1>1, <2>1, <2>2, HerePlain DEF PlainTyped
<1>9. CallsTyped'
  <2>. DEFINE new(d) == [d EXCEPT !.list = listing']
              f(d) == IF table \in PushInPlace /\ d.list.arr = listing'.arr THEN new(d) ELSE d
  <2>1. calls' = {f(d) : d \in calls \ {c}} \cup ResetAfter(c)
    BY DEF LoadAnswered
  <2>2. \A d \in calls : CallSound(d) /\ d \in Call
    BY DEF TypesInv, CallsTyped, CallSound
  <2>3. listing' \in ListType
    BY <1>7 DEF ScreenTyped
  <2>4. \A d \in calls : CallSound(new(d)) /\ new(d).n = d.n
    BY <2>2, <2>3, WithList
  <2>. HIDE DEF new
  <2>5. \A d \in calls : CallSound(f(d)) /\ f(d).n = d.n
    BY <2>2, <2>4
  <2>. HIDE DEF f
  <2>6. \A e \in ResetAfter(c) : CallSound(e) /\ e.n = c.n
    BY <1>2, <1>7, ResetTyped, SoundLoad
  <2>7. \A e, g \in ResetAfter(c) : e = g
    BY DEF ResetAfter
  <2>8. \A e \in calls' : CallSound(e)'
    <3>1. \A e \in calls' : CallSound(e)
      BY <2>1, <2>5, <2>6
    <3>. QED BY <1>2, <3>1 DEF CallSound
  <2>9. \A d \in calls \ {c} : f(d).n # c.n
    BY <2>5 DEF TypesInv, CallsTyped
  <2>10. \A d, b \in calls : f(d).n = f(b).n => f(d) = f(b)
    BY <2>5 DEF TypesInv, CallsTyped
  <2>11. \A e, g \in calls' : e.n = g.n => e = g
    BY <2>1, <2>6, <2>7, <2>9, <2>10
  <2>. QED BY <2>8, <2>11 DEF CallsTyped
<1>. QED BY <1>7, <1>8, <1>9 DEF TypesInv

\* The switch that is turned when the list is there again.
LEMMA FlippedTyped ==
  ASSUME NEW c \in Call, NEW e, e = [c EXCEPT !.act = c.flip]
  PROVE  e \in Call /\ e.row = c.row /\ e.act = c.flip
BY DEF Call

LEMMA SwitchesTurned ==
  ASSUME TypesInv, NEW c \in calls
  PROVE  LET turned == Switched([c EXCEPT !.act = c.flip]) IN
         /\ turned \in [Items -> Switch]
         /\ \A i \in Items : (turned[i] = NoSwitch) <=> (switches[i] = NoSwitch)
         /\ \A i \in Items : switches[i] # NoSwitch =>
              \/ turned[i] = switches[i]
              \/ i = c.row.id /\ c.flip \in {"enable", "disable"} /\ turned[i][1] = Asked[c.flip]
         /\ \A i \in Items : /\ switches[i] # NoSwitch /\ switches[i][2] = c.row.born
                             /\ i = c.row.id /\ c.flip \in {"enable", "disable"}
                             => turned[i][1] = Asked[c.flip]
<1>. DEFINE e == [c EXCEPT !.act = c.flip]
<1>1. c \in Call
  BY DEF TypesInv, CallsTyped, CallSound
<1>2. e \in Call /\ e.row = c.row /\ e.act = c.flip
  BY <1>1, FlippedTyped
<1>. HIDE DEF e
<1>3. e.row.born \in Nat
  BY <1>2, CallFields
<1>4. switches \in [Items -> Switch]
  BY DEF TypesInv, ScreenTyped
<1>5. /\ Switched(e) \in [Items -> Switch]
      /\ \A i \in Items : (Switched(e)[i] = NoSwitch) <=> (switches[i] = NoSwitch)
      /\ \A i \in Items : switches[i] # NoSwitch =>
              \/ Switched(e)[i] = switches[i]
              \/ i = e.row.id /\ e.act \in {"enable", "disable"} /\ Switched(e)[i][1] = Asked[e.act]
      /\ \A i \in Items : /\ switches[i] # NoSwitch /\ switches[i][2] = e.row.born
                          /\ i = e.row.id /\ e.act \in {"enable", "disable"}
                          => Switched(e)[i][1] = Asked[e.act]
  BY <1>3, <1>4, SwitchedOf
<1>. QED BY <1>2, <1>5 DEF e

LEMMA LoadThenSwitchTyped ==
  ASSUME TablesAssumption, TypesInv, NEW c \in calls, LoadThenSwitch(c)
  PROVE  TypesInv'
<1>1. /\ Here(c) /\ searching' = searching /\ orderBy' = orderBy /\ tableLoading' = FALSE
      /\ rowCount' = rowCount /\ CheckDoubled /\ calls' \subseteq calls
  BY DEF LoadThenSwitch
<1>2. /\ table' = table /\ c \in Call /\ table \in AllTables
  BY <1>1, HerePlain
<1>3. /\ listing.rows \in RowList /\ stamp \in Nat /\ page \in Nat \ {0}
      /\ switches \in [Items -> Switch]
      /\ c.p \in Nat /\ c.data \in RowList /\ c.list.rows \in RowList
  BY <1>2, ListingFields, CallFields DEF TypesInv, ScreenTyped
<1>4. Loaded(c) \in RowList
  BY <1>2, <1>3, LoadedSays
<1>. DEFINE turned == Switched([c EXCEPT !.act = c.flip])
            mounted == Remounted(Loaded(c), page)
            new == [i \in Items |-> IF i \in OnPage(Loaded(c), page) /\ turned[i] # NoSwitch THEN turned[i]
                                    ELSE mounted[i]]
<1>5. /\ turned \in [Items -> Switch]
      /\ \A i \in Items : (turned[i] = NoSwitch) <=> (switches[i] = NoSwitch)
  BY SwitchesTurned
<1>6. /\ mounted \in [Items -> Switch]
      /\ table \in BerryTables => \A i \in OnPage(Loaded(c), page) : mounted[i] # NoSwitch
  BY <1>3, <1>4, SwitchesMounted
<1>7. \/ c.stage = "refused" /\ switches' = turned /\ UNCHANGED <<listing, page, stamp, displaced>>
      \/ /\ listing' = [arr |-> NextStamp, rows |-> Loaded(c)] /\ switches' = new
         /\ stamp' = NextStamp /\ UNCHANGED <<page, displaced>>
  BY DEF LoadThenSwitch
<1>. HIDE DEF turned, mounted
<1>8. \A i \in OnPage(Loaded(c), page) \cup OnPage(listing.rows, page) : i \in Items
  <2>1. \A rows \in RowList : \A i \in OnPage(rows, page) : i \in Items
    <3>1. \A rows \in RowList : PageOf(rows, page) \in RowList
      BY <1>3, PageRows
    <3>. QED BY <3>1, RowsAreReal DEF OnPage, Row
  <2>. QED BY <1>3, <1>4, <2>1
<1>9. /\ new \in [Items -> Switch]
      /\ table \in BerryTables => \A i \in OnPage(Loaded(c), page) : new[i] # NoSwitch
  BY <1>5, <1>6, <1>8
<1>. HIDE DEF new
<1>10. ScreenTyped'
  <2>1. CASE switches' = turned /\ UNCHANGED <<listing, page, stamp, displaced>>
    <3>1. OnPage(listing.rows, page)' = OnPage(listing.rows, page)
      BY <2>1 DEF OnPage, PageOf, Slice
    <3>. QED BY <1>2, <1>5, <1>8, <2>1, <3>1 DEF ScreenTyped, TypesInv
  <2>2. CASE /\ listing' = [arr |-> NextStamp, rows |-> Loaded(c)] /\ switches' = new
             /\ stamp' = NextStamp /\ UNCHANGED <<page, displaced>>
    <3>1. listing'.rows = Loaded(c) /\ listing' \in ListType /\ stamp' \in Nat
      BY <1>3, <1>4, <2>2, NextStampTyped DEF ListType
    <3>2. OnPage(listing.rows, page)' = OnPage(Loaded(c), page)
      BY <2>2, <3>1 DEF OnPage, PageOf, Slice
    <3>. QED BY <1>2, <1>9, <2>2, <3>1, <3>2 DEF ScreenTyped, TypesInv
  <2>. QED BY <1>7, <2>1, <2>2
<1>11. PlainTyped'
  <2>1. disturbed' \in BOOLEAN
    BY <1>1, HerePlain DEF CheckDoubled, Doubled
  <2>. QED BY <1>1, <2>1, HerePlain DEF PlainTyped
<1>. QED BY <1>1, <1>2, <1>10, <1>11, CallsKept DEF TypesInv

LEMMA SearchAnsweredTyped ==
  ASSUME TablesAssumption, TypesInv, NEW c \in calls, SearchAnswered(c)
  PROVE  TypesInv'
<1>1. Here(c) /\ orderBy' = orderBy /\ disturbed' = disturbed /\ calls' \subseteq calls
  BY DEF SearchAnswered
<1>2. table' = table /\ c \in Call /\ table \in AllTables
  BY <1>1, HerePlain
<1>. DEFINE rows == IF table \in InPlace THEN Born(c.data) ELSE c.data
<1>3. rows \in RowList /\ c.data \in RowList
  BY <1>2, CallFields, BornOf DEF TypesInv, ScreenTyped
<1>4. \/ UNCHANGED <<listing, page, switches, stamp, displaced, rowCount>>
      \/ /\ Show(rows, 1)
         /\ rowCount' = IF table = "air tokens" THEN Counted(c.data, c.at) ELSE rowCount
  BY DEF SearchAnswered, screen
<1>. HIDE DEF rows
<1>5. ScreenTyped'
  <2>1. 1 \in Nat \ {0} /\ NextStamp \in Nat
    BY NextStampTyped DEF TypesInv, ScreenTyped
  <2>. QED BY <1>2, <1>3, <1>4, <2>1, ShowTyped, StandTyped DEF Show, TypesInv
<1>6. PlainTyped'
  <2>1. rowCount' \in Nat
    BY <1>3, <1>4, CountedTyped DEF TypesInv, PlainTyped
  <2>2. tableLoading' \in BOOLEAN /\ searching' \in BOOLEAN
    BY <1>1, HerePlain DEF SearchAnswered
  <2>. QED BY <1>1, <2>1, <2>2, HerePlain DEF PlainTyped
<1>. QED BY <1>1, <1>2, <1>5, <1>6, CallsKept DEF TypesInv

LEMMA SharedMarkSound ==
  ASSUME NEW c, c.mark \in Statuses, NEW d \in Call, CallSound(d)
  PROVE  LET e == SharedMark(c, d) IN
         /\ CallSound(e) /\ e.n = d.n /\ e.kind = d.kind /\ e.stage = d.stage /\ e.at = d.at
         /\ e.idx = d.idx /\ e.row = d.row /\ e.act = d.act /\ e.flip = d.flip /\ e.data = d.data
         /\ e.mark = d.mark
         /\ e.list.rows = d.list.rows \/ e.list.rows = Marked(d.list.rows, c.row, c.mark)
<1>. DEFINE rows == Marked(d.list.rows, c.row, c.mark)
            e == [d EXCEPT !.list.rows = rows]
<1>1. d.list \in ListType /\ d.list.rows \in RowList
  BY CallFields
<1>2. rows \in RowList
  BY <1>1, MarkedOf
<1>. DEFINE list == [d.list EXCEPT !.rows = rows]
<1>3. e = [d EXCEPT !.list = list] /\ list \in ListType /\ list.rows = rows
  BY <1>1, <1>2 DEF ListType
<1>. HIDE DEF e, list, rows
<1>4. /\ e \in Call /\ e.n = d.n /\ e.kind = d.kind /\ e.stage = d.stage /\ e.at = d.at
      /\ e.idx = d.idx /\ e.row = d.row /\ e.act = d.act /\ e.flip = d.flip /\ e.data = d.data
      /\ e.mark = d.mark /\ e.list = list
  BY <1>3 DEF Call
<1>5. CallSound(e)
  BY <1>4 DEF CallSound
<1>6. SharedMark(c, d) = e \/ SharedMark(c, d) = d
  BY DEF SharedMark, e, rows
<1>. QED BY <1>3, <1>4, <1>5, <1>6 DEF rows

LEMMA ManageAnsweredTyped ==
  ASSUME TablesAssumption, TypesInv, NEW c \in calls, ManageAnswered(c)
  PROVE  TypesInv'
<1>1. /\ Here(c) /\ orderBy' = orderBy /\ disturbed' = disturbed /\ searching' = searching
      /\ Show(ManagedRows(c), page)
      /\ rowCount' = IF table = "air tokens" THEN Counted(ManagedRows(c), c.at) ELSE rowCount
  BY DEF ManageAnswered
<1>2. table' = table /\ c \in Call /\ CallSound(c) /\ table \in AllTables
  BY <1>1, HerePlain
<1>3. /\ table \in Managed \ BerryTables /\ stamp \in Nat /\ c.row \in Row /\ c.mark \in Statuses
      /\ c.list.rows \in RowList /\ listing.rows \in RowList /\ page \in Nat \ {0}
  BY <1>2, CallFields, ListingFields DEF ManageAnswered, CallSound, TypesInv, ScreenTyped
<1>4. ManagedRows(c) \in RowList
  BY <1>3, ManagedSays
<1>5. ScreenTyped'
  BY <1>1, <1>2, <1>3, <1>4, NextStampTyped, ShowTyped DEF Show, TypesInv
<1>6. PlainTyped'
  <2>1. rowCount' \in Nat
    BY <1>1, <1>4, CountedTyped DEF TypesInv, PlainTyped
  <2>2. tableLoading' \in BOOLEAN
    BY <1>1, HerePlain DEF ManageAnswered
  <2>. QED BY <1>1, <2>1, <2>2, HerePlain DEF PlainTyped
<1>7. CallsTyped'
  <2>. DEFINE f(d) == SharedMark(c, d)
  <2>1. calls' = {f(d) : d \in calls \ {c}}
    BY DEF ManageAnswered
  <2>2. ASSUME NEW d \in calls PROVE CallSound(f(d)) /\ f(d).n = d.n
    BY <1>2, <1>3, SharedMarkSound DEF TypesInv, CallsTyped, CallSound
  <2>. HIDE DEF f
  <2>3. \A e \in calls' : CallSound(e)'
    BY <1>2, <2>1, <2>2 DEF CallSound
  <2>4. \A d, b \in calls : f(d).n = f(b).n => f(d) = f(b)
    BY <2>2 DEF TypesInv, CallsTyped
  <2>. QED BY <2>1, <2>3, <2>4 DEF CallsTyped
<1>. QED BY <1>5, <1>6, <1>7 DEF TypesInv

LEMMA ManageRefusedTyped ==
  ASSUME TablesAssumption, TypesInv, NEW c \in calls, ManageRefused(c)
  PROVE  TypesInv'
<1>1. Here(c) /\ orderBy' = orderBy /\ disturbed' = disturbed /\ searching' = searching /\ calls' \subseteq calls
  BY DEF ManageRefused
<1>2. table' = table /\ c \in Call /\ table \in AllTables
  BY <1>1, HerePlain
<1>. DEFINE rows == Without(c.list.rows, c.row.id)
<1>3. rows \in RowList /\ page \in Nat \ {0} /\ NextStamp \in Nat
  BY <1>2, CallFields, WithoutOf, NextStampTyped DEF TypesInv, ScreenTyped
<1>4. \/ UNCHANGED <<listing, page, switches, stamp, displaced, rowCount>>
      \/ /\ Show(rows, page)
         /\ rowCount' = IF table = "air tokens" THEN Counted(rows, c.at) ELSE rowCount
  BY DEF ManageRefused, removeRecord, screen
<1>. HIDE DEF rows
<1>5. ScreenTyped'
  BY <1>2, <1>3, <1>4, ShowTyped, StandTyped DEF Show, TypesInv
<1>6. PlainTyped'
  <2>1. rowCount' \in Nat
    BY <1>3, <1>4, CountedTyped DEF TypesInv, PlainTyped
  <2>2. tableLoading' \in BOOLEAN
    BY <1>1, HerePlain DEF ManageRefused
  <2>. QED BY <1>1, <2>1, <2>2, HerePlain DEF PlainTyped
<1>. QED BY <1>1, <1>2, <1>5, <1>6, CallsKept DEF TypesInv

LEMMA ReloadSent ==
  ASSUME TypesInv, NEW c \in calls, c.kind = "manage", Reloaded(c) >= 0, table \in BerryTables,
         NEW e, e = [TableRequest(c.n, "reload", c.list, c.at) EXCEPT
                                  !.p = Reloaded(c), !.row = c.row, !.flip = c.act]
  PROVE  /\ SentOther(e, c.n, "reload", c.list, c.at) /\ e.p = Reloaded(c) /\ e.row = c.row /\ e.flip = c.act
         /\ e.row \in Row /\ table \in Managed /\ CallSound(e)
<1>1. c \in Call /\ c.row \in Row /\ table \in Managed
  BY DEF TypesInv, CallsTyped, CallSound
<1>2. c.n \in 1..MaxUnderWay /\ c.list \in ListType /\ c.at \in Nat \ {0} /\ c.act \in Acts
  BY <1>1, CallFields
<1>. DEFINE r == TableRequest(c.n, "reload", c.list, c.at)
            p == Reloaded(c)
<1>3. SentOther(r, c.n, "reload", c.list, c.at)
  BY <1>2, OthersTyped
<1>4. p \in Nat
  <2>1. table \in {"berry channels", "berry tokens", "berry users", "berry redemptions"}
    BY <1>1 DEF Managed, BerryTables, ChannelTables, TokenTables, UserTables, RedemptionTables
  <2>2. p \in {c.at - 1, -1, 0}
    BY <2>1 DEF Reloaded, manageChannelBerry, manageTokenBerry, manageUserBerry, manageRedemptionBerry
  <2>3. p >= 0
    OBVIOUS
  <2>. HIDE DEF p
  <2>. QED BY <1>2, <2>2, <2>3
<1>5. e = [r EXCEPT !.p = p, !.row = c.row, !.flip = c.act]
  OBVIOUS
<1>. HIDE DEF r, p
<1>6. SentOther(e, c.n, "reload", c.list, c.at) /\ e.p = p /\ e.row = c.row /\ e.flip = c.act
  BY <1>1, <1>2, <1>3, <1>4, <1>5, ZenonT(30) DEF SentOther, Call
<1>. QED BY <1>1, <1>6 DEF p, SentOther, CallSound

LEMMA ManageAnsweredInBerryTyped ==
  ASSUME TablesAssumption, TypesInv, NEW c \in calls, ManageAnsweredInBerry(c)
  PROVE  TypesInv'
<1>1. /\ Here(c) /\ orderBy' = orderBy /\ disturbed' = disturbed /\ searching' = searching
      /\ rowCount' = rowCount /\ UNCHANGED <<listing, page, stamp, displaced>> /\ c.kind = "manage"
      /\ table \in BerryTables /\ switches' \in {switches, Switched(c)}
  BY DEF ManageAnsweredInBerry
<1>2. table' = table /\ c \in Call /\ table \in AllTables
  BY <1>1, HerePlain
<1>3. ScreenTyped'
  <2>1. /\ Switched(c) \in [Items -> Switch]
        /\ \A i \in Items : (Switched(c)[i] = NoSwitch) <=> (switches[i] = NoSwitch)
    BY <1>2, CallFields, SwitchedOf DEF TypesInv, ScreenTyped
  <2>2. OnPage(listing.rows, page)' = OnPage(listing.rows, page)
    BY <1>1 DEF OnPage, PageOf, Slice
  <2>3. \A i \in OnPage(listing.rows, page) : i \in Items
    <3>1. PageOf(listing.rows, page) \in RowList
      BY PageRows, ListingFields DEF TypesInv, ScreenTyped
    <3>. QED BY <3>1, RowsAreReal DEF OnPage, Row
  <2>. QED BY <1>1, <1>2, <2>1, <2>2, <2>3 DEF ScreenTyped, TypesInv
<1>4. PlainTyped'
  <2>1. tableLoading' \in BOOLEAN
    BY <1>1, HerePlain DEF ManageAnsweredInBerry
  <2>. QED BY <1>1, <2>1, HerePlain DEF PlainTyped
<1>5. CallsTyped'
  <2>. DEFINE e == [TableRequest(c.n, "reload", c.list, c.at) EXCEPT
                                  !.p = Reloaded(c), !.row = c.row, !.flip = c.act]
  <2>1. CASE c.stage = "back" /\ Reloaded(c) >= 0
    <3>1. calls' = (calls \ {c}) \cup {e}
      BY <2>1 DEF ManageAnsweredInBerry
    <3>2. CallSound(e) /\ e.n = c.n
      BY <1>1, <2>1, ReloadSent DEF SentOther
    <3>. HIDE DEF e
    <3>. QED BY <1>2, <3>1, <3>2, CallsAnswered DEF TypesInv
  <2>2. CASE ~(c.stage = "back" /\ Reloaded(c) >= 0)
    <3>1. calls' \subseteq calls
      BY <2>2 DEF ManageAnsweredInBerry
    <3>. QED BY <1>2, <3>1, CallsKept DEF TypesInv
  <2>. QED BY <2>1, <2>2
<1>. QED BY <1>3, <1>4, <1>5 DEF TypesInv

LEMMA PurgeAnsweredTyped ==
  ASSUME TablesAssumption, TypesInv, NEW c \in calls, PurgeAnswered(c)
  PROVE  TypesInv'
<1>1. /\ Here(c) /\ orderBy' = orderBy /\ disturbed' = disturbed /\ searching' = searching
      /\ rowCount' = rowCount /\ UNCHANGED <<listing, page, switches, stamp, displaced>>
  BY DEF PurgeAnswered, screen
<1>2. table' = table /\ c \in Call /\ table \in AllTables
  BY <1>1, HerePlain
<1>3. ScreenTyped'
  BY <1>1, <1>2, StandTyped DEF TypesInv
<1>4. PlainTyped'
  <2>1. tableLoading' \in BOOLEAN
    BY <1>1, HerePlain DEF PurgeAnswered
  <2>. QED BY <1>1, <2>1, HerePlain DEF PlainTyped
<1>5. CallsTyped'
  <2>. DEFINE e == [TableRequest(c.n, "load", c.list, c.at) EXCEPT !.p = c.at - 1]
  <2>1. CASE c.stage # "refused"
    <3>1. calls' = (calls \ {c}) \cup {e}
      BY <2>1 DEF PurgeAnswered
    <3>2. c.n \in 1..MaxUnderWay /\ c.list \in ListType /\ c.at \in Nat \ {0} /\ c.at - 1 \in Nat
      BY <1>2, CallFields
    <3>3. SentLoad(e, c.n, c.list)
      BY <3>2, OthersTyped
    <3>. HIDE DEF e
    <3>4. CallSound(e) /\ e.n = c.n
      BY <3>3, SoundLoad
    <3>. QED BY <1>2, <3>1, <3>4, CallsAnswered DEF TypesInv
  <2>2. CASE c.stage = "refused"
    <3>1. calls' \subseteq calls
      BY <2>2 DEF PurgeAnswered
    <3>. QED BY <1>2, <3>1, CallsKept DEF TypesInv
  <2>. QED BY <2>1, <2>2
<1>. QED BY <1>3, <1>4, <1>5 DEF TypesInv

LEMMA LostTyped ==
  ASSUME TablesAssumption, TypesInv, NEW c \in calls, Lost(c)
  PROVE  TypesInv'
<1>1. /\ table' = table /\ items' = items /\ hadStatus' = hadStatus /\ orderBy' = orderBy
      /\ disturbed' = TRUE /\ rowCount' = rowCount /\ tableLoading' = tableLoading
      /\ UNCHANGED <<listing, page, switches, stamp, displaced>> /\ calls' \subseteq calls
      /\ searching' \in {searching, FALSE}
  BY DEF Lost, Trouble, screen, server
<1>2. events' \in 0..MaxEvents
  <2>1. Trouble
    BY DEF Lost
  <2>2. events < MaxEvents /\ events' = events + 1
    BY <2>1 DEF Trouble
  <2>. QED BY <2>2 DEF TypesInv, PlainTyped, TablesAssumption
<1>3. PlainTyped'
  BY <1>1, <1>2 DEF TypesInv, PlainTyped
<1>. QED BY <1>1, <1>3, StandTyped, CallsKept DEF TypesInv

LEMMA OutsideChangeTyped ==
  ASSUME TablesAssumption, TypesInv, NEW i \in Items, OutsideChange(i)
  PROVE  TypesInv'
<1>1. /\ table' = table /\ orderBy' = orderBy
      /\ disturbed' = TRUE /\ rowCount' = rowCount /\ tableLoading' = tableLoading
      /\ UNCHANGED <<listing, page, switches, stamp, displaced>> /\ calls' \subseteq calls
      /\ searching' = searching
  BY DEF OutsideChange, Trouble, screen, loaders
<1>2. events' \in 0..MaxEvents
  BY DEF OutsideChange, Trouble, TypesInv, PlainTyped, TablesAssumption
<1>3. PICK status \in {"gone", "auto", "off"} :
        /\ items' = [items EXCEPT ![i] = status] /\ hadStatus' = [hadStatus EXCEPT ![i] = @ \cup {status}]
  BY DEF OutsideChange
<1>4. status \in Statuses \ {"none"}
  BY DEF Statuses
<1>5. items' \in [Items -> Statuses \ {"none"}] /\ hadStatus' \in [Items -> SUBSET Statuses]
  BY <1>3, <1>4 DEF TypesInv, PlainTyped
<1>6. PlainTyped'
  BY <1>1, <1>2, <1>5 DEF TypesInv, PlainTyped
<1>. QED BY <1>1, <1>6, StandTyped, CallsKept DEF TypesInv

LEMMA TablesStepTyped ==
  ASSUME TablesAssumption, TypesInv, TablesNext
  PROVE  TypesInv'
<1>. USE GoToPageTyped, RefreshTableTyped, SearchBlankTyped, SearchKeywordTyped, handleOrderByChangeTyped,
         SortRowsTyped, ManageTyped, deleteAllTyped, OutsideChangeTyped
<1>1. CASE \E c \in calls :
        \/ Queried(c) \/ Done(c) \/ Refused(c) \/ Purged(c) \/ Failed(c)
        \/ LoadAnswered(c) \/ LoadThenSwitch(c) \/ SearchAnswered(c)
        \/ ManageAnswered(c) \/ ManageRefused(c) \/ ManageAnsweredInBerry(c) \/ PurgeAnswered(c)
        \/ Lost(c)
  BY <1>1, QueriedTyped, DoneTyped, RefusedTyped, PurgedTyped, LoadAnsweredTyped, LoadThenSwitchTyped,
     SearchAnsweredTyped, ManageAnsweredTyped, ManageRefusedTyped, ManageAnsweredInBerryTyped,
     PurgeAnsweredTyped, LostTyped
<1>. QED BY <1>1 DEF TablesNext

LEMMA TablesInitSays ==
  ASSUME TablesInit
  PROVE  /\ table \in Tables /\ items = [i \in Items |-> "on"] /\ hadStatus = [i \in Items |-> {"on"}]
         /\ listing = NoList /\ page = 1 /\ rowCount = (IF table \in AirTables THEN ITEMS_PER_PAGE ELSE 0)
         /\ switches = [i \in Items |-> NoSwitch] /\ orderBy = FALSE
         /\ tableLoading = TRUE /\ searching = FALSE /\ lostLoaders = {}
         /\ calls = {[TableRequest(n, "load", NoList, 1) EXCEPT !.p = 0] :
                       n \in 1..(IF table = "berry logs" THEN 2 ELSE 1)}
         /\ stamp = 0 /\ displaced = FALSE /\ disturbed = FALSE /\ events = 0
BY DEF TablesInit

LEMMA TablesInitTyped ==
  ASSUME TablesAssumption, TablesInit
  PROVE  TypesInv
<1>1. NoList \in ListType /\ NoList.rows = <<>> /\ <<>> \in RowList
  BY DEF NoList, ListType, RowList
<1>2. listing = NoList /\ page = 1 /\ stamp = 0 /\ switches = [i \in Items |-> NoSwitch]
  BY TablesInitSays
<1>3. OnPage(listing.rows, page) = {}
  <2>1. page \in Nat \ {0} /\ listing.rows = <<>>
    BY <1>1, <1>2
  <2>2. /\ PageOf(<<>>, page) \in RowList
        /\ \A j \in DOMAIN PageOf(<<>>, page) : (page - 1) * ITEMS_PER_PAGE + j \in DOMAIN <<>>
    BY <1>1, <2>1, PageRows
  <2>3. DOMAIN PageOf(<<>>, page) = {}
    BY <2>2
  <2>. QED BY <2>1, <2>3 DEF OnPage
<1>4. ScreenTyped
  <2>1. switches \in [Items -> Switch]
    BY <1>2 DEF Switch
  <2>2. displaced \in BOOLEAN /\ page \in Nat \ {0} /\ stamp \in Nat
    <3>1. displaced = FALSE
      BY TablesInitSays
    <3>2. displaced \in BOOLEAN
      BY <3>1, Zenon
    <3>. QED BY <1>2, <3>2
  <2>. QED BY <1>1, <1>2, <1>3, <2>1, <2>2 DEF ScreenTyped
<1>5. PlainTyped
  <2>1. table \in Tables /\ events = 0
        /\ rowCount = (IF table \in AirTables THEN ITEMS_PER_PAGE ELSE 0)
    BY TablesInitSays
  <2>2. rowCount \in Nat /\ events \in 0..MaxEvents
    BY <2>1 DEF TablesAssumption
  <2>3. items = [i \in Items |-> "on"] /\ hadStatus = [i \in Items |-> {"on"}]
    BY TablesInitSays
  <2>4. "on" \in Statuses \ {"none"} /\ {"on"} \in SUBSET Statuses
    BY DEF Statuses
  <2>5. items \in [Items -> Statuses \ {"none"}] /\ hadStatus \in [Items -> SUBSET Statuses]
    BY <2>3, <2>4
  <2>6. orderBy = FALSE /\ tableLoading = TRUE /\ searching = FALSE /\ disturbed = FALSE
    BY TablesInitSays
  <2>. QED BY <2>1, <2>2, <2>5, <2>6 DEF PlainTyped
<1>6. CallsTyped
  <2>. DEFINE m == IF table = "berry logs" THEN 2 ELSE 1
              e(n) == [TableRequest(n, "load", NoList, 1) EXCEPT !.p = 0]
  <2>1. calls = {e(n) : n \in 1..m}
    BY TablesInitSays
  <2>2. 1..m \subseteq 1..MaxUnderWay
    <3>1. MaxUnderWay \in Int /\ MaxUnderWay >= 2
      BY DEF TablesAssumption
    <3>2. m \in {1, 2}
      OBVIOUS
    <3>. HIDE DEF m
    <3>. QED BY <3>1, <3>2
  <2>3. \A n \in 1..MaxUnderWay : SentLoad(e(n), n, NoList)
    BY <1>1, OthersTyped
  <2>. HIDE DEF e, m
  <2>4. \A n \in 1..MaxUnderWay : CallSound(e(n)) /\ e(n).n = n
    BY <2>3, SoundLoad
  <2>. QED BY <2>1, <2>2, <2>4 DEF CallsTyped
<1>. QED BY <1>4, <1>5, <1>6 DEF TypesInv

LEMMA TypesGiveTypeOK ==
  ASSUME TablesAssumption, TypesInv
  PROVE  TablesTypeOK
<1>1. \A k \in DOMAIN listing.rows : listing.rows[k].id \in Items /\ listing.rows[k].status \in Statuses
  BY RowsAreReal, ListingFields DEF TypesInv, Row
<1>2. \A r \in OnScreen : table \in BerryTables => switches[r.id] # NoSwitch
  BY DEF OnScreen, OnPage, TypesInv, ScreenTyped
<1>3. Cardinality({c.n : c \in calls}) = Cardinality(calls) /\ Cardinality(calls) <= MaxUnderWay
  <2>. DEFINE T == {c.n : c \in calls}
              f == [c \in calls |-> c.n]
  <2>1. T \in SUBSET (1..MaxUnderWay)
    BY CallFields DEF TypesInv, CallsTyped, CallSound
  <2>2. IsFiniteSet(1..MaxUnderWay) /\ Cardinality(1..MaxUnderWay) = MaxUnderWay
    BY FS_Interval DEF TablesAssumption
  <2>3. IsFiniteSet(T) /\ Cardinality(T) <= MaxUnderWay
    BY <2>1, <2>2, FS_Subset
  <2>4. f \in Injection(calls, T) /\ f \in Surjection(calls, T)
    BY DEF Injection, Surjection, IsInjective, TypesInv, CallsTyped
  <2>. HIDE DEF f, T
  <2>5. IsFiniteSet(calls) /\ Cardinality(calls) = Cardinality(T)
    BY <2>3, <2>4, FS_Injection
  <2>. QED BY <2>3, <2>5 DEF T
<1>. QED BY <1>1, <1>2, <1>3 DEF TablesTypeOK, TypesInv, PlainTyped, ScreenTyped

----------------------------------------------------------------------------
\* What a click does: it sends loads, or one other request, and the screen
\* stays, or turns to a page of the same list.

ClickManages(e) ==
  /\ SentOther(e, e.n, "manage", Captured, page)
  /\ e.row \in Row /\ table \in Managed /\ e.act \in DOMAIN Asked
  /\ e.idx \in DOMAIN PageOf(listing.rows, page)
  /\ e.row.id = PageOf(listing.rows, page)[e.idx].id
  /\ table \notin BerryTables => e.row = PageOf(listing.rows, page)[e.idx]
  /\ table \in BerryTables => switches[e.row.id] # NoSwitch /\ e.row.born = switches[e.row.id][2]

ClickSends(e) ==
  \/ SentLoad(e, e.n, Captured)
  \/ SentOther(e, e.n, "search", NoList, page)
  \/ SentOther(e, e.n, "purge", Captured, page) /\ table \in ChannelTables
  \/ ClickManages(e)

ScreenStands == UNCHANGED <<listing, page, switches, stamp, displaced>>

ClickSays(S) ==
  /\ Click /\ calls' = calls \cup S
  /\ \A e \in S : ClickSends(e)
  /\ \A e, d \in S : e = d \/ (e.kind = "load" /\ d.kind = "load")
  /\ ScreenStands \/ ((\A e \in S : e.kind = "load") /\ \E k \in Nat \ {0} : Turn(k))
  /\ tableLoading' => tableLoading \/ \E e \in S : "table" \in LoaderOf(e)
  /\ searching' => searching \/ \E e \in S : "search" \in LoaderOf(e)
  /\ orderBy' => orderBy \/ SearchingOf.order

LEMMA OneSent ==
  ASSUME NEW e, Click, calls' = calls \cup {e}, ClickSends(e),
         ScreenStands \/ (e.kind = "load" /\ \E k \in Nat \ {0} : Turn(k)),
         tableLoading' => tableLoading \/ "table" \in LoaderOf(e),
         searching' => searching \/ "search" \in LoaderOf(e),
         orderBy' => orderBy \/ SearchingOf.order
  PROVE  \E S : ClickSays(S)
<1>1. ClickSays({e})
  BY DEF ClickSays
<1>. QED BY <1>1

LEMMA LoadSent ==
  ASSUME NEW e, NEW n, Click, calls' = calls \cup {e}, SentLoad(e, n, Captured),
         ScreenStands \/ \E k \in Nat \ {0} : Turn(k),
         searching' = searching, orderBy' => orderBy \/ SearchingOf.order
  PROVE  \E S : ClickSays(S)
<1>1. ClickSends(e) /\ "table" \in LoaderOf(e) /\ e.kind = "load"
  BY DEF ClickSends, SentLoad, LoaderOf
<1>. QED BY <1>1, OneSent

LEMMA GoToPageSays ==
  ASSUME TablesAssumption, TypesInv, NEW k \in PagesOffered, GoToPage(k)
  PROVE  \E S : ClickSays(S)
<1>1. k \in Nat \ {0}
  BY PagesAreReal
<1>2. Click /\ searching' = searching /\ orderBy' = orderBy /\ (ScreenStands \/ Turn(k))
  BY DEF GoToPage, ScreenStands
<1>3. CASE k = PagesLoaded(listing.rows) + 1
  <2>. DEFINE t == IF PagingOf.turn = "after" THEN k ELSE 0
              e == [Load(Slot, k - 1, orderBy) EXCEPT !.turn = t]
  <2>1. FreeSlots # {} /\ calls' = calls \cup {e}
    BY <1>3 DEF GoToPage
  <2>2. t \in Nat /\ k - 1 \in Nat /\ orderBy \in BOOLEAN
    BY <1>1 DEF TypesInv, PlainTyped
  <2>. HIDE DEF t
  <2>3. SentLoad(e, Slot, Captured)
    BY <2>1, <2>2, LoadTyped, ListingFields, SlotIsFree DEF TypesInv, ScreenTyped
  <2>. HIDE DEF e
  <2>. QED BY <1>1, <1>2, <2>1, <2>3, LoadSent
<1>4. CASE k # PagesLoaded(listing.rows) + 1
  <2>1. calls' = calls \cup {} /\ tableLoading' = tableLoading
    BY <1>4 DEF GoToPage
  <2>2. ClickSays({})
    BY <1>1, <1>2, <2>1 DEF ClickSays
  <2>. QED BY <2>2
<1>. QED BY <1>3, <1>4

LEMMA RefreshTableSays ==
  ASSUME TablesAssumption, TypesInv, RefreshTable
  PROVE  \E S : ClickSays(S)
<1>0. FreeSlots # {} /\ page \in Nat \ {0} /\ orderBy \in BOOLEAN /\ Captured \in ListType
  BY ListingFields DEF RefreshTable, TypesInv, ScreenTyped, PlainTyped
<1>1. FreeSlots # {} /\ page - 1 \in Nat /\ 1 \in Nat \ {0} /\ 1 \in Nat /\ 0 \in Nat
      /\ orderBy \in BOOLEAN /\ Captured \in ListType /\ page \in Nat \ {0}
  BY <1>0
<1>2. Click /\ searching' = searching /\ orderBy' = orderBy /\ (ScreenStands \/ Turn(1))
  BY DEF RefreshTable, ScreenStands
<1>3. Slot \in FreeSlots /\ FreeSlots \subseteq 1..MaxUnderWay
  BY <1>1, SlotIsFree
<1>4. ASSUME NEW e, NEW n, SentLoad(e, n, Captured), calls' = calls \cup {e} PROVE \E S : ClickSays(S)
  BY <1>1, <1>2, <1>4, LoadSent
<1>5. CASE PagingOf.refresh = "page"
  <2>1. calls' = calls \cup {Load(Slot, page - 1, orderBy)}
    BY <1>5 DEF RefreshTable
  <2>. QED BY <1>1, <1>3, <1>4, <2>1, LoadTyped
<1>6. CASE PagingOf.refresh = "first"
  <2>. DEFINE e == [Load(Slot, 0, orderBy) EXCEPT !.turn = 1]
  <2>1. calls' = calls \cup {e}
    BY <1>6 DEF RefreshTable
  <2>2. SentLoad(e, Slot, Captured)
    BY <1>1, <1>3, LoadTyped
  <2>. HIDE DEF e
  <2>. QED BY <1>3, <1>4, <2>1, <2>2
<1>7. CASE PagingOf.refresh = "first now"
  <2>1. calls' = calls \cup {Load(Slot, 0, orderBy)}
    BY <1>7 DEF RefreshTable
  <2>. QED BY <1>1, <1>3, <1>4, <2>1, LoadTyped
<1>8. CASE PagingOf.refresh = "twice"
  <2>1. PICK m \in FreeSlots, n \in FreeSlots :
            m < n /\ calls' = calls \cup {Load(m, 0, orderBy), Load(n, 0, orderBy)}
    BY <1>8 DEF RefreshTable
  <2>. DEFINE e == Load(m, 0, orderBy)
              f == Load(n, 0, orderBy)
  <2>2. SentLoad(e, m, Captured) /\ SentLoad(f, n, Captured)
    BY <1>1, <1>3, LoadTyped
  <2>3. calls' = calls \cup {e, f}
    BY <2>1
  <2>. HIDE DEF e, f
  <2>4. /\ \A d \in {e, f} : ClickSends(d) /\ d.kind = "load"
        /\ "table" \in LoaderOf(e)
    BY <2>2 DEF SentLoad, ClickSends, LoaderOf
  <2>5. ClickSays({e, f})
    BY <1>1, <1>2, <2>3, <2>4 DEF ClickSays
  <2>. QED BY <2>5
<1>. QED BY <1>5, <1>6, <1>7, <1>8, PagingForms, TableKnown DEF RefreshTable

LEMMA SearchBlankSays ==
  ASSUME TablesAssumption, TypesInv, SearchBlank
  PROVE  \E S : ClickSays(S)
<1>1. FreeSlots # {} /\ 1 \in Nat /\ 0 \in Nat /\ orderBy \in BOOLEAN /\ Captured \in ListType
      /\ page \in Nat \ {0}
  BY ListingFields DEF SearchBlank, TypesInv, ScreenTyped, PlainTyped
<1>2. Click /\ searching' = searching /\ orderBy' = orderBy /\ ScreenStands
  BY DEF SearchBlank, ScreenStands, screen
<1>. DEFINE r == SearchingOf.order
            e == [Load(Slot, 0, orderBy) EXCEPT !.turn = 1, !.reset = r]
<1>3. calls' = calls \cup {e}
  BY DEF SearchBlank
<1>4. r \in BOOLEAN
  BY SearchingForms
<1>. HIDE DEF r
<1>5. SentLoad(e, Slot, Captured)
  BY <1>1, <1>4, LoadTyped, SlotIsFree
<1>. HIDE DEF e
<1>. QED BY <1>2, <1>3, <1>5, LoadSent

LEMMA SearchKeywordSays ==
  ASSUME TablesAssumption, TypesInv, SearchKeyword
  PROVE  \E S : ClickSays(S)
<1>1. FreeSlots # {} /\ NoList \in ListType /\ page \in Nat \ {0}
  BY ListingFields DEF SearchKeyword, TypesInv, ScreenTyped
<1>2. /\ Click /\ orderBy' = orderBy /\ ScreenStands
      /\ table \in BerryTables => searching' = searching
      /\ table \notin BerryTables => tableLoading' = tableLoading
  BY DEF SearchKeyword, ScreenStands, screen
<1>. DEFINE e == TableRequest(Slot, "search", NoList, page)
<1>3. calls' = calls \cup {e}
  BY DEF SearchKeyword
<1>4. SentOther(e, Slot, "search", NoList, page)
  BY <1>1, OthersTyped, SlotIsFree
<1>. HIDE DEF e
<1>5. /\ ClickSends(e) /\ e.kind = "search"
      /\ LoaderOf(e) = IF table \in BerryTables THEN {"table"} ELSE {"search"}
  BY <1>4 DEF ClickSends, SentOther, LoaderOf
<1>. QED BY <1>2, <1>3, <1>5, OneSent

LEMMA handleOrderByChangeSays ==
  ASSUME TablesAssumption, TypesInv, handleOrderByChange
  PROVE  \E S : ClickSays(S)
<1>1. FreeSlots # {} /\ 1 \in Nat \ {0} /\ 0 \in Nat /\ (~orderBy) \in BOOLEAN /\ Captured \in ListType
      /\ page \in Nat \ {0}
  BY ListingFields DEF handleOrderByChange, TypesInv, ScreenTyped, PlainTyped
<1>2. Click /\ searching' = searching /\ SearchingOf.order /\ Turn(1)
  BY DEF handleOrderByChange
<1>. DEFINE e == Load(Slot, 0, ~orderBy)
<1>3. calls' = calls \cup {e}
  BY DEF handleOrderByChange
<1>4. SentLoad(e, Slot, Captured)
  BY <1>1, LoadTyped, SlotIsFree
<1>. HIDE DEF e
<1>. QED BY <1>1, <1>2, <1>3, <1>4, LoadSent

LEMMA ManageSays ==
  ASSUME TablesAssumption, TypesInv, NEW k \in 1..ITEMS_PER_PAGE, NEW act \in DOMAIN Asked, Manage(k, act)
  PROVE  \E S : ClickSays(S)
<1>1. /\ Click /\ orderBy' = orderBy /\ searching' = searching /\ ScreenStands
      /\ tableLoading' = (tableLoading \/ "manage" \in PagingOf.loader)
  BY DEF Manage, ScreenStands, screen, Spins
<1>2. PICK row, e :
           /\ row \in Row
           /\ calls' = calls \cup {e} /\ FreeSlots # {} /\ SentOther(e, Slot, "manage", Captured, page)
           /\ e.act = act /\ e.idx = k /\ e.row = row /\ table \in Managed /\ act \in Acts
           /\ k \in DOMAIN PageOf(listing.rows, page)
           /\ row.id = PageOf(listing.rows, page)[k].id
           /\ table \notin BerryTables => row = PageOf(listing.rows, page)[k]
           /\ table \in BerryTables => switches[row.id] # NoSwitch /\ row.born = switches[row.id][2]
  BY ManageSends
<1>3. SentOther(e, e.n, "manage", Captured, page) /\ e.kind = "manage"
  BY <1>2 DEF SentOther
<1>4. ClickSends(e)
  BY <1>2, <1>3 DEF ClickSends, ClickManages
<1>5. "manage" \in PagingOf.loader => "table" \in LoaderOf(e)
  BY <1>3 DEF LoaderOf
<1>. QED BY <1>1, <1>2, <1>4, <1>5, OneSent

LEMMA deleteAllSays ==
  ASSUME TablesAssumption, TypesInv, deleteAllDisabledChannels
  PROVE  \E S : ClickSays(S)
<1>1. /\ Click /\ orderBy' = orderBy /\ searching' = searching /\ tableLoading' = tableLoading /\ ScreenStands
  BY DEF deleteAllDisabledChannels, ScreenStands, screen
<1>. DEFINE e == TableRequest(Slot, "purge", Captured, page)
<1>4. calls' = calls \cup {e} /\ FreeSlots # {} /\ table \in ChannelTables
  BY DEF deleteAllDisabledChannels
<1>5. SentOther(e, Slot, "purge", Captured, page)
  BY <1>4, OthersTyped, SlotIsFree, ListingFields DEF TypesInv, ScreenTyped
<1>. HIDE DEF e
<1>6. ClickSends(e)
  BY <1>4, <1>5 DEF ClickSends, SentOther
<1>. QED BY <1>1, <1>4, <1>6, OneSent

Clicks ==
  \/ \E k \in PagesOffered : GoToPage(k)
  \/ RefreshTable \/ SearchBlank \/ SearchKeyword \/ handleOrderByChange
  \/ \E k \in 1..ITEMS_PER_PAGE, act \in DOMAIN Asked : Manage(k, act)
  \/ deleteAllDisabledChannels

LEMMA ClicksSay ==
  ASSUME TablesAssumption, TypesInv, Clicks
  PROVE  \E S : ClickSays(S)
BY GoToPageSays, RefreshTableSays, SearchBlankSays, SearchKeywordSays, handleOrderByChangeSays,
   ManageSays, deleteAllSays DEF Clicks

----------------------------------------------------------------------------
\* The loaders turn for a request.

\* what a loader waits for: a request that was lost, or one under way
Awaited(l) == l \in lostLoaders \/ \E c \in calls : l \in LoaderOf(c)

LEMMA LoadersByKind ==
  ASSUME table' = table
  PROVE  /\ \A c, d : d.kind = c.kind => LoaderOf(d)' = LoaderOf(c)
         /\ \A c : c.kind \in {"load", "reload"} => LoaderOf(c) = {"table"} /\ LoaderOf(c)' = {"table"}
<1>1. \A c, d : d.kind = c.kind => LoaderOf(d)' = LoaderOf(c)
  BY DEF LoaderOf, PagingOf, Paging
<1>2. \A c : c.kind \in {"load", "reload"} => LoaderOf(c) = {"table"}
  BY DEF LoaderOf
<1>3. \A c : c.kind \in {"load", "reload"} => LoaderOf(c)' = {"table"}
  BY DEF LoaderOf
<1>. QED BY <1>1, <1>2, <1>3

\* A loader that turns still waits for the request that it waited for, or for
\* another; the requests that are gone were not what it waited for.
LEMMA LoadersKept ==
  ASSUME TableSpinner, table' = table,
         tableLoading' => tableLoading \/ Awaited("table")',
         searching' => searching \/ Awaited("search")',
         tableLoading' /\ "table" \in lostLoaders => "table" \in lostLoaders',
         searching' /\ "search" \in lostLoaders => "search" \in lostLoaders',
         \A c \in calls : \/ \E d \in calls' : d.kind = c.kind
                          \/ /\ tableLoading' /\ "table" \in LoaderOf(c) => Awaited("table")'
                             /\ searching' /\ "search" \in LoaderOf(c) => Awaited("search")'
  PROVE  TableSpinner'
<1>1. ASSUME tableLoading' PROVE Awaited("table")'
  <2>1. CASE Awaited("table")'
    BY <2>1
  <2>2. CASE Awaited("table")
    BY <1>1, <2>2, LoadersByKind DEF Awaited
  <2>. QED BY <1>1, <2>1, <2>2 DEF TableSpinner, Awaited
<1>2. ASSUME searching' PROVE Awaited("search")'
  <2>1. CASE Awaited("search")'
    BY <2>1
  <2>2. CASE Awaited("search")
    BY <1>2, <2>2, LoadersByKind DEF Awaited
  <2>. QED BY <1>2, <2>1, <2>2 DEF TableSpinner, Awaited
<1>. QED BY <1>1, <1>2 DEF TableSpinner, Awaited

LEMMA ClicksSpin ==
  ASSUME TableSpinner, NEW S, ClickSays(S)
  PROVE  TableSpinner'
<1>1. table' = table /\ lostLoaders' = lostLoaders /\ calls' = calls \cup S
  BY DEF ClickSays, Click
<1>2. ASSUME NEW e \in S, NEW l, l \in LoaderOf(e) PROVE Awaited(l)'
  BY <1>1, <1>2, LoadersByKind DEF Awaited
<1>3. /\ tableLoading' => tableLoading \/ Awaited("table")'
      /\ searching' => searching \/ Awaited("search")'
  BY <1>2 DEF ClickSays
<1>. QED BY <1>1, <1>3, LoadersKept

LEMMA SortSpins ==
  ASSUME TableSpinner, SortRows
  PROVE  TableSpinner'
<1>1. /\ table' = table /\ lostLoaders' = lostLoaders /\ calls' = calls /\ tableLoading' = FALSE
      /\ searching' = searching
  BY DEF SortRows, Click
<1>. QED BY <1>1, LoadersKept

\* The server changes the stage of a request, and what it carries.
LEMMA AnswerKeepsKind ==
  ASSUME TypesInv, NEW c \in calls, Queried(c) \/ Done(c) \/ Refused(c) \/ Purged(c) \/ Failed(c)
  PROVE  \A x \in calls : \E d \in calls' : d.kind = x.kind
<1>. SUFFICES ASSUME NEW x \in calls PROVE \E d \in calls' : d.kind = x.kind
  OBVIOUS
<1>1. c \in Call
  BY DEF TypesInv, CallsTyped, CallSound
<1>2. PICK e : Answered(c, e) /\ e.kind = c.kind
  <2>1. CASE Queried(c)
    <3>. DEFINE data == IF c.kind = "search" THEN WithKeyword ELSE ServerPage(c.order, c.p)
                e == [c EXCEPT !.stage = "back", !.data = data]
    <3>1. Answered(c, e)
      BY <2>1 DEF Queried
    <3>. HIDE DEF data
    <3>2. e.kind = c.kind
      BY <1>1 DEF Call
    <3>. QED BY <3>1, <3>2
  <2>2. CASE Done(c)
    <3>. DEFINE mark == AnsweredStatus(c)
                e == [c EXCEPT !.stage = "back", !.mark = mark]
    <3>1. Answered(c, e)
      BY <2>2 DEF Done
    <3>. HIDE DEF mark
    <3>2. e.kind = c.kind
      BY <1>1 DEF Call
    <3>. QED BY <3>1, <3>2
  <2>3. CASE Refused(c) \/ Purged(c) \/ Failed(c)
    <3>1. PICK stage : Answered(c, [c EXCEPT !.stage = stage])
      BY <2>3 DEF Refused, Purged, Failed
    <3>. DEFINE e == [c EXCEPT !.stage = stage]
    <3>2. e.kind = c.kind
      BY <1>1 DEF Call
    <3>. QED BY <3>1, <3>2
  <2>. QED BY <2>1, <2>2, <2>3
<1>3. CASE x = c
  BY <1>2, <1>3 DEF Answered
<1>4. CASE x # c
  BY <1>2, <1>4 DEF Answered
<1>. QED BY <1>3, <1>4

LEMMA ServerSpins ==
  ASSUME TypesInv, TableSpinner, NEW c \in calls,
         Queried(c) \/ Done(c) \/ Refused(c) \/ Purged(c) \/ Failed(c)
  PROVE  TableSpinner'
<1>1. /\ table' = table /\ lostLoaders' = lostLoaders /\ tableLoading' = tableLoading
      /\ searching' = searching
  <2>1. ServerStep
    BY DEF Queried, Done, Refused, Purged, Failed
  <2>. QED BY <2>1 DEF ServerStep, loaders
<1>. QED BY <1>1, AnswerKeepsKind, LoadersKept

LEMMA OutsideSpins ==
  ASSUME TableSpinner, NEW i, OutsideChange(i)
  PROVE  TableSpinner'
<1>1. /\ table' = table /\ lostLoaders' = lostLoaders /\ calls' = calls /\ tableLoading' = tableLoading
      /\ searching' = searching
  BY DEF OutsideChange, loaders
<1>. QED BY <1>1, LoadersKept

LEMMA LoweredKeeps ==
  ASSUME Lowered
  PROVE  /\ tableLoading' /\ "table" \in lostLoaders => "table" \in lostLoaders'
         /\ searching' /\ "search" \in lostLoaders => "search" \in lostLoaders'
BY DEF Lowered

LEMMA PageSpins ==
  ASSUME TablesAssumption, TypesInv, TableSpinner, NEW c \in calls,
         \/ LoadAnswered(c) \/ LoadThenSwitch(c) \/ SearchAnswered(c)
         \/ ManageAnswered(c) \/ ManageRefused(c) \/ ManageAnsweredInBerry(c) \/ PurgeAnswered(c)
         \/ Lost(c)
  PROVE  TableSpinner'
<1>0. \A d \in calls : d \in Call /\ CallSound(d)
  BY DEF TypesInv, CallsTyped, CallSound
<1>1. CASE LoadAnswered(c)
  <2>1. /\ table' = table /\ searching' = searching /\ tableLoading' = LoaderAfterLoad(c) /\ Lowered
        /\ c.kind = "load"
    BY <1>1 DEF LoadAnswered, Here
  <2>2. ASSUME tableLoading' PROVE Awaited("table")'
    <3>1. PICK e \in ResetAfter(c) : TRUE
      BY <2>1, <2>2 DEF LoaderAfterLoad
    <3>2. e \in calls'
      BY <1>1, <3>1 DEF LoadAnswered
    <3>3. e.kind = "load"
      BY <3>1 DEF ResetAfter, Load, TableRequest
    <3>. QED BY <2>1, <3>2, <3>3, LoadersByKind DEF Awaited
  <2>3. ASSUME NEW d \in calls, d # c PROVE \E e \in calls' : e.kind = d.kind
    <3>. DEFINE new == [d EXCEPT !.list = listing']
                f == IF table \in PushInPlace /\ d.list.arr = listing'.arr THEN new ELSE d
    <3>1. f \in calls'
      BY <1>1, <2>3 DEF LoadAnswered
    <3>2. new.kind = d.kind
      BY <1>0 DEF Call
    <3>. QED BY <3>1, <3>2
  <2>4. LoaderOf(c) = {"table"}
    BY <2>1, LoadersByKind
  <2>. QED BY <2>1, <2>2, <2>3, <2>4, LoweredKeeps, LoadersKept
<1>2. CASE LoadThenSwitch(c)
  <2>1. /\ table' = table /\ searching' = searching /\ tableLoading' = FALSE /\ Lowered
        /\ c.kind = "reload" /\ calls' = calls \ {c}
    BY <1>2 DEF LoadThenSwitch, Here
  <2>2. LoaderOf(c) = {"table"}
    BY <2>1, LoadersByKind
  <2>. QED BY <2>1, <2>2, LoweredKeeps, LoadersKept
<1>3. CASE SearchAnswered(c)
  <2>1. /\ table' = table /\ Lowered /\ c.kind = "search" /\ calls' = calls \ {c}
        /\ IF table \in BerryTables THEN tableLoading' = FALSE /\ UNCHANGED searching
           ELSE searching' = FALSE /\ UNCHANGED tableLoading
    BY <1>3 DEF SearchAnswered, Here
  <2>2. LoaderOf(c) = IF table \in BerryTables THEN {"table"} ELSE {"search"}
    BY <2>1 DEF LoaderOf
  <2>. QED BY <2>1, <2>2, LoweredKeeps, LoadersKept
<1>4. CASE ManageAnswered(c) \/ ManageRefused(c)
  <2>1. /\ table' = table /\ searching' = searching /\ Lowered /\ c.kind = "manage"
        /\ tableLoading' = (tableLoading /\ "manage" \notin PagingOf.loader)
    BY <1>4 DEF ManageAnswered, ManageRefused, Here
  <2>2. LoaderOf(c) \subseteq {"table"} /\ ("table" \in LoaderOf(c) => "manage" \in PagingOf.loader)
    BY <2>1 DEF LoaderOf
  <2>3. ASSUME NEW d \in calls, d # c PROVE \E e \in calls' : e.kind = d.kind
    <3>1. CASE ManageRefused(c)
      BY <2>3, <3>1 DEF ManageRefused
    <3>2. CASE ManageAnswered(c)
      <4>1. SharedMark(c, d) \in calls'
        BY <2>3, <3>2 DEF ManageAnswered
      <4>2. SharedMark(c, d).kind = d.kind
        BY <1>0, CallFields, SharedMarkSound
      <4>. QED BY <4>1, <4>2
    <3>. QED BY <1>4, <3>1, <3>2
  <2>4. "search" \notin LoaderOf(c) /\ (tableLoading' => "table" \notin LoaderOf(c))
    BY <2>1, <2>2
  <2>5. ASSUME NEW d \in calls
        PROVE  \/ \E e \in calls' : e.kind = d.kind
               \/ /\ tableLoading' /\ "table" \in LoaderOf(d) => Awaited("table")'
                  /\ searching' /\ "search" \in LoaderOf(d) => Awaited("search")'
    <3>1. CASE d = c
      BY <2>4, <3>1
    <3>2. CASE d # c
      BY <2>3, <3>2
    <3>. QED BY <3>1, <3>2
  <2>. QED BY <2>1, <2>5, LoweredKeeps, LoadersKept
<1>5. CASE ManageAnsweredInBerry(c)
  <2>. DEFINE reload == c.stage = "back" /\ Reloaded(c) >= 0
              e == [TableRequest(c.n, "reload", c.list, c.at) EXCEPT
                                  !.p = Reloaded(c), !.row = c.row, !.flip = c.act]
  <2>1. /\ table' = table /\ searching' = searching /\ lostLoaders' = lostLoaders /\ c.kind = "manage"
        /\ table \in BerryTables /\ tableLoading' = (tableLoading \/ reload)
        /\ calls' = (calls \ {c}) \cup (IF reload THEN {e} ELSE {})
    BY <1>5 DEF ManageAnsweredInBerry, Here
  <2>2. LoaderOf(c) = {}
    BY <2>1, PagingForms, TableKnown DEF LoaderOf
  <2>3. reload => e.kind = "reload"
    BY <2>1, ReloadSent DEF SentOther
  <2>. HIDE DEF e, reload
  <2>4. reload => Awaited("table")'
    BY <2>1, <2>3, LoadersByKind DEF Awaited
  <2>. QED BY <2>1, <2>2, <2>4, LoadersKept
<1>6. CASE PurgeAnswered(c)
  <2>. DEFINE e == [TableRequest(c.n, "load", c.list, c.at) EXCEPT !.p = c.at - 1]
  <2>1. /\ table' = table /\ searching' = searching /\ lostLoaders' = lostLoaders /\ c.kind = "purge"
        /\ IF c.stage = "refused" THEN calls' = calls \ {c} /\ UNCHANGED tableLoading
           ELSE calls' = (calls \ {c}) \cup {e} /\ tableLoading' = TRUE
    BY <1>6 DEF PurgeAnswered, Here
  <2>2. LoaderOf(c) = {}
    BY <2>1, PagingForms, TableKnown DEF LoaderOf
  <2>3. e.kind = "load"
    BY DEF TableRequest
  <2>. HIDE DEF e
  <2>4. c.stage # "refused" => Awaited("table")'
    BY <2>1, <2>3, LoadersByKind DEF Awaited
  <2>. QED BY <2>1, <2>2, <2>4, LoadersKept
<1>7. CASE Lost(c)
  <2>1. /\ table' = table /\ tableLoading' = tableLoading /\ calls' = calls \ {c}
        /\ IF c.kind = "search" /\ table = "air channels"
           THEN searching' = FALSE /\ UNCHANGED lostLoaders
           ELSE UNCHANGED searching /\ lostLoaders' = lostLoaders \cup LoaderOf(c)
    BY <1>7 DEF Lost
  <2>2. c.kind = "search" /\ table = "air channels" => LoaderOf(c) = {"search"}
    BY DEF LoaderOf, BerryTables
  <2>3. ASSUME NEW l \in LoaderOf(c), IF l = "table" THEN tableLoading' ELSE searching' PROVE l \in lostLoaders'
    BY <2>1, <2>2, <2>3
  <2>4. /\ tableLoading' /\ "table" \in LoaderOf(c) => Awaited("table")'
        /\ searching' /\ "search" \in LoaderOf(c) => Awaited("search")'
    BY <2>3 DEF Awaited
  <2>5. ASSUME NEW d \in calls
        PROVE  \/ \E e \in calls' : e.kind = d.kind
               \/ /\ tableLoading' /\ "table" \in LoaderOf(d) => Awaited("table")'
                  /\ searching' /\ "search" \in LoaderOf(d) => Awaited("search")'
    <3>1. CASE d = c
      BY <2>4, <3>1
    <3>2. CASE d # c
      BY <2>1, <3>2
    <3>. QED BY <3>1, <3>2
  <2>6. /\ tableLoading' => tableLoading \/ Awaited("table")'
        /\ searching' => searching \/ Awaited("search")'
        /\ lostLoaders \subseteq lostLoaders'
    BY <2>1
  <2>. QED BY <2>1, <2>5, <2>6, LoadersKept
<1>. QED BY <1>1, <1>2, <1>3, <1>4, <1>5, <1>6, <1>7

LEMMA SpinsOn ==
  ASSUME TablesAssumption, TypesInv, TableSpinner, [TablesNext]_tableVars
  PROVE  TableSpinner'
<1>1. CASE UNCHANGED tableVars
  <2>1. /\ table' = table /\ lostLoaders' = lostLoaders /\ calls' = calls /\ tableLoading' = tableLoading
        /\ searching' = searching
    BY <1>1 DEF tableVars, loaders
  <2>. QED BY <2>1, LoadersKept
<1>2. CASE Clicks
  BY <1>2, ClicksSay, ClicksSpin
<1>3. CASE \E c \in calls :
        \/ Queried(c) \/ Done(c) \/ Refused(c) \/ Purged(c) \/ Failed(c)
        \/ LoadAnswered(c) \/ LoadThenSwitch(c) \/ SearchAnswered(c)
        \/ ManageAnswered(c) \/ ManageRefused(c) \/ ManageAnsweredInBerry(c) \/ PurgeAnswered(c)
        \/ Lost(c)
  BY <1>3, ServerSpins, PageSpins
<1>. QED BY <1>1, <1>2, <1>3, SortSpins, OutsideSpins DEF TablesNext, Clicks

----------------------------------------------------------------------------
\* Every status that is shown, or on its way to be, was one of its item.

RealScreen ==
  /\ Pairs(listing.rows) \subseteq RealPairs \/ (ByPlace /\ displaced)
  /\ \A i \in Items : switches[i] # NoSwitch => <<i, switches[i][1]>> \in RealPairs
  /\ ByPlace /\ ~displaced => \A c \in calls : c.kind = "manage" => InPlaceOf(listing.rows, c)
RealCalls == \A c \in calls : CallReal(c)
RealServer == \A i \in Items : items[i] \in hadStatus[i]

LEMMA RealInParts == RealInv <=> RealScreen /\ RealCalls /\ RealServer /\ (orderBy => ~ByPlace)
BY DEF RealInv, RealScreen, RealCalls, RealServer

\* What an item was stays so.
LEMMA RealGrows ==
  ASSUME table' = table, \A i \in Items : /\ hadStatus[i] \subseteq hadStatus'[i]
                                          /\ items[i] = "gone" => items'[i] = "gone"
  PROVE  /\ RealPairs \subseteq RealPairs'
         /\ \A c : CallReal(c) => CallReal(c)'
<1>1. RealPairs \subseteq RealPairs'
  BY DEF RealPairs
<1>2. ASSUME NEW c, CallReal(c) PROVE CallReal(c)'
  <2>1. /\ Pairs(c.list.rows) \cup Pairs(c.data) \subseteq RealPairs
        /\ c.kind = "manage" /\ c.stage = "back" => <<c.row.id, c.mark>> \in RealPairs
        /\ Toggling(c) => <<c.row.id, Turned(c)>> \in RealPairs
    BY <1>2 DEF CallReal
  <2>2. /\ Pairs(c.list.rows) \cup Pairs(c.data) \subseteq RealPairs'
        /\ c.kind = "manage" /\ c.stage = "back" => <<c.row.id, c.mark>> \in RealPairs'
        /\ Toggling(c) => <<c.row.id, Turned(c)>> \in RealPairs'
    BY <1>1, <2>1
  <2>. QED BY <2>2 DEF CallReal, Toggling, Turned, Pairs
<1>. QED BY <1>1, <1>2

LEMMA RealStays ==
  ASSUME UNCHANGED <<table, items, hadStatus>>
  PROVE  /\ RealPairs' = RealPairs /\ RealServer' = RealServer /\ ByPlace' = ByPlace
         /\ \A c : CallReal(c)' <=> CallReal(c)
<1>1. RealPairs' = RealPairs /\ RealServer' = RealServer /\ ByPlace' = ByPlace
  BY DEF RealPairs, RealServer, ByPlace
<1>2. \A c : CallReal(c)' <=> CallReal(c)
  BY <1>1 DEF CallReal, Toggling, Turned, Pairs
<1>. QED BY <1>1, <1>2

\* No operation is sent: the ones under way are those that were.
ManagesKept ==
  \A e \in calls' : e.kind = "manage" =>
    \E d \in calls : d.kind = "manage" /\ d.at = e.at /\ d.idx = e.idx /\ d.row = e.row

\* The screen takes a list of real rows.
LEMMA RealShown ==
  ASSUME TablesAssumption, TypesInv, RealInv, UNCHANGED <<table, items, hadStatus>>, ManagesKept,
         NEW arr, NEW rows \in RowList, NEW k \in Nat \ {0}, ShowArray(arr, rows, k),
         Pairs(rows) \subseteq RealPairs \/ (ByPlace /\ displaced)
  PROVE  RealScreen'
<1>1. /\ RealPairs' = RealPairs /\ ByPlace' = ByPlace /\ listing'.rows = rows
      /\ displaced' = (displaced \/ Displaced(rows)) /\ switches' = Remounted(rows, k)
  BY RealStays DEF ShowArray
<1>2. ASSUME NEW i \in Items, switches'[i] # NoSwitch PROVE <<i, switches'[i][1]>> \in RealPairs
  <2>1. switches \in [Items -> Switch] /\ stamp \in Nat
    BY DEF TypesInv, ScreenTyped
  <2>2. \/ switches[i] # NoSwitch /\ switches'[i] = switches[i]
        \/ <<i, switches'[i][1]>> \in Pairs(rows)
    BY <1>1, <1>2, <2>1, SwitchesMounted
  <2>3. ByPlace => switches'[i] = NoSwitch
    BY <1>1 DEF Remounted, ByPlace, BerryTables
  <2>. QED BY <1>2, <2>2, <2>3 DEF RealInv
<1>3. ASSUME ByPlace, ~displaced', NEW e \in calls', e.kind = "manage" PROVE InPlaceOf(rows, e)
  <2>1. PICK d \in calls : d.kind = "manage" /\ d.at = e.at /\ d.idx = e.idx /\ d.row = e.row
    BY <1>3 DEF ManagesKept
  <2>2. Place(d) \in DOMAIN rows => rows[Place(d)].id = d.row.id
    BY <1>1, <1>3, <2>1 DEF Displaced, ByPlace
  <2>. QED BY <2>1, <2>2 DEF InPlaceOf, Place
<1>4. Pairs(rows) = Pairs(listing.rows)'
  BY <1>1 DEF Pairs
<1>5. ASSUME ByPlace', ~displaced', NEW e \in calls', e.kind = "manage" PROVE InPlaceOf(listing.rows, e)'
  <2>1. InPlaceOf(rows, e)
    BY <1>1, <1>3, <1>5
  <2>. QED BY <1>1, <2>1 DEF InPlaceOf, Place
<1>6. Pairs(listing.rows)' \subseteq RealPairs' \/ (ByPlace' /\ displaced')
  BY <1>1, <1>4
<1>. QED BY <1>1, <1>2, <1>5, <1>6 DEF RealScreen

\* The screen keeps its list.
LEMMA RealListKept ==
  ASSUME TablesAssumption, TypesInv, RealInv, table' = table, RealPairs \subseteq RealPairs',
         listing' = listing, displaced' = displaced,
         \A e \in calls' : e.kind = "manage" => InPlaceOf(listing.rows, e) \/ \E d \in calls :
            d.kind = "manage" /\ d.at = e.at /\ d.idx = e.idx /\ d.row = e.row,
         \A i \in Items : switches'[i] # NoSwitch => <<i, switches'[i][1]>> \in RealPairs
  PROVE  RealScreen'
<1>1. ByPlace' = ByPlace /\ Pairs(listing.rows)' = Pairs(listing.rows)
  BY DEF ByPlace, Pairs
<1>2. \A e : InPlaceOf(listing.rows, e)' <=> InPlaceOf(listing.rows, e)
  BY DEF InPlaceOf, Place
<1>3. ASSUME ByPlace, ~displaced, NEW e \in calls', e.kind = "manage" PROVE InPlaceOf(listing.rows, e)
  <2>1. CASE \E d \in calls : d.kind = "manage" /\ d.at = e.at /\ d.idx = e.idx /\ d.row = e.row
    <3>1. PICK d \in calls : d.kind = "manage" /\ d.at = e.at /\ d.idx = e.idx /\ d.row = e.row
      BY <2>1
    <3>2. InPlaceOf(listing.rows, d)
      BY <1>3, <3>1 DEF RealInv
    <3>. QED BY <3>1, <3>2 DEF InPlaceOf, Place
  <2>. QED BY <1>3, <2>1
<1>4. Pairs(listing.rows) \subseteq RealPairs \/ (ByPlace /\ displaced)
  BY DEF RealInv
<1>. QED BY <1>1, <1>2, <1>3, <1>4 DEF RealScreen

\* The switches of another page of the list.
LEMMA RealTurned ==
  ASSUME TablesAssumption, TypesInv, RealInv, NEW k \in Nat \ {0}, Turn(k) \/ ScreenStands
  PROVE  /\ listing' = listing /\ displaced' = displaced
         /\ \A i \in Items : switches'[i] # NoSwitch => <<i, switches'[i][1]>> \in RealPairs
<1>1. CASE ScreenStands
  BY <1>1 DEF ScreenStands, RealInv
<1>2. CASE Turn(k)
  <2>1. listing' = listing /\ displaced' = displaced /\ switches' = Remounted(listing.rows, k)
    BY <1>2 DEF Turn
  <2>2. ASSUME NEW i \in Items, switches'[i] # NoSwitch PROVE <<i, switches'[i][1]>> \in RealPairs
    <3>1. switches \in [Items -> Switch] /\ stamp \in Nat /\ listing.rows \in RowList
      BY ListingFields DEF TypesInv, ScreenTyped
    <3>2. \/ switches[i] # NoSwitch /\ switches'[i] = switches[i]
          \/ <<i, switches'[i][1]>> \in Pairs(listing.rows)
      BY <2>1, <2>2, <3>1, SwitchesMounted
    <3>3. ByPlace => switches'[i] = NoSwitch
      BY <2>1 DEF Remounted, ByPlace, BerryTables
    <3>. QED BY <2>2, <3>2, <3>3 DEF RealInv
  <2>. QED BY <2>1, <2>2
<1>. QED BY <1>1, <1>2

LEMMA CapturedReal ==
  ASSUME RealInv
  PROVE  Pairs(Captured.rows) \subseteq RealPairs /\ Pairs(NoList.rows) = {} /\ Pairs(<<>>) = {}
<1>1. Pairs(NoList.rows) = {} /\ Pairs(<<>>) = {}
  BY DEF NoList, Pairs
<1>2. CASE ByPlace
  BY <1>1, <1>2 DEF ByPlace, Captured
<1>3. CASE ~ByPlace
  <2>1. Pairs(listing.rows) \subseteq RealPairs
    BY <1>3 DEF RealInv
  <2>. QED BY <1>1, <2>1 DEF Captured
<1>. QED BY <1>1, <1>2, <1>3

LEMMA RealSent ==
  ASSUME NEW e, NEW n, NEW list, NEW kind, NEW at, Pairs(list.rows) \subseteq RealPairs,
         SentLoad(e, n, list) \/ (SentOther(e, n, kind, list, at) /\ kind # "reload")
  PROVE  CallReal(e)
<1>1. Pairs(<<>>) = {}
  BY DEF Pairs
<1>2. e.list = list /\ e.stage = "sent" /\ e.data = <<>> /\ e.kind # "reload"
  BY DEF SentLoad, SentOther
<1>. QED BY <1>1, <1>2 DEF CallReal, Toggling

LEMMA RealClicks ==
  ASSUME TablesAssumption, TypesInv, RealInv, NEW S, ClickSays(S)
  PROVE  RealInv'
<1>1. /\ UNCHANGED <<table, items, hadStatus>> /\ calls' = calls \cup S
      /\ ScreenStands \/ \E k \in Nat \ {0} : Turn(k)
  BY DEF ClickSays, Click, server
<1>2. RealCalls'
  <2>1. ASSUME NEW e \in S PROVE CallReal(e)
    <3>1. ClickSends(e)
      BY DEF ClickSays
    <3>. QED BY <3>1, CapturedReal, RealSent DEF ClickSends, ClickManages
  <2>2. \A e \in calls' : CallReal(e)
    BY <1>1, <2>1 DEF RealInv
  <2>. QED BY <1>1, <2>2, RealStays DEF RealCalls
<1>3. ASSUME NEW e \in S, e.kind = "manage" PROVE InPlaceOf(listing.rows, e)
  <2>1. ClickManages(e)
    BY <1>3 DEF ClickSays, ClickSends, SentLoad, SentOther
  <2>2. /\ e.at = page /\ e.idx \in DOMAIN PageOf(listing.rows, page)
        /\ e.row.id = PageOf(listing.rows, page)[e.idx].id
    BY <2>1 DEF ClickManages, SentOther
  <2>3. PageOf(listing.rows, page)[e.idx] = listing.rows[(page - 1) * ITEMS_PER_PAGE + e.idx]
    <3>1. listing.rows \in RowList /\ page \in Nat \ {0}
      BY ListingFields DEF TypesInv, ScreenTyped
    <3>2. \A j \in DOMAIN PageOf(listing.rows, page) :
            /\ j \in Nat \ {0} /\ j <= ITEMS_PER_PAGE
            /\ (page - 1) * ITEMS_PER_PAGE + j \in DOMAIN listing.rows
            /\ PageOf(listing.rows, page)[j] = listing.rows[(page - 1) * ITEMS_PER_PAGE + j]
      BY <3>1, PageRows, Zenon
    <3>. QED BY <2>2, <3>2, Zenon
  <2>. QED BY <2>2, <2>3 DEF InPlaceOf, Place
<1>4. RealScreen'
  <2>1. /\ listing' = listing /\ displaced' = displaced
        /\ \A i \in Items : switches'[i] # NoSwitch => <<i, switches'[i][1]>> \in RealPairs
    BY <1>1, RealTurned
  <2>2. \A e \in calls' : e.kind = "manage" => InPlaceOf(listing.rows, e) \/ \E d \in calls :
            d.kind = "manage" /\ d.at = e.at /\ d.idx = e.idx /\ d.row = e.row
    BY <1>1, <1>3
  <2>3. RealPairs \subseteq RealPairs'
    BY <1>1, RealStays
  <2>. QED BY <1>1, <2>1, <2>2, <2>3, RealListKept
<1>5. orderBy' => ~ByPlace'
  BY <1>1, SearchingForms DEF ClickSays, RealInv, ByPlace
<1>6. RealServer'
  BY <1>1, RealStays DEF RealInv, RealServer
<1>. QED BY <1>2, <1>4, <1>5, <1>6, RealInParts DEF RealInv, RealScreen, RealCalls, RealServer

\* The rows in the order of a column are the rows that there were.
LEMMA SortedRows ==
  ASSUME TypesInv, SortRows
  PROVE  \E rows \in RowList :
           /\ Show(rows, page) /\ Pairs(rows) \subseteq Pairs(listing.rows)
           /\ ~Doubled(listing.rows) => ~Doubled(rows)
<1>0. listing.rows \in RowList
  BY ListingFields DEF TypesInv
<1>1. /\ DOMAIN listing.rows = 1..Len(listing.rows) /\ Len(listing.rows) \in Nat
      /\ \A k \in DOMAIN listing.rows : listing.rows[k] \in Row
  BY <1>0, RowsAreReal
<1>2. PICK from \in [DOMAIN listing.rows -> DOMAIN listing.rows] :
        LET up == [k \in DOMAIN from |-> listing.rows[from[k]]] IN
        /\ \A j, k \in DOMAIN from :
              j < k => up[j].id < up[k].id \/ (up[j].id = up[k].id /\ from[j] < from[k])
        /\ Show(IF up[1].id = listing.rows[1].id THEN Reverse(up) ELSE up, page)
  BY DEF SortRows
<1>. DEFINE up == [k \in DOMAIN from |-> listing.rows[from[k]]]
            rows == IF up[1].id = listing.rows[1].id THEN Reverse(up) ELSE up
<1>3. up \in RowList /\ DOMAIN up = DOMAIN listing.rows /\ DOMAIN from = DOMAIN listing.rows
  <2>1. up = [k \in 1..Len(listing.rows) |-> listing.rows[from[k]]] /\ DOMAIN from = DOMAIN listing.rows
    BY <1>1
  <2>2. up \in RowList
    BY <1>1, <2>1 DEF RowList
  <2>. QED BY <2>1, <2>2
<1>4. Pairs(up) \subseteq Pairs(listing.rows)
  BY <1>3 DEF Pairs
<1>5. ASSUME ~Doubled(listing.rows) PROVE ~Doubled(up)
  <2>1. SUFFICES ASSUME NEW j \in DOMAIN up, NEW k \in DOMAIN up, j < k, up[j].id = up[k].id PROVE FALSE
    <3>1. \A j, k \in DOMAIN up : j # k => j < k \/ k < j
      BY <1>1, <1>3
    <3>. QED BY <3>1 DEF Doubled
  <2>2. from[j] \in DOMAIN listing.rows /\ from[k] \in DOMAIN listing.rows
    BY <1>3
  <2>3. from[j] = from[k]
    BY <1>3, <1>5, <2>1, <2>2 DEF Doubled
  <2>4. up[j].id < up[k].id \/ from[j] < from[k]
    BY <1>2, <1>3, <2>1
  <2>5. from[j] \in Nat /\ up[j].id \in Nat /\ up[k].id \in Nat
    <3>1. up[j] \in Row /\ up[k] \in Row
      BY <1>3, RowsAreReal
    <3>. QED BY <1>1, <2>2, <3>1 DEF Row, Items
  <2>. QED BY <2>1, <2>3, <2>4, <2>5
<1>. HIDE DEF up
<1>6. /\ rows \in RowList /\ Pairs(rows) \subseteq Pairs(up)
      /\ ~Doubled(up) => ~Doubled(rows)
  <2>1. /\ Reverse(up) \in RowList /\ Pairs(Reverse(up)) \subseteq Pairs(up)
        /\ \A k \in DOMAIN Reverse(up) :
              k \in DOMAIN up /\ Len(up) - k + 1 \in DOMAIN up /\ Reverse(up)[k] = up[Len(up) - k + 1]
    BY <1>3, ReversedRows
  <2>2. ~Doubled(up) => ~Doubled(Reverse(up))
    <3>1. \A j, k \in DOMAIN up : Len(up) - j + 1 = Len(up) - k + 1 => j = k
      BY <1>3, RowsAreReal
    <3>. QED BY <2>1, <3>1 DEF Doubled
  <2>. QED BY <1>3, <2>1, <2>2
<1>7. Show(rows, page)
  BY <1>2 DEF up
<1>. HIDE DEF rows
<1>8. Pairs(rows) \subseteq Pairs(listing.rows)
  BY <1>4, <1>6
<1>. QED BY <1>5, <1>6, <1>7, <1>8

LEMMA RealSorted ==
  ASSUME TablesAssumption, TypesInv, RealInv, SortRows
  PROVE  RealInv'
<1>1. /\ UNCHANGED <<table, items, hadStatus>> /\ calls' = calls /\ orderBy' = orderBy
  BY DEF SortRows, Click, server
<1>2. PICK rows \in RowList : Show(rows, page) /\ Pairs(rows) \subseteq Pairs(listing.rows)
  BY SortedRows
<1>3. ManagesKept
  BY <1>1 DEF ManagesKept
<1>4. RealScreen'
  <2>1. Pairs(rows) \subseteq RealPairs \/ (ByPlace /\ displaced)
    BY <1>2 DEF RealInv
  <2>2. page \in Nat \ {0} /\ ShowArray(NextStamp, rows, page)
    BY <1>2 DEF Show, TypesInv, ScreenTyped
  <2>. QED BY <1>1, <1>3, <2>1, <2>2, RealShown
<1>5. RealCalls' /\ RealServer'
  BY <1>1, RealStays DEF RealInv, RealCalls, RealServer
<1>6. orderBy' => ~ByPlace'
  BY <1>1 DEF RealInv, ByPlace
<1>. QED BY <1>4, <1>5, <1>6 DEF RealInv, RealScreen, RealCalls, RealServer

LEMMA RealAnswered ==
  ASSUME TablesAssumption, TypesInv, RealInv, NEW c \in calls, NEW e, SameRequest(e, c), CallReal(e)',
         ServerStep, Answered(c, e), RealServer',
         \A i \in Items : hadStatus[i] \subseteq hadStatus'[i] /\ (items[i] = "gone" => items'[i] = "gone")
  PROVE  RealInv'
<1>1. /\ table' = table /\ orderBy' = orderBy /\ listing' = listing /\ displaced' = displaced
      /\ switches' = switches /\ calls' = (calls \ {c}) \cup {e}
  BY DEF ServerStep, screen, Answered
<1>2. RealPairs \subseteq RealPairs' /\ \A d : CallReal(d) => CallReal(d)'
  BY <1>1, RealGrows
<1>3. RealCalls'
  <2>1. \A d \in calls : CallReal(d)'
    BY <1>2 DEF RealInv
  <2>. QED BY <1>1, <2>1 DEF RealCalls
<1>4. RealScreen'
  <2>1. \A x \in calls' : x.kind = "manage" => InPlaceOf(listing.rows, x) \/ \E d \in calls :
            d.kind = "manage" /\ d.at = x.at /\ d.idx = x.idx /\ d.row = x.row
    BY <1>1 DEF SameRequest
  <2>2. \A i \in Items : switches'[i] # NoSwitch => <<i, switches'[i][1]>> \in RealPairs
    BY <1>1 DEF RealInv
  <2>. QED BY <1>1, <1>2, <2>1, <2>2, RealListKept
<1>5. orderBy' => ~ByPlace'
  BY <1>1 DEF RealInv, ByPlace
<1>. QED BY <1>3, <1>4, <1>5 DEF RealInv, RealScreen, RealCalls, RealServer

\* An answer from the server tells what the items are.
LEMMA AnsweredRows ==
  ASSUME TablesAssumption, TypesInv, NEW c \in calls
  PROVE  LET data == IF c.kind = "search" THEN WithKeyword ELSE ServerPage(c.order, c.p) IN
         /\ data \in RowList
         /\ \A k \in DOMAIN data : /\ data[k].id \in There /\ data[k].id \in Items
                                   /\ data[k].status \in Statuses /\ data[k].status = items[data[k].id]
         /\ c.kind = "search" => Len(data) <= 1
         /\ c.kind # "search" => \/ Len(data) = ITEMS_PER_PAGE
                                 \/ c.p * ITEMS_PER_PAGE + Len(data) >= Cardinality(There)
<1>. DEFINE data == IF c.kind = "search" THEN WithKeyword ELSE ServerPage(c.order, c.p)
<1>1. c.p \in Nat /\ items \in [Items -> Statuses \ {"none"}]
  BY CallFields DEF TypesInv, CallsTyped, CallSound, PlainTyped
<1>2. /\ data \in RowList
      /\ \A k \in DOMAIN data : data[k].id \in There /\ data[k].status = items[data[k].id]
      /\ c.kind = "search" => Len(data) <= 1
      /\ c.kind # "search" => \/ Len(data) = ITEMS_PER_PAGE
                              \/ c.p * ITEMS_PER_PAGE + Len(data) >= Cardinality(There)
  <2>1. CASE c.kind = "search"
    BY <1>1, <2>1, WithKeywordOf
  <2>2. CASE c.kind # "search"
    <3>1. data = ServerPage(c.order, c.p)
      BY <2>2
    <3>. HIDE DEF data
    <3>. QED BY <1>1, <2>2, <3>1, ServerPageOf
  <2>. QED BY <2>1, <2>2
<1>. HIDE DEF data
<1>3. \A k \in DOMAIN data : data[k].id \in Items /\ data[k].status \in Statuses
  BY <1>2, RowsAreReal DEF Row
<1>. QED BY <1>2, <1>3 DEF data

LEMMA QueriedReal ==
  ASSUME TablesAssumption, TypesInv, RealInv, NEW c \in calls, Queried(c)
  PROVE  RealInv'
<1>. DEFINE data == IF c.kind = "search" THEN WithKeyword ELSE ServerPage(c.order, c.p)
<1>0. PICK e : e = [c EXCEPT !.stage = "back", !.data = data]
  OBVIOUS
<1>1. /\ Answered(c, e) /\ ServerStep /\ UNCHANGED <<table, items, hadStatus>>
      /\ c.kind \in {"load", "reload", "search"}
  BY <1>0 DEF Queried, server, ServerStep
<1>2. /\ data \in RowList
      /\ \A k \in DOMAIN data : /\ data[k].id \in There /\ data[k].id \in Items
                                /\ data[k].status \in Statuses /\ data[k].status = items[data[k].id]
  BY AnsweredRows
<1>3. c \in Call
  BY DEF TypesInv, CallsTyped, CallSound
<1>. HIDE DEF data
<1>4. SameRequest(e, c) /\ e.stage = "back" /\ e.data = data /\ e.list = c.list
  BY <1>0, <1>2, <1>3 DEF Call, SameRequest
<1>5. Pairs(data) \subseteq RealPairs
  <2>1. \A k \in DOMAIN data : <<data[k].id, data[k].status>> \in RealPairs
    BY <1>2 DEF RealPairs, RealInv
  <2>. QED BY <2>1 DEF Pairs
<1>6. CallReal(e)
  BY <1>1, <1>4, <1>5 DEF SameRequest, CallReal, RealInv, Toggling, Turned
<1>. QED BY <1>1, <1>4, <1>6, RealAnswered, RealStays DEF RealInv, RealServer

LEMMA DoneReal ==
  ASSUME TablesAssumption, TypesInv, RealInv, NEW c \in calls, Done(c)
  PROVE  RealInv'
<1>. DEFINE mark == AnsweredStatus(c)
            id == c.row.id
            after == StatusAfter(c)
<1>0. PICK e : e = [c EXCEPT !.stage = "back", !.mark = mark]
  OBVIOUS
<1>1. /\ Answered(c, e) /\ ServerStep /\ c.kind = "manage" /\ table' = table
      /\ items' = [items EXCEPT ![id] = after]
      /\ hadStatus' = [hadStatus EXCEPT ![id] = @ \cup {after}]
  BY <1>0 DEF Done, ServerStep
<1>2. /\ id \in Items /\ c.act \in {"enable", "disable", "delete", "other"}
      /\ after \in Statuses \ {"none"} /\ mark \in Statuses
  BY <1>1, StatusesAnswered
<1>3. c \in Call /\ items \in [Items -> Statuses \ {"none"}] /\ hadStatus \in [Items -> SUBSET Statuses]
  BY DEF TypesInv, CallsTyped, CallSound, PlainTyped
<1>4. items[id] = "gone" => after = "gone" /\ table \in ChannelTables
  BY DEF StatusAfter, Done, Refuses
<1>5. items[id] # "gone" => mark = after /\ (c.act # "other" => after = Asked[c.act])
  BY DEF StatusAfter, AnsweredStatus
<1>. HIDE DEF mark
<1>6. SameRequest(e, c) /\ e.stage = "back" /\ e.data = c.data /\ e.mark = mark /\ e.list = c.list
  BY <1>0, <1>2, <1>3 DEF Call, SameRequest
<1>. HIDE DEF after, id
<1>7. \A i \in Items : hadStatus[i] \subseteq hadStatus'[i] /\ (items[i] = "gone" => items'[i] = "gone")
  BY <1>1, <1>3, <1>4
<1>8. RealServer'
  BY <1>1, <1>2, <1>3 DEF RealInv, RealServer
<1>9. /\ items'[id] = after /\ after \in hadStatus'[id]
  BY <1>1, <1>2, <1>3
<1>10. ASSUME NEW status \in Statuses, items[id] # "gone" => status = after
       PROVE  <<id, status>> \in RealPairs'
  BY <1>1, <1>2, <1>4, <1>9, <1>10 DEF RealPairs
<1>11. <<id, mark>> \in RealPairs'
  BY <1>2, <1>5, <1>10
<1>12. c.act \in {"enable", "disable"} => <<id, Asked[c.act]>> \in RealPairs'
  <2>1. ASSUME c.act \in {"enable", "disable"} PROVE Asked[c.act] \in Statuses /\ c.act # "other"
    BY <2>1 DEF Asked, Statuses
  <2>. QED BY <1>5, <1>10, <2>1
<1>13. CallReal(e)'
  <2>1. RealPairs \subseteq RealPairs' /\ CallReal(c)'
    BY <1>1, <1>7, RealGrows DEF RealInv
  <2>2. (Pairs(e.list.rows) \cup Pairs(e.data))' \subseteq RealPairs'
    BY <1>6, <2>1 DEF CallReal
  <2>3. e.row.id = id /\ e.act = c.act /\ e.kind = "manage"
    BY <1>1, <1>6 DEF SameRequest, id
  <2>. QED BY <1>6, <1>11, <1>12, <2>2, <2>3 DEF CallReal, Toggling, Turned
<1>. QED BY <1>1, <1>6, <1>7, <1>8, <1>13, RealAnswered

LEMMA StagedReal ==
  ASSUME TablesAssumption, TypesInv, RealInv, NEW c \in calls, Refused(c) \/ Failed(c) \/ Purged(c)
  PROVE  RealInv'
<1>1. c \in Call /\ items \in [Items -> Statuses \ {"none"}] /\ hadStatus \in [Items -> SUBSET Statuses]
  BY DEF TypesInv, CallsTyped, CallSound, PlainTyped
<1>2. ServerStep /\ table' = table
  BY DEF Refused, Failed, Purged, ServerStep
<1>3. /\ \A i \in Items : hadStatus[i] \subseteq hadStatus'[i] /\ (items[i] = "gone" => items'[i] = "gone")
      /\ RealServer'
  <2>1. CASE Purged(c)
    BY <1>1, <2>1 DEF Purged, RealInv, RealServer
  <2>2. CASE ~Purged(c)
    <3>1. items' = items /\ hadStatus' = hadStatus
      BY <2>2 DEF Refused, Failed, server
    <3>. QED BY <3>1 DEF RealInv, RealServer
  <2>. QED BY <2>1, <2>2
<1>4. PICK stage \in {"back", "refused"} :
        Answered(c, [c EXCEPT !.stage = stage]) /\ (c.kind = "manage" => stage = "refused")
  BY DEF Refused, Failed, Purged
<1>. DEFINE e == [c EXCEPT !.stage = stage]
<1>5. SameRequest(e, c) /\ e.stage = stage /\ e.data = c.data /\ e.mark = c.mark /\ e.list = c.list
  BY <1>1, StagedFields
<1>6. Answered(c, e)
  BY <1>4
<1>. HIDE DEF e
<1>7. CallReal(e)
  BY <1>4, <1>5 DEF SameRequest, CallReal, RealInv, Toggling, Turned
<1>8. CallReal(e)'
  BY <1>2, <1>3, <1>7, RealGrows
<1>. QED BY <1>2, <1>3, <1>5, <1>6, <1>8, RealAnswered

LEMMA OutsideReal ==
  ASSUME TablesAssumption, TypesInv, RealInv, NEW i \in Items, OutsideChange(i)
  PROVE  RealInv'
<1>1. items \in [Items -> Statuses \ {"none"}] /\ hadStatus \in [Items -> SUBSET Statuses]
  BY DEF TypesInv, PlainTyped
<1>2. PICK status : /\ items' = [items EXCEPT ![i] = status]
                    /\ hadStatus' = [hadStatus EXCEPT ![i] = @ \cup {status}]
                    /\ items[i] # "gone"
  BY DEF OutsideChange
<1>3. /\ table' = table /\ orderBy' = orderBy /\ listing' = listing /\ displaced' = displaced
      /\ switches' = switches /\ calls' = calls
  BY DEF OutsideChange, screen
<1>4. /\ \A j \in Items : hadStatus[j] \subseteq hadStatus'[j] /\ (items[j] = "gone" => items'[j] = "gone")
      /\ RealServer'
  BY <1>1, <1>2 DEF RealInv, RealServer
<1>5. RealPairs \subseteq RealPairs' /\ \A d : CallReal(d) => CallReal(d)'
  BY <1>3, <1>4, RealGrows
<1>6. RealCalls'
  BY <1>3, <1>5 DEF RealInv, RealCalls
<1>7. RealScreen'
  <2>1. \A j \in Items : switches'[j] # NoSwitch => <<j, switches'[j][1]>> \in RealPairs
    BY <1>3 DEF RealInv
  <2>. QED BY <1>3, <1>5, <2>1, RealListKept
<1>8. orderBy' => ~ByPlace'
  BY <1>3 DEF RealInv, ByPlace
<1>. QED BY <1>4, <1>6, <1>7, <1>8 DEF RealInv, RealScreen, RealCalls, RealServer

\* The requests under way once a load is answered, and once an operation is.
LEMMA CallsAfterLoad ==
  ASSUME TablesAssumption, TypesInv, NEW c \in calls, LoadAnswered(c), NEW e \in calls'
  PROVE  \/ e \in calls \ {c}
         \/ /\ table \in PushInPlace /\ e.list = listing'
            /\ \E d \in calls \ {c} : SameRequest(e, d) /\ e.stage = d.stage /\ e.data = d.data
                                      /\ e.mark = d.mark
         \/ orderBy /\ SentLoad(e, c.n, listing')
<1>. DEFINE new(d) == [d EXCEPT !.list = listing']
            f(d) == IF table \in PushInPlace /\ d.list.arr = listing'.arr THEN new(d) ELSE d
<1>1. calls' = {f(d) : d \in calls \ {c}} \cup ResetAfter(c)
  BY DEF LoadAnswered
<1>2. TypesInv' /\ table' = table
  BY LoadAnsweredTyped, HerePlain DEF LoadAnswered
<1>3. CASE e \in ResetAfter(c)
  <2>1. orderBy
    BY <1>3 DEF ResetAfter
  <2>2. SentLoad(e, c.n, listing')
    BY <1>2, <1>3, ResetTyped DEF TypesInv
  <2>. QED BY <2>1, <2>2
<1>4. CASE e \notin ResetAfter(c)
  <2>1. PICK d \in calls \ {c} : e = f(d)
    BY <1>1, <1>4
  <2>2. d \in Call /\ listing' \in ListType
    BY <1>2 DEF TypesInv, CallsTyped, CallSound, ScreenTyped
  <2>3. SameRequest(new(d), d) /\ new(d).stage = d.stage /\ new(d).data = d.data /\ new(d).mark = d.mark
        /\ new(d).list = listing'
    BY <2>2, ListedFields
  <2>. HIDE DEF new
  <2>. QED BY <2>1, <2>3
<1>. QED BY <1>3, <1>4

LEMMA CallsAfterManage ==
  ASSUME TypesInv, NEW c \in calls, ManageAnswered(c), NEW e \in calls'
  PROVE  \E d \in calls \ {c} :
           /\ e.n = d.n /\ e.kind = d.kind /\ e.stage = d.stage /\ e.at = d.at
           /\ e.idx = d.idx /\ e.row = d.row /\ e.act = d.act /\ e.flip = d.flip /\ e.data = d.data
           /\ e.mark = d.mark
           /\ e.list.rows = d.list.rows \/ e.list.rows = Marked(d.list.rows, c.row, c.mark)
<1>1. PICK d \in calls \ {c} : e = SharedMark(c, d)
  BY DEF ManageAnswered
<1>2. d \in Call /\ CallSound(d) /\ c.mark \in Statuses
  BY CallFields DEF TypesInv, CallsTyped, CallSound
<1>3. LET s == SharedMark(c, d) IN
         /\ CallSound(s) /\ s.n = d.n /\ s.kind = d.kind /\ s.stage = d.stage /\ s.at = d.at
         /\ s.idx = d.idx /\ s.row = d.row /\ s.act = d.act /\ s.flip = d.flip /\ s.data = d.data
         /\ s.mark = d.mark
         /\ s.list.rows = d.list.rows \/ s.list.rows = Marked(d.list.rows, c.row, c.mark)
  BY <1>2, SharedMarkSound
<1>. QED BY <1>1, <1>3

LEMMA RealAs ==
  ASSUME NEW d, CallReal(d), NEW e, e.kind = d.kind, e.stage = d.stage, e.row = d.row, e.act = d.act,
         e.flip = d.flip, e.data = d.data, e.mark = d.mark, Pairs(e.list.rows) \subseteq RealPairs
  PROVE  CallReal(e)
BY DEF CallReal, Toggling, Turned

LEMMA RealAtPage ==
  ASSUME TablesAssumption, TypesInv, RealInv, UNCHANGED <<table, items, hadStatus>>, RealScreen',
         \A e \in calls' : CallReal(e), orderBy' => orderBy
  PROVE  RealInv'
<1>1. RealCalls' /\ RealServer'
  BY RealStays DEF RealInv, RealCalls, RealServer
<1>2. orderBy' => ~ByPlace'
  BY DEF RealInv, ByPlace
<1>. QED BY <1>1, <1>2 DEF RealInv, RealScreen, RealCalls, RealServer

LEMMA RealLoaded ==
  ASSUME TablesAssumption, TypesInv, RealInv, NEW c \in calls
  PROVE  /\ Loaded(c) \in RowList
         /\ Pairs(Loaded(c)) \subseteq RealPairs \/ (ByPlace /\ displaced)
<1>1. /\ c \in Call /\ table \in AllTables
  BY TableKnown DEF TypesInv, CallsTyped, CallSound
<1>2. /\ listing.rows \in RowList /\ stamp \in Nat
      /\ c.p \in Nat /\ c.data \in RowList /\ c.list.rows \in RowList
  BY <1>1, ListingFields, CallFields DEF TypesInv, ScreenTyped
<1>3. /\ Loaded(c) \in RowList
      /\ Pairs(Loaded(c)) \subseteq Pairs(c.data) \cup Pairs(c.list.rows)
                                \cup (IF table \in SplicedAtHand THEN Pairs(listing.rows) ELSE {})
  BY <1>1, <1>2, LoadedSays
<1>4. Pairs(c.data) \subseteq RealPairs /\ Pairs(c.list.rows) \subseteq RealPairs
  BY DEF RealInv, CallReal
<1>. QED BY <1>3, <1>4 DEF RealInv

LEMMA LoadAnsweredReal ==
  ASSUME TablesAssumption, TypesInv, RealInv, NEW c \in calls, LoadAnswered(c)
  PROVE  RealInv'
<1>1. /\ Here(c) /\ UNCHANGED <<table, items, hadStatus>> /\ (orderBy' => orderBy)
      /\ c.turn \in Nat /\ page \in Nat \ {0}
  BY HerePlain, CallFields DEF LoadAnswered, TypesInv, ScreenTyped
<1>. DEFINE k == IF c.turn # 0 THEN c.turn ELSE page
            arr == IF table \in PushInPlace /\ c.p # 0 THEN c.list.arr ELSE NextStamp
<1>2. k \in Nat \ {0}
  BY <1>1
<1>3. Turn(k) \/ ShowArray(arr, Loaded(c), k)
  BY DEF LoadAnswered
<1>. HIDE DEF k, arr
<1>4. ManagesKept
  <2>1. ASSUME NEW e \in calls', e.kind = "manage"
        PROVE  \E d \in calls : d.kind = "manage" /\ d.at = e.at /\ d.idx = e.idx /\ d.row = e.row
    BY <2>1, CallsAfterLoad DEF SameRequest, SentLoad
  <2>. QED BY <2>1 DEF ManagesKept
<1>5. RealScreen'
  <2>1. CASE Turn(k)
    <3>1. /\ listing' = listing /\ displaced' = displaced
          /\ \A i \in Items : switches'[i] # NoSwitch => <<i, switches'[i][1]>> \in RealPairs
      BY <1>2, <2>1, RealTurned
    <3>2. RealPairs \subseteq RealPairs'
      BY <1>1, RealStays
    <3>. QED BY <1>1, <1>4, <3>1, <3>2, RealListKept DEF ManagesKept
  <2>2. CASE ShowArray(arr, Loaded(c), k)
    BY <1>1, <1>2, <1>4, <2>2, RealShown, RealLoaded
  <2>. QED BY <1>3, <2>1, <2>2
<1>6. ~ByPlace => Pairs(listing'.rows) \subseteq RealPairs
  <2>1. RealPairs' = RealPairs /\ ByPlace' = ByPlace
    BY <1>1, RealStays
  <2>2. Pairs(listing.rows)' = Pairs(listing'.rows)
    BY DEF Pairs
  <2>. QED BY <1>5, <2>1, <2>2 DEF RealScreen
<1>7. ASSUME NEW e \in calls' PROVE CallReal(e)
  <2>1. CASE e \in calls
    BY <2>1 DEF RealInv
  <2>2. CASE /\ table \in PushInPlace /\ e.list = listing'
             /\ \E d \in calls \ {c} : SameRequest(e, d) /\ e.stage = d.stage /\ e.data = d.data
                                      /\ e.mark = d.mark
    <3>1. PICK d \in calls : SameRequest(e, d) /\ e.stage = d.stage /\ e.data = d.data /\ e.mark = d.mark
      BY <2>2
    <3>2. Pairs(e.list.rows) \subseteq RealPairs
      BY <1>6, <2>2 DEF PushInPlace, ByPlace
    <3>3. CallReal(d)
      BY DEF RealInv
    <3>. QED BY <3>1, <3>2, <3>3, RealAs DEF SameRequest
  <2>3. CASE orderBy /\ SentLoad(e, c.n, listing')
    <3>1. Pairs(listing'.rows) \subseteq RealPairs
      BY <1>6, <2>3 DEF RealInv
    <3>. QED BY <2>3, <3>1, RealSent
  <2>. QED BY <2>1, <2>2, <2>3, CallsAfterLoad
<1>. QED BY <1>1, <1>5, <1>7, RealAtPage

LEMMA LoadThenSwitchReal ==
  ASSUME TablesAssumption, TypesInv, RealInv, NEW c \in calls, LoadThenSwitch(c)
  PROVE  RealInv'
<1>1. /\ Here(c) /\ UNCHANGED <<table, items, hadStatus>> /\ orderBy' = orderBy /\ calls' \subseteq calls
      /\ c.kind = "reload" /\ displaced' = displaced
  BY HerePlain DEF LoadThenSwitch
<1>2. table \in BerryTables /\ ~ByPlace
  BY <1>1 DEF TypesInv, CallsTyped, CallSound, BerryTables, ByPlace
<1>. DEFINE turned == Switched([c EXCEPT !.act = c.flip])
            mounted == Remounted(Loaded(c), page)
            new == [i \in Items |-> IF i \in OnPage(Loaded(c), page) /\ turned[i] # NoSwitch THEN turned[i]
                                    ELSE mounted[i]]
<1>3. /\ \A i \in Items : (turned[i] = NoSwitch) <=> (switches[i] = NoSwitch)
      /\ \A i \in Items : switches[i] # NoSwitch =>
              \/ turned[i] = switches[i]
              \/ i = c.row.id /\ c.flip \in {"enable", "disable"} /\ turned[i][1] = Asked[c.flip]
  BY SwitchesTurned
<1>4. /\ page \in Nat \ {0} /\ switches \in [Items -> Switch] /\ stamp \in Nat
      /\ Loaded(c) \in RowList /\ Pairs(Loaded(c)) \subseteq RealPairs
  BY <1>2, RealLoaded DEF TypesInv, ScreenTyped
<1>5. \A i \in Items : mounted[i] # NoSwitch =>
              \/ switches[i] # NoSwitch /\ mounted[i] = switches[i]
              \/ <<i, mounted[i][1]>> \in Pairs(Loaded(c))
  BY <1>4, SwitchesMounted
<1>6. \/ switches' = turned /\ listing' = listing
      \/ switches' = new /\ listing'.rows = Loaded(c)
  BY DEF LoadThenSwitch
<1>. HIDE DEF turned, mounted
<1>7. c.flip \in {"enable", "disable"} => <<c.row.id, Asked[c.flip]>> \in RealPairs
  <2>1. CallReal(c)
    BY DEF RealInv
  <2>. QED BY <1>1, <2>1 DEF CallReal, Toggling, Turned
<1>8. \A i \in Items : turned[i] # NoSwitch => <<i, turned[i][1]>> \in RealPairs
  BY <1>3, <1>7 DEF RealInv
<1>9. \A i \in Items : new[i] # NoSwitch => <<i, new[i][1]>> \in RealPairs
  <2>1. \A i \in Items : mounted[i] # NoSwitch => <<i, mounted[i][1]>> \in RealPairs
    BY <1>4, <1>5 DEF RealInv
  <2>. QED BY <1>8, <2>1
<1>. HIDE DEF new
<1>10. Pairs(listing.rows)' \subseteq RealPairs
  <2>1. Pairs(listing.rows)' = Pairs(listing'.rows)
    BY DEF Pairs
  <2>2. Pairs(listing.rows) \subseteq RealPairs
    BY <1>2 DEF RealInv
  <2>. QED BY <1>4, <1>6, <2>1, <2>2
<1>11. RealScreen'
  <2>1. RealPairs' = RealPairs /\ ~ByPlace'
    BY <1>1, <1>2, RealStays
  <2>. QED BY <1>6, <1>8, <1>9, <1>10, <2>1 DEF RealScreen
<1>12. \A e \in calls' : CallReal(e)
  BY <1>1 DEF RealInv
<1>. QED BY <1>1, <1>11, <1>12, RealAtPage

LEMMA SearchAnsweredReal ==
  ASSUME TablesAssumption, TypesInv, RealInv, NEW c \in calls, SearchAnswered(c)
  PROVE  RealInv'
<1>1. /\ Here(c) /\ UNCHANGED <<table, items, hadStatus>> /\ orderBy' = orderBy /\ calls' \subseteq calls
  BY HerePlain DEF SearchAnswered
<1>2. c \in Call /\ c.data \in RowList /\ stamp \in Nat
  BY <1>1, HerePlain, CallFields DEF TypesInv, ScreenTyped
<1>. DEFINE rows == IF table \in InPlace THEN Born(c.data) ELSE c.data
<1>3. rows \in RowList /\ Pairs(rows) = Pairs(c.data)
  BY <1>2, BornOf
<1>4. Pairs(c.data) \subseteq RealPairs
  BY DEF RealInv, CallReal
<1>5. ScreenStands \/ ShowArray(NextStamp, rows, 1)
  BY DEF SearchAnswered, ScreenStands, screen, Show
<1>. HIDE DEF rows
<1>6. ManagesKept
  BY <1>1 DEF ManagesKept
<1>7. RealScreen'
  <2>1. CASE ScreenStands
    <3>1. 1 \in Nat \ {0}
      OBVIOUS
    <3>2. /\ listing' = listing /\ displaced' = displaced
          /\ \A i \in Items : switches'[i] # NoSwitch => <<i, switches'[i][1]>> \in RealPairs
      BY <2>1, <3>1, RealTurned
    <3>3. RealPairs \subseteq RealPairs'
      BY <1>1, RealStays
    <3>. QED BY <1>1, <1>6, <3>2, <3>3, RealListKept DEF ManagesKept
  <2>2. CASE ShowArray(NextStamp, rows, 1)
    <3>1. 1 \in Nat \ {0}
      OBVIOUS
    <3>. QED BY <1>1, <1>3, <1>4, <1>6, <2>2, <3>1, RealShown
  <2>. QED BY <1>5, <2>1, <2>2
<1>8. \A e \in calls' : CallReal(e)
  BY <1>1 DEF RealInv
<1>. QED BY <1>1, <1>7, <1>8, RealAtPage

LEMMA ManagedReal ==
  ASSUME TablesAssumption, TypesInv, RealInv, NEW c \in calls, c.kind = "manage", c.stage = "back",
         table \notin BerryTables
  PROVE  /\ ManagedRows(c) \in RowList
         /\ Pairs(ManagedRows(c)) \subseteq RealPairs \/ (ByPlace /\ displaced)
<1>. DEFINE rows == ManagedRows(c)
<1>1. /\ table \in Managed \ BerryTables /\ stamp \in Nat /\ c.row \in Row /\ c.mark \in Statuses
      /\ c.list.rows \in RowList /\ listing.rows \in RowList
  BY CallFields, ListingFields DEF TypesInv, CallsTyped, CallSound, ScreenTyped
<1>2. /\ rows \in RowList
      /\ ~ByPlace => Pairs(rows) \subseteq Pairs(c.list.rows) \cup {<<c.row.id, c.mark>>}
      /\ ByPlace => /\ DOMAIN rows = DOMAIN listing.rows
                    /\ \A k \in DOMAIN listing.rows :
                         /\ rows[k].id = listing.rows[k].id
                         /\ rows[k].status = IF k = Place(c) THEN c.mark ELSE listing.rows[k].status
  BY <1>1, ManagedSays DEF ByPlace
<1>3. /\ <<c.row.id, c.mark>> \in RealPairs /\ Pairs(c.list.rows) \subseteq RealPairs
      /\ ByPlace /\ ~displaced =>
           Pairs(listing.rows) \subseteq RealPairs
           /\ (Place(c) \in DOMAIN listing.rows => listing.rows[Place(c)].id = c.row.id)
  BY DEF RealInv, CallReal, InPlaceOf
<1>. HIDE DEF rows
<1>4. ASSUME ByPlace, ~displaced PROVE Pairs(rows) \subseteq RealPairs
  <2>1. \A k \in DOMAIN listing.rows : <<listing.rows[k].id, listing.rows[k].status>> \in RealPairs
    BY <1>3, <1>4 DEF Pairs
  <2>2. \A k \in DOMAIN rows : <<rows[k].id, rows[k].status>> \in RealPairs
    BY <1>2, <1>3, <1>4, <2>1
  <2>. QED BY <2>2 DEF Pairs
<1>. QED BY <1>2, <1>3, <1>4 DEF rows

LEMMA ManageAnsweredReal ==
  ASSUME TablesAssumption, TypesInv, RealInv, NEW c \in calls, ManageAnswered(c)
  PROVE  RealInv'
<1>1. /\ Here(c) /\ UNCHANGED <<table, items, hadStatus>> /\ orderBy' = orderBy
      /\ c.kind = "manage" /\ c.stage = "back" /\ table \notin BerryTables
      /\ ShowArray(NextStamp, ManagedRows(c), page) /\ page \in Nat \ {0}
  BY HerePlain DEF ManageAnswered, Show, TypesInv, ScreenTyped
<1>2. ManagesKept
  BY CallsAfterManage DEF ManagesKept
<1>3. RealScreen'
  BY <1>1, <1>2, ManagedReal, RealShown
<1>4. ASSUME NEW e \in calls' PROVE CallReal(e)
  <2>1. PICK d \in calls \ {c} :
           /\ e.kind = d.kind /\ e.stage = d.stage /\ e.row = d.row /\ e.act = d.act /\ e.flip = d.flip
           /\ e.data = d.data /\ e.mark = d.mark
           /\ e.list.rows = d.list.rows \/ e.list.rows = Marked(d.list.rows, c.row, c.mark)
    BY CallsAfterManage
  <2>2. CallReal(d) /\ CallReal(c)
    BY DEF RealInv
  <2>3. d.list.rows \in RowList /\ c.mark \in Statuses
    BY CallFields DEF TypesInv, CallsTyped, CallSound
  <2>4. Pairs(Marked(d.list.rows, c.row, c.mark)) \subseteq Pairs(d.list.rows) \cup {<<c.row.id, c.mark>>}
    BY <2>3, MarkedOf
  <2>5. Pairs(e.list.rows) \subseteq RealPairs
    BY <1>1, <2>1, <2>2, <2>4 DEF CallReal
  <2>. QED BY <2>1, <2>2, <2>5, RealAs
<1>. QED BY <1>1, <1>3, <1>4, RealAtPage

LEMMA ManageRefusedReal ==
  ASSUME TablesAssumption, TypesInv, RealInv, NEW c \in calls, ManageRefused(c)
  PROVE  RealInv'
<1>1. /\ Here(c) /\ UNCHANGED <<table, items, hadStatus>> /\ orderBy' = orderBy /\ calls' \subseteq calls
      /\ page \in Nat \ {0}
  BY HerePlain DEF ManageRefused, TypesInv, ScreenTyped
<1>. DEFINE rows == Without(c.list.rows, c.row.id)
<1>2. c.list.rows \in RowList
  BY <1>1, HerePlain, CallFields
<1>3. rows \in RowList /\ Pairs(rows) \subseteq Pairs(c.list.rows)
  BY <1>2, WithoutOf
<1>4. Pairs(c.list.rows) \subseteq RealPairs
  BY DEF RealInv, CallReal
<1>5. ScreenStands \/ ShowArray(NextStamp, rows, page)
  BY DEF ManageRefused, removeRecord, ScreenStands, screen, Show
<1>. HIDE DEF rows
<1>6. ManagesKept
  BY <1>1 DEF ManagesKept
<1>7. RealScreen'
  <2>1. CASE ScreenStands
    <3>1. /\ listing' = listing /\ displaced' = displaced
          /\ \A i \in Items : switches'[i] # NoSwitch => <<i, switches'[i][1]>> \in RealPairs
      BY <1>1, <2>1, RealTurned
    <3>2. RealPairs \subseteq RealPairs'
      BY <1>1, RealStays
    <3>. QED BY <1>1, <1>6, <3>1, <3>2, RealListKept DEF ManagesKept
  <2>2. CASE ShowArray(NextStamp, rows, page)
    BY <1>1, <1>3, <1>4, <1>6, <2>2, RealShown
  <2>. QED BY <1>5, <2>1, <2>2
<1>8. \A e \in calls' : CallReal(e)
  BY <1>1 DEF RealInv
<1>. QED BY <1>1, <1>7, <1>8, RealAtPage

LEMMA ManageAnsweredInBerryReal ==
  ASSUME TablesAssumption, TypesInv, RealInv, NEW c \in calls, ManageAnsweredInBerry(c)
  PROVE  RealInv'
<1>1. /\ Here(c) /\ UNCHANGED <<table, items, hadStatus>> /\ orderBy' = orderBy
      /\ listing' = listing /\ displaced' = displaced /\ c.kind = "manage" /\ table \in BerryTables
      /\ switches' = switches \/ (switches' = Switched(c) /\ c.stage = "back")
  BY HerePlain DEF ManageAnsweredInBerry
<1>2. c \in Call /\ c.row.born \in Nat /\ switches \in [Items -> Switch] /\ CallReal(c)
  BY <1>1, HerePlain, CallFields DEF TypesInv, ScreenTyped, RealInv
<1>3. c.stage = "back" /\ c.act \in {"enable", "disable"} => <<c.row.id, Asked[c.act]>> \in RealPairs
  BY <1>1, <1>2 DEF CallReal, Toggling, Turned
<1>4. \A i \in Items : switches'[i] # NoSwitch => <<i, switches'[i][1]>> \in RealPairs
  <2>1. \A i \in Items : switches[i] # NoSwitch => <<i, switches[i][1]>> \in RealPairs
    BY DEF RealInv
  <2>2. /\ \A i \in Items : (Switched(c)[i] = NoSwitch) <=> (switches[i] = NoSwitch)
        /\ \A i \in Items : switches[i] # NoSwitch =>
              \/ Switched(c)[i] = switches[i]
              \/ i = c.row.id /\ c.act \in {"enable", "disable"} /\ Switched(c)[i][1] = Asked[c.act]
    BY <1>2, SwitchedOf
  <2>. QED BY <1>1, <1>3, <2>1, <2>2
<1>5. ASSUME NEW e \in calls' PROVE (e.kind # "manage" /\ CallReal(e)) \/ e \in calls
  <2>1. CASE e \in calls
    BY <2>1
  <2>2. CASE e \notin calls
    <3>1. /\ c.stage = "back" /\ Reloaded(c) >= 0
          /\ e = [TableRequest(c.n, "reload", c.list, c.at) EXCEPT
                                  !.p = Reloaded(c), !.row = c.row, !.flip = c.act]
      BY <2>2 DEF ManageAnsweredInBerry
    <3>2. SentOther(e, c.n, "reload", c.list, c.at) /\ e.row = c.row /\ e.flip = c.act
      BY <1>1, <3>1, ReloadSent
    <3>3. Pairs(e.data) = {} /\ Pairs(e.list.rows) \subseteq RealPairs
      BY <1>2, <3>2 DEF Pairs, SentOther, CallReal
    <3>. QED BY <1>3, <3>1, <3>2, <3>3 DEF CallReal, SentOther, Toggling, Turned
  <2>. QED BY <2>1, <2>2
<1>6. RealScreen'
  <2>1. RealPairs \subseteq RealPairs'
    BY <1>1, RealStays
  <2>. QED BY <1>1, <1>4, <1>5, <2>1, RealListKept
<1>7. \A e \in calls' : CallReal(e)
  BY <1>5 DEF RealInv
<1>. QED BY <1>1, <1>6, <1>7, RealAtPage

LEMMA PurgeAnsweredReal ==
  ASSUME TablesAssumption, TypesInv, RealInv, NEW c \in calls, PurgeAnswered(c)
  PROVE  RealInv'
<1>1. /\ Here(c) /\ UNCHANGED <<table, items, hadStatus>> /\ orderBy' = orderBy
      /\ listing' = listing /\ displaced' = displaced /\ switches' = switches
  BY HerePlain DEF PurgeAnswered, screen
<1>2. ASSUME NEW e \in calls' PROVE (e.kind # "manage" /\ CallReal(e)) \/ e \in calls
  <2>1. CASE e \in calls
    BY <2>1
  <2>2. CASE e \notin calls
    <3>1. e = [TableRequest(c.n, "load", c.list, c.at) EXCEPT !.p = c.at - 1]
      BY <2>2 DEF PurgeAnswered
    <3>2. c.n \in 1..MaxUnderWay /\ c.list \in ListType /\ c.at \in Nat \ {0} /\ c.at - 1 \in Nat
      BY <1>1, HerePlain, CallFields
    <3>3. SentLoad(e, c.n, c.list)
      BY <3>1, <3>2, OthersTyped
    <3>4. Pairs(c.list.rows) \subseteq RealPairs
      BY DEF RealInv, CallReal
    <3>. QED BY <3>3, <3>4, RealSent DEF SentLoad
  <2>. QED BY <2>1, <2>2
<1>3. RealScreen'
  <2>1. RealPairs \subseteq RealPairs' /\ \A i \in Items : switches'[i] # NoSwitch => <<i, switches'[i][1]>> \in RealPairs
    BY <1>1, RealStays DEF RealInv
  <2>. QED BY <1>1, <1>2, <2>1, RealListKept
<1>4. \A e \in calls' : CallReal(e)
  BY <1>2 DEF RealInv
<1>. QED BY <1>1, <1>3, <1>4, RealAtPage

LEMMA LostReal ==
  ASSUME TablesAssumption, TypesInv, RealInv, NEW c \in calls, Lost(c)
  PROVE  RealInv'
<1>1. /\ UNCHANGED <<table, items, hadStatus>> /\ orderBy' = orderBy /\ calls' \subseteq calls
      /\ listing' = listing /\ displaced' = displaced /\ switches' = switches
  BY DEF Lost, screen, server
<1>2. RealScreen'
  <2>1. RealPairs \subseteq RealPairs' /\ \A i \in Items : switches'[i] # NoSwitch => <<i, switches'[i][1]>> \in RealPairs
    BY <1>1, RealStays DEF RealInv
  <2>. QED BY <1>1, <2>1, RealListKept
<1>3. \A e \in calls' : CallReal(e)
  BY <1>1 DEF RealInv
<1>. QED BY <1>1, <1>2, <1>3, RealAtPage

LEMMA RealStep ==
  ASSUME TablesAssumption, TypesInv, RealInv, [TablesNext]_tableVars
  PROVE  RealInv'
<1>1. CASE UNCHANGED tableVars
  <2>1. /\ UNCHANGED <<table, items, hadStatus>> /\ orderBy' = orderBy /\ calls' = calls
        /\ listing' = listing /\ displaced' = displaced /\ switches' = switches
    BY <1>1 DEF tableVars, screen, server
  <2>2. RealScreen'
    <3>1. RealPairs \subseteq RealPairs' /\ \A i \in Items : switches'[i] # NoSwitch => <<i, switches'[i][1]>> \in RealPairs
      BY <2>1, RealStays DEF RealInv
    <3>. QED BY <2>1, <3>1, RealListKept
  <2>3. \A e \in calls' : CallReal(e)
    BY <2>1 DEF RealInv
  <2>. QED BY <2>1, <2>2, <2>3, RealAtPage
<1>2. CASE Clicks
  BY <1>2, ClicksSay, RealClicks
<1>3. CASE SortRows
  BY <1>3, RealSorted
<1>4. CASE \E c \in calls : Queried(c) \/ Done(c) \/ Refused(c) \/ Purged(c) \/ Failed(c)
  BY <1>4, QueriedReal, DoneReal, StagedReal
<1>5. CASE \E c \in calls :
        \/ LoadAnswered(c) \/ LoadThenSwitch(c) \/ SearchAnswered(c)
        \/ ManageAnswered(c) \/ ManageRefused(c) \/ ManageAnsweredInBerry(c) \/ PurgeAnswered(c)
        \/ Lost(c)
  BY <1>5, LoadAnsweredReal, LoadThenSwitchReal, SearchAnsweredReal, ManageAnsweredReal,
     ManageRefusedReal, ManageAnsweredInBerryReal, PurgeAnsweredReal, LostReal
<1>6. CASE \E i \in Items : OutsideChange(i)
  BY <1>6, OutsideReal
<1>. QED BY <1>1, <1>2, <1>3, <1>4, <1>5, <1>6 DEF TablesNext, Clicks

LEMMA RealAtFirst ==
  ASSUME TablesAssumption, TablesInit
  PROVE  RealInv
<1>1. /\ listing = NoList /\ items = [i \in Items |-> "on"] /\ hadStatus = [i \in Items |-> {"on"}]
      /\ switches = [i \in Items |-> NoSwitch] /\ orderBy = FALSE
  BY TablesInitSays
<1>2. Pairs(listing.rows) = {} /\ Pairs(NoList.rows) = {}
  BY <1>1 DEF Pairs, NoList
<1>. DEFINE m == IF table = "berry logs" THEN 2 ELSE 1
<1>6. m \in {1, 2}
  OBVIOUS
<1>7. calls = {[TableRequest(n, "load", NoList, 1) EXCEPT !.p = 0] : n \in 1..m}
  BY TablesInitSays
<1>. HIDE DEF m
<1>8. NoList \in ListType /\ 1 \in Nat \ {0} /\ 0 \in Nat
  BY DEF NoList, ListType, RowList
<1>9. \A n \in 1..m : n \in 1..MaxUnderWay
  <2>1. MaxUnderWay \in Int /\ MaxUnderWay >= 2
    BY DEF TablesAssumption
  <2>. QED BY <1>6, <2>1
<1>3. ASSUME NEW c \in calls PROVE CallReal(c) /\ c.kind = "load"
  <2>1. PICK n \in 1..m : c = [TableRequest(n, "load", NoList, 1) EXCEPT !.p = 0]
    BY <1>7
  <2>2. n \in 1..MaxUnderWay
    BY <1>9
  <2>3. SentLoad(c, n, NoList)
    BY <1>8, <2>1, <2>2, OthersTyped
  <2>. QED BY <1>2, <2>3, RealSent DEF SentLoad
<1>4. \A i \in Items : items[i] \in hadStatus[i]
  BY <1>1
<1>5. orderBy => ~ByPlace
  BY <1>1
<1>. QED BY <1>1, <1>2, <1>3, <1>4, <1>5 DEF RealInv

\* What is on the screen is in the list, or in a switch.
LEMMA ScreenRows ==
  ASSUME TablesAssumption, TypesInv, NEW r \in OnScreen
  PROVE  /\ r \in Row /\ \E k \in DOMAIN listing.rows : r = listing.rows[k]
         /\ table \in BerryTables => switches[r.id] # NoSwitch
<1>1. listing.rows \in RowList /\ page \in Nat \ {0}
  BY ListingFields DEF TypesInv, ScreenTyped
<1>2. PICK j \in DOMAIN PageOf(listing.rows, page) : r = PageOf(listing.rows, page)[j]
  BY DEF OnScreen
<1>3. /\ (page - 1) * ITEMS_PER_PAGE + j \in DOMAIN listing.rows
      /\ r = listing.rows[(page - 1) * ITEMS_PER_PAGE + j]
  BY <1>1, <1>2, PageRows
<1>4. r.id \in OnPage(listing.rows, page)
  BY <1>2 DEF OnPage
<1>. QED BY <1>1, <1>3, <1>4, RowsAreReal DEF TypesInv, ScreenTyped

LEMMA RealMarks ==
  ASSUME TablesAssumption, TypesInv, RealInv
  PROVE  MarksAreReal
<1>. SUFFICES ASSUME NEW r \in OnScreen
              PROVE  \/ ShownStatus(r) \in hadStatus[r.id]
                     \/ table = "default channels" /\ displaced
                     \/ table \in ChannelTables /\ items[r.id] = "gone"
  BY DEF MarksAreReal
<1>1. /\ r \in Row /\ \E k \in DOMAIN listing.rows : r = listing.rows[k]
      /\ table \in BerryTables => switches[r.id] # NoSwitch
  BY ScreenRows
<1>2. <<r.id, ShownStatus(r)>> \in RealPairs \/ (ByPlace /\ displaced)
  <2>1. CASE table \in BerryTables
    BY <1>1, <2>1 DEF RealInv, ShownStatus, Row
  <2>2. CASE table \notin BerryTables
    <3>1. <<r.id, r.status>> \in Pairs(listing.rows)
      BY <1>1 DEF Pairs
    <3>. QED BY <2>2, <3>1 DEF RealInv, ShownStatus
  <2>. QED BY <2>1, <2>2
<1>. QED BY <1>2 DEF RealPairs, ByPlace

----------------------------------------------------------------------------
\* One administrator who waits for every answer.

LEMMA CalmStays ==
  ASSUME UNCHANGED <<table, items>>
  PROVE  /\ TruePairs' = TruePairs /\ There' = There
         /\ \A c : CallCalm(c)' <=> CallCalm(c)
         /\ \A rows, S : GoneLast(rows, S)' <=> GoneLast(rows, S)
<1>1. TruePairs' = TruePairs /\ There' = There
  BY DEF TruePairs, There
<1>2. \A c : CallCalm(c)' <=> CallCalm(c)
  BY <1>1 DEF CallCalm, Toggling, Turned, Pairs
<1>3. \A rows, S : GoneLast(rows, S)' <=> GoneLast(rows, S)
  BY <1>1 DEF GoneLast
<1>. QED BY <1>1, <1>2, <1>3

\* Whatever is not a load is alone under way.
LEMMA CalmAlone ==
  ASSUME CalmCalls, NEW c \in calls, c.kind # "load"
  PROVE  calls = {c} /\ CallCalm(c) /\ CallStill(c)
BY DEF CalmCalls

LEMMA NothingPends ==
  ASSUME \A c \in calls : ~Toggling(c)
  PROVE  PendingItems = {}
BY DEF PendingItems

\* Nothing pends: every row is as its item, or its item is gone.
LEMMA AllTrue ==
  ASSUME TypesInv, CalmRows, PendingItems = {}
  PROVE  /\ Pairs(listing.rows) \subseteq TruePairs
         /\ table \in BerryTables =>
              \A i \in Items : switches[i] # NoSwitch => <<i, switches[i][1]>> \in TruePairs
<1>1. \A k \in DOMAIN listing.rows : <<listing.rows[k].id, listing.rows[k].status>> \in TruePairs
  BY DEF CalmRows
<1>. QED BY <1>1 DEF CalmRows, Pairs

\* The screen of true rows, and of switches that are so or come from those rows.
LEMMA CalmScreen ==
  ASSUME TablesAssumption, TypesInv, UNCHANGED <<table, items>>, NEW rows \in RowList, NEW k \in Nat \ {0},
         listing'.rows = rows, switches' = Remounted(rows, k), ~Doubled(rows), Pairs(rows) \subseteq TruePairs,
         table \in BerryTables =>
            \A i \in Items : switches[i] # NoSwitch => <<i, switches[i][1]>> \in TruePairs
  PROVE  CalmRows'
<1>1. TruePairs' = TruePairs
  BY CalmStays
<1>2. switches \in [Items -> Switch] /\ stamp \in Nat
  BY DEF TypesInv, ScreenTyped
<1>3. ASSUME table \in BerryTables, NEW i \in Items, switches'[i] # NoSwitch
      PROVE  <<i, switches'[i][1]>> \in TruePairs
  <2>1. \/ switches[i] # NoSwitch /\ switches'[i] = switches[i]
        \/ <<i, switches'[i][1]>> \in Pairs(rows)
    BY <1>2, <1>3, SwitchesMounted
  <2>. QED BY <1>3, <2>1
<1>4. \A j \in DOMAIN rows : <<rows[j].id, rows[j].status>> \in TruePairs
  BY DEF Pairs
<1>5. ~Doubled(listing.rows)'
  BY DEF Doubled
<1>. QED BY <1>1, <1>3, <1>4, <1>5 DEF CalmRows

\* The screen stays, or turns to another page, when nothing pends.
LEMMA CalmTurned ==
  ASSUME TablesAssumption, TypesInv, CalmRows, PendingItems = {}, UNCHANGED <<table, items>>,
         ScreenStands \/ \E k \in Nat \ {0} : Turn(k)
  PROVE  CalmRows' /\ listing' = listing
<1>1. /\ Pairs(listing.rows) \subseteq TruePairs
      /\ table \in BerryTables =>
              \A i \in Items : switches[i] # NoSwitch => <<i, switches[i][1]>> \in TruePairs
  BY AllTrue
<1>2. ~Doubled(listing.rows) /\ listing.rows \in RowList
  BY ListingFields DEF CalmRows, TypesInv
<1>3. CASE ScreenStands
  <2>1. listing' = listing /\ switches' = switches /\ table' = table /\ TruePairs' = TruePairs
    BY <1>3, CalmStays DEF ScreenStands
  <2>2. ~Doubled(listing.rows)'
    BY <1>2, <2>1 DEF Doubled
  <2>3. \A j \in DOMAIN listing.rows : <<listing.rows[j].id, listing.rows[j].status>> \in TruePairs
    BY <1>1 DEF Pairs
  <2>. QED BY <1>1, <2>1, <2>2, <2>3 DEF CalmRows
<1>4. ASSUME NEW k \in Nat \ {0}, Turn(k) PROVE CalmRows' /\ listing' = listing
  <2>1. listing' = listing /\ switches' = Remounted(listing.rows, k)
    BY <1>4 DEF Turn
  <2>2. CalmRows'
    BY <1>1, <1>2, <2>1, CalmScreen
  <2>. QED BY <2>1, <2>2
<1>. QED BY <1>3, <1>4

\* The place of a click on the page.
LEMMA ClickedPlace ==
  ASSUME TablesAssumption, TypesInv, NEW e, ClickManages(e)
  PROVE  /\ Place(e) \in DOMAIN listing.rows /\ listing.rows[Place(e)].id = e.row.id
         /\ OnItsPage(e, Place(e))
         /\ table \notin BerryTables => listing.rows[Place(e)] = e.row
<1>1. /\ e.at = page /\ e.idx \in DOMAIN PageOf(listing.rows, page)
      /\ e.row.id = PageOf(listing.rows, page)[e.idx].id
      /\ table \notin BerryTables => e.row = PageOf(listing.rows, page)[e.idx]
  BY DEF ClickManages, SentOther
<1>2. listing.rows \in RowList /\ page \in Nat \ {0}
  BY ListingFields DEF TypesInv, ScreenTyped
<1>3. /\ e.idx \in Nat \ {0} /\ e.idx <= ITEMS_PER_PAGE
      /\ (page - 1) * ITEMS_PER_PAGE + e.idx \in DOMAIN listing.rows
      /\ PageOf(listing.rows, page)[e.idx] = listing.rows[(page - 1) * ITEMS_PER_PAGE + e.idx]
  <2>1. \A j \in DOMAIN PageOf(listing.rows, page) :
          /\ j \in Nat \ {0} /\ j <= ITEMS_PER_PAGE
          /\ (page - 1) * ITEMS_PER_PAGE + j \in DOMAIN listing.rows
          /\ PageOf(listing.rows, page)[j] = listing.rows[(page - 1) * ITEMS_PER_PAGE + j]
    BY <1>2, PageRows, Zenon
  <2>. QED BY <1>1, <2>1, Zenon
<1>4. Place(e) = (page - 1) * ITEMS_PER_PAGE + e.idx
  BY <1>1 DEF Place
<1>5. OnItsPage(e, Place(e))
  <2>1. page * ITEMS_PER_PAGE = (page - 1) * ITEMS_PER_PAGE + ITEMS_PER_PAGE /\ (page - 1) * ITEMS_PER_PAGE \in Nat
    BY <1>2 DEF TablesAssumption
  <2>2. \A x, y, z, i \in Int : z = y + i /\ x > 0 /\ x <= i => y < y + x /\ y + x <= z
    OBVIOUS
  <2>3. page * ITEMS_PER_PAGE \in Int /\ ITEMS_PER_PAGE \in Int
    BY <1>2 DEF TablesAssumption
  <2>. QED BY <1>1, <1>3, <1>4, <2>1, <2>2, <2>3 DEF OnItsPage
<1>. QED BY <1>1, <1>3, <1>4, <1>5

LEMMA CapturedIs ==
  /\ ~ByPlace /\ table \in Managed => Captured = listing
  /\ table \in BerryTables => Captured = listing
BY DEF Captured, ByPlace, Managed, BerryTables, ChannelTables, TokenTables, UserTables, RedemptionTables

LEMMA CalmClicks ==
  ASSUME TablesAssumption, TypesInv, CalmParts, calls = {}, NEW S, ClickSays(S)
  PROVE  CalmParts'
<1>1. /\ UNCHANGED <<table, items>> /\ calls' = S /\ \A e \in S : ClickSends(e)
      /\ \A e, d \in S : e = d \/ (e.kind = "load" /\ d.kind = "load")
      /\ ScreenStands \/ ((\A e \in S : e.kind = "load") /\ \E k \in Nat \ {0} : Turn(k))
  BY DEF ClickSays, Click, server
<1>2. PendingItems = {} /\ Leaving = {}
  BY DEF PendingItems, Leaving
<1>3. CalmRows' /\ listing' = listing
  BY <1>1, <1>2, CalmTurned DEF CalmParts
<1>4. Pairs(Captured.rows) \subseteq TruePairs /\ Pairs(<<>>) = {}
  <2>1. Pairs(listing.rows) \subseteq TruePairs
    BY <1>2, AllTrue DEF CalmParts
  <2>2. Pairs(NoList.rows) = {} /\ Pairs(<<>>) = {}
    BY DEF NoList, Pairs
  <2>. QED BY <2>1, <2>2 DEF Captured
<1>5. ASSUME NEW e \in S PROVE CallCalm(e) /\ ~Toggling(e)
  <2>1. ClickSends(e) /\ Pairs(Captured.rows) \subseteq TruePairs
    BY <1>1, <1>4
  <2>2. CASE SentLoad(e, e.n, Captured)
    BY <1>4, <2>2 DEF SentLoad, CallCalm, Toggling
  <2>3. CASE SentOther(e, e.n, "search", NoList, page)
    <3>1. e.kind = "search" /\ e.stage = "sent" /\ e.data = <<>> /\ Len(<<>>) <= 1
      BY <2>3 DEF SentOther
    <3>. QED BY <1>4, <3>1 DEF CallCalm, Toggling
  <2>4. CASE SentOther(e, e.n, "purge", Captured, page) /\ table \in ChannelTables
    BY <1>4, <2>4 DEF SentOther, CallCalm, Toggling
  <2>5. CASE ClickManages(e)
    BY <2>5 DEF ClickManages, SentOther, CallCalm, Toggling
  <2>. QED BY <2>1, <2>2, <2>3, <2>4, <2>5 DEF ClickSends
<1>6. ASSUME NEW e \in S PROVE CallStill(e)'
  <2>1. CASE e.kind \in {"load", "search", "purge"}
    BY <2>1 DEF CallStill
  <2>2. CASE e.kind \notin {"load", "search", "purge"}
    <3>1. ClickManages(e) /\ e.kind = "manage"
      BY <1>1, <2>2 DEF ClickSends, SentLoad, SentOther, ClickManages
    <3>2. switches' = switches /\ ByPlace' = ByPlace
      BY <1>1, <3>1 DEF ScreenStands, ByPlace
    <3>3. /\ Place(e) \in DOMAIN listing.rows /\ listing.rows[Place(e)].id = e.row.id
          /\ OnItsPage(e, Place(e))
          /\ table \notin BerryTables => listing.rows[Place(e)] = e.row
      BY <3>1, ClickedPlace
    <3>4. ~ByPlace => e.list.rows = listing.rows
      BY <3>1, CapturedIs DEF ClickManages, SentOther
    <3>5. table \in BerryTables => switches[e.row.id] # NoSwitch /\ switches[e.row.id][2] = e.row.born
      BY <3>1 DEF ClickManages
    <3>6. Place(e)' = Place(e) /\ \A k : OnItsPage(e, k)' <=> OnItsPage(e, k)
      BY DEF Place, OnItsPage
    <3>. QED BY <1>1, <1>3, <3>1, <3>2, <3>3, <3>4, <3>5, <3>6 DEF CallStill
  <2>. QED BY <2>1, <2>2
<1>7. CalmCalls'
  <2>1. \A e \in calls' : CallCalm(e)'
    BY <1>1, <1>5, CalmStays
  <2>. QED BY <1>1, <1>6, <2>1 DEF CalmCalls
<1>8. CalmUsers'
  <2>1. ASSUME OfBerryUsers
        PROVE  /\ GoneLast(listing.rows, {})
               /\ \A e \in S : e.kind = "load" => e.list = listing
    <3>1. GoneLast(listing.rows, {})
      BY <1>2, <2>1 DEF CalmParts, CalmUsers
    <3>2. Captured = listing
      BY <2>1, CapturedIs DEF BerryTables, OfBerryUsers
    <3>3. \A e \in S : e.kind = "load" => e.list = Captured
      BY <1>1 DEF ClickSends, SentLoad, SentOther, ClickManages
    <3>. QED BY <3>1, <3>2, <3>3
  <2>2. ASSUME OfBerryUsers PROVE GoneLast(listing.rows, Leaving')
    BY <2>1, <2>2 DEF GoneLast
  <2>3. GoneLast(listing.rows, Leaving)' <=> GoneLast(listing.rows, Leaving')
    BY <1>1, <1>3, CalmStays DEF GoneLast
  <2>4. \A e \in calls' : e.kind = "load" /\ OfBerryUsers => GoneLast(e.list.rows, {})'
    BY <1>1, <2>1, CalmStays
  <2>. QED BY <1>1, <2>2, <2>3, <2>4 DEF CalmUsers, OfBerryUsers
<1>. QED BY <1>3, <1>7, <1>8 DEF CalmParts

LEMMA SortingForms == SearchingOf.sort => table \in DefaultTables
BY DEF SearchingOf, Searching, DefaultTables, searchChannelsDefault, searchTokensDefault, searchUsersDefault,
       searchRedemptionsDefault, sortLogsDefault, searchChannelsAir, searchTokensAir, searchUsersAir,
       searchRedemptionsAir, searchChannelsBerry, searchTokensBerry, searchUsersBerry,
       searchRedemptionsBerry, searchLogsBerry

LEMMA CalmSorted ==
  ASSUME TablesAssumption, TypesInv, CalmParts, calls = {}, SortRows
  PROVE  CalmParts'
<1>1. /\ UNCHANGED <<table, items>> /\ calls' = calls /\ table \in DefaultTables
  BY SortingForms DEF SortRows, Click, server
<1>2. PICK rows \in RowList : /\ Show(rows, page) /\ Pairs(rows) \subseteq Pairs(listing.rows)
                              /\ ~Doubled(listing.rows) => ~Doubled(rows)
  BY SortedRows
<1>3. PendingItems = {}
  BY DEF PendingItems
<1>4. /\ Pairs(listing.rows) \subseteq TruePairs
      /\ table \in BerryTables =>
              \A i \in Items : switches[i] # NoSwitch => <<i, switches[i][1]>> \in TruePairs
  BY <1>3, AllTrue DEF CalmParts
<1>5. listing'.rows = rows /\ switches' = Remounted(rows, page) /\ page \in Nat \ {0}
  BY <1>2 DEF Show, ShowArray, TypesInv, ScreenTyped
<1>6. CalmRows'
  BY <1>1, <1>2, <1>4, <1>5, CalmScreen DEF CalmParts, CalmRows
<1>7. CalmCalls'
  BY <1>1 DEF CalmCalls
<1>8. CalmUsers'
  BY <1>1 DEF CalmUsers, DefaultTables, OfBerryUsers
<1>. QED BY <1>6, <1>7, <1>8 DEF CalmParts

----------------------------------------------------------------------------
\* The answers of the server.

LEMMA StillAnswered ==
  ASSUME NEW c, CallStill(c), NEW e, SameRequest(e, c), e.list = c.list, UNCHANGED <<table, listing, switches>>,
         e.kind = "reload" /\ e.stage = "back" =>
            Len(e.data) = ITEMS_PER_PAGE \/ e.p * ITEMS_PER_PAGE + Len(e.data) >= Cardinality(There')
  PROVE  CallStill(e)'
<1>1. /\ e.kind = c.kind /\ e.at = c.at /\ e.idx = c.idx /\ e.row = c.row /\ e.p = c.p
  BY DEF SameRequest
<1>2. Place(e)' = Place(c) /\ \A k : OnItsPage(e, k)' <=> OnItsPage(c, k)
  BY <1>1 DEF Place, OnItsPage
<1>3. ByPlace' = ByPlace
  BY DEF ByPlace
<1>. QED BY <1>1, <1>2, <1>3 DEF CallStill

LEMMA CalmReplaced ==
  ASSUME CalmCalls, NEW c \in calls, NEW e, SameRequest(e, c), calls' = (calls \ {c}) \cup {e},
         CallCalm(e)', CallStill(e)', \A d \in calls \ {c} : CallCalm(d)'
  PROVE  CalmCalls'
<1>1. e.kind = c.kind
  BY DEF SameRequest
<1>2. \A d \in calls \ {c} : d.kind = "load" /\ c.kind = "load"
  BY DEF CalmCalls
<1>3. \A d \in calls' : d = e \/ (d.kind = "load" /\ e.kind = "load")
  BY <1>1, <1>2
<1>4. \A d \in calls' : CallCalm(d)'
  OBVIOUS
<1>5. \A d \in calls' : CallStill(d)'
  BY <1>2 DEF CallStill
<1>. QED BY <1>3, <1>4, <1>5 DEF CalmCalls

LEMMA CalmQueried ==
  ASSUME TablesAssumption, TypesInv, CalmParts, NEW c \in calls, Queried(c)
  PROVE  CalmParts'
<1>. DEFINE data == IF c.kind = "search" THEN WithKeyword ELSE ServerPage(c.order, c.p)
<1>0. PICK e : e = [c EXCEPT !.stage = "back", !.data = data]
  OBVIOUS
<1>1. /\ calls' = (calls \ {c}) \cup {e} /\ UNCHANGED <<table, items, listing, switches>>
      /\ c.kind \in {"load", "reload", "search"}
  BY <1>0 DEF Queried, Answered, server, ServerStep, screen
<1>2. /\ data \in RowList
      /\ \A k \in DOMAIN data : /\ data[k].id \in There /\ data[k].id \in Items
                                /\ data[k].status \in Statuses /\ data[k].status = items[data[k].id]
      /\ c.kind = "search" => Len(data) <= 1
      /\ c.kind # "search" => \/ Len(data) = ITEMS_PER_PAGE
                              \/ c.p * ITEMS_PER_PAGE + Len(data) >= Cardinality(There)
  BY AnsweredRows
<1>3. c \in Call
  BY DEF TypesInv, CallsTyped, CallSound
<1>. HIDE DEF data
<1>4. SameRequest(e, c) /\ e.stage = "back" /\ e.data = data /\ e.list = c.list
  BY <1>0, <1>2, <1>3 DEF Call, SameRequest
<1>5. Pairs(data) \subseteq TruePairs
  <2>1. \A k \in DOMAIN data : <<data[k].id, data[k].status>> \in TruePairs
    BY <1>2 DEF TruePairs
  <2>. QED BY <2>1 DEF Pairs
<1>6. (Toggling(e) <=> Toggling(c)) /\ Turned(e) = Turned(c) /\ e.row = c.row /\ e.kind = c.kind /\ e.flip = c.flip
      /\ e.act = c.act
  BY <1>1, <1>4 DEF SameRequest, Toggling, Turned
<1>7. There' = There /\ TruePairs' = TruePairs
  BY <1>1, CalmStays
<1>8. CallCalm(e)'
  <2>1. CallCalm(c)
    BY DEF CalmParts, CalmCalls
  <2>2. CallCalm(e)
    BY <1>1, <1>2, <1>4, <1>5, <1>6, <2>1 DEF CallCalm
  <2>. QED BY <1>1, <2>2, CalmStays
<1>9. CallStill(e)'
  <2>1. CallStill(c)
    BY DEF CalmParts, CalmCalls
  <2>2. e.kind = "reload" => \/ Len(e.data) = ITEMS_PER_PAGE
                             \/ e.p * ITEMS_PER_PAGE + Len(e.data) >= Cardinality(There')
    BY <1>2, <1>4, <1>7 DEF SameRequest
  <2>. QED BY <1>1, <1>4, <2>1, <2>2, StillAnswered
<1>10. CalmCalls'
  <2>1. \A d \in calls \ {c} : CallCalm(d)'
    BY <1>1, CalmStays DEF CalmParts, CalmCalls
  <2>. QED BY <1>1, <1>4, <1>8, <1>9, <2>1, CalmReplaced DEF CalmParts
<1>11. PendingItems' = PendingItems /\ Leaving' = Leaving
  <2>1. \A d \in {c, e} : d.kind # "manage"
    BY <1>1, <1>6
  <2>. QED BY <1>1, <1>6, <2>1 DEF PendingItems, Leaving, Toggling
<1>12. CalmRows'
  <2>1. Doubled(listing.rows)' <=> Doubled(listing.rows)
    BY <1>1 DEF Doubled
  <2>. QED BY <1>1, <1>7, <1>11, <2>1 DEF CalmParts, CalmRows
<1>13. CalmUsers'
  <2>1. \A rows, S : GoneLast(rows, S)' <=> GoneLast(rows, S)
    BY <1>1, CalmStays
  <2>2. ASSUME OfBerryUsers
        PROVE  /\ GoneLast(listing.rows, Leaving')
               /\ \A d \in calls' : d.kind = "load" => GoneLast(d.list.rows, {})
    BY <1>1, <1>4, <1>6, <1>11, <2>2 DEF CalmParts, CalmUsers
  <2>3. GoneLast(listing.rows, Leaving)' <=> GoneLast(listing.rows, Leaving')
    BY <1>1, <1>7 DEF GoneLast
  <2>. QED BY <1>1, <2>1, <2>2, <2>3 DEF CalmUsers, OfBerryUsers
<1>. QED BY <1>10, <1>12, <1>13 DEF CalmParts

LEMMA ThereIsFinite ==
  ASSUME TablesAssumption
  PROVE  /\ IsFiniteSet(There) /\ Cardinality(There) \in Nat
         /\ \A S \in SUBSET There : Cardinality(S) \in Nat /\ Cardinality(S) <= Cardinality(There)
<1>1. NItems \in Nat
  BY DEF TablesAssumption
<1>2. IsFiniteSet(Items)
  BY <1>1, FS_Interval DEF Items
<1>3. There \in SUBSET Items
  BY DEF There
<1>4. IsFiniteSet(There)
  BY <1>2, <1>3, FS_Subset
<1>5. \A S \in SUBSET There : IsFiniteSet(S) /\ Cardinality(S) <= Cardinality(There)
  BY <1>4, FS_Subset
<1>. QED BY <1>4, <1>5, FS_CardinalityType

\* Fewer items: what the list begins with is still there, but for who leaves.
LEMMA FewerThere ==
  ASSUME TablesAssumption, NEW rows, DOMAIN rows \subseteq Nat, NEW R, GoneLast(rows, R), NEW S,
         There' \subseteq There, There \cup R \subseteq There' \cup S
  PROVE  GoneLast(rows, S)'
<1>1. /\ Cardinality(There') \in Nat /\ Cardinality(There) \in Nat
      /\ Cardinality(There') <= Cardinality(There)
  BY ThereIsFinite
<1>2. ASSUME NEW k \in DOMAIN rows, k <= Cardinality(There') PROVE rows[k].id \in There' \cup S
  <2>1. k <= Cardinality(There)
    BY <1>1, <1>2
  <2>. QED BY <2>1 DEF GoneLast
<1>. QED BY <1>2 DEF GoneLast

LEMMA CalmDone ==
  ASSUME TablesAssumption, TypesInv, CalmParts, NEW c \in calls, Done(c)
  PROVE  CalmParts'
<1>. DEFINE mark == AnsweredStatus(c)
            id == c.row.id
            after == StatusAfter(c)
<1>0. PICK e : e = [c EXCEPT !.stage = "back", !.mark = mark]
  OBVIOUS
<1>1. /\ calls' = (calls \ {c}) \cup {e} /\ UNCHANGED <<table, listing, switches>> /\ c.kind = "manage"
      /\ items' = [items EXCEPT ![id] = after] /\ c.stage = "sent"
      /\ items[id] = "gone" => table \in ChannelTables
  BY <1>0 DEF Done, Answered, ServerStep, screen, Refuses, At
<1>2. /\ id \in Items /\ c.act \in {"enable", "disable", "delete", "other"}
      /\ after \in Statuses \ {"none"} /\ mark \in Statuses
  BY <1>1, StatusesAnswered
<1>3. c \in Call /\ items \in [Items -> Statuses \ {"none"}]
  BY DEF TypesInv, CallsTyped, CallSound, PlainTyped
<1>4. /\ items[id] = "gone" => after = "gone"
      /\ items[id] # "gone" => mark = after
      /\ items[id] # "gone" /\ c.act # "other" => after = Asked[c.act]
      /\ items[id] # "gone" /\ c.act = "other" => after = items[id]
  BY DEF StatusAfter, AnsweredStatus
<1>5. after = "gone" => items[id] = "gone" \/ c.act = "delete"
  BY <1>2, <1>4 DEF Asked
<1>. HIDE DEF mark
<1>6. SameRequest(e, c) /\ e.stage = "back" /\ e.mark = mark /\ e.list = c.list
  BY <1>0, <1>2, <1>3 DEF Call, SameRequest
<1>7. e.row = c.row /\ e.act = c.act /\ e.kind = "manage"
  BY <1>1, <1>6 DEF SameRequest
<1>8. calls = {c} /\ calls' = {e} /\ CallStill(c)
  BY <1>1, CalmAlone DEF CalmParts
<1>. HIDE DEF after, id
<1>9. \A i \in Items : items'[i] = IF i = id THEN after ELSE items[i]
  BY <1>1, <1>2, <1>3
<1>10. PendingItems = {}
  BY <1>1, <1>8 DEF PendingItems, Toggling
<1>11. /\ c.act \in {"enable", "disable"} => Toggling(e) /\ Turned(e) = Asked[c.act] /\ PendingItems' = {id}
       /\ Toggling(e) => c.act \in {"enable", "disable"}
  BY <1>1, <1>6, <1>7, <1>8 DEF Toggling, Turned, PendingItems, id
<1>12. \A x \in TruePairs : x \in TruePairs' \/ x[1] \in PendingItems'
  BY <1>2, <1>4, <1>9, <1>11, <1>3 DEF TruePairs, Asked
<1>13. CalmRows'
  <2>1. Doubled(listing.rows)' <=> Doubled(listing.rows)
    BY <1>1 DEF Doubled
  <2>2. \A x, y : <<x, y>>[1] = x
    OBVIOUS
  <2>3. \A k \in DOMAIN listing.rows : \/ <<listing.rows[k].id, listing.rows[k].status>> \in TruePairs'
                                       \/ listing.rows[k].id \in PendingItems'
    BY <1>10, <1>12, <2>2 DEF CalmParts, CalmRows
  <2>4. table \in BerryTables =>
          \A i \in Items : switches[i] # NoSwitch => <<i, switches[i][1]>> \in TruePairs' \/ i \in PendingItems'
    BY <1>10, <1>12, <2>2 DEF CalmParts, CalmRows
  <2>5. ~Doubled(listing.rows)'
    BY <2>1 DEF CalmParts, CalmRows
  <2>. QED BY <1>1, <2>3, <2>4, <2>5 DEF CalmRows
<1>14. CalmCalls'
  <2>1. items'[id] = after
    BY <1>2, <1>9
  <2>2. CallCalm(e)'
    <3>1. items'[e.row.id] \in {"gone", e.mark}
      BY <1>4, <1>6, <1>7, <2>1 DEF id
    <3>2. Toggling(e) => items'[e.row.id] \in {"gone", Turned(e)}
      BY <1>2, <1>4, <1>7, <1>11, <2>1 DEF id
    <3>. QED BY <1>7, <3>1, <3>2 DEF CallCalm, Toggling, Turned
  <2>3. CallStill(e)'
    BY <1>1, <1>6, <1>7, <1>8, StillAnswered
  <2>. QED BY <1>6, <1>8, <2>2, <2>3, CalmReplaced DEF CalmParts
<1>15. CalmUsers'
  <2>. SUFFICES ASSUME OfBerryUsers PROVE GoneLast(listing.rows, Leaving)'
    BY <1>1, <1>7, <1>8 DEF CalmUsers, OfBerryUsers
  <2>1. items[id] # "gone"
    BY <1>1 DEF ChannelTables, OfBerryUsers
  <2>2. Leaving = {} /\ (after = "gone" => id \in Leaving')
    BY <1>1, <1>5, <1>6, <1>7, <1>8, <2>1 DEF Leaving, id
  <2>3. GoneLast(listing.rows, {})
    BY <2>2 DEF CalmParts, CalmUsers
  <2>4. PICK rows, S : rows = listing.rows /\ S = Leaving'
    OBVIOUS
  <2>5. There' \subseteq There /\ There \cup {} \subseteq There' \cup S
    BY <1>9, <2>1, <2>2, <2>4 DEF There
  <2>6. DOMAIN rows \subseteq Nat
    <3>1. rows \in RowList
      BY <2>4, ListingFields DEF TypesInv
    <3>2. PICK n \in Nat : DOMAIN rows = 1..n
      BY <3>1, RowsAreReal
    <3>. QED BY <3>2
  <2>7. GoneLast(rows, S)'
    BY <2>3, <2>4, <2>5, <2>6, FewerThere
  <2>. QED BY <1>1, <2>4, <2>7 DEF GoneLast
<1>. QED BY <1>13, <1>14, <1>15 DEF CalmParts

LEMMA CalmRefused ==
  ASSUME TablesAssumption, TypesInv, CalmParts, NEW c \in calls, Refused(c)
  PROVE  CalmParts'
<1>0. PICK e : e = [c EXCEPT !.stage = "refused"]
  OBVIOUS
<1>1. /\ calls' = (calls \ {c}) \cup {e} /\ UNCHANGED <<table, items, listing, switches>> /\ c.kind = "manage"
      /\ c.stage = "sent"
  BY <1>0 DEF Refused, Answered, ServerStep, screen, server, At
<1>2. SameRequest(e, c) /\ e.stage = "refused" /\ e.list = c.list /\ e.kind = "manage"
  <2>1. c \in Call
    BY DEF TypesInv, CallsTyped, CallSound
  <2>2. SameRequest(e, c) /\ e.stage = "refused" /\ e.list = c.list
    BY <1>0, <2>1, StagedFields
  <2>. QED BY <1>1, <2>2 DEF SameRequest
<1>3. calls = {c} /\ calls' = {e} /\ CallStill(c)
  BY <1>1, CalmAlone DEF CalmParts
<1>4. PendingItems = {} /\ PendingItems' = {} /\ Leaving = {} /\ Leaving' = {}
  BY <1>1, <1>2, <1>3 DEF PendingItems, Leaving, Toggling
<1>5. There' = There /\ TruePairs' = TruePairs
  BY <1>1, CalmStays
<1>6. CalmRows'
  <2>1. Doubled(listing.rows)' <=> Doubled(listing.rows)
    BY <1>1 DEF Doubled
  <2>. QED BY <1>1, <1>4, <1>5, <2>1 DEF CalmParts, CalmRows
<1>7. CalmCalls'
  <2>1. CallCalm(e)'
    BY <1>2 DEF CallCalm, Toggling
  <2>2. CallStill(e)'
    BY <1>1, <1>2, <1>3, StillAnswered
  <2>. QED BY <1>2, <1>3, <2>1, <2>2, CalmReplaced DEF CalmParts
<1>8. CalmUsers'
  BY <1>1, <1>2, <1>3, <1>4, <1>5 DEF CalmParts, CalmUsers, GoneLast, OfBerryUsers
<1>. QED BY <1>6, <1>7, <1>8 DEF CalmParts

LEMMA CalmPurged ==
  ASSUME TablesAssumption, TypesInv, CalmParts, NEW c \in calls, Purged(c)
  PROVE  CalmParts'
<1>0. PICK e : e = [c EXCEPT !.stage = "back"]
  OBVIOUS
<1>1. /\ calls' = (calls \ {c}) \cup {e} /\ UNCHANGED <<table, listing, switches>> /\ c.kind = "purge"
      /\ items' = [i \in Items |-> IF items[i] = "on" THEN "on" ELSE "gone"]
  BY <1>0 DEF Purged, Answered, ServerStep, screen
<1>2. SameRequest(e, c) /\ e.stage = "back" /\ e.list = c.list /\ e.kind = "purge"
  <2>1. c \in Call
    BY DEF TypesInv, CallsTyped, CallSound
  <2>2. SameRequest(e, c) /\ e.stage = "back" /\ e.list = c.list
    BY <1>0, <2>1, StagedFields
  <2>. QED BY <1>1, <2>2 DEF SameRequest
<1>3. calls = {c} /\ calls' = {e} /\ CallCalm(c) /\ CallStill(c)
  BY <1>1, CalmAlone DEF CalmParts
<1>4. PendingItems = {} /\ PendingItems' = {}
  BY <1>1, <1>2, <1>3 DEF PendingItems, Toggling
<1>5. TruePairs \subseteq TruePairs'
  BY <1>1 DEF TruePairs
<1>6. CalmRows'
  <2>1. Doubled(listing.rows)' <=> Doubled(listing.rows)
    BY <1>1 DEF Doubled
  <2>. QED BY <1>1, <1>4, <1>5, <2>1 DEF CalmParts, CalmRows
<1>7. CalmCalls'
  <2>1. CallCalm(e)'
    <3>1. Pairs(c.list.rows) \subseteq TruePairs /\ table \in ChannelTables
      BY <1>1, <1>3 DEF CallCalm
    <3>2. Pairs(e.list.rows) \subseteq TruePairs'
      BY <1>2, <1>5, <3>1
    <3>. QED BY <1>1, <1>2, <3>1, <3>2 DEF CallCalm, Toggling, Pairs
  <2>2. CallStill(e)'
    BY <1>1, <1>2, <1>3, StillAnswered
  <2>. QED BY <1>2, <1>3, <2>1, <2>2, CalmReplaced DEF CalmParts
<1>8. CalmUsers'
  <2>1. table \in ChannelTables
    BY <1>1, <1>3 DEF CallCalm
  <2>. QED BY <1>1, <2>1 DEF CalmUsers, ChannelTables, OfBerryUsers
<1>. QED BY <1>6, <1>7, <1>8 DEF CalmParts

----------------------------------------------------------------------------
\* The answers at the page.

LEMMA DoubledSeen ==
  ASSUME CheckDoubled, ~disturbed'
  PROVE  ~Doubled(listing'.rows)
BY DEF CheckDoubled

LEMMA CalmLoaded ==
  ASSUME TablesAssumption, TypesInv, CalmParts, NEW c \in calls, LoadAnswered(c), ~disturbed'
  PROVE  CalmParts'
<1>1. /\ Here(c) /\ UNCHANGED <<table, items>> /\ c.turn \in Nat /\ page \in Nat \ {0}
      /\ c.kind = "load" /\ CheckDoubled /\ table \in AllTables
  BY HerePlain, CallFields DEF LoadAnswered, TypesInv, ScreenTyped
<1>2. c.stage = "back" /\ CallCalm(c)
  BY <1>1, HerePlain DEF CalmParts, CalmCalls, CallCalm
<1>3. \A d \in calls : d.kind = "load" /\ CallCalm(d)
  BY <1>1 DEF CalmParts, CalmCalls
<1>4. PendingItems = {}
  BY <1>3, NothingPends DEF Toggling
<1>. DEFINE k == IF c.turn # 0 THEN c.turn ELSE page
            arr == IF table \in PushInPlace /\ c.p # 0 THEN c.list.arr ELSE NextStamp
            rows == Loaded(c)
<1>5. k \in Nat \ {0}
  BY <1>1
<1>6. listing'.rows = rows /\ switches' = Remounted(rows, k)
  <2>1. ShowArray(arr, rows, k)
    BY <1>2 DEF LoadAnswered
  <2>. HIDE DEF arr, rows, k
  <2>. QED BY <2>1 DEF ShowArray
<1>7. rows \in RowList /\ Pairs(rows) \subseteq TruePairs
  <2>1. c \in Call /\ stamp \in Nat /\ listing.rows \in RowList
    BY ListingFields DEF TypesInv, CallsTyped, CallSound, ScreenTyped
  <2>2. c.p \in Nat /\ c.data \in RowList /\ c.list.rows \in RowList
    BY <2>1, CallFields
  <2>3. /\ rows \in RowList
        /\ Pairs(rows) \subseteq Pairs(c.data) \cup Pairs(c.list.rows)
                                \cup (IF table \in SplicedAtHand THEN Pairs(listing.rows) ELSE {})
    BY <1>1, <2>1, <2>2, LoadedSays
  <2>4. Pairs(c.data) \subseteq TruePairs /\ Pairs(c.list.rows) \subseteq TruePairs
    BY <1>1, <1>2 DEF CallCalm
  <2>5. Pairs(listing.rows) \subseteq TruePairs
    BY <1>4, AllTrue DEF CalmParts
  <2>. QED BY <2>3, <2>4, <2>5
<1>. HIDE DEF k, arr, rows
<1>8. CalmRows'
  <2>1. ~Doubled(rows)
    BY <1>1, <1>6, DoubledSeen
  <2>2. table \in BerryTables =>
              \A i \in Items : switches[i] # NoSwitch => <<i, switches[i][1]>> \in TruePairs
    BY <1>4, AllTrue DEF CalmParts
  <2>. QED BY <1>1, <1>5, <1>6, <1>7, <2>1, <2>2, CalmScreen
<1>9. ASSUME NEW e \in calls'
      PROVE  /\ e.kind = "load" /\ e.stage # "refused"
             /\ Pairs(e.list.rows) \subseteq TruePairs /\ Pairs(e.data) \subseteq TruePairs
             /\ \A j \in DOMAIN e.data : e.data[j].id \in There
             /\ e.list.rows = rows \/ e \in calls
  <2>1. CASE e \in calls
    BY <1>3, <2>1 DEF CallCalm
  <2>2. CASE e.list = listing' /\ \E d \in calls \ {c} : SameRequest(e, d) /\ e.stage = d.stage /\ e.data = d.data
    <3>1. PICK d \in calls : SameRequest(e, d) /\ e.stage = d.stage /\ e.data = d.data
      BY <2>2
    <3>2. d.kind = "load" /\ CallCalm(d)
      BY <1>3
    <3>. QED BY <1>6, <1>7, <2>2, <3>1, <3>2 DEF CallCalm, SameRequest
  <2>3. CASE SentLoad(e, c.n, listing')
    <3>1. e.kind = "load" /\ e.stage = "sent" /\ e.data = <<>> /\ e.list = listing'
      BY <2>3 DEF SentLoad
    <3>2. Pairs(<<>>) = {} /\ DOMAIN <<>> = {}
      BY DEF Pairs
    <3>. QED BY <1>6, <1>7, <3>1, <3>2
  <2>. QED BY <2>1, <2>2, <2>3, CallsAfterLoad
<1>10. CalmCalls'
  <2>1. ASSUME NEW e \in calls' PROVE CallCalm(e) /\ CallStill(e)'
    BY <1>9 DEF CallCalm, CallStill, Toggling
  <2>2. \A e \in calls' : CallCalm(e)'
    BY <1>1, <2>1, CalmStays
  <2>. QED BY <1>9, <2>1, <2>2 DEF CalmCalls
<1>11. CalmUsers'
  <2>. SUFFICES ASSUME OfBerryUsers
                PROVE  GoneLast(listing.rows, Leaving)' /\ \A e \in calls' : GoneLast(e.list.rows, {})'
    BY <1>1 DEF CalmUsers, OfBerryUsers
  <2>1. Leaving' = {}
    BY <1>9 DEF Leaving
  <2>2. GoneLast(c.list.rows, {}) /\ \A j \in DOMAIN c.data : c.data[j].id \in There
    BY <1>1, <1>2 DEF CalmParts, CalmUsers, CallCalm
  <2>3. c \in Call
    BY DEF TypesInv, CallsTyped, CallSound
  <2>4. c.p \in Nat /\ c.data \in RowList /\ c.list.rows \in RowList
    BY <2>3, CallFields
  <2>5. rows = IF c.p = 0 THEN c.data ELSE Splice(c.list.rows, c.p, c.data)
    BY <1>1, LoadedForms DEF rows, SplicedFromClick, BerryTables, OfBerryUsers
  <2>6. \A j \in DOMAIN rows : \/ j \in DOMAIN c.list.rows /\ rows[j] = c.list.rows[j]
                               \/ \E i \in DOMAIN c.data : rows[j] = c.data[i]
    <3>1. PICK p \in Nat, data \in RowList, list \in RowList : p = c.p /\ data = c.data /\ list = c.list.rows
      BY <2>4
    <3>2. PICK s, from : s = Splice(list, p, data) /\ from = p * ITEMS_PER_PAGE
      OBVIOUS
    <3>3. \A j \in DOMAIN s : \/ j \in DOMAIN list /\ s[j] = list[j]
                              \/ \E i \in DOMAIN data : s[j] = data[i]
      BY <3>2, SpliceOf DEF SplicedSays
    <3>4. rows = IF p = 0 THEN data ELSE s
      BY <2>5, <3>1, <3>2
    <3>5. \A j \in DOMAIN rows : \/ j \in DOMAIN list /\ rows[j] = list[j]
                                 \/ \E i \in DOMAIN data : rows[j] = data[i]
      BY <3>3, <3>4
    <3>. QED BY <3>1, <3>5
  <2>7. GoneLast(rows, {})
    BY <2>2, <2>6 DEF GoneLast
  <2>8. GoneLast(listing.rows, Leaving)'
    BY <1>1, <1>6, <2>1, <2>7, CalmStays DEF GoneLast
  <2>9. ASSUME NEW e \in calls' PROVE GoneLast(e.list.rows, {})
    BY <1>3, <1>9, <2>7 DEF CalmParts, CalmUsers
  <2>. QED BY <1>1, <2>8, <2>9, CalmStays
<1>. QED BY <1>8, <1>10, <1>11 DEF CalmParts

LEMMA NoneUnderWay ==
  ASSUME calls' = {}
  PROVE  /\ CalmCalls' /\ PendingItems' = {} /\ Leaving' = {}
         /\ (OfBerryUsers' => GoneLast(listing.rows, {})') => CalmUsers'
<1>1. CalmCalls'
  BY DEF CalmCalls
<1>2. PendingItems' = {} /\ Leaving' = {}
  BY DEF PendingItems, Leaving
<1>3. (OfBerryUsers' => GoneLast(listing.rows, {})') => CalmUsers'
  BY <1>2 DEF CalmUsers, GoneLast, OfBerryUsers
<1>. QED BY <1>1, <1>2, <1>3

LEMMA CalmSearched ==
  ASSUME TablesAssumption, TypesInv, CalmParts, NEW c \in calls, SearchAnswered(c)
  PROVE  CalmParts'
<1>1. /\ Here(c) /\ UNCHANGED <<table, items>> /\ c.kind = "search" /\ c \in Call /\ stamp \in Nat
  BY HerePlain DEF SearchAnswered, TypesInv, ScreenTyped
<1>2. calls = {c} /\ CallCalm(c)
  BY <1>1, CalmAlone DEF CalmParts
<1>3. c.stage = "back" /\ calls' = {} /\ c.data \in RowList
  BY <1>1, <1>2, HerePlain, CallFields DEF CallCalm, SearchAnswered
<1>4. PendingItems = {}
  BY <1>1, <1>2 DEF PendingItems, Toggling
<1>5. PICK rows : /\ rows = IF table \in InPlace THEN Born(c.data) ELSE c.data
                  /\ listing'.rows = rows /\ switches' = Remounted(rows, 1)
  <2>. DEFINE seen == IF table \in InPlace THEN Born(c.data) ELSE c.data
  <2>1. ShowArray(NextStamp, seen, 1)
    BY <1>3 DEF SearchAnswered, Show
  <2>. HIDE DEF seen
  <2>2. listing'.rows = seen /\ switches' = Remounted(seen, 1)
    BY <2>1 DEF ShowArray
  <2>. QED BY <2>2 DEF seen
<1>6. /\ Pairs(c.data) \subseteq TruePairs /\ Len(c.data) <= 1
      /\ \A k \in DOMAIN c.data : c.data[k].id \in There
  BY <1>1, <1>2 DEF CallCalm
<1>7. rows \in RowList /\ Pairs(rows) \subseteq TruePairs /\ Len(rows) <= 1
  BY <1>1, <1>3, <1>5, <1>6, BornOf
<1>8. ~Doubled(rows)
  <2>1. \A j, k \in DOMAIN rows : j = k
    BY <1>7 DEF RowList
  <2>. QED BY <2>1 DEF Doubled
<1>9. CalmRows'
  <2>1. table \in BerryTables =>
              \A i \in Items : switches[i] # NoSwitch => <<i, switches[i][1]>> \in TruePairs
    BY <1>4, AllTrue DEF CalmParts
  <2>2. 1 \in Nat \ {0}
    OBVIOUS
  <2>. QED BY <1>1, <1>5, <1>7, <1>8, <2>1, <2>2, CalmScreen
<1>10. CalmUsers'
  <2>1. OfBerryUsers => rows = c.data
    BY <1>5 DEF OfBerryUsers, InPlace
  <2>2. OfBerryUsers => GoneLast(rows, {})
    BY <1>6, <2>1 DEF GoneLast
  <2>3. OfBerryUsers' <=> OfBerryUsers
    BY <1>1 DEF OfBerryUsers
  <2>4. GoneLast(rows, {})' <=> GoneLast(rows, {})
    BY <1>1, CalmStays
  <2>5. OfBerryUsers' => GoneLast(listing.rows, {})'
    BY <1>5, <2>2, <2>3, <2>4 DEF GoneLast
  <2>. QED BY <1>3, <2>5, NoneUnderWay
<1>. QED BY <1>3, <1>9, <1>10, NoneUnderWay DEF CalmParts

LEMMA CalmManageRefused ==
  ASSUME TablesAssumption, TypesInv, CalmParts, NEW c \in calls, ManageRefused(c)
  PROVE  CalmParts'
<1>1. /\ Here(c) /\ UNCHANGED <<table, items>> /\ c.kind = "manage" /\ c.stage = "refused" /\ c \in Call
      /\ table \notin BerryTables /\ page \in Nat \ {0}
  BY HerePlain DEF ManageRefused, TypesInv, ScreenTyped
<1>2. calls = {c} /\ CallStill(c) /\ calls' = {}
  BY <1>1, CalmAlone DEF CalmParts, ManageRefused
<1>3. PendingItems = {}
  BY <1>1, <1>2 DEF PendingItems, Toggling
<1>4. CalmRows'
  <2>1. CASE RemovedAfterRefusal(c)
    <3>. DEFINE seen == Without(c.list.rows, c.row.id)
    <3>0. ShowArray(NextStamp, seen, page)
      BY <2>1 DEF ManageRefused, removeRecord, Show
    <3>. HIDE DEF seen
    <3>00. listing'.rows = seen /\ switches' = Remounted(seen, page)
      BY <3>0 DEF ShowArray
    <3>1. PICK rows : rows = seen
      OBVIOUS
    <3>2. /\ listing'.rows = rows /\ switches' = Remounted(rows, page)
          /\ rows = Without(c.list.rows, c.row.id)
      BY <3>00, <3>1 DEF seen
    <3>3. c.list.rows = listing.rows /\ ~Doubled(listing.rows) /\ listing.rows \in RowList
      BY <1>1, <1>2, <2>1, ListingFields
         DEF RemovedAfterRefusal, AirTables, CallStill, ByPlace, CalmParts, CalmRows, TypesInv
    <3>4. rows \in RowList /\ ~Doubled(rows) /\ Pairs(rows) \subseteq Pairs(listing.rows)
      BY <3>2, <3>3, WithoutOf
    <3>5. Pairs(rows) \subseteq TruePairs
      BY <1>3, <3>4, AllTrue DEF CalmParts
    <3>. QED BY <1>1, <3>2, <3>4, <3>5, CalmScreen
  <2>2. CASE ~RemovedAfterRefusal(c)
    <3>1. ScreenStands
      BY <2>2 DEF ManageRefused, ScreenStands, screen
    <3>. QED BY <1>1, <1>3, <3>1, CalmTurned DEF CalmParts
  <2>. QED BY <2>1, <2>2
<1>5. CalmUsers'
  <2>1. ~OfBerryUsers'
    BY <1>1 DEF OfBerryUsers, BerryTables
  <2>. QED BY <1>2, <2>1, NoneUnderWay
<1>. QED BY <1>2, <1>4, <1>5, NoneUnderWay DEF CalmParts

LEMMA CalmPurgeAnswered ==
  ASSUME TablesAssumption, TypesInv, CalmParts, NEW c \in calls, PurgeAnswered(c)
  PROVE  CalmParts'
<1>1. /\ Here(c) /\ UNCHANGED <<table, items, listing, switches>> /\ c.kind = "purge" /\ c \in Call
  BY HerePlain DEF PurgeAnswered, screen
<1>2. /\ calls = {c} /\ c.stage = "back" /\ table \in ChannelTables
      /\ Pairs(c.list.rows) \subseteq TruePairs
  BY <1>1, HerePlain, CalmAlone DEF CalmParts, CallCalm
<1>3. PICK e : e = [TableRequest(c.n, "load", c.list, c.at) EXCEPT !.p = c.at - 1]
  OBVIOUS
<1>4. calls' = {e}
  BY <1>2, <1>3 DEF PurgeAnswered
<1>5. SentLoad(e, c.n, c.list)
  <2>1. c.n \in 1..MaxUnderWay /\ c.list \in ListType /\ c.at \in Nat \ {0} /\ c.at - 1 \in Nat
    BY <1>1, CallFields
  <2>. QED BY <1>3, <2>1, OthersTyped
<1>6. PendingItems = {} /\ PendingItems' = {}
  BY <1>1, <1>2, <1>4, <1>5 DEF PendingItems, Toggling, SentLoad
<1>7. CalmRows'
  <2>2. Doubled(listing.rows)' <=> Doubled(listing.rows)
    BY <1>1 DEF Doubled
  <2>3. TruePairs' = TruePairs
    BY <1>1, CalmStays
  <2>. QED BY <1>1, <1>6, <2>2, <2>3 DEF CalmParts, CalmRows
<1>8. CalmCalls'
  <2>1. CallCalm(e)
    <3>1. Pairs(e.data) = {} /\ DOMAIN e.data = {}
      BY <1>5 DEF SentLoad, Pairs
    <3>. QED BY <1>2, <1>5, <3>1 DEF CallCalm, SentLoad, Toggling
  <2>2. CallCalm(e)'
    BY <1>1, <2>1, CalmStays
  <2>3. CallStill(e)'
    BY <1>5 DEF CallStill, SentLoad
  <2>. QED BY <1>4, <2>2, <2>3 DEF CalmCalls
<1>9. CalmUsers'
  BY <1>1, <1>2 DEF CalmUsers, OfBerryUsers, ChannelTables
<1>. QED BY <1>7, <1>8, <1>9 DEF CalmParts

----------------------------------------------------------------------------
\* An operation that was done, at the page.

MarkedWell(rows, old, c) ==
  \A j \in DOMAIN rows : \E k \in DOMAIN old :
    /\ rows[j].id = old[k].id
    /\ \/ rows[j].id = c.row.id /\ rows[j].status = c.mark
       \/ rows[j].status = old[k].status /\ (rows[j].id = c.row.id => c.act = "delete")

LEMMA ManagedWell ==
  ASSUME TypesInv, CalmRows, NEW c \in calls, CallStill(c), c.kind = "manage", c.stage = "back",
         table \notin BerryTables
  PROVE  LET rows == ManagedRows(c) IN
         rows \in RowList /\ ~Doubled(rows) /\ MarkedWell(rows, listing.rows, c)
<1>1. /\ table \in Managed \ BerryTables /\ stamp \in Nat /\ c.row \in Row /\ c.mark \in Statuses
      /\ listing.rows \in RowList
  BY CallFields, ListingFields DEF TypesInv, CallsTyped, CallSound, ScreenTyped
<1>2. PICK old \in RowList : old = listing.rows
  BY <1>1
<1>3. \A j, k \in DOMAIN old : old[j].id = old[k].id => j = k
  BY <1>2 DEF CalmRows, Doubled
<1>4. PICK row \in Row, mark \in Statuses : row = c.row /\ mark = c.mark
  BY <1>1
<1>5. CASE table = "default channels"
  <2>1. PICK at : at = Place(c) /\ at \in DOMAIN old /\ old[at].id = row.id
    BY <1>2, <1>4, <1>5 DEF CallStill, ByPlace
  <2>2. PICK rows : rows = MarkedAt(old, at, mark)
    OBVIOUS
  <2>3. ManagedRows(c) = rows
    BY <1>1, <1>2, <1>4, <1>5, <2>1, <2>2, ManagedForms
  <2>4. /\ rows \in RowList /\ DOMAIN rows = DOMAIN old
        /\ \A k \in DOMAIN old : /\ rows[k].id = old[k].id
                                 /\ rows[k].status = IF k = at THEN mark ELSE old[k].status
    BY <2>2, MarkedAtOf
  <2>5. ~Doubled(rows)
    BY <1>3, <2>4 DEF Doubled
  <2>6. MarkedWell(rows, old, c)
    BY <1>3, <1>4, <2>1, <2>4 DEF MarkedWell
  <2>. QED BY <1>2, <2>3, <2>4, <2>5, <2>6
<1>6. ASSUME table # "default channels"
      PROVE  c.list.rows = old /\ \E k \in DOMAIN old : old[k] = row
  BY <1>1, <1>2, <1>4, <1>6 DEF CallStill, ByPlace
<1>7. ASSUME table # "default channels", ManagedRows(c) = Marked(c.list.rows, c.row, c.mark)
      PROVE  LET rows == ManagedRows(c) IN
             rows \in RowList /\ ~Doubled(rows) /\ MarkedWell(rows, listing.rows, c)
  <2>1. PICK rows : rows = Marked(old, row, mark)
    OBVIOUS
  <2>2. ManagedRows(c) = rows
    BY <1>4, <1>6, <1>7, <2>1
  <2>3. /\ rows \in RowList /\ DOMAIN rows = DOMAIN old
        /\ \A k \in DOMAIN old :
             /\ rows[k].id = old[k].id
             /\ rows[k].status = IF old[k].id = row.id /\ old[k].born = row.born THEN mark ELSE old[k].status
    BY <2>1, MarkedOf
  <2>4. PICK at \in DOMAIN old : old[at] = row
    BY <1>6, <1>7
  <2>5. ~Doubled(rows)
    BY <1>3, <2>3 DEF Doubled
  <2>6. \A k \in DOMAIN old : rows[k].status = IF old[k].id = row.id THEN mark ELSE old[k].status
    BY <1>3, <2>3, <2>4
  <2>7. MarkedWell(rows, old, c)
    BY <1>4, <2>3, <2>6 DEF MarkedWell
  <2>. QED BY <1>2, <2>2, <2>3, <2>5, <2>7
<1>8. ASSUME table # "default channels", c.act = "delete", ManagedRows(c) = Without(c.list.rows, c.row.id)
      PROVE  LET rows == ManagedRows(c) IN
             rows \in RowList /\ ~Doubled(rows) /\ MarkedWell(rows, listing.rows, c)
  <2>1. PICK rows : rows = Without(old, row.id)
    OBVIOUS
  <2>2. ManagedRows(c) = rows
    BY <1>4, <1>6, <1>8, <2>1
  <2>3. rows \in RowList /\ Pairs(rows) \subseteq Pairs(old) /\ (~Doubled(old) => ~Doubled(rows))
    BY <2>1, WithoutOf
  <2>4. ~Doubled(rows)
    BY <1>2, <2>3 DEF CalmRows
  <2>5. ASSUME NEW j \in DOMAIN rows
        PROVE  \E k \in DOMAIN old : rows[j].id = old[k].id /\ rows[j].status = old[k].status
    <3>1. <<rows[j].id, rows[j].status>> \in Pairs(rows)
      BY DEF Pairs
    <3>2. PICK k \in DOMAIN old : <<rows[j].id, rows[j].status>> = <<old[k].id, old[k].status>>
      BY <2>3, <3>1 DEF Pairs
    <3>. QED BY <3>2
  <2>6. MarkedWell(rows, old, c)
    BY <1>8, <2>5 DEF MarkedWell
  <2>. QED BY <1>2, <2>2, <2>3, <2>4, <2>6
<1>9. ASSUME table # "default channels", ManagedRows(c) = Replaced(c.list.rows, c.row, c.mark)
      PROVE  LET rows == ManagedRows(c) IN
             rows \in RowList /\ ~Doubled(rows) /\ MarkedWell(rows, listing.rows, c)
  <2>1. PICK rows : rows = Replaced(old, row, mark)
    OBVIOUS
  <2>2. ManagedRows(c) = rows
    BY <1>4, <1>6, <1>9, <2>1
  <2>. DEFINE r == Replaced(old, row, mark)
  <2>31. r \in RowList /\ DOMAIN r = DOMAIN old /\ \A k \in DOMAIN old : r[k].id = old[k].id
    BY <1>1, ReplacedOf
  <2>32. \/ \A k \in DOMAIN old : old[k].id # row.id
         \/ \E j \in DOMAIN old : /\ old[j].id = row.id /\ r[j].status = mark
                                  /\ \A k \in DOMAIN old : k # j => r[k] = old[k]
    BY <1>1, ReplacedOf
  <2>. HIDE DEF r
  <2>33. rows = r
    BY <2>1 DEF r
  <2>3. /\ rows \in RowList /\ DOMAIN rows = DOMAIN old
        /\ \A k \in DOMAIN old : rows[k].id = old[k].id
    BY <2>31, <2>33
  <2>4. PICK j \in DOMAIN old : /\ old[j].id = row.id /\ rows[j].status = mark
                                /\ \A k \in DOMAIN old : k # j => rows[k] = old[k]
    <3>1. \E j \in DOMAIN old : /\ old[j].id = row.id /\ r[j].status = mark
                                 /\ \A k \in DOMAIN old : k # j => r[k] = old[k]
      BY <1>6, <1>9, <2>32
    <3>. QED BY <2>33, <3>1
  <2>5. ~Doubled(rows)
    BY <1>3, <2>3 DEF Doubled
  <2>6. \A k \in DOMAIN old : rows[k].status = IF old[k].id = row.id THEN mark ELSE old[k].status
    BY <1>3, <2>4
  <2>7. MarkedWell(rows, old, c)
    BY <1>4, <2>3, <2>6 DEF MarkedWell
  <2>. QED BY <1>2, <2>2, <2>3, <2>5, <2>7
<1>10. \/ table = "default channels"
       \/ /\ table # "default channels"
          /\ \/ ManagedRows(c) = Marked(c.list.rows, c.row, c.mark)
             \/ c.act = "delete" /\ ManagedRows(c) = Without(c.list.rows, c.row.id)
             \/ ManagedRows(c) = Replaced(c.list.rows, c.row, c.mark)
  BY <1>1, ManagedForms
<1>. QED BY <1>5, <1>7, <1>8, <1>9, <1>10

LEMMA CalmManaged ==
  ASSUME TablesAssumption, TypesInv, CalmParts, NEW c \in calls, ManageAnswered(c)
  PROVE  CalmParts'
<1>1. /\ Here(c) /\ UNCHANGED <<table, items>> /\ c.kind = "manage" /\ c.stage = "back" /\ c \in Call
      /\ table \notin BerryTables
  BY HerePlain DEF ManageAnswered
<1>2. calls = {c} /\ CallStill(c) /\ CallCalm(c)
  BY <1>1, CalmAlone DEF CalmParts
<1>3. calls' = {}
  BY <1>2 DEF ManageAnswered
<1>4. PICK rows : rows = ManagedRows(c) /\ listing'.rows = rows
  <2>. DEFINE seen == ManagedRows(c)
  <2>1. ShowArray(NextStamp, seen, page)
    BY DEF ManageAnswered, Show
  <2>. HIDE DEF seen
  <2>2. listing'.rows = seen
    BY <2>1 DEF ShowArray
  <2>. QED BY <2>2 DEF seen
<1>5. rows \in RowList /\ ~Doubled(rows) /\ MarkedWell(rows, listing.rows, c)
  BY <1>1, <1>2, <1>4, ManagedWell DEF CalmParts
<1>6. TruePairs' = TruePairs
  BY <1>1, CalmStays
<1>7. PendingItems \subseteq {c.row.id} /\ (PendingItems # {} => c.act # "delete")
  BY <1>1, <1>2 DEF PendingItems, Toggling
<1>8. ASSUME NEW j \in DOMAIN rows PROVE <<rows[j].id, rows[j].status>> \in TruePairs
  <2>1. PICK k \in DOMAIN listing.rows :
          /\ rows[j].id = listing.rows[k].id
          /\ \/ rows[j].id = c.row.id /\ rows[j].status = c.mark
             \/ rows[j].status = listing.rows[k].status /\ (rows[j].id = c.row.id => c.act = "delete")
    BY <1>5 DEF MarkedWell
  <2>2. \/ <<listing.rows[k].id, listing.rows[k].status>> \in TruePairs
        \/ listing.rows[k].id \in PendingItems
    BY DEF CalmParts, CalmRows
  <2>3. items[c.row.id] \in {"gone", c.mark} /\ c.row.id \in Items /\ c.mark \in Statuses
    BY <1>1, <1>2, CallFields DEF CallCalm, TypesInv, CallsTyped, CallSound, Row
  <2>4. <<c.row.id, c.mark>> \in TruePairs
    BY <2>3 DEF TruePairs
  <2>. QED BY <1>7, <2>1, <2>2, <2>4
<1>9. CalmRows'
  <2>1. ~Doubled(listing.rows)'
    BY <1>4, <1>5 DEF Doubled
  <2>. QED BY <1>1, <1>4, <1>6, <1>8, <2>1 DEF CalmRows
<1>10. CalmUsers'
  BY <1>1 DEF CalmUsers, OfBerryUsers, BerryTables
<1>. QED BY <1>3, <1>9, <1>10, NoneUnderWay DEF CalmParts

----------------------------------------------------------------------------
\* The switches of berry's users, turned when the page is there again.

LEMMA OnlyUsers ==
  ASSUME table \in BerryTables, table \in Managed, table \notin Forgetful
  PROVE  OfBerryUsers
BY DEF OfBerryUsers, BerryTables, Managed, Forgetful, ChannelTables, TokenTables, UserTables, RedemptionTables

LEMMA CalmManagedInBerry ==
  ASSUME TablesAssumption, TypesInv, CalmParts, table \notin Forgetful, NEW c \in calls,
         ManageAnsweredInBerry(c)
  PROVE  CalmParts'
<1>1. /\ Here(c) /\ UNCHANGED <<table, items, listing>> /\ c.kind = "manage" /\ c \in Call
      /\ table \in BerryTables /\ CallSound(c) /\ c.stage \in {"back", "refused"}
  BY HerePlain DEF ManageAnsweredInBerry
<1>2. calls = {c} /\ CallStill(c) /\ CallCalm(c) /\ OfBerryUsers
  BY <1>1, CalmAlone, OnlyUsers DEF CalmParts, CallSound
<1>3. TruePairs' = TruePairs /\ \A rows, S : GoneLast(rows, S)' <=> GoneLast(rows, S)
  BY <1>1, CalmStays
<1>4. Doubled(listing.rows)' <=> Doubled(listing.rows)
  BY <1>1 DEF Doubled
<1>5. CASE c.stage = "refused"
  <2>1. calls' = {} /\ switches' = switches
    BY <1>2, <1>5 DEF ManageAnsweredInBerry
  <2>2. PendingItems = {} /\ Leaving = {} /\ PendingItems' = {}
    BY <1>1, <1>2, <1>5, <2>1, NoneUnderWay DEF PendingItems, Leaving, Toggling
  <2>3. CalmRows'
    BY <1>1, <1>3, <1>4, <2>1, <2>2 DEF CalmParts, CalmRows
  <2>4. GoneLast(listing.rows, {})
    BY <1>2, <2>2 DEF CalmParts, CalmUsers
  <2>5. GoneLast(listing.rows, {})'
    BY <1>1, <1>3, <2>4 DEF GoneLast
  <2>. QED BY <2>1, <2>3, <2>5, NoneUnderWay DEF CalmParts
<1>6. CASE c.stage = "back"
  <2>1. Reloaded(c) = c.at - 1 /\ c.at \in Nat \ {0} /\ c.at - 1 >= 0
    <3>1. Reloaded(c) = c.at - 1
      BY <1>2 DEF OfBerryUsers, Reloaded, manageUserBerry
    <3>2. c.at \in Nat \ {0}
      BY <1>1, CallFields
    <3>. QED BY <3>1, <3>2
  <2>2. PICK e : e = [TableRequest(c.n, "reload", c.list, c.at) EXCEPT
                                  !.p = Reloaded(c), !.row = c.row, !.flip = c.act]
    OBVIOUS
  <2>3. calls' = {e} /\ switches' = switches
    BY <1>2, <1>6, <2>1, <2>2 DEF ManageAnsweredInBerry
  <2>4. /\ SentOther(e, c.n, "reload", c.list, c.at) /\ e.p = c.at - 1 /\ e.row = c.row /\ e.flip = c.act
    BY <1>1, <2>1, <2>2, ReloadSent
  <2>5. e.kind = "reload" /\ e.stage = "sent" /\ e.data = <<>> /\ e.list = c.list /\ e.at = c.at
    BY <2>4 DEF SentOther
  <2>6. (Toggling(e) <=> Toggling(c)) /\ Turned(e) = Turned(c)
    BY <1>1, <1>6, <2>4, <2>5 DEF Toggling, Turned
  <2>7. PendingItems' = PendingItems /\ Leaving' = Leaving
    BY <1>1, <1>2, <1>6, <2>3, <2>4, <2>5, <2>6 DEF PendingItems, Leaving, Toggling
  <2>8. CalmRows'
    BY <1>1, <1>3, <1>4, <2>3, <2>7 DEF CalmParts, CalmRows
  <2>9. CallCalm(e)'
    <3>1. Pairs(e.data) = {} /\ DOMAIN e.data = {}
      BY <2>5 DEF Pairs
    <3>2. CallCalm(e)
      BY <1>1, <1>2, <2>4, <2>5, <2>6, <3>1 DEF CallCalm
    <3>. QED BY <1>1, <3>2, CalmStays
  <2>10. CallStill(e)'
    <3>1. ~ByPlace /\ ByPlace' = ByPlace
      BY <1>1, <1>2 DEF ByPlace, OfBerryUsers
    <3>2. \A k : OnItsPage(e, k)' <=> OnItsPage(c, k)
      BY <2>5 DEF OnItsPage
    <3>. QED BY <1>1, <1>2, <2>3, <2>4, <2>5, <3>1, <3>2 DEF CallStill
  <2>11. CalmCalls'
    BY <2>3, <2>9, <2>10 DEF CalmCalls
  <2>12. CalmUsers'
    <3>1. GoneLast(listing.rows, Leaving)
      BY <1>2 DEF CalmParts, CalmUsers
    <3>2. GoneLast(listing.rows, Leaving)'
      BY <1>1, <1>3, <2>7, <3>1 DEF GoneLast
    <3>3. \A d \in calls' : d.kind # "load"
      BY <2>3, <2>5
    <3>. QED BY <3>2, <3>3 DEF CalmUsers
  <2>. QED BY <2>8, <2>11, <2>12 DEF CalmParts
<1>. QED BY <1>1, <1>5, <1>6

\* The list begins with as many items as there are; no other one is behind them.
LEMMA NotCrowded ==
  ASSUME TablesAssumption, NEW rows \in RowList, ~Doubled(rows), GoneLast(rows, {}),
         NEW at \in DOMAIN rows, at > Cardinality(There)
  PROVE  rows[at].id \notin There
<1>. SUFFICES ASSUME rows[at].id \in There PROVE FALSE
  OBVIOUS
<1>. DEFINE n == Cardinality(There)
            places == 1..(n + 1)
            f == [k \in places |-> IF k <= n THEN rows[k].id ELSE rows[at].id]
<1>1. IsFiniteSet(There) /\ n \in Nat
  BY ThereIsFinite
<1>2. IsFiniteSet(places) /\ Cardinality(places) = n + 1
  BY <1>1, FS_Interval
<1>3. at \in Nat /\ \A k \in 1..n : k \in DOMAIN rows
  BY <1>1 DEF RowList
<1>4. \A k \in 1..n : rows[k].id \in There
  BY <1>1, <1>3 DEF GoneLast
<1>. HIDE DEF n
<1>5. f \in [places -> There]
  BY <1>1, <1>4
<1>6. PICK j, k \in places : j # k /\ f[j] = f[k]
  <2>1. Cardinality(places) > Cardinality(There)
    BY <1>1, <1>2 DEF n
  <2>. HIDE DEF f, places
  <2>. QED BY <1>1, <1>2, <1>5, <2>1, FS_PigeonHole
<1>7. PICK x, y \in DOMAIN rows : x # y /\ rows[x].id = rows[y].id
  <2>1. CASE j <= n /\ k <= n
    BY <1>3, <1>6, <2>1
  <2>2. CASE j <= n /\ ~(k <= n)
    BY <1>1, <1>3, <1>6, <2>2 DEF n
  <2>3. CASE k <= n /\ ~(j <= n)
    BY <1>1, <1>3, <1>6, <2>3 DEF n
  <2>4. j <= n \/ k <= n
    BY <1>1, <1>6
  <2>. QED BY <2>1, <2>2, <2>3, <2>4
<1>. QED BY <1>7 DEF Doubled

\* The page is loaded into the list of the click, where the row still is.
LEMMA ReloadedPlace ==
  ASSUME TablesAssumption, TypesInv, CalmParts, NEW c \in calls, c.kind = "reload", c.stage = "back",
         table \in BerryTables
  PROVE  /\ Loaded(c) \in RowList
         /\ \A j \in DOMAIN Loaded(c) :
              \/ \E i \in DOMAIN c.data : Loaded(c)[j] = c.data[i]
              \/ /\ j \in DOMAIN listing.rows /\ Loaded(c)[j] = listing.rows[j]
                 /\ listing.rows[j].id = c.row.id => j > Cardinality(There)
<1>1. c \in Call /\ calls = {c} /\ CallStill(c) /\ listing.rows \in RowList
  BY CalmAlone, ListingFields DEF CalmParts, TypesInv, CallsTyped, CallSound
<1>2. c.p \in Nat /\ c.data \in RowList /\ c.at \in Nat \ {0} /\ c.p = c.at - 1 /\ c.list.rows = listing.rows
  BY <1>1, CallFields DEF CallStill, ByPlace, BerryTables
<1>3. PICK p \in Nat, data \in RowList, old \in RowList : p = c.p /\ data = c.data /\ old = listing.rows
  BY <1>1, <1>2
<1>4. PICK from, s : from = p * ITEMS_PER_PAGE /\ s = Splice(old, p, data)
  OBVIOUS
<1>5. /\ s \in RowList
      /\ \A j \in DOMAIN s :
           \/ j \in DOMAIN old /\ s[j] = old[j] /\ (j <= from \/ j > from + Len(data))
           \/ \E i \in DOMAIN data : s[j] = data[i]
  BY <1>4, SpliceOf DEF SplicedSays
<1>6. Loaded(c) = IF p = 0 THEN data ELSE s
  <2>1. table \in AllTables /\ table \in SplicedFromClick
    BY DEF AllTables, SplicedFromClick
  <2>. QED BY <1>2, <1>3, <1>4, <2>1, LoadedForms
<1>7. from \in Nat /\ ITEMS_PER_PAGE \in Nat /\ Len(data) \in Nat /\ Cardinality(There) \in Nat
  BY <1>4, ThereIsFinite DEF TablesAssumption, RowList
<1>8. PICK k \in DOMAIN old : old[k].id = c.row.id /\ from < k /\ k <= from + ITEMS_PER_PAGE
  <2>1. PICK k \in DOMAIN listing.rows : listing.rows[k].id = c.row.id /\ OnItsPage(c, k)
    BY <1>1 DEF CallStill
  <2>2. c.at * ITEMS_PER_PAGE = (c.at - 1) * ITEMS_PER_PAGE + ITEMS_PER_PAGE
    BY <1>2 DEF TablesAssumption
  <2>. QED BY <1>2, <1>3, <1>4, <2>1, <2>2 DEF OnItsPage
<1>9. Len(data) = ITEMS_PER_PAGE \/ from + Len(data) >= Cardinality(There)
  BY <1>1, <1>2, <1>3, <1>4 DEF CallStill
<1>10. \A x, y \in DOMAIN old : old[x].id = old[y].id => x = y
  BY <1>3 DEF CalmParts, CalmRows, Doubled
<1>11. k \in Nat
  BY DEF RowList
<1>12. ASSUME NEW j \in DOMAIN old, j <= from \/ j > from + Len(data), old[j].id = c.row.id
       PROVE  j > Cardinality(There)
  <2>1. j = k
    BY <1>8, <1>10, <1>12
  <2>2. k > from + Len(data)
    BY <1>7, <1>8, <1>11, <1>12, <2>1
  <2>3. from + Len(data) >= Cardinality(There)
    BY <1>7, <1>8, <1>9, <1>11, <2>2
  <2>. QED BY <1>7, <1>11, <2>1, <2>2, <2>3
<1>13. PICK rows : rows = Loaded(c)
  OBVIOUS
<1>14. rows = IF p = 0 THEN data ELSE s
  BY <1>6, <1>13
<1>15. /\ rows \in RowList
       /\ \A j \in DOMAIN rows :
            \/ \E i \in DOMAIN data : rows[j] = data[i]
            \/ /\ j \in DOMAIN old /\ rows[j] = old[j]
               /\ old[j].id = c.row.id => j > Cardinality(There)
  BY <1>5, <1>12, <1>14
<1>. QED BY <1>3, <1>13, <1>15

\* A turned switch, and one that comes to the page.
LEMMA TurnedOrMounted ==
  ASSUME TablesAssumption, TypesInv, NEW turned \in [Items -> Switch], NEW rows \in RowList, NEW k \in Nat \ {0},
         \A i \in Items : (turned[i] = NoSwitch) <=> (switches[i] = NoSwitch), NEW i \in Items,
         NEW now, now = IF i \in OnPage(rows, k) /\ turned[i] # NoSwitch THEN turned[i]
                        ELSE Remounted(rows, k)[i],
         now # NoSwitch
  PROVE  \/ turned[i] # NoSwitch /\ now = turned[i]
         \/ <<i, now[1]>> \in Pairs(rows)
<1>1. switches \in [Items -> Switch] /\ stamp \in Nat
  BY DEF TypesInv, ScreenTyped
<1>2. i \notin OnPage(rows, k) => Remounted(rows, k)[i] = NoSwitch
  BY DEF Remounted
<1>3. Remounted(rows, k)[i] # NoSwitch =>
        \/ switches[i] # NoSwitch /\ Remounted(rows, k)[i] = switches[i]
        \/ <<i, Remounted(rows, k)[i][1]>> \in Pairs(rows)
  BY <1>1, SwitchesMounted
<1>4. CASE i \in OnPage(rows, k) /\ turned[i] # NoSwitch
  BY <1>4
<1>5. CASE i \in OnPage(rows, k) /\ turned[i] = NoSwitch
  <2>1. switches[i] = NoSwitch /\ now = Remounted(rows, k)[i]
    BY <1>5
  <2>. QED BY <1>3, <2>1
<1>6. CASE i \notin OnPage(rows, k)
  BY <1>2, <1>6
<1>. QED BY <1>4, <1>5, <1>6

LEMMA CalmSwitched ==
  ASSUME TablesAssumption, TypesInv, CalmParts, table \notin Forgetful, NEW c \in calls,
         LoadThenSwitch(c), ~disturbed'
  PROVE  CalmParts'
<1>1. /\ Here(c) /\ UNCHANGED <<table, items>> /\ c.kind = "reload" /\ c \in Call
      /\ table \in BerryTables /\ table \in Managed /\ c.row \in Row /\ CheckDoubled /\ page \in Nat \ {0}
  BY HerePlain DEF LoadThenSwitch, CallSound, TypesInv, ScreenTyped
<1>2. calls = {c} /\ CallStill(c) /\ CallCalm(c) /\ OfBerryUsers
  BY <1>1, CalmAlone, OnlyUsers DEF CalmParts
<1>3. c.stage = "back" /\ calls' = {}
  BY <1>1, <1>2, HerePlain DEF CallCalm, LoadThenSwitch
<1>4. PICK rows : rows = Loaded(c)
  OBVIOUS
<1>5. PICK turned : turned = Switched([c EXCEPT !.act = c.flip])
  OBVIOUS
<1>6. /\ listing'.rows = rows
      /\ switches' = [i \in Items |->
                   IF i \in OnPage(rows, page) /\ turned[i] # NoSwitch THEN turned[i]
                   ELSE Remounted(rows, page)[i]]
  BY <1>3, <1>4, <1>5 DEF LoadThenSwitch
<1>7. /\ turned \in [Items -> Switch]
      /\ \A i \in Items : (turned[i] = NoSwitch) <=> (switches[i] = NoSwitch)
      /\ \A i \in Items : switches[i] # NoSwitch =>
              \/ turned[i] = switches[i]
              \/ i = c.row.id /\ c.flip \in {"enable", "disable"} /\ turned[i][1] = Asked[c.flip]
      /\ \A i \in Items : /\ switches[i] # NoSwitch /\ switches[i][2] = c.row.born
                          /\ i = c.row.id /\ c.flip \in {"enable", "disable"}
                          => turned[i][1] = Asked[c.flip]
  BY <1>5, SwitchesTurned
<1>8. /\ rows \in RowList
      /\ \A j \in DOMAIN rows :
           \/ \E i \in DOMAIN c.data : rows[j] = c.data[i]
           \/ /\ j \in DOMAIN listing.rows /\ rows[j] = listing.rows[j]
              /\ listing.rows[j].id = c.row.id => j > Cardinality(There)
  BY <1>1, <1>3, <1>4, ReloadedPlace
<1>9. /\ Pairs(c.data) \subseteq TruePairs /\ \A i \in DOMAIN c.data : c.data[i].id \in There
      /\ Toggling(c) => items[c.row.id] \in {"gone", Turned(c)}
  BY <1>1, <1>2 DEF CallCalm
<1>10. /\ PendingItems = IF c.flip \in {"enable", "disable"} THEN {c.row.id} ELSE {}
       /\ Leaving = IF c.flip = "delete" THEN {c.row.id} ELSE {}
       /\ Toggling(c) <=> c.flip \in {"enable", "disable"}
       /\ Turned(c) = Asked[c.flip]
  BY <1>1, <1>2 DEF PendingItems, Leaving, Toggling, Turned
<1>11. GoneLast(listing.rows, Leaving) /\ ~Doubled(listing.rows) /\ listing.rows \in RowList
  BY <1>2, ListingFields DEF CalmParts, CalmUsers, CalmRows, TypesInv
<1>12. ASSUME NEW j \in DOMAIN rows PROVE <<rows[j].id, rows[j].status>> \in TruePairs
  <2>1. CASE \E i \in DOMAIN c.data : rows[j] = c.data[i]
    BY <1>9, <2>1 DEF Pairs
  <2>2. CASE /\ j \in DOMAIN listing.rows /\ rows[j] = listing.rows[j]
             /\ listing.rows[j].id = c.row.id => j > Cardinality(There)
    <3>1. <<rows[j].id, rows[j].status>> \in TruePairs \/ rows[j].id \in PendingItems
      BY <2>2 DEF CalmParts, CalmRows
    <3>2. ASSUME rows[j].id \in PendingItems PROVE <<rows[j].id, rows[j].status>> \in TruePairs
      <4>1. rows[j].id = c.row.id /\ Leaving = {}
        BY <1>10, <3>2
      <4>2. rows[j].id \notin There
        BY <1>11, <2>2, <4>1, NotCrowded
      <4>3. rows[j].id \in Items /\ rows[j].status \in Statuses
        BY <1>8, RowsAreReal DEF Row
      <4>. QED BY <4>2, <4>3 DEF There, TruePairs
    <3>. QED BY <3>1, <3>2
  <2>. QED BY <1>8, <2>1, <2>2
<1>13. GoneLast(rows, {})
  <2>. SUFFICES ASSUME NEW j \in DOMAIN rows, j <= Cardinality(There) PROVE rows[j].id \in There
    BY DEF GoneLast
  <2>1. CASE \E i \in DOMAIN c.data : rows[j] = c.data[i]
    BY <1>9, <2>1
  <2>2. CASE /\ j \in DOMAIN listing.rows /\ rows[j] = listing.rows[j]
             /\ listing.rows[j].id = c.row.id => j > Cardinality(There)
    <3>1. j \in Nat /\ Cardinality(There) \in Nat
      BY <1>8, ThereIsFinite DEF RowList
    <3>2. listing.rows[j].id # c.row.id
      BY <2>2, <3>1
    <3>. QED BY <1>10, <1>11, <2>2, <3>2 DEF GoneLast
  <2>. QED BY <1>8, <2>1, <2>2
<1>14. ASSUME NEW i \in Items, switches'[i] # NoSwitch PROVE <<i, switches'[i][1]>> \in TruePairs
  <2>1. PICK now : now = switches'[i]
    OBVIOUS
  <2>2. now = IF i \in OnPage(rows, page) /\ turned[i] # NoSwitch THEN turned[i]
              ELSE Remounted(rows, page)[i]
    BY <1>6, <2>1
  <2>3. \/ turned[i] # NoSwitch /\ now = turned[i]
        \/ <<i, now[1]>> \in Pairs(rows)
    BY <1>1, <1>7, <1>8, <1>14, <2>1, <2>2, TurnedOrMounted
  <2>4. CASE <<i, now[1]>> \in Pairs(rows)
    <3>1. PICK j \in DOMAIN rows : <<i, now[1]>> = <<rows[j].id, rows[j].status>>
      BY <2>4 DEF Pairs
    <3>. QED BY <1>12, <2>1, <3>1
  <2>5. CASE turned[i] # NoSwitch /\ now = turned[i]
    <3>1. switches[i] # NoSwitch
      BY <1>7, <2>5
    <3>2. ASSUME i = c.row.id, c.flip \in {"enable", "disable"} PROVE <<i, turned[i][1]>> \in TruePairs
      <4>1. switches[i][2] = c.row.born
        BY <1>1, <1>2, <3>2 DEF CallStill
      <4>2. turned[i][1] = Asked[c.flip]
        BY <1>7, <3>1, <3>2, <4>1
      <4>3. Asked[c.flip] \in Statuses
        BY <3>2 DEF Asked, Statuses
      <4>. QED BY <1>9, <1>10, <3>2, <4>2, <4>3 DEF TruePairs
    <3>3. ASSUME ~(i = c.row.id /\ c.flip \in {"enable", "disable"}) PROVE <<i, turned[i][1]>> \in TruePairs
      <4>1. turned[i] = switches[i] /\ i \notin PendingItems
        BY <1>7, <1>10, <3>1, <3>3
      <4>. QED BY <1>1, <3>1, <4>1 DEF CalmParts, CalmRows
    <3>. QED BY <2>1, <2>5, <3>2, <3>3
  <2>. QED BY <2>3, <2>4, <2>5
<1>15. TruePairs' = TruePairs
  BY <1>1, CalmStays
<1>16. CalmRows'
  <2>1. ~Doubled(rows)
    BY <1>1, <1>6, DoubledSeen
  <2>2. ~Doubled(listing.rows)'
    BY <1>6, <2>1 DEF Doubled
  <2>. QED BY <1>6, <1>12, <1>14, <1>15, <2>2 DEF CalmRows
<1>17. CalmUsers'
  <2>1. GoneLast(rows, {})'
    BY <1>1, <1>13, CalmStays
  <2>2. GoneLast(listing.rows, {})'
    BY <1>6, <2>1 DEF GoneLast
  <2>. QED BY <1>3, <2>2, NoneUnderWay
<1>. QED BY <1>3, <1>16, <1>17, NoneUnderWay DEF CalmParts

----------------------------------------------------------------------------
\* Steps

LEMMA CalmStep ==
  ASSUME TablesAssumption, TypesInv, TrueInv, [TablesNext]_tableVars
  PROVE  TrueInv'
<1>1. CASE UNCHANGED tableVars
  <2>1. UNCHANGED <<table, items, listing, switches, calls, disturbed>>
    BY <1>1 DEF tableVars, server, screen
  <2>2. TruePairs' = TruePairs /\ (\A c : CallCalm(c)' <=> CallCalm(c))
        /\ \A rows, S : GoneLast(rows, S)' <=> GoneLast(rows, S)
    BY <2>1, CalmStays
  <2>3. PendingItems' = PendingItems /\ Leaving' = Leaving /\ (Doubled(listing.rows)' <=> Doubled(listing.rows))
    BY <2>1 DEF PendingItems, Leaving, Doubled, Toggling
  <2>4. CalmRows' <=> CalmRows
    BY <2>1, <2>2, <2>3 DEF CalmRows
  <2>5. \A c : CallStill(c)' <=> CallStill(c)
    <3>1. There' = There
      BY <2>1, CalmStays
    <3>. QED BY <2>1, <3>1 DEF CallStill, ByPlace, Place, OnItsPage
  <2>6. CalmCalls' <=> CalmCalls
    BY <2>1, <2>2, <2>5 DEF CalmCalls
  <2>7. CalmUsers' <=> CalmUsers
    <3>1. GoneLast(listing.rows, Leaving)' <=> GoneLast(listing.rows, Leaving)
      BY <2>1, <2>2, <2>3 DEF GoneLast
    <3>. QED BY <2>1, <2>2, <3>1 DEF CalmUsers, OfBerryUsers
  <2>. QED BY <2>1, <2>4, <2>6, <2>7 DEF TrueInv, CalmParts
<1>. SUFFICES ASSUME TablesNext, ~disturbed', table' \notin Forgetful PROVE CalmParts'
  BY <1>1 DEF TrueInv
<1>2. CASE Clicks
  <2>1. PICK S : ClickSays(S)
    BY <1>2, ClicksSay
  <2>2. calls = {} /\ ~disturbed /\ table' = table
    BY <2>1 DEF ClickSays, Click
  <2>. QED BY <2>1, <2>2, CalmClicks DEF TrueInv
<1>3. CASE SortRows
  <2>1. calls = {} /\ ~disturbed /\ table' = table
    BY <1>3 DEF SortRows, Click
  <2>. QED BY <1>3, <2>1, CalmSorted DEF TrueInv
<1>4. ASSUME NEW c \in calls, Queried(c) \/ Done(c) \/ Refused(c) \/ Purged(c) PROVE CalmParts'
  <2>1. disturbed' = disturbed /\ table' = table
    BY <1>4 DEF Queried, Done, Refused, Purged, ServerStep, Undisturbed
  <2>2. CalmParts
    BY <2>1 DEF TrueInv
  <2>. QED BY <1>4, <2>2, CalmQueried, CalmDone, CalmRefused, CalmPurged
<1>5. ASSUME NEW c \in calls, LoadAnswered(c) \/ LoadThenSwitch(c) PROVE CalmParts'
  <2>1. table' = table /\ CheckDoubled
    BY <1>5 DEF LoadAnswered, LoadThenSwitch, Here
  <2>2. ~disturbed
    BY <2>1 DEF CheckDoubled
  <2>3. CalmParts /\ table \notin Forgetful
    BY <2>1, <2>2 DEF TrueInv
  <2>. QED BY <1>5, <2>3, CalmLoaded, CalmSwitched
<1>6. ASSUME NEW c \in calls,
             SearchAnswered(c) \/ ManageAnswered(c) \/ ManageRefused(c) \/ ManageAnsweredInBerry(c)
             \/ PurgeAnswered(c)
      PROVE  CalmParts'
  <2>1. disturbed' = disturbed /\ table' = table
    BY <1>6 DEF SearchAnswered, ManageAnswered, ManageRefused, ManageAnsweredInBerry, PurgeAnswered, Here
  <2>2. CalmParts /\ table \notin Forgetful
    BY <2>1 DEF TrueInv
  <2>. QED BY <1>6, <2>2, CalmSearched, CalmManaged, CalmManageRefused, CalmManagedInBerry, CalmPurgeAnswered
<1>7. \A c \in calls : ~Failed(c) /\ ~Lost(c)
  BY DEF Failed, Lost, Trouble
<1>8. \A i \in Items : ~OutsideChange(i)
  BY DEF OutsideChange, Trouble
<1>. QED BY <1>2, <1>3, <1>4, <1>5, <1>6, <1>7, <1>8 DEF TablesNext, Clicks

LEMMA CalmAtFirst ==
  ASSUME TablesAssumption, TablesInit
  PROVE  TrueInv
<1>1. /\ listing = NoList /\ switches = [i \in Items |-> NoSwitch]
  BY TablesInitSays
<1>2. Pairs(listing.rows) = {} /\ Pairs(NoList.rows) = {} /\ DOMAIN listing.rows = {} /\ DOMAIN NoList.rows = {}
  BY <1>1 DEF Pairs, NoList
<1>. DEFINE m == IF table = "berry logs" THEN 2 ELSE 1
<1>3. m \in {1, 2}
  OBVIOUS
<1>4. calls = {[TableRequest(n, "load", NoList, 1) EXCEPT !.p = 0] : n \in 1..m}
  BY TablesInitSays
<1>. HIDE DEF m
<1>5. NoList \in ListType /\ 1 \in Nat \ {0} /\ 0 \in Nat
  BY DEF NoList, ListType, RowList
<1>6. \A n \in 1..m : n \in 1..MaxUnderWay
  <2>1. MaxUnderWay \in Int /\ MaxUnderWay >= 2
    BY DEF TablesAssumption
  <2>. QED BY <1>3, <2>1
<1>7. ASSUME NEW c \in calls PROVE SentLoad(c, c.n, NoList)
  <2>1. PICK n \in 1..m : c = [TableRequest(n, "load", NoList, 1) EXCEPT !.p = 0]
    BY <1>4
  <2>2. n \in 1..MaxUnderWay
    BY <1>6
  <2>3. SentLoad(c, n, NoList)
    BY <1>5, <2>1, <2>2, OthersTyped
  <2>. QED BY <2>3 DEF SentLoad
<1>8. ASSUME NEW c \in calls PROVE c.kind = "load" /\ CallCalm(c) /\ CallStill(c) /\ c.list = NoList
  <2>1. c.kind = "load" /\ c.list = NoList /\ c.stage = "sent" /\ c.data = <<>>
    BY <1>7 DEF SentLoad
  <2>2. Pairs(<<>>) = {} /\ DOMAIN <<>> = {}
    BY DEF Pairs
  <2>. QED BY <1>2, <2>1, <2>2 DEF CallCalm, CallStill, Toggling
<1>9. CalmRows
  BY <1>1, <1>2 DEF CalmRows, Doubled
<1>10. CalmCalls
  BY <1>8 DEF CalmCalls
<1>11. CalmUsers
  BY <1>2, <1>8 DEF CalmUsers, GoneLast
<1>. QED BY <1>9, <1>10, <1>11 DEF TrueInv, CalmParts

LEMMA CalmIsTrue ==
  ASSUME TablesAssumption, TypesInv, TrueInv
  PROVE  TrueWhenUndisturbed
<1>. SUFFICES ASSUME calls = {}, ~disturbed, table \notin Forgetful, NEW r \in OnScreen, items[r.id] # "gone"
              PROVE  ShownStatus(r) = items[r.id]
  BY DEF TrueWhenUndisturbed
<1>1. CalmRows /\ PendingItems = {}
  BY DEF TrueInv, CalmParts, PendingItems
<1>2. /\ Pairs(listing.rows) \subseteq TruePairs
      /\ table \in BerryTables =>
              \A i \in Items : switches[i] # NoSwitch => <<i, switches[i][1]>> \in TruePairs
  BY <1>1, AllTrue
<1>3. /\ r \in Row /\ \E k \in DOMAIN listing.rows : r = listing.rows[k]
      /\ table \in BerryTables => switches[r.id] # NoSwitch
  BY ScreenRows
<1>4. <<r.id, ShownStatus(r)>> \in TruePairs
  <2>1. CASE table \in BerryTables
    BY <1>2, <1>3, <2>1 DEF ShownStatus, Row
  <2>2. CASE table \notin BerryTables
    <3>1. <<r.id, r.status>> \in Pairs(listing.rows)
      BY <1>3 DEF Pairs
    <3>. QED BY <1>2, <2>2, <3>1 DEF ShownStatus
  <2>. QED BY <2>1, <2>2
<1>. QED BY <1>4 DEF TruePairs

----------------------------------------------------------------------------
(* The theorems. *)

TablesInv == TypesInv /\ RealInv /\ TrueInv /\ TableSpinner

LEMMA TablesInitInv ==
  ASSUME TablesAssumption, TablesInit
  PROVE  TablesInv
<1>1. TypesInv /\ RealInv /\ TrueInv
  BY TablesInitTyped, RealAtFirst, CalmAtFirst
<1>2. searching = FALSE /\ \E c \in calls : "table" \in LoaderOf(c)
  <2>. DEFINE n == IF table = "berry logs" THEN 2 ELSE 1
              r == [TableRequest(1, "load", NoList, 1) EXCEPT !.p = 0]
  <2>1. /\ searching = FALSE
        /\ calls = {[TableRequest(m, "load", NoList, 1) EXCEPT !.p = 0] : m \in 1..n}
    BY TablesInitSays
  <2>2. 1 \in 1..n
    OBVIOUS
  <2>3. r.kind = "load" /\ r.reset = FALSE
    BY DEF TableRequest
  <2>4. r \in calls
    BY <2>1, <2>2
  <2>. HIDE DEF r
  <2>5. "table" \in LoaderOf(r)
    BY <2>3 DEF LoaderOf
  <2>. QED BY <2>1, <2>4, <2>5
<1>3. TableSpinner
  BY <1>2 DEF TableSpinner
<1>. QED BY <1>1, <1>3 DEF TablesInv

LEMMA TablesNextInv ==
  ASSUME TablesAssumption, TablesInv, [TablesNext]_tableVars
  PROVE  TablesInv'
<1>1. TypesInv'
  <2>1. CASE TablesNext
    BY <2>1, TablesStepTyped DEF TablesInv
  <2>2. CASE UNCHANGED tableVars
    <3>1. /\ table' = table /\ items' = items /\ hadStatus' = hadStatus /\ listing' = listing
          /\ page' = page /\ rowCount' = rowCount /\ switches' = switches /\ orderBy' = orderBy
          /\ tableLoading' = tableLoading /\ searching' = searching /\ calls' = calls
          /\ stamp' = stamp /\ displaced' = displaced /\ disturbed' = disturbed
          /\ events' = events
      BY <2>2 DEF tableVars, server, screen, loaders
    <3>2. ScreenTyped'
      BY <3>1 DEF TablesInv, TypesInv, ScreenTyped, OnPage
    <3>3. CallsTyped' /\ PlainTyped'
      BY <3>1 DEF TablesInv, TypesInv, CallsTyped, PlainTyped, CallSound
    <3>. QED BY <3>2, <3>3 DEF TypesInv
  <2>. QED BY <2>1, <2>2
<1>2. RealInv' /\ TrueInv' /\ TableSpinner'
  BY RealStep, CalmStep, SpinsOn DEF TablesInv
<1>. QED BY <1>1, <1>2 DEF TablesInv

THEOREM TablesInvariance == TablesSpec => []TablesInv
<1>1. TablesInit => TablesInv
  BY TablesInitInv, TablesAssumption
<1>2. TablesInv /\ [TablesNext]_tableVars => TablesInv'
  BY TablesNextInv, TablesAssumption
<1>. QED BY <1>1, <1>2, PTL DEF TablesSpec

LEMMA TablesInvSays ==
  ASSUME TablesInv
  PROVE  TablesTypeOK /\ TablesAreTrue
BY TablesAssumption, TypesGiveTypeOK, RealMarks, CalmIsTrue DEF TablesInv, TablesAreTrue

\* Every variable of the tables keeps its type, no row of berry is on the screen without
\* its switch, and no two requests under way are one.
THEOREM TablesAreTyped == TablesSpec => []TablesTypeOK
BY TablesInvSays, TablesInvariance, PTL

\* For every table, any number of items, of requests under way and of answers that are late
\* or overtake each other: no row shows a status that its item never had, one
\* administrator who waits for the answers sees what is so, and a loader that turns waits
\* for a request (the sixteen tables, their loaders and their manage functions).
THEOREM TablesStayTrue == TablesSpec => []TablesAreTrue
BY TablesInvSays, TablesInvariance, PTL

=============================================================================
