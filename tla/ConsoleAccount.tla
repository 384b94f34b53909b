----------------------------- MODULE ConsoleAccount -----------------------------
(***************************************************************************)
(* A visitor of the web consoles and an account: signing in and out, the    *)
(* registration, the reset of a password by e-mail, the personal settings   *)
(* and the sign-in of another provider, in the three themes.                *)
(*                                                                         *)
(* The server keeps its session in a cookie, not in a store, so an answer   *)
(* that saves the session writes back the session of its request.  Beside   *)
(* the cookie the browser keeps the user in the local storage, and the tab  *)
(* keeps it in its state.  A call is under way from its click to its        *)
(* answer, that may come after its page was left; what the tab does with    *)
(* the answer is done then, save what would change a page that is gone.     *)
(*                                                                         *)
(* Two accounts, the second to be registered, and two addresses of one      *)
(* visitor, who types what the mails say.  Serial numbers stand for codes,  *)
(* tokens and passwords.  Left out: the WeChat bind, invitations, profile   *)
(* fields, the list of models and the transfer of a reward.                 *)
(***************************************************************************)
EXTENDS Integers, FiniteSets

CONSTANTS
    MaxSteps,        \* bound on the clicks that send something and on what fails
    COUNTDOWN        \* the seconds for which a button stays disabled, 30 in the code

ASSUME AccountAssumption == {MaxSteps, COUNTDOWN} \subseteq Nat \ {0}

Nobody == 0
Accounts == {1, 2}
Mails == {1, 2}
Pages == {"home", "login", "register", "forgotten", "reset", "personal", "panel", "oauth"}
Guarded == {"personal", "panel"}
Wrapped == {"login", "register", "forgotten", "reset", "oauth"}     \* AuthWrapper of berry
Lanes == {1, 2}
Vacant == [op |-> "none"]
SignedOut == [user |-> Nobody, state |-> 0, checked |-> FALSE]
NoLink == [mail |-> 0, token |-> 0]

Setups ==
    [theme : {"default", "air", "berry"}, email : BOOLEAN, turnstile : BOOLEAN, oauth : BOOLEAN]

VARIABLES
    setup,        \* the theme, and what the site switched on
    page,
    own,          \* the state of the page's component
    link,         \* the link of the mail that the reset page was opened with
    cookie,       \* the session
    stored,       \* the user of the local storage
    shown,        \* the user of the tab
    abroad,       \* the state that the provider was visited with
    server,
    calls,
    apart,        \* history: the cookie was changed by something else than signing in or out
    slow,         \* history: a countdown ended before an answer came
    steps

accountVars == <<setup, page, own, link, cookie, stored, shown, abroad, server, calls,
                 apart, slow, steps>>
user == <<cookie, stored, shown>>

Console == setup.theme
Steps == steps < MaxSteps /\ steps' = steps + 1
Fresh == [loading |-> FALSE, locked |-> FALSE, countdown |-> COUNTDOWN, solved |-> FALSE,
          done |-> FALSE, password |-> 0, lost |-> FALSE]

UnderWay == {l \in Lanes : calls[l] # Vacant}
Live == {l \in UnderWay : calls[l].live}
Put(cs, c) == [cs EXCEPT ![CHOOSE l \in Lanes : /\ cs[l] = Vacant
                                                 /\ \A k \in Lanes : cs[k] = Vacant => l <= k] = c]
\* those behind move up
Without(l) == [k \in Lanes |-> IF k < l THEN calls[k] ELSE IF k = 1 THEN calls[2] ELSE Vacant]
Left(cs) == [l \in Lanes |-> IF cs[l] = Vacant THEN Vacant ELSE [cs[l] EXCEPT !.live = FALSE]]
Ask(op, session) ==
    [op |-> op, who |-> Nobody, mail |-> 0, code |-> 0, n |-> 0, solved |-> FALSE,
     cookie |-> session, live |-> TRUE, at |-> "sent", saves |-> FALSE, saved |-> SignedOut,
     got |-> 0]
\* a code, a link, a password or a state is told from the others by its number
Numbered == {"send", "forgot", "renew", "password", "state"}
Send(c) == UnderWay # Lanes /\ calls' = Put(calls, [c EXCEPT !.n = IF c.op \in Numbered THEN steps' ELSE 0])

(***************************************************************************)
(* Going to a page                                                          *)
(***************************************************************************)
PrivateRoute(p, s) == IF p \in Guarded /\ s = Nobody THEN "login" ELSE p
AuthGuard(p, u) == IF p \in Guarded /\ u = Nobody THEN "login" ELSE p
\* not the code: a signed-in visitor stays on the page
StayForward(p, u) == p
AuthWrapper(p, u) == IF p \in Wrapped /\ u # Nobody THEN "panel" ELSE p
Landing(p, s, u) ==
    IF Console = "berry" THEN AuthWrapper(AuthGuard(p, u), u) ELSE PrivateRoute(p, s)

\* what a page asks for when it appears: getUserData, loadUser
Mount(p, cs) ==
    IF p = "personal" /\ Console # "default" THEN Put(cs, Ask("self", cookie')) ELSE cs

\* navigate
Arrive(p, cs) ==
    LET there == Landing(p, stored', shown') IN
    /\ page' = there
    /\ IF there = page THEN own' = own /\ calls' = cs
       ELSE own' = Fresh /\ calls' = Mount(there, Left(cs))
Stay(l, component) ==
    /\ own' = IF calls[l].live THEN component ELSE own
    /\ calls' = Without(l) /\ page' = page

(***************************************************************************)
(* What the pages offer                                                     *)
(***************************************************************************)
Providers == IF setup.oauth THEN {"wechat", "state"} ELSE {}
Mailing == IF setup.email THEN {"send"} ELSE {}
loginDefault == {"signin", "forgotten", "register"} \cup Providers
loginAir == {"signin", "register", "forgotten"} \cup Providers
loginBerry == {"signin", "forgotten"} \cup Providers
registerDefault == {"signup", "login"} \cup Mailing
registerAir == {"signup", "login"} \cup Mailing
registerBerry == {"signup"} \cup Mailing
forgottenDefault == {"forgot"}
forgottenAir == {"forgot"}
forgottenBerry == IF own.done THEN {} ELSE {"forgot"}
resetDefault == {"renew"}
resetAir == {"renew"}
resetBerry == IF link = NoLink \/ own.password # 0 THEN {} ELSE {"renew"}
Binding == Providers \ {"wechat"}
Unbound == IF server.github = shown THEN {} ELSE Binding      \* the bound one is disabled or gone
ownTokensDefault == {"token", "aff"}
emailDefault == {"send", "bind"}
deletionDefault == {"delete"}
personalDefault == ownTokensDefault \cup Binding \cup emailDefault \cup deletionDefault
informationAir == {"token"} \cup Unbound
emailAir == {"send", "bind"}
deletionAir == {"delete"}
passwordAir == {"password"}
personalAir == informationAir \cup emailAir \cup deletionAir \cup passwordAir
profileBerry == {"password"}
bindingBerry == Unbound
\* the button that would delete the account only closes its dialog
othersBerry == {"token"}
emailBerry == {"send", "bind"}
personalBerry == profileBerry \cup bindingBerry \cup othersBerry \cup emailBerry

Offered ==
    CASE page = "login" -> (CASE Console = "default" -> loginDefault
                              [] Console = "air" -> loginAir
                              [] OTHER -> loginBerry)
      [] page = "register" -> (CASE Console = "default" -> registerDefault
                                 [] Console = "air" -> registerAir
                                 [] OTHER -> registerBerry)
      [] page = "forgotten" -> (CASE Console = "default" -> forgottenDefault
                                  [] Console = "air" -> forgottenAir
                                  [] OTHER -> forgottenBerry)
      [] page = "reset" -> (CASE Console = "default" -> resetDefault
                              [] Console = "air" -> resetAir
                              [] OTHER -> resetBerry)
      [] page = "personal" -> (CASE Console = "default" -> personalDefault
                                 [] Console = "air" -> personalAir
                                 [] OTHER -> personalBerry)
      [] OTHER -> {}

\* the entries of the header, of every page or of the panel
Menu ==
    {"home", "login", "register", "personal", "panel"}
    \cup (IF shown = Nobody \/ (Console = "berry" /\ page \notin Guarded) THEN {}
          ELSE {"logout"})

Visit(p) ==
    /\ p # page /\ UnderWay # Lanes
    /\ UNCHANGED user
    /\ Arrive(p, calls)
    /\ link' = NoLink
    /\ UNCHANGED <<setup, abroad, server, apart, slow, steps>>

\* The tab is loaded anew: App, UserProvider.  What it waited for is forgotten.
Reload(p) ==
    LET there == Landing(p, stored', shown') IN
    /\ page' = there /\ own' = Fresh
    /\ calls' = Mount(there, [l \in Lanes |-> Vacant])

\* the visitor opens the link of a mail
OpenLink(m, n) ==
    /\ UnderWay = {} /\ <<"link", m, n>> \in server.mailed
    /\ UNCHANGED <<cookie, stored>> /\ shown' = stored
    /\ Reload("reset") /\ link' = [mail |-> m, token |-> n]
    /\ UNCHANGED <<setup, abroad, server, apart, slow, steps>>

\* the widget of Turnstile; the reset form of air never looks whether it is needed
TurnstileVerified ==
    /\ setup.turnstile /\ ~own.solved
    /\ \/ page \in {"register", "personal"}
       \/ page = "forgotten" /\ Console # "air"
       \/ page = "login" /\ Console = "air"
    /\ own' = [own EXCEPT !.solved = TRUE]
    /\ UNCHANGED <<setup, page, link, user, abroad, server, calls, apart, slow, steps>>
Solved == setup.turnstile => own.solved

\* A second passes.
Unlocked(component) == [component EXCEPT !.locked = FALSE, !.countdown = COUNTDOWN]
Countdown ==
    /\ own.locked
    /\ IF own.countdown = 1
       THEN own' = Unlocked(own) /\ slow' = (slow \/ Live # {})
       ELSE own' = [own EXCEPT !.countdown = @ - 1] /\ slow' = slow
    /\ UNCHANGED <<setup, page, link, user, abroad, server, calls, apart, steps>>

(***************************************************************************)
(* Clicks                                                                   *)
(***************************************************************************)
Click(op, c, component) ==
    /\ op \in Offered \cup Menu /\ Steps
    /\ Send([c EXCEPT !.solved = own.solved])
    /\ own' = component
    /\ UNCHANGED <<setup, page, link, user, abroad, server, apart, slow>>
Loading == [own EXCEPT !.loading = TRUE]

login(who) ==
    /\ Console = "air" => Solved
    /\ Console = "berry" => ~own.loading
    /\ Click("signin", [Ask("signin", cookie) EXCEPT !.who = who],
             IF Console = "berry" THEN Loading ELSE own)
wechatLogin(who) ==
    /\ Console = "air" => Solved
    /\ Click("wechat", [Ask("wechat", cookie) EXCEPT !.who = who], own)

\* the codes that a mail told
Known(m) == {n \in 1..MaxSteps : <<"code", m, n>> \in server.mailed}
register(m, n) ==
    /\ Solved /\ (Console = "berry" => ~own.loading)
    /\ IF setup.email THEN n \in Known(m) ELSE m = 0 /\ n = 0
    /\ Click("signup", [Ask("signup", cookie) EXCEPT !.mail = m, !.code = n], Loading)

SendEnabled ==
    IF page = "register" THEN Console = "berry" \/ ~own.loading
    ELSE ~own.locked /\ ~own.loading
\* the register pages of air and berry have no countdown
LockOfSend(component) == [component EXCEPT !.locked = @ \/ page = "personal" \/ Console = "default"]
sendVerificationCode(m) ==
    /\ SendEnabled /\ Solved
    /\ Console = "berry" /\ page = "personal" => own.solved
    /\ Click("send", [Ask("send", cookie) EXCEPT !.mail = m],
             IF Console = "berry" /\ page = "register" THEN own ELSE LockOfSend(Loading))

\* not the code: the countdown of the button locks nothing
ForgotAnytime == Console = "berry" => ~own.loading
ForgotEnabled == ~own.locked /\ (Console = "berry" => ~own.loading)
PasswordResetForm(m) ==
    /\ ForgotEnabled /\ (Console # "air" => Solved)
    /\ Click("forgot", [Ask("forgot", cookie) EXCEPT !.mail = m],
             [Loading EXCEPT !.locked = TRUE])

\* A click that comes to nothing, for want of an address or of Turnstile, locks these all the same.
SendNothing ==
    /\ \/ page = "personal" /\ SendEnabled /\ (Console = "air" => ~Solved)
       \/ page = "forgotten" /\ "forgot" \in Offered /\ ForgotEnabled
          /\ (Console = "berry" => ~Solved)
    /\ own' = [own EXCEPT !.locked = TRUE]
    /\ UNCHANGED <<setup, page, link, user, abroad, server, calls, apart, slow, steps>>

ResetEnabled == Console = "berry" \/ ~own.locked
PasswordResetConfirm ==
    /\ page = "reset" /\ ResetEnabled /\ link # NoLink
    /\ Click("renew", [Ask("renew", cookie) EXCEPT !.mail = link.mail, !.code = link.token],
             IF Console = "berry" THEN own ELSE [Loading EXCEPT !.locked = TRUE])

bindEmail(m, n) ==
    /\ n \in Known(m) /\ (Console = "berry" => ~own.loading)
    /\ Click("bind", [Ask("bind", cookie) EXCEPT !.who = shown, !.mail = m, !.code = n],
             Loading)

\* the token and the invitation link: a call that shows what it got
generateAccessToken == Click("token", Ask("token", cookie), own)
getAffLink == Click("aff", Ask("token", cookie), own)
changePassword == Click("password", Ask("password", cookie), own)
deleteAccount == shown # Nobody /\ Click("delete", Ask("delete", cookie), own)
getOAuthState == Click("state", Ask("state", cookie), own)
logout == Click("logout", Ask("logout", cookie), own)

\* The provider sends the visitor back, in a tab that is loaded for it.
ComeBack ==
    /\ abroad # 0 /\ UnderWay = {}
    /\ UNCHANGED <<cookie, stored>> /\ shown' = stored
    /\ page' = Landing("oauth", stored, stored) /\ own' = Fresh
    /\ calls' = Put(calls, [Ask("oauth", cookie) EXCEPT !.code = abroad,
                                                        !.live = page' = "oauth"])
    /\ abroad' = 0 /\ link' = NoLink
    /\ UNCHANGED <<setup, server, apart, slow, steps>>

(***************************************************************************)
(* The server (external).  The cookie of an answer is the session of its    *)
(* request with what the handler changed in it.                             *)
(***************************************************************************)
Asked(l, ops) == calls[l] # Vacant /\ calls[l].op \in ops /\ calls[l].at = "sent"
Settle(l, at, got, saves, saved) ==
    calls' = [calls EXCEPT ![l] = [@ EXCEPT !.at = at, !.got = got, !.saves = saves,
                                            !.saved = saved, !.cookie = SignedOut]]
Tell(l, at, got) == Settle(l, at, got, FALSE, SignedOut)
ServerOnly == UNCHANGED <<setup, page, own, link, user, abroad, apart, slow, steps>>
Serving == ServerOnly /\ UNCHANGED server
Holders(m) == {a \in Accounts : server.address[a] = m}
IsEmailAlreadyTaken(m) == Cardinality(Holders(m)) = 1

Login(l) ==
    /\ Asked(l, {"signin", "wechat"})
    /\ LET c == calls[l] IN
       IF server.accounts[c.who] = "active"
       THEN Settle(l, "ok", c.who, TRUE, [c.cookie EXCEPT !.user = c.who])
       ELSE Tell(l, "no", Nobody)
    /\ Serving

\* TurnstileCheck: the session remembers that the visitor passed it
Passes(c) == setup.turnstile => c.solved \/ c.cookie.checked
Checked(l, at) ==
    LET c == calls[l] IN
    IF setup.turnstile /\ ~c.cookie.checked
    THEN Settle(l, at, Nobody, TRUE, [c.cookie EXCEPT !.checked = TRUE])
    ELSE Tell(l, at, Nobody)
TurnstileCheck(l) ==
    /\ Asked(l, {"send", "forgot", "signup"}) /\ ~Passes(calls[l])
    /\ Tell(l, "no", Nobody)
    /\ Serving

\* the mail may fail after the code was registered
SendEmailVerification(l) ==
    LET c == calls[l] IN
    /\ Asked(l, {"send"}) /\ Passes(c)
    /\ IF IsEmailAlreadyTaken(c.mail) THEN Checked(l, "no") /\ UNCHANGED server
       ELSE /\ Checked(l, "ok")
            /\ server' = [server EXCEPT !.codes[c.mail] = c.n,
                                        !.mailed = @ \cup {<<"code", c.mail, c.n>>}]
    /\ ServerOnly
SendPasswordResetEmail(l) ==
    LET c == calls[l] IN
    /\ Asked(l, {"forgot"}) /\ Passes(c)
    /\ IF IsEmailAlreadyTaken(c.mail)
       THEN /\ Checked(l, "ok")
            /\ server' = [server EXCEPT !.links[c.mail] = c.n,
                                        !.mailed = @ \cup {<<"link", c.mail, c.n>>}]
       ELSE Checked(l, "no") /\ UNCHANGED server
    /\ ServerOnly
MailFails(l) ==
    LET c == calls[l] IN
    /\ Asked(l, {"send", "forgot"}) /\ Passes(c) /\ Steps
    /\ IsEmailAlreadyTaken(c.mail) <=> c.op = "forgot"
    /\ Checked(l, "no")
    /\ server' = IF c.op = "send" THEN [server EXCEPT !.codes[c.mail] = c.n]
                 ELSE [server EXCEPT !.links[c.mail] = c.n]
    /\ UNCHANGED <<setup, page, own, link, user, abroad, apart, slow>>

Register(l) ==
    LET c == calls[l] IN
    /\ Asked(l, {"signup"}) /\ Passes(c)
    /\ IF server.accounts[2] = "none" /\ (setup.email => server.codes[c.mail] = c.code)
       THEN /\ Checked(l, "ok")
            /\ server' = [server EXCEPT !.accounts[2] = "active", !.address[2] = c.mail]
       ELSE Checked(l, "no") /\ UNCHANGED server
    /\ ServerOnly

\* The link is looked up, the password stored, and the link deleted: three steps that
\* nothing holds together, here two.
ResetPassword(l) ==
    LET c == calls[l] IN
    /\ \/ /\ Asked(l, {"renew"})
          /\ Tell(l, IF server.links[c.mail] = c.code THEN "verified" ELSE "no", Nobody)
          /\ UNCHANGED server
       \/ /\ c # Vacant /\ c.at = "verified"
          /\ Tell(l, "ok", c.n)
          /\ server' = [server EXCEPT
                !.password = [a \in Accounts |-> IF a \in Holders(c.mail) THEN c.n ELSE @[a]],
                !.links[c.mail] = 0]
    /\ ServerOnly

\* UserAuth.  The session of a deleted account would be cleared, but only after the
\* answer was written.
OwnCalls == {"self", "token", "password", "bind", "delete"}
Authorised(l) == calls[l].cookie.user # Nobody /\ server.accounts[calls[l].cookie.user] = "active"
UserAuth(l) ==
    /\ Asked(l, OwnCalls) /\ ~Authorised(l)
    /\ Tell(l, IF calls[l].cookie.user = Nobody THEN "gone" ELSE "no", Nobody)
    /\ Serving
UpdateSelf(l) ==
    /\ Asked(l, OwnCalls \ {"delete", "bind"}) /\ Authorised(l)
    /\ Tell(l, "ok", calls[l].cookie.user)
    /\ server' = IF calls[l].op = "password"
                 THEN [server EXCEPT !.password[calls[l].cookie.user] = calls[l].n] ELSE server
    /\ ServerOnly
DeleteSelf(l) ==
    /\ Asked(l, {"delete"}) /\ Authorised(l)
    /\ Tell(l, "ok", Nobody)
    /\ server' = [server EXCEPT !.accounts[calls[l].cookie.user] = "deleted"]
    /\ ServerOnly
EmailBind(l) ==
    LET c == calls[l] IN
    /\ Asked(l, {"bind"}) /\ Authorised(l)
    /\ IF server.codes[c.mail] = c.code
       THEN Tell(l, "ok", Nobody) /\ server' = [server EXCEPT !.address[c.cookie.user] = c.mail]
       ELSE Tell(l, "no", Nobody) /\ UNCHANGED server
    /\ ServerOnly

\* not the code: the session stays
LogoutInTheTab(l) == Asked(l, {"logout", "bye"}) /\ Tell(l, "ok", Nobody) /\ Serving
Logout(l) == Asked(l, {"logout", "bye"}) /\ Settle(l, "ok", Nobody, TRUE, SignedOut) /\ Serving
GenerateOAuthCode(l) ==
    /\ Asked(l, {"state"})
    /\ Settle(l, "ok", calls[l].n, TRUE, [calls[l].cookie EXCEPT !.state = calls[l].n])
    /\ Serving

\* a session that has a user binds, another signs in or registers
OAuthSignIn(l, a) ==
    IF server.accounts[a] = "deleted" THEN Tell(l, "no", Nobody)
    ELSE Settle(l, "ok", a, TRUE, [calls[l].cookie EXCEPT !.user = a])
GitHubOAuth(l) ==
    LET c == calls[l] IN
    /\ Asked(l, {"oauth"})
    /\ IF c.code # c.cookie.state THEN Tell(l, "error", Nobody) /\ UNCHANGED server
       ELSE IF c.cookie.user # Nobody
       THEN IF server.github # Nobody THEN Tell(l, "no", Nobody) /\ UNCHANGED server
            ELSE Tell(l, "ok", Nobody) /\ server' = [server EXCEPT !.github = c.cookie.user]
       ELSE IF server.github # Nobody THEN OAuthSignIn(l, server.github) /\ UNCHANGED server
       ELSE IF server.accounts[2] = "none"
       THEN OAuthSignIn(l, 2) /\ server' = [server EXCEPT !.accounts[2] = "active", !.github = 2]
       ELSE Tell(l, "no", Nobody) /\ UNCHANGED server
    /\ ServerOnly

Serve(l) ==
    \/ Login(l) \/ TurnstileCheck(l) \/ SendEmailVerification(l) \/ SendPasswordResetEmail(l)
    \/ MailFails(l) \/ Register(l) \/ ResetPassword(l) \/ UserAuth(l) \/ UpdateSelf(l)
    \/ DeleteSelf(l) \/ EmailBind(l) \/ Logout(l) \/ GenerateOAuthCode(l) \/ GitHubOAuth(l)

\* A rate limit answers with an error; the answer or the call itself is lost.
Fail(l) ==
    /\ Steps
    /\ \/ Asked(l, {calls[l].op}) /\ Tell(l, "error", Nobody)
       \/ calls[l] # Vacant /\ calls[l].at \in {"sent", "ok", "no"} /\ Tell(l, "lost", Nobody)
    /\ UNCHANGED <<setup, page, own, link, user, abroad, server, apart, slow>>

\* another tab signs out
Expire ==
    /\ cookie.user # Nobody /\ Steps
    /\ cookie' = SignedOut /\ apart' = TRUE
    /\ UNCHANGED <<setup, page, own, link, stored, shown, abroad, server, calls, slow>>

(***************************************************************************)
(* Answers                                                                  *)
(***************************************************************************)
Answered(l, ops, ats) == calls[l].op \in ops /\ calls[l].at \in ats
Rest == /\ link' = (IF page' = page THEN link ELSE NoLink)
        /\ UNCHANGED <<setup, server, slow, steps>>
Receive(l) == cookie' = IF calls[l].saves THEN calls[l].saved ELSE cookie
\* the session of another moment comes back with the answer
Drift(l) ==
    /\ Receive(l)
    /\ apart' = (apart \/ cookie'.user # cookie.user)
    /\ UNCHANGED <<stored, shown>>
SameUser == UNCHANGED <<user, apart>>
\* not the code: a refusal ends the handler
LeaveLoading == own
Idled == [own EXCEPT !.loading = FALSE]

Keep(u) == stored' = u /\ shown' = u

LoginAnswered(l) ==
    /\ \/ /\ Answered(l, {"signin", "wechat"}, {"ok"})
          /\ Receive(l) /\ Keep(calls[l].got) /\ apart' = apart
          /\ Arrive(IF calls[l].op = "signin" \/ Console = "berry" THEN "panel" ELSE "home",
                    Without(l))
       \/ /\ Answered(l, {"signin", "wechat"}, {"no"})
          /\ SameUser /\ Stay(l, Idled)
    /\ abroad' = abroad /\ Rest

RegisterAnswered(l) ==
    /\ Answered(l, {"signup"}, {"ok", "no"}) /\ Drift(l)
    /\ IF calls[l].at = "ok" THEN Arrive("login", Without(l)) ELSE Stay(l, Idled)
    /\ abroad' = abroad /\ Rest

Unlock(component) == Unlocked(component)
SendRefused == IF Console = "default" /\ page = "register" THEN Unlock(Idled) ELSE Idled
ForgotRefused == IF Console = "air" THEN Idled ELSE Unlock(Idled)
MailAnswered(l) ==
    /\ Answered(l, {"send", "forgot"}, {"ok", "no"}) /\ Drift(l)
    /\ Stay(l, IF calls[l].at = "ok" THEN [Idled EXCEPT !.done = calls[l].op = "forgot"]
               ELSE IF calls[l].op = "send" THEN SendRefused ELSE ForgotRefused)
    /\ abroad' = abroad /\ Rest

ResetAnswered(l) ==
    /\ Answered(l, {"renew"}, {"ok", "no"})
    /\ Stay(l, IF calls[l].at = "ok" THEN [Idled EXCEPT !.password = calls[l].got] ELSE Idled)
    /\ SameUser /\ abroad' = abroad /\ Rest

\* air shows the user that was shown at the click, with the new address
BindAnswered(l) ==
    /\ Answered(l, {"bind"}, {"ok", "no"})
    /\ shown' = IF Console = "air" /\ calls[l].at = "ok" THEN calls[l].who ELSE shown
    /\ Stay(l, Idled)
    /\ UNCHANGED <<cookie, stored, apart, abroad>> /\ Rest

\* air goes on to the invitation link
getUserData(l) ==
    /\ Answered(l, {"self"}, {"ok", "no"})
    /\ shown' = IF Console = "air" /\ calls[l].at = "ok" THEN calls[l].got ELSE shown
    /\ calls' = IF Console = "air"
                THEN Put(Without(l), [Ask("token", cookie) EXCEPT !.live = calls[l].live])
                ELSE Without(l)
    /\ UNCHANGED <<page, own, cookie, stored, apart, abroad>> /\ Rest
Told(l) ==
    /\ Answered(l, {"token", "password"}, {"ok", "no"})
    /\ Stay(l, own) /\ SameUser /\ abroad' = abroad /\ Rest

\* the account is gone, and the session is to follow
Deleted(l) ==
    /\ Answered(l, {"delete"}, {"ok", "no"})
    /\ calls' = IF calls[l].at = "ok"
                THEN Put(Without(l), [Ask("bye", cookie) EXCEPT !.live = calls[l].live])
                ELSE Without(l)
    /\ UNCHANGED <<page, own>> /\ SameUser /\ abroad' = abroad /\ Rest
\* an error of the server does not stop the consoles whose API swallows it
LoggedOut(l) ==
    /\ \/ Answered(l, {"logout", "bye"}, {"ok"}) /\ apart' = apart
       \/ Console # "air" /\ Answered(l, {"logout", "bye"}, {"error"}) /\ apart' = TRUE
    /\ Receive(l) /\ Keep(Nobody)
    /\ Arrive(IF Console = "berry" THEN "home" ELSE "login", Without(l))
    /\ abroad' = abroad /\ Rest

onGitHubOAuthClicked(l) ==
    /\ Answered(l, {"state"}, {"ok"})
    /\ Drift(l) /\ abroad' = calls[l].got
    /\ Stay(l, own) /\ Rest

\* air does nothing when its page was left, default and berry navigate all the same
sendCode(l) ==
    /\ Answered(l, {"oauth"}, {"ok", "no"})
    /\ Console = "air" => calls[l].live
    /\ Receive(l) /\ apart' = apart
    /\ IF calls[l].got = Nobody THEN UNCHANGED <<stored, shown>> ELSE Keep(calls[l].got)
    /\ Arrive(IF calls[l].at = "no" THEN (IF Console = "berry" THEN "login" ELSE "personal")
              ELSE IF Console = "berry" THEN "panel"
              ELSE IF calls[l].got = Nobody THEN "personal" ELSE "home", Without(l))
    /\ abroad' = abroad /\ Rest
sendCodeLeft(l) ==
    /\ Console = "air" /\ Answered(l, {"oauth"}, {"ok", "no"}) /\ ~calls[l].live
    /\ Drift(l) /\ Stay(l, own)
    /\ abroad' = abroad /\ Rest
githubLoginFailed(l) ==
    /\ Console = "berry" /\ Answered(l, {"oauth"}, {"error", "lost"})
    /\ SameUser /\ Arrive("login", Without(l))
    /\ abroad' = abroad /\ Rest

\* 401: the tab is loaded anew
Expired(l) ==
    /\ calls[l].op # "none" /\ calls[l].at = "gone"
    /\ IF Console = "berry" THEN Keep(Nobody) ELSE stored' = stored /\ shown' = stored
    /\ Reload("login")
    /\ UNCHANGED <<cookie, apart, abroad>> /\ Rest

\* The handler stops; those of berry that catch it go on.
Caught == {"signin", "signup", "send", "forgot"}
Thrown(l) ==
    LET op == calls[l].op IN
    /\ op # "none" /\ calls[l].at \in {"error", "lost"}
    /\ op = "oauth" => Console # "berry"
    /\ op \in {"logout", "bye"} => Console = "air" \/ calls[l].at = "lost"
    /\ Stay(l, [(IF Console = "berry" /\ op \in Caught THEN Idled ELSE own) EXCEPT !.lost = TRUE])
    /\ apart' = (apart \/ op \in {"delete", "bye"})
    /\ UNCHANGED <<user, abroad>> /\ Rest

Answer(l) ==
    \/ LoginAnswered(l) \/ RegisterAnswered(l) \/ MailAnswered(l) \/ ResetAnswered(l)
    \/ BindAnswered(l) \/ getUserData(l) \/ Told(l) \/ Deleted(l) \/ LoggedOut(l)
    \/ onGitHubOAuthClicked(l) \/ sendCode(l) \/ sendCodeLeft(l) \/ githubLoginFailed(l)
    \/ Expired(l) \/ Thrown(l)

AccountInit ==
    /\ setup \in {s \in Setups : s.email = s.turnstile /\ s.oauth = ~s.email}
    /\ LET u == IF setup.email THEN Nobody ELSE 1 IN
         /\ cookie = [SignedOut EXCEPT !.user = u] /\ stored = u /\ shown = u
    /\ page = "home" /\ own = Fresh /\ link = NoLink /\ abroad = 0
    /\ server = [accounts |-> [a \in Accounts |-> IF a = 1 THEN "active" ELSE "none"],
                 address |-> [a \in Accounts |-> IF a = 1 THEN 1 ELSE 0],
                 github |-> Nobody, password |-> [a \in Accounts |-> 0],
                 codes |-> [m \in Mails |-> 0], links |-> [m \in Mails |-> 0], mailed |-> {}]
    /\ calls = [l \in Lanes |-> Vacant]
    /\ apart = FALSE /\ slow = FALSE /\ steps = 0

\* a bound: where the provider signs people in, the visitor types no address of a mail
Addresses == IF setup.email THEN Mails ELSE {}

Sending ==
    \/ \E a \in Accounts : login(a) \/ wechatLogin(a)
    \/ \E m \in {0} \cup Mails, n \in 0..MaxSteps : register(m, n)
    \/ \E m \in Addresses : sendVerificationCode(m) \/ PasswordResetForm(m)
    \/ \E m \in Mails, n \in 1..MaxSteps : bindEmail(m, n)
    \/ PasswordResetConfirm
    \/ generateAccessToken \/ getAffLink \/ changePassword \/ deleteAccount
    \/ getOAuthState \/ logout
AccountNext ==
    \/ \E p \in (Offered \cup Menu) \cap Pages : Visit(p)
    \/ \E m \in Mails, n \in 1..MaxSteps : OpenLink(m, n)
    \/ steps < MaxSteps /\ Sending
    \/ TurnstileVerified \/ Countdown \/ SendNothing \/ ComeBack
    \/ \E l \in UnderWay : Serve(l) \/ Answer(l) \/ Fail(l)
    \/ Expire

AccountSpec == AccountInit /\ [][AccountNext]_accountVars

(***************************************************************************)
(* Properties                                                               *)
(***************************************************************************)
\* The state has its types, and a page that only a signed-in visitor may see, or in
\* berry only a signed-out one, shows for that visitor: PrivateRoute, AuthGuard, AuthWrapper.
AccountTypeOK ==
    /\ setup \in Setups /\ page \in Pages
    /\ own \in [loading : BOOLEAN, locked : BOOLEAN, countdown : 1..COUNTDOWN,
                solved : BOOLEAN, done : BOOLEAN, password : 0..MaxSteps, lost : BOOLEAN]
    /\ link \in [mail : {0} \cup Mails, token : 0..MaxSteps]
    /\ cookie \in [user : {Nobody} \cup Accounts, state : 0..MaxSteps, checked : BOOLEAN]
    /\ {stored, shown} \subseteq {Nobody} \cup Accounts
    /\ abroad \in 0..MaxSteps /\ steps \in 0..MaxSteps /\ {apart, slow} \subseteq BOOLEAN
    /\ page \in Guarded => (IF Console = "berry" THEN shown ELSE stored) # Nobody
    /\ Console = "berry" /\ page \in Wrapped => shown = Nobody

\* The browser and the tab agree on who is signed in, whatever order the answers come
\* in.  The tab of air alone may show the user of a late answer of the settings page.
TabIsBrowser == Console # "air" => stored = shown

\* Unless the session was changed by something else than signing in or out, the server
\* knows the user that the browser keeps, whatever order the answers come in.
StoredIsCookie == apart \/ stored = cookie.user

\* The server, the browser and the tab mean the same user (App.js, helpers, middleware/auth.go).
SignedInIsAgreed == TabIsBrowser /\ StoredIsCookie

\* A locked button is counted down and is free again, and each lock lasts its full time.
LockRunsOut == IF own.locked THEN own.countdown \in 1..COUNTDOWN ELSE own.countdown = COUNTDOWN

\* As long as answers come before the countdown ends, the pages that lock their button
\* have one mail under way.
OneMailAtATime ==
    ~slow /\ page \in {"forgotten", "personal"} =>
        Cardinality({l \in Live : calls[l].op \in {"send", "forgot"}}) <= 1

\* The password that the reset page shows is the one that every account of the address
\* has.  The page of berry does not lock its button, and a late answer outlives the lock.
ShownPasswordWorks ==
    Console # "berry" /\ ~slow /\ own.password # 0 =>
        \A a \in Holders(link.mail) : server.password[a] = own.password

\* One click is one mail until its countdown ends, and the password that the mail leads to
\* is the one of the account (sendVerificationCode, handleSubmit of PasswordResetForm).
MailsKeepTheirPromise == LockRunsOut /\ OneMailAtATime /\ ShownPasswordWorks

\* A spinner turns only while its call is under way, unless an answer was lost.
AccountSpinner ==
    own.loading => \/ own.lost
                   \/ \E l \in Live : calls[l].op \in {"signin", "signup", "send", "forgot",
                                                       "renew", "bind"}
=================================================================================
