---------------------------- MODULE WebForms_proofs ----------------------------
(***************************************************************************)
(* Theorems about the forms of the web consoles and about the account of a  *)
(* visitor, in the composition that the runs check. Each half has its own   *)
(* inductive invariant: AllInv of the account (the calls that each page has *)
(* made, what they brought and the server's accounts, codes and links), and *)
(* FormsInv of the forms (the loads and the saves under way, what they      *)
(* hold, and which record a form, a load and a save belong to).             *)
(***************************************************************************)
EXTENDS MCWebForms, FiniteSetTheorems, TLAPS

----------------------------------------------------------------------------
(* The calls of a visitor, and what the server keeps. *)

Users == {Nobody} \cup Accounts
Session == [user : Users, state : 0..MaxSteps, checked : BOOLEAN]
CallOps == {"signin", "wechat", "signup", "send", "forgot", "renew", "oauth", "state",
            "logout", "bye", "self", "token", "password", "bind", "delete"}
Ats == {"sent", "ok", "no", "error", "lost", "gone", "verified"}
Call == [op : CallOps, who : Users, mail : {0} \cup Mails, code : 0..MaxSteps,
         n : 0..MaxSteps, solved : BOOLEAN, cookie : Session, live : BOOLEAN, at : Ats,
         saves : BOOLEAN, saved : Session, got : (0..MaxSteps) \cup Accounts]

Server ==
  [accounts : [Accounts -> {"none", "active", "deleted"}], address : [Accounts -> {0} \cup Mails],
   github : Users, password : [Accounts -> 0..MaxSteps], codes : [Mails -> 0..MaxSteps],
   links : [Mails -> 0..MaxSteps], mailed : SUBSET ({"code", "link"} \X Mails \X (1..MaxSteps))]

\* An answer that signs in or out brings the session of the user that it tells, and in
\* berry, as long as the session is that of the tab, no call of a settings page is refused
\* for want of one.
Truthful(c) ==
  /\ c.op \in {"signin", "wechat"} =>
       c.who \in Accounts /\ (c.at = "ok" => c.saves /\ c.got \in Accounts /\ c.saved.user = c.got)
  /\ c.op \in {"logout", "bye"} /\ c.at = "ok" => c.saves /\ c.saved.user = Nobody
  /\ c.op = "oauth" /\ c.at \in {"ok", "no"} =>
       IF c.got = Nobody THEN ~c.saves ELSE c.saves /\ c.saved.user = c.got
  /\ c.op \in {"self", "oauth"} => c.got \in Users
  /\ c.op \in {"state", "renew"} => c.got \in 0..MaxSteps
  /\ c.op \in {"send", "forgot", "renew"} => c.n \in 1..MaxSteps /\ c.mail \in Mails
  /\ c.at = "verified" => c.op = "renew"
Accepted(c, console, ap) ==
  console = "berry" /\ ~ap =>
    c.at # "gone" /\ (c.op \in OwnCalls /\ c.at = "sent" => c.cookie.user # Nobody)
Good(c, console, ap) == c \in Call /\ Truthful(c) /\ Accepted(c, console, ap)

CallsGood ==
  /\ calls \in [Lanes -> Call \cup {Vacant}]
  /\ \A l \in Lanes : calls[l] = Vacant \/ Good(calls[l], Console, apart)
LinkGood == page = "reset" => link.mail \in Mails /\ link.token \in 1..MaxSteps

AccountInv == AccountTypeOK /\ server \in Server /\ CallsGood /\ LinkGood /\ SignedInIsAgreed

----------------------------------------------------------------------------
(* The pages and the buttons. *)

\* the pages that a call is made from
PagesOf(op) ==
  CASE op \in {"signin", "wechat"} -> {"login"}
    [] op = "signup" -> {"register"}
    [] op = "send" -> {"register", "personal"}
    [] op = "forgot" -> {"forgotten"}
    [] op = "renew" -> {"reset"}
    [] op = "oauth" -> {"oauth"}
    [] op = "state" -> {"login", "personal"}
    [] op = "logout" -> Pages
    [] OTHER -> {"personal"}

\* Every live call is of the page; the pages that lock their button have one mail under
\* way; a locked button is counted down; and a spinner has its call.
MailCall(c) == c # Vacant /\ c.live /\ c.op \in {"send", "forgot"}
BusyCall(c) ==
  c # Vacant /\ c.live /\ c.op \in {"signin", "signup", "send", "forgot", "renew", "bind"}
Fits(cs, p) == \A l \in Lanes : cs[l] # Vacant /\ cs[l].live => p \in PagesOf(cs[l].op)
OneMail(cs, p, o, late) ==
  ~late /\ p \in {"forgotten", "personal"} =>
    /\ \A l \in Lanes : MailCall(cs[l]) => o.locked
    /\ \A k, l \in Lanes : MailCall(cs[k]) /\ MailCall(cs[l]) => k = l
Runs(o) == IF o.locked THEN o.countdown \in 1..COUNTDOWN ELSE o.countdown = COUNTDOWN
Spins(cs, o) == o.loading => o.lost \/ \E l \in Lanes : BusyCall(cs[l])
Buttons(cs, p, o, late) ==
  Fits(cs, p) /\ OneMail(cs, p, o, late) /\ Runs(o) /\ Spins(cs, o)
ButtonInv == Buttons(calls, page, own, slow)

\* The reset of a password, on the pages that lock their button: one call at a time, made
\* with the link, and once it was answered the link is used and its password is that of
\* the accounts.
RenewCall(c) == c # Vacant /\ c.op = "renew"
Renewed(srv, lk, n) ==
  /\ \A a \in Accounts : srv.address[a] = lk.mail => srv.password[a] = n
  /\ srv.links[lk.mail] # lk.token
Resets(cs, o, lk, srv) ==
  /\ \A l \in Lanes : RenewCall(cs[l]) =>
       o.locked /\ cs[l].mail = lk.mail /\ cs[l].code = lk.token
  /\ \A k, l \in Lanes : RenewCall(cs[k]) /\ RenewCall(cs[l]) => k = l
  /\ \A l \in Lanes : RenewCall(cs[l]) /\ cs[l].at = "ok" => Renewed(srv, lk, cs[l].got)
  /\ o.password # 0 =>
       /\ Renewed(srv, lk, o.password)
       /\ \A l \in Lanes : RenewCall(cs[l]) => cs[l].at \notin {"ok", "verified"}
ResetInv ==
  /\ own.password # 0 => page = "reset"
  /\ page = "reset" => \A l \in Lanes : calls[l] # Vacant => calls[l].live
  /\ page = "reset" /\ Console # "berry" /\ ~slow => Resets(calls, own, link, server)

----------------------------------------------------------------------------
(* The lanes of the calls. *)

Lined == [Lanes -> Call \cup {Vacant}]
AllGood(cs, console, ap) ==
  cs \in Lined /\ \A l \in Lanes : cs[l] = Vacant \/ Good(cs[l], console, ap)

LEMMA VacantIsNoCall == ASSUME NEW c \in Call PROVE c # Vacant
<1>1. c.op \in CallOps
  BY DEF Call
<1>2. Vacant.op = "none"
  BY DEF Vacant
<1>. QED BY <1>1, <1>2 DEF CallOps

LEMMA LanesAre == Lanes = {1, 2}
BY DEF Lanes

LEMMA PutIs ==
  ASSUME NEW cs \in Lined, NEW c, NEW v \in Lanes, cs[v] = Vacant
  PROVE  \E k \in Lanes : cs[k] = Vacant /\ Put(cs, c) = [cs EXCEPT ![k] = c]
<1>. DEFINE First(l) == cs[l] = Vacant /\ \A k \in Lanes : cs[k] = Vacant => l <= k
<1>1. \E l \in Lanes : First(l)
  <2>1. CASE cs[1] = Vacant
    BY <2>1, LanesAre
  <2>2. CASE cs[1] # Vacant
    BY <2>2, LanesAre
  <2>. QED BY <2>1, <2>2
<1>2. PICK k \in Lanes : k = CHOOSE l \in Lanes : First(l)
  BY <1>1
<1>3. First(k)
  BY <1>1, <1>2
<1>. QED BY <1>2, <1>3 DEF Put

LEMMA WithoutIs ==
  ASSUME NEW l \in Lanes, CallsGood
  PROVE  /\ Without(l) \in Lined
         /\ Without(l)[1] = calls[3 - l] /\ Without(l)[2] = Vacant /\ 3 - l \in Lanes
BY LanesAre DEF Without, Lined, CallsGood

LEMMA GoodGrows ==
  ASSUME NEW c, NEW console, NEW ap \in BOOLEAN, NEW later \in BOOLEAN,
         Good(c, console, ap), ap => later
  PROVE  Good(c, console, later)
BY DEF Good, Accepted

LEMMA AllGrow ==
  ASSUME NEW cs, NEW console, NEW ap \in BOOLEAN, NEW later \in BOOLEAN,
         AllGood(cs, console, ap), ap => later
  PROVE  AllGood(cs, console, later)
BY GoodGrows DEF AllGood

LEMMA WithoutGood ==
  ASSUME NEW l \in Lanes, CallsGood
  PROVE  AllGood(Without(l), Console, apart)
<1>1. \A k \in Lanes : calls[k] = Vacant \/ Good(calls[k], Console, apart)
  BY DEF CallsGood
<1>. QED BY <1>1, WithoutIs, LanesAre DEF AllGood

LEMMA PutGood ==
  ASSUME NEW cs, NEW console, NEW ap, AllGood(cs, console, ap),
         NEW v \in Lanes, cs[v] = Vacant, NEW c, Good(c, console, ap)
  PROVE  AllGood(Put(cs, c), console, ap)
<1>1. PICK k \in Lanes : Put(cs, c) = [cs EXCEPT ![k] = c]
  BY PutIs DEF AllGood
<1>2. c \in Call
  BY DEF Good
<1>. QED BY <1>1, <1>2 DEF AllGood, Lined

LEMMA LeftGood ==
  ASSUME NEW cs, NEW console, NEW ap, AllGood(cs, console, ap)
  PROVE  AllGood(Left(cs), console, ap)
<1>1. ASSUME NEW c, Good(c, console, ap)
      PROVE  Good([c EXCEPT !.live = FALSE], console, ap)
  <2>. DEFINE d == [c EXCEPT !.live = FALSE]
  <2>1. d \in Call
    BY <1>1 DEF Good, Call
  <2>2. /\ d.op = c.op /\ d.at = c.at /\ d.saves = c.saves /\ d.saved = c.saved
        /\ d.got = c.got /\ d.who = c.who /\ d.n = c.n /\ d.mail = c.mail /\ d.cookie = c.cookie
    BY <1>1 DEF Good, Call
  <2>. HIDE DEF d
  <2>3. Truthful(c) /\ Accepted(c, console, ap)
    BY <1>1 DEF Good
  <2>4. Truthful(d)
    BY <2>2, <2>3 DEF Truthful
  <2>5. Accepted(d, console, ap)
    BY <2>2, <2>3 DEF Accepted
  <2>. QED BY <2>1, <2>4, <2>5 DEF Good, d
<1>2. ASSUME NEW l \in Lanes, cs[l] # Vacant
      PROVE  Good(Left(cs)[l], console, ap)
  BY <1>1, <1>2 DEF AllGood, Left
<1>3. ASSUME NEW l \in Lanes, cs[l] = Vacant
      PROVE  Left(cs)[l] = Vacant
  BY <1>3 DEF Left
<1>4. Left(cs) \in Lined
  <2>1. \A l \in Lanes : Left(cs)[l] \in Call \cup {Vacant}
    BY <1>2, <1>3 DEF Good
  <2>. QED BY <2>1 DEF Left, Lined
<1>. QED BY <1>2, <1>3, <1>4 DEF AllGood

----------------------------------------------------------------------------
(* What is asked. *)

Component ==
  [loading : BOOLEAN, locked : BOOLEAN, countdown : 1..COUNTDOWN, solved : BOOLEAN,
   done : BOOLEAN, password : 0..MaxSteps, lost : BOOLEAN]

LEMMA Typed1 ==
  ASSUME AccountInv
  PROVE  /\ setup \in Setups /\ page \in Pages /\ own \in Component /\ cookie \in Session
         /\ stored \in Users /\ shown \in Users /\ link \in [mail : {0} \cup Mails, token : 0..MaxSteps]
         /\ abroad \in 0..MaxSteps /\ steps \in 0..MaxSteps /\ server \in Server /\ CallsGood
         /\ Console \in {"default", "air", "berry"} /\ apart \in BOOLEAN /\ slow \in BOOLEAN
BY DEF AccountInv, AccountTypeOK, Component, Session, Users, Console, Setups

\* what was asked and has no answer yet
Fresh1(c, console, ap) ==
  /\ c \in Call /\ c.at = "sent" /\ c.got = 0
  /\ c.op \in {"signin", "wechat"} => c.who \in Accounts
  /\ c.op \in {"send", "forgot", "renew"} => c.n \in 1..MaxSteps /\ c.mail \in Mails
  /\ console = "berry" /\ ~ap /\ c.op \in OwnCalls => c.cookie.user # Nobody

LEMMA AskedIsGood ==
  ASSUME AccountAssumption, NEW c, NEW console, NEW ap, Fresh1(c, console, ap)
  PROVE  Good(c, console, ap)
<1>1. Truthful(c)
  BY DEF Fresh1, Truthful, AccountAssumption, Users, Nobody
<1>2. Accepted(c, console, ap)
  BY DEF Fresh1, Accepted
<1>. QED BY <1>1, <1>2 DEF Good, Fresh1

\* a new call with what was typed
Requested(c, op, session, w, m, k) ==
  /\ c \in Call /\ c.op = op /\ c.at = "sent" /\ c.got = 0 /\ c.cookie = session
  /\ c.live = TRUE /\ c.who = w /\ c.mail = m /\ c.code = k

LEMMA AskIs ==
  ASSUME AccountAssumption, NEW op \in CallOps, NEW session \in Session
  PROVE  Requested(Ask(op, session), op, session, Nobody, 0, 0)
<1>1. SignedOut \in Session
  BY DEF SignedOut, Session, Users, AccountAssumption, Nobody
<1>2. 0 \in 0..MaxSteps
  BY DEF AccountAssumption
<1>. QED BY <1>1, <1>2 DEF Ask, Requested, Call, Users, Ats, Nobody

LEMMA RequestIs ==
  ASSUME AccountAssumption, NEW op \in CallOps, NEW session \in Session,
         NEW w \in Users, NEW m \in {0} \cup Mails, NEW k \in 0..MaxSteps
  PROVE  /\ Requested([Ask(op, session) EXCEPT !.who = w], op, session, w, 0, 0)
         /\ Requested([Ask(op, session) EXCEPT !.mail = m], op, session, Nobody, m, 0)
         /\ Requested([Ask(op, session) EXCEPT !.mail = m, !.code = k], op, session, Nobody, m, k)
         /\ Requested([Ask(op, session) EXCEPT !.who = w, !.mail = m, !.code = k],
                      op, session, w, m, k)
<1>. DEFINE a == Ask(op, session)
<1>1. Requested(a, op, session, Nobody, 0, 0)
  BY AskIs
<1>. HIDE DEF a
<1>2. Requested([a EXCEPT !.who = w], op, session, w, 0, 0)
  BY <1>1 DEF Requested, Call
<1>3. Requested([a EXCEPT !.mail = m], op, session, Nobody, m, 0)
  BY <1>1 DEF Requested, Call
<1>4. Requested([a EXCEPT !.mail = m, !.code = k], op, session, Nobody, m, k)
  BY <1>1 DEF Requested, Call
<1>5. Requested([a EXCEPT !.who = w, !.mail = m, !.code = k], op, session, w, m, k)
  BY <1>1 DEF Requested, Call
<1>. QED BY <1>2, <1>3, <1>4, <1>5 DEF a

\* The buttons are on their pages.
LEMMA OfferedHere ==
  ASSUME page \in Pages, Console \in {"default", "air", "berry"}, NEW op \in CallOps \cup {"aff"},
         op \in Offered \cup Menu
  PROVE  page \in PagesOf(op)
<1>1. CASE op \in Menu
  BY <1>1 DEF Menu, PagesOf, CallOps
<1>2. CASE op \in Offered /\ page = "login"
  <2>1. op \in {"signin", "wechat", "state", "forgotten", "register"}
    BY <1>2 DEF Offered, loginDefault, loginAir, loginBerry, Providers
  <2>2. op \in {"signin", "wechat", "state"}
    BY <2>1 DEF CallOps
  <2>. QED BY <1>2, <2>2 DEF PagesOf
<1>3. CASE op \in Offered /\ page = "register"
  BY <1>3 DEF Offered, registerDefault, registerAir, registerBerry, Mailing, PagesOf, CallOps
<1>4. CASE op \in Offered /\ page = "forgotten"
  BY <1>4 DEF Offered, forgottenDefault, forgottenAir, forgottenBerry, PagesOf
<1>5. CASE op \in Offered /\ page = "reset"
  BY <1>5 DEF Offered, resetDefault, resetAir, resetBerry, PagesOf
<1>6. CASE op \in Offered /\ page = "personal"
  <2>1. op \in {"token", "aff", "state", "send", "bind", "delete", "password"}
    <3>1. Binding \subseteq {"state"} /\ Unbound \subseteq {"state"}
      BY DEF Binding, Unbound, Providers
    <3>2. personalDefault \subseteq {"token", "aff", "state", "send", "bind", "delete", "password"}
      BY <3>1 DEF personalDefault, ownTokensDefault, emailDefault, deletionDefault
    <3>3. personalAir \subseteq {"token", "aff", "state", "send", "bind", "delete", "password"}
      BY <3>1 DEF personalAir, informationAir, emailAir, deletionAir, passwordAir
    <3>4. personalBerry \subseteq {"token", "aff", "state", "send", "bind", "delete", "password"}
      BY <3>1 DEF personalBerry, profileBerry, bindingBerry, othersBerry, emailBerry
    <3>. QED BY <1>6, <3>2, <3>3, <3>4 DEF Offered
  <2>. QED BY <1>6, <2>1 DEF PagesOf
<1>7. CASE op \in Offered /\ page \notin {"login", "register", "forgotten", "reset", "personal"}
  BY <1>7 DEF Offered
<1>. QED BY <1>1, <1>2, <1>3, <1>4, <1>5, <1>6, <1>7

\* The parts of the invariant, and what is left of it when nobody signs in or out.
Guard ==
  /\ page \in Guarded => (IF Console = "berry" THEN shown ELSE stored) # Nobody
  /\ Console = "berry" /\ page \in Wrapped => shown = Nobody
LinkType == [mail : {0} \cup Mails, token : 0..MaxSteps]

LEMMA InvMade ==
  ASSUME AccountInv, setup' = setup, page' \in Pages, own' \in Component, link' \in LinkType,
         LinkGood', cookie' \in Session, stored' \in Users, shown' \in Users,
         abroad' \in 0..MaxSteps, steps' \in 0..MaxSteps, server' \in Server, CallsGood',
         apart' \in BOOLEAN, slow' \in BOOLEAN, Guard', SignedInIsAgreed'
  PROVE  AccountInv'
BY DEF AccountInv, AccountTypeOK, Component, LinkType, Session, Users, Guard

LEMMA InvKept ==
  ASSUME AccountInv, UNCHANGED <<setup, page, link, user, abroad, apart>>, slow' \in BOOLEAN,
         own' \in Component, steps' \in 0..MaxSteps, server' \in Server, CallsGood'
  PROVE  AccountInv'
<1>1. UNCHANGED <<cookie, stored, shown>>
  BY DEF user
<1>2. Guard /\ LinkGood /\ SignedInIsAgreed
  BY DEF AccountInv, AccountTypeOK, Guard
<1>3. Guard' /\ LinkGood' /\ SignedInIsAgreed'
  BY <1>1, <1>2 DEF Guard, LinkGood, SignedInIsAgreed, TabIsBrowser, StoredIsCookie, Console
<1>. QED BY <1>1, <1>3, Typed1, InvMade DEF LinkType

LEMMA ClickStep ==
  ASSUME AccountAssumption, AccountInv, NEW op, NEW c \in Call, NEW component \in Component,
         Click(op, c, component), c.at = "sent", c.got = 0, c.cookie = cookie,
         c.op \in {"signin", "wechat"} => c.who \in Accounts,
         c.op \in {"send", "forgot", "renew"} => c.mail \in Mails,
         c.op \in OwnCalls => page = "personal"
  PROVE  AccountInv'
<1>. DEFINE t == [c EXCEPT !.solved = own.solved]
            number == IF t.op \in Numbered THEN steps' ELSE 0
            s == [t EXCEPT !.n = number]
<1>1. /\ UnderWay # Lanes /\ calls' = Put(calls, s) /\ own' = component
      /\ steps < MaxSteps /\ steps' = steps + 1
      /\ UNCHANGED <<setup, page, link, user, abroad, server, apart, slow>>
  BY DEF Click, Send, Steps
<1>2. steps' \in 1..MaxSteps /\ 0 \in 0..MaxSteps /\ own.solved \in BOOLEAN
  BY <1>1, Typed1 DEF AccountAssumption, Component
<1>3. /\ s \in Call /\ s.at = "sent" /\ s.got = 0 /\ s.cookie = cookie /\ s.op = c.op
      /\ s.who = c.who /\ s.mail = c.mail /\ (c.op \in Numbered => s.n = steps')
  <2>1. /\ t \in Call /\ t.at = "sent" /\ t.got = 0 /\ t.cookie = cookie /\ t.op = c.op
        /\ t.who = c.who /\ t.mail = c.mail
    BY <1>2 DEF Call
  <2>. HIDE DEF t
  <2>2. number \in 0..MaxSteps /\ (c.op \in Numbered => number = steps')
    BY <1>2, <2>1
  <2>. HIDE DEF number
  <2>. QED BY <2>1, <2>2 DEF Call
<1>. HIDE DEF s
<1>4. Console = "berry" /\ ~apart /\ s.op \in OwnCalls => s.cookie.user # Nobody
  BY <1>3 DEF AccountInv, AccountTypeOK, Guarded, SignedInIsAgreed, TabIsBrowser, StoredIsCookie
<1>5. Fresh1(s, Console, apart)
  BY <1>2, <1>3, <1>4 DEF Fresh1, Numbered
<1>6. PICK v \in Lanes : calls[v] = Vacant
  BY <1>1 DEF UnderWay
<1>7. AllGood(calls, Console, apart)
  BY Typed1 DEF CallsGood, AllGood, Lined
<1>8. AllGood(Put(calls, s), Console, apart)
  BY <1>5, <1>6, <1>7, AskedIsGood, PutGood
<1>9. CallsGood'
  BY <1>1, <1>8 DEF CallsGood, AllGood, Lined, Console
<1>10. steps' \in 0..MaxSteps /\ server' \in Server /\ slow' \in BOOLEAN /\ own' \in Component
  BY <1>1, <1>2, Typed1
<1>. QED BY <1>1, <1>9, <1>10, InvKept

LEMMA Components ==
  ASSUME AccountAssumption, NEW c \in Component
  PROVE  /\ [c EXCEPT !.loading = TRUE] \in Component /\ [c EXCEPT !.loading = FALSE] \in Component
         /\ [c EXCEPT !.locked = TRUE] \in Component /\ [c EXCEPT !.solved = TRUE] \in Component
         /\ [c EXCEPT !.lost = TRUE] \in Component /\ Unlocked(c) \in Component
         /\ LockOfSend(c) \in Component /\ Fresh \in Component
         /\ \A b \in BOOLEAN : [c EXCEPT !.done = b] \in Component
         /\ \A n \in 0..MaxSteps : [c EXCEPT !.password = n] \in Component
<1>1. COUNTDOWN \in 1..COUNTDOWN /\ 0 \in 0..MaxSteps
  BY DEF AccountAssumption
<1>2. Fresh \in Component
  BY <1>1 DEF Fresh, Component
<1>3. LockOfSend(c) \in Component
  BY DEF LockOfSend, Component
<1>4. Unlocked(c) \in Component
  BY <1>1 DEF Unlocked, Component
<1>. QED BY <1>2, <1>3, <1>4 DEF Component

LEMMA SendingStep ==
  ASSUME AccountAssumption, AccountInv, Sending
  PROVE  AccountInv'
<1>0. /\ own \in Component /\ Loading \in Component /\ cookie \in Session /\ 0 \in 0..MaxSteps
      /\ 0 \in {0} \cup Mails /\ Nobody \in Users /\ shown \in Users /\ Accounts \subseteq Users
      /\ Mails \subseteq {0} \cup Mails
      /\ page \in Pages /\ Console \in {"default", "air", "berry"}
  <2>1. own \in Component /\ cookie \in Session /\ shown \in Users /\ page \in Pages
        /\ Console \in {"default", "air", "berry"}
    BY Typed1
  <2>2. Loading \in Component
    BY <2>1, Components DEF Loading
  <2>3. 0 \in 0..MaxSteps /\ Nobody \in Users /\ Accounts \subseteq Users
    BY DEF AccountAssumption, Users
  <2>. QED BY <2>1, <2>2, <2>3
<1>1. ASSUME NEW who \in Accounts, login(who)
      PROVE  AccountInv'
  <2>. DEFINE c == [Ask("signin", cookie) EXCEPT !.who = who]
              component == IF Console = "berry" THEN Loading ELSE own
  <2>1. Requested(c, "signin", cookie, who, 0, 0)
    BY <1>0, RequestIs DEF CallOps
  <2>2. Click("signin", c, component) /\ component \in Component
    BY <1>0, <1>1 DEF login
  <2>. HIDE DEF c, component
  <2>. QED BY <1>1, <2>1, <2>2, ClickStep DEF Requested, OwnCalls
<1>2. ASSUME NEW who \in Accounts, wechatLogin(who)
      PROVE  AccountInv'
  <2>. DEFINE c == [Ask("wechat", cookie) EXCEPT !.who = who]
  <2>1. Requested(c, "wechat", cookie, who, 0, 0)
    BY <1>0, RequestIs DEF CallOps
  <2>2. Click("wechat", c, own)
    BY <1>2 DEF wechatLogin
  <2>. HIDE DEF c
  <2>. QED BY <1>0, <1>2, <2>1, <2>2, ClickStep DEF Requested, OwnCalls
<1>3. ASSUME NEW m \in {0} \cup Mails, NEW n \in 0..MaxSteps, register(m, n)
      PROVE  AccountInv'
  <2>. DEFINE c == [Ask("signup", cookie) EXCEPT !.mail = m, !.code = n]
  <2>1. Requested(c, "signup", cookie, Nobody, m, n)
    BY <1>0, RequestIs DEF CallOps
  <2>2. Click("signup", c, Loading)
    BY <1>3 DEF register
  <2>. HIDE DEF c
  <2>. QED BY <1>0, <2>1, <2>2, ClickStep DEF Requested, OwnCalls
<1>4. ASSUME NEW m \in Mails, sendVerificationCode(m)
      PROVE  AccountInv'
  <2>. DEFINE c == [Ask("send", cookie) EXCEPT !.mail = m]
              component == IF Console = "berry" /\ page = "register" THEN own ELSE LockOfSend(Loading)
  <2>1. Requested(c, "send", cookie, Nobody, m, 0)
    BY <1>0, RequestIs DEF CallOps
  <2>2. Click("send", c, component)
    BY <1>4 DEF sendVerificationCode
  <2>3. component \in Component
    BY <1>0, Components
  <2>. HIDE DEF c, component
  <2>. QED BY <1>4, <2>1, <2>2, <2>3, ClickStep DEF Requested, OwnCalls
<1>5. ASSUME NEW m \in Mails, PasswordResetForm(m)
      PROVE  AccountInv'
  <2>. DEFINE c == [Ask("forgot", cookie) EXCEPT !.mail = m]
              component == [Loading EXCEPT !.locked = TRUE]
  <2>1. Requested(c, "forgot", cookie, Nobody, m, 0)
    BY <1>0, RequestIs DEF CallOps
  <2>2. Click("forgot", c, component)
    BY <1>5 DEF PasswordResetForm
  <2>3. component \in Component
    BY <1>0, Components
  <2>. HIDE DEF c, component
  <2>. QED BY <1>5, <2>1, <2>2, <2>3, ClickStep DEF Requested, OwnCalls
<1>6. ASSUME NEW m \in Mails, NEW n \in 1..MaxSteps, bindEmail(m, n)
      PROVE  AccountInv'
  <2>. DEFINE c == [Ask("bind", cookie) EXCEPT !.who = shown, !.mail = m, !.code = n]
  <2>0. n \in 0..MaxSteps /\ "bind" \in CallOps
    BY DEF AccountAssumption, CallOps
  <2>1. Requested(c, "bind", cookie, shown, m, n)
    BY <1>0, <2>0, RequestIs
  <2>2. Click("bind", c, Loading)
    BY <1>6 DEF bindEmail
  <2>3. page = "personal"
    BY <2>2, <1>0, OfferedHere DEF Click, PagesOf, CallOps
  <2>. HIDE DEF c
  <2>. QED BY <1>0, <2>1, <2>2, <2>3, ClickStep DEF Requested
<1>7. ASSUME PasswordResetConfirm
      PROVE  AccountInv'
  <2>. DEFINE c == [Ask("renew", cookie) EXCEPT !.mail = link.mail, !.code = link.token]
              component == IF Console = "berry" THEN own ELSE [Loading EXCEPT !.locked = TRUE]
  <2>1. page = "reset" /\ Click("renew", c, component)
    BY <1>7 DEF PasswordResetConfirm
  <2>2. link.mail \in Mails /\ link.token \in 0..MaxSteps
    BY <2>1 DEF AccountInv, LinkGood, AccountAssumption
  <2>3. Requested(c, "renew", cookie, Nobody, link.mail, link.token)
    BY <1>0, <2>2, RequestIs DEF CallOps
  <2>4. component \in Component
    BY <1>0, Components
  <2>. HIDE DEF c, component
  <2>. QED BY <2>1, <2>2, <2>3, <2>4, ClickStep DEF Requested, OwnCalls
<1>8. ASSUME NEW op \in {"token", "password", "delete"}, NEW button \in {op, "aff"},
             Click(button, Ask(op, cookie), own)
      PROVE  AccountInv'
  <2>. DEFINE c == Ask(op, cookie)
  <2>1. Requested(c, op, cookie, Nobody, 0, 0)
    BY <1>0, AskIs DEF CallOps
  <2>2. page = "personal"
    <3>1. button \in Offered \cup Menu
      BY <1>8 DEF Click
    <3>2. button \in CallOps \cup {"aff"}
      BY DEF CallOps
    <3>. QED BY <3>1, <3>2, <1>0, OfferedHere DEF PagesOf
  <2>3. Click(button, c, own)
    BY <1>8
  <2>. HIDE DEF c
  <2>. QED BY <1>0, <2>1, <2>2, <2>3, ClickStep DEF Requested
<1>9. ASSUME NEW op \in {"state", "logout"}, Click(op, Ask(op, cookie), own)
      PROVE  AccountInv'
  <2>. DEFINE c == Ask(op, cookie)
  <2>1. Requested(c, op, cookie, Nobody, 0, 0)
    BY <1>0, AskIs DEF CallOps
  <2>2. Click(op, c, own)
    BY <1>9
  <2>. HIDE DEF c
  <2>. QED BY <1>0, <2>1, <2>2, ClickStep DEF Requested, OwnCalls
<1>10. CASE generateAccessToken \/ getAffLink \/ changePassword \/ deleteAccount \/ getOAuthState
            \/ logout
  BY <1>8, <1>9, <1>10 DEF generateAccessToken, getAffLink, changePassword, deleteAccount,
     getOAuthState, logout
<1>. QED BY <1>1, <1>2, <1>3, <1>4, <1>5, <1>6, <1>7, <1>10 DEF Sending, Addresses

----------------------------------------------------------------------------
(* What the server answers. *)

\* what an answer may say
Outcome(c, at, got, brings, saved) ==
  /\ c.op \in {"signin", "wechat"} /\ at = "ok" => brings /\ got \in Accounts /\ saved.user = got
  /\ c.op \in {"logout", "bye"} /\ at = "ok" => brings /\ saved.user = Nobody
  /\ c.op = "oauth" /\ at \in {"ok", "no"} =>
       IF got = Nobody THEN ~brings ELSE brings /\ saved.user = got
  /\ c.op \in {"self", "oauth"} => got \in Users
  /\ c.op \in {"state", "renew"} => got \in 0..MaxSteps
  /\ at # "sent" /\ (at = "gone" /\ Console = "berry" => apart)
  /\ at = "verified" => c.op = "renew"

LEMMA SettleStep ==
  ASSUME AccountAssumption, AccountInv, NEW l \in Lanes, calls[l] # Vacant,
         NEW at \in Ats, NEW got \in (0..MaxSteps) \cup Accounts, NEW brings \in BOOLEAN,
         NEW saved \in Session, Settle(l, at, got, brings, saved),
         Outcome(calls[l], at, got, brings, saved),
         UNCHANGED <<setup, page, own, link, user, abroad, apart>>, slow' \in BOOLEAN,
         steps' \in 0..MaxSteps, server' \in Server
  PROVE  AccountInv'
<1>. DEFINE c == calls[l]
            d == [c EXCEPT !.at = at, !.got = got, !.saves = brings, !.saved = saved,
                           !.cookie = SignedOut]
<1>1. Good(c, Console, apart)
  BY Typed1 DEF CallsGood
<1>2. SignedOut \in Session
  BY DEF SignedOut, Session, Users, AccountAssumption, Nobody
<1>3. calls' = [calls EXCEPT ![l] = d]
  BY DEF Settle
<1>4. /\ d \in Call /\ d.op = c.op /\ d.at = at /\ d.got = got /\ d.saves = brings /\ d.saved = saved
      /\ d.who = c.who /\ d.n = c.n /\ d.mail = c.mail
  BY <1>1, <1>2 DEF Good, Call
<1>5. Truthful(c) /\ Outcome(c, at, got, brings, saved)
  BY <1>1 DEF Good
<1>. HIDE DEF c, d
<1>6. Truthful(d)
  BY <1>4, <1>5 DEF Truthful, Outcome
<1>7. Accepted(d, Console, apart)
  BY <1>4, <1>5 DEF Accepted, Outcome
<1>8. Good(d, Console, apart)
  BY <1>4, <1>6, <1>7 DEF Good
<1>9. CallsGood'
  <2>1. CallsGood
    BY Typed1
  <2>. QED BY <1>3, <1>4, <1>8, <2>1 DEF CallsGood, Console
<1>10. own' \in Component
  BY Typed1
<1>. QED BY <1>9, <1>10, InvKept

LEMMA TellStep ==
  ASSUME AccountAssumption, AccountInv, NEW l \in Lanes, calls[l] # Vacant,
         NEW at \in Ats \ {"sent"}, NEW got \in (0..MaxSteps) \cup Accounts, Tell(l, at, got),
         at = "ok" => calls[l].op \notin {"signin", "wechat", "logout", "bye"},
         calls[l].op = "oauth" => got = Nobody,
         calls[l].op = "self" => got \in Users,
         calls[l].op \in {"state", "renew"} => got \in 0..MaxSteps,
         at = "gone" /\ Console = "berry" => apart,
         at = "verified" => calls[l].op = "renew",
         UNCHANGED <<setup, page, own, link, user, abroad, apart>>, slow' \in BOOLEAN,
         steps' \in 0..MaxSteps, server' \in Server
  PROVE  AccountInv'
<1>1. SignedOut \in Session
  BY DEF SignedOut, Session, Users, AccountAssumption, Nobody
<1>2. Settle(l, at, got, FALSE, SignedOut)
  BY DEF Tell
<1>3. Outcome(calls[l], at, got, FALSE, SignedOut)
  BY DEF Outcome, Users
<1>. QED BY <1>1, <1>2, <1>3, SettleStep

LEMMA CheckedStep ==
  ASSUME AccountAssumption, AccountInv, NEW l \in Lanes, calls[l] # Vacant,
         NEW at \in {"ok", "no"}, Checked(l, at), calls[l].op \in {"send", "forgot", "signup"},
         UNCHANGED <<setup, page, own, link, user, abroad, apart>>, slow' \in BOOLEAN,
         steps' \in 0..MaxSteps, server' \in Server
  PROVE  AccountInv'
<1>0. Nobody \in (0..MaxSteps) \cup Accounts /\ at \in Ats \ {"sent"}
  BY DEF AccountAssumption, Ats, Nobody
<1>1. CASE Tell(l, at, Nobody)
  BY <1>0, <1>1, TellStep
<1>2. CASE Settle(l, at, Nobody, TRUE, [calls[l].cookie EXCEPT !.checked = TRUE])
  <2>. DEFINE saved == [calls[l].cookie EXCEPT !.checked = TRUE]
  <2>1. saved \in Session
    BY Typed1 DEF CallsGood, Good, Call, Session
  <2>2. Outcome(calls[l], at, Nobody, TRUE, saved)
    BY <1>0 DEF Outcome
  <2>. HIDE DEF saved
  <2>3. Settle(l, at, Nobody, TRUE, saved)
    BY <1>2 DEF saved
  <2>. QED BY <1>0, <2>1, <2>2, <2>3, SettleStep
<1>. QED BY <1>1, <1>2 DEF Checked

\* The records of the server keep their types.
LEMMA ServerKept ==
  ASSUME NEW s \in Server
  PROVE  /\ \A a \in Accounts, v \in {"none", "active", "deleted"} :
              [s EXCEPT !.accounts[a] = v] \in Server
         /\ \A a \in Accounts, m \in {0} \cup Mails : [s EXCEPT !.address[a] = m] \in Server
         /\ \A m \in {0} \cup Mails :
              [s EXCEPT !.accounts[2] = "active", !.address[2] = m] \in Server
         /\ \A u \in Users : [s EXCEPT !.github = u] \in Server
         /\ [s EXCEPT !.accounts[2] = "active", !.github = 2] \in Server
         /\ \A a \in Accounts, n \in 0..MaxSteps : [s EXCEPT !.password[a] = n] \in Server
         /\ \A m \in Mails, n \in 0..MaxSteps : [s EXCEPT !.codes[m] = n] \in Server
         /\ \A m \in Mails, n \in 0..MaxSteps : [s EXCEPT !.links[m] = n] \in Server
         /\ \A m \in Mails, n \in 1..MaxSteps :
              /\ [s EXCEPT !.codes[m] = n, !.mailed = @ \cup {<<"code", m, n>>}] \in Server
              /\ [s EXCEPT !.links[m] = n, !.mailed = @ \cup {<<"link", m, n>>}] \in Server
         /\ \A p \in [Accounts -> 0..MaxSteps], m \in Mails :
              0 \in 0..MaxSteps => [s EXCEPT !.password = p, !.links[m] = 0] \in Server
<1>1. ASSUME NEW a \in Accounts, NEW v \in {"none", "active", "deleted"}
      PROVE  [s EXCEPT !.accounts[a] = v] \in Server
  BY DEF Server
<1>2. ASSUME NEW a \in Accounts, NEW m \in {0} \cup Mails
      PROVE  [s EXCEPT !.address[a] = m] \in Server
  BY DEF Server
<1>3. ASSUME NEW m \in {0} \cup Mails
      PROVE  [s EXCEPT !.accounts[2] = "active", !.address[2] = m] \in Server
  BY DEF Server, Accounts
<1>4. ASSUME NEW u \in Users PROVE [s EXCEPT !.github = u] \in Server
  BY DEF Server
<1>5. [s EXCEPT !.accounts[2] = "active", !.github = 2] \in Server
  BY DEF Server, Accounts, Users
<1>6. ASSUME NEW a \in Accounts, NEW n \in 0..MaxSteps
      PROVE  [s EXCEPT !.password[a] = n] \in Server
  BY DEF Server
<1>7. ASSUME NEW m \in Mails, NEW n \in 0..MaxSteps
      PROVE  [s EXCEPT !.codes[m] = n] \in Server
  BY DEF Server
<1>8. ASSUME NEW m \in Mails, NEW n \in 0..MaxSteps
      PROVE  [s EXCEPT !.links[m] = n] \in Server
  BY DEF Server
<1>9. ASSUME NEW m \in Mails, NEW n \in 1..MaxSteps
      PROVE  /\ [s EXCEPT !.codes[m] = n, !.mailed = @ \cup {<<"code", m, n>>}] \in Server
             /\ [s EXCEPT !.links[m] = n, !.mailed = @ \cup {<<"link", m, n>>}] \in Server
  <2>. DEFINE more(k) == s.mailed \cup {<<k, m, n>>}
  <2>1. more("code") \in SUBSET ({"code", "link"} \X Mails \X (1..MaxSteps))
    BY DEF Server
  <2>2. more("link") \in SUBSET ({"code", "link"} \X Mails \X (1..MaxSteps))
    BY DEF Server
  <2>3. n \in 0..MaxSteps
    OBVIOUS
  <2>. HIDE DEF more
  <2>4. [s EXCEPT !.codes[m] = n, !.mailed = more("code")] \in Server
    BY <2>1, <2>3 DEF Server
  <2>5. [s EXCEPT !.links[m] = n, !.mailed = more("link")] \in Server
    BY <2>2, <2>3 DEF Server
  <2>. QED BY <2>4, <2>5 DEF more
<1>10. ASSUME NEW p \in [Accounts -> 0..MaxSteps], NEW m \in Mails, 0 \in 0..MaxSteps
       PROVE  [s EXCEPT !.password = p, !.links[m] = 0] \in Server
  BY <1>10 DEF Server
<1>. QED BY <1>1, <1>2, <1>3, <1>4, <1>5, <1>6, <1>7, <1>8, <1>9, <1>10

\* A call that the server works on: what is known of it.
LEMMA AskedIs ==
  ASSUME AccountAssumption, AccountInv, NEW l \in Lanes, calls[l] # Vacant
  PROVE  /\ calls[l] \in Call /\ Truthful(calls[l]) /\ Accepted(calls[l], Console, apart)
         /\ calls[l].cookie \in Session /\ calls[l].cookie.user \in Users
         /\ calls[l].op \in CallOps /\ calls[l].n \in 0..MaxSteps /\ calls[l].at \in Ats
         /\ Nobody \in (0..MaxSteps) \cup Accounts /\ Nobody \in Users /\ Nobody \in 0..MaxSteps
<1>1. Good(calls[l], Console, apart)
  BY Typed1 DEF CallsGood
<1>2. calls[l].cookie \in Session /\ calls[l].op \in CallOps /\ calls[l].n \in 0..MaxSteps
      /\ calls[l].at \in Ats
  BY <1>1 DEF Good, Call
<1>3. Nobody \in (0..MaxSteps) \cup Accounts /\ Nobody \in Users /\ Nobody \in 0..MaxSteps
  BY DEF AccountAssumption, Nobody, Users
<1>. QED BY <1>1, <1>2, <1>3 DEF Good, Session

LEMMA ServingStep ==
  ASSUME AccountAssumption, AccountInv, NEW l \in Lanes, calls[l] # Vacant, Serve(l)
  PROVE  AccountInv'
<1>. DEFINE c == calls[l]
<1>0. /\ c \in Call /\ Truthful(c) /\ Accepted(c, Console, apart)
      /\ c.cookie \in Session /\ c.cookie.user \in Users
      /\ c.op \in CallOps /\ c.n \in 0..MaxSteps /\ c.at \in Ats
      /\ Nobody \in (0..MaxSteps) \cup Accounts /\ Nobody \in Users /\ Nobody \in 0..MaxSteps
      /\ server \in Server /\ slow \in BOOLEAN /\ steps \in 0..MaxSteps
  BY AskedIs, Typed1
<1>. HIDE DEF c
<1>1. ASSUME Login(l) PROVE AccountInv'
  <2>1. c.op \in {"signin", "wechat"} /\ c.who \in Accounts /\ Serving
    BY <1>0, <1>1 DEF Login, Asked, Truthful, c
  <2>2. server' = server /\ UNCHANGED <<setup, page, own, link, user, abroad, apart, slow, steps>>
    BY <2>1 DEF Serving, ServerOnly
  <2>3. CASE Tell(l, "no", Nobody)
    BY <1>0, <2>1, <2>2, <2>3, TellStep DEF Ats, c
  <2>4. CASE Settle(l, "ok", c.who, TRUE, [c.cookie EXCEPT !.user = c.who])
    <3>. DEFINE saved == [c.cookie EXCEPT !.user = c.who]
    <3>1. saved \in Session /\ saved.user = c.who
      BY <1>0, <2>1 DEF Session, Users
    <3>. HIDE DEF saved
    <3>2. Outcome(c, "ok", c.who, TRUE, saved)
      BY <2>1, <3>1 DEF Outcome
    <3>3. Settle(l, "ok", c.who, TRUE, saved)
      BY <2>4 DEF saved
    <3>. QED BY <1>0, <2>1, <2>2, <3>1, <3>2, <3>3, SettleStep DEF Ats, c
  <2>. QED BY <1>1, <2>3, <2>4 DEF Login, c
<1>2. ASSUME TurnstileCheck(l) PROVE AccountInv'
  BY <1>0, <1>2, TellStep DEF TurnstileCheck, Asked, Serving, ServerOnly, Ats, c
<1>3. ASSUME SendEmailVerification(l) PROVE AccountInv'
  <2>1. c.op = "send" /\ c.mail \in Mails /\ c.n \in 1..MaxSteps
    BY <1>0, <1>3 DEF SendEmailVerification, Asked, Truthful, c
  <2>2. server' \in Server
    <3>1. [server EXCEPT !.codes[c.mail] = c.n, !.mailed = @ \cup {<<"code", c.mail, c.n>>}]
            \in Server
      BY <1>0, <2>1, ServerKept
    <3>. QED BY <1>0, <1>3, <3>1 DEF SendEmailVerification, c
  <2>3. Checked(l, "ok") \/ Checked(l, "no")
    BY <1>3 DEF SendEmailVerification, c
  <2>4. UNCHANGED <<setup, page, own, link, user, abroad, apart, slow, steps>>
    BY <1>3 DEF SendEmailVerification, ServerOnly
  <2>. QED BY <1>0, <2>1, <2>2, <2>3, <2>4, CheckedStep DEF c
<1>4. ASSUME SendPasswordResetEmail(l) PROVE AccountInv'
  <2>1. c.op = "forgot" /\ c.mail \in Mails /\ c.n \in 1..MaxSteps
    BY <1>0, <1>4 DEF SendPasswordResetEmail, Asked, Truthful, c
  <2>2. server' \in Server
    <3>1. [server EXCEPT !.links[c.mail] = c.n, !.mailed = @ \cup {<<"link", c.mail, c.n>>}]
            \in Server
      BY <1>0, <2>1, ServerKept
    <3>. QED BY <1>0, <1>4, <3>1 DEF SendPasswordResetEmail, c
  <2>3. Checked(l, "ok") \/ Checked(l, "no")
    BY <1>4 DEF SendPasswordResetEmail, c
  <2>4. UNCHANGED <<setup, page, own, link, user, abroad, apart, slow, steps>>
    BY <1>4 DEF SendPasswordResetEmail, ServerOnly
  <2>. QED BY <1>0, <2>1, <2>2, <2>3, <2>4, CheckedStep DEF c
<1>5. ASSUME MailFails(l) PROVE AccountInv'
  <2>1. c.op \in {"send", "forgot"} /\ c.mail \in Mails
    BY <1>0, <1>5 DEF MailFails, Asked, Truthful, c
  <2>2. server' \in Server
    BY <1>0, <1>5, <2>1, ServerKept DEF MailFails, c
  <2>3. Checked(l, "no") /\ UNCHANGED <<setup, page, own, link, user, abroad, apart, slow>>
    BY <1>5 DEF MailFails, c
  <2>4. steps' \in 0..MaxSteps
    BY <1>0, <1>5 DEF MailFails, Steps, AccountAssumption
  <2>. QED BY <1>0, <2>1, <2>2, <2>3, <2>4, CheckedStep DEF c
<1>6. ASSUME Register(l) PROVE AccountInv'
  <2>1. c.op = "signup" /\ c.mail \in {0} \cup Mails
    BY <1>0, <1>6 DEF Register, Asked, Call, c
  <2>2. server' \in Server
    <3>1. [server EXCEPT !.accounts[2] = "active", !.address[2] = c.mail] \in Server
      BY <1>0, <2>1, ServerKept
    <3>. QED BY <1>0, <1>6, <3>1 DEF Register, c
  <2>3. Checked(l, "ok") \/ Checked(l, "no")
    BY <1>6 DEF Register, c
  <2>4. UNCHANGED <<setup, page, own, link, user, abroad, apart, slow, steps>>
    BY <1>6 DEF Register, ServerOnly
  <2>. QED BY <1>0, <2>1, <2>2, <2>3, <2>4, CheckedStep DEF c
<1>7. ASSUME ResetPassword(l) PROVE AccountInv'
  <2>1. UNCHANGED <<setup, page, own, link, user, abroad, apart, slow, steps>>
    BY <1>7 DEF ResetPassword, ServerOnly
  <2>2. CASE /\ Asked(l, {"renew"}) /\ server' = server
             /\ Tell(l, IF server.links[c.mail] = c.code THEN "verified" ELSE "no", Nobody)
    <3>. DEFINE at == IF server.links[c.mail] = c.code THEN "verified" ELSE "no"
    <3>1. at \in Ats \ {"sent"} /\ at # "ok" /\ at # "gone"
      BY DEF Ats
    <3>2. Tell(l, at, Nobody) /\ c.op = "renew"
      BY <2>2 DEF Asked, c
    <3>. HIDE DEF at
    <3>. QED BY <1>0, <2>1, <2>2, <3>1, <3>2, TellStep DEF c
  <2>3. CASE /\ c.at = "verified" /\ Tell(l, "ok", c.n)
             /\ server' = [server EXCEPT
                  !.password = [a \in Accounts |-> IF a \in Holders(c.mail) THEN c.n ELSE @[a]],
                  !.links[c.mail] = 0]
    <3>1. c.op = "renew" /\ c.mail \in Mails
      BY <1>0, <2>3 DEF Truthful
    <3>. DEFINE p == [a \in Accounts |-> IF a \in Holders(c.mail) THEN c.n ELSE server.password[a]]
    <3>2. p \in [Accounts -> 0..MaxSteps]
      BY <1>0 DEF Server
    <3>3. server' = [server EXCEPT !.password = p, !.links[c.mail] = 0]
      BY <2>3
    <3>. HIDE DEF p
    <3>4. server' \in Server
      BY <1>0, <3>1, <3>2, <3>3, ServerKept DEF Nobody
    <3>. QED BY <1>0, <2>1, <2>3, <3>1, <3>4, TellStep DEF Ats, c
  <2>. QED BY <1>0, <1>7, <2>2, <2>3 DEF ResetPassword, c
<1>8. ASSUME UserAuth(l) PROVE AccountInv'
  <2>. DEFINE at == IF c.cookie.user = Nobody THEN "gone" ELSE "no"
  <2>1. /\ c.op \in OwnCalls /\ c.at = "sent" /\ Tell(l, at, Nobody) /\ server' = server
        /\ UNCHANGED <<setup, page, own, link, user, abroad, apart, slow, steps>>
    BY <1>8 DEF UserAuth, Asked, Serving, ServerOnly, c
  <2>2. at \in Ats \ {"sent"} /\ at # "ok" /\ at # "verified"
    BY DEF Ats
  <2>3. at = "gone" /\ Console = "berry" => apart
    BY <1>0, <2>1 DEF Accepted
  <2>4. c.op # "oauth"
    BY <2>1 DEF OwnCalls
  <2>. HIDE DEF at
  <2>. QED BY <1>0, <2>1, <2>2, <2>3, <2>4, TellStep DEF c
<1>9. ASSUME UpdateSelf(l) PROVE AccountInv'
  <2>1. /\ c.op \in {"self", "token", "password"} /\ Tell(l, "ok", c.cookie.user)
        /\ c.cookie.user \in Accounts
        /\ UNCHANGED <<setup, page, own, link, user, abroad, apart, slow, steps>>
    BY <1>0, <1>9 DEF UpdateSelf, Asked, Authorised, ServerOnly, OwnCalls, Users, c
  <2>2. server' \in Server
    BY <1>0, <1>9, <2>1, ServerKept DEF UpdateSelf, c
  <2>. DEFINE got == c.cookie.user
  <2>3. /\ got \in Users /\ got \in (0..MaxSteps) \cup Accounts /\ "ok" \in Ats \ {"sent"}
        /\ c.op \notin {"signin", "wechat", "logout", "bye", "oauth", "state", "renew"}
        /\ Tell(l, "ok", got) /\ slow' \in BOOLEAN /\ steps' \in 0..MaxSteps
    BY <1>0, <2>1 DEF Ats
  <2>. HIDE DEF got
  <2>. QED BY <1>0, <2>1, <2>2, <2>3, TellStep DEF c
<1>10. ASSUME DeleteSelf(l) PROVE AccountInv'
  <2>1. /\ c.op = "delete" /\ Tell(l, "ok", Nobody) /\ c.cookie.user \in Accounts
        /\ UNCHANGED <<setup, page, own, link, user, abroad, apart, slow, steps>>
    BY <1>0, <1>10 DEF DeleteSelf, Asked, Authorised, ServerOnly, Users, c
  <2>2. server' \in Server
    BY <1>0, <1>10, <2>1, ServerKept DEF DeleteSelf, c
  <2>. QED BY <1>0, <2>1, <2>2, TellStep DEF Ats, c
<1>11. ASSUME EmailBind(l) PROVE AccountInv'
  <2>1. /\ c.op = "bind" /\ c.cookie.user \in Accounts /\ c.mail \in {0} \cup Mails
        /\ UNCHANGED <<setup, page, own, link, user, abroad, apart, slow, steps>>
        /\ Tell(l, "ok", Nobody) \/ Tell(l, "no", Nobody)
    BY <1>0, <1>11 DEF EmailBind, Asked, Authorised, ServerOnly, Users, Call, c
  <2>2. server' \in Server
    <3>1. [server EXCEPT !.address[c.cookie.user] = c.mail] \in Server
      BY <1>0, <2>1, ServerKept
    <3>. QED BY <1>0, <1>11, <3>1 DEF EmailBind, c
  <2>. QED BY <1>0, <2>1, <2>2, TellStep DEF Ats, c
<1>12. ASSUME Logout(l) PROVE AccountInv'
  <2>1. /\ c.op \in {"logout", "bye"} /\ Settle(l, "ok", Nobody, TRUE, SignedOut)
        /\ server' = server
        /\ UNCHANGED <<setup, page, own, link, user, abroad, apart, slow, steps>>
    BY <1>12 DEF Logout, Asked, Serving, ServerOnly, c
  <2>2. SignedOut \in Session /\ SignedOut.user = Nobody
    BY <1>0 DEF SignedOut, Session, Nobody
  <2>3. Outcome(c, "ok", Nobody, TRUE, SignedOut)
    BY <2>1, <2>2 DEF Outcome
  <2>. QED BY <1>0, <2>1, <2>2, <2>3, SettleStep DEF Ats, c
<1>13. ASSUME GenerateOAuthCode(l) PROVE AccountInv'
  <2>. DEFINE saved == [c.cookie EXCEPT !.state = c.n]
  <2>1. /\ c.op = "state" /\ Settle(l, "ok", c.n, TRUE, saved) /\ server' = server
        /\ UNCHANGED <<setup, page, own, link, user, abroad, apart, slow, steps>>
    BY <1>13 DEF GenerateOAuthCode, Asked, Serving, ServerOnly, c
  <2>2. saved \in Session
    BY <1>0 DEF Session
  <2>. HIDE DEF saved
  <2>3. Outcome(c, "ok", c.n, TRUE, saved)
    BY <1>0, <2>1 DEF Outcome
  <2>. QED BY <1>0, <2>1, <2>2, <2>3, SettleStep DEF Ats, c
<1>14. ASSUME GitHubOAuth(l) PROVE AccountInv'
  <2>1. /\ c.op = "oauth"
        /\ UNCHANGED <<setup, page, own, link, user, abroad, apart, slow, steps>>
    BY <1>14 DEF GitHubOAuth, Asked, ServerOnly, c
  <2>2. ASSUME NEW a \in Accounts, OAuthSignIn(l, a), server' \in Server
        PROVE  AccountInv'
    <3>. DEFINE saved == [c.cookie EXCEPT !.user = a]
    <3>1. saved \in Session /\ saved.user = a
      BY <1>0 DEF Session, Users
    <3>. HIDE DEF saved
    <3>2. Outcome(c, "ok", a, TRUE, saved)
      BY <2>1, <3>1 DEF Outcome, Users, Accounts, Nobody
    <3>3. Tell(l, "no", Nobody) \/ Settle(l, "ok", a, TRUE, saved)
      BY <2>2 DEF OAuthSignIn, saved, c
    <3>. QED BY <1>0, <2>1, <2>2, <3>1, <3>2, <3>3, TellStep, SettleStep DEF Ats, c
  <2>3. ASSUME NEW at \in {"error", "no", "ok"}, Tell(l, at, Nobody), server' \in Server
        PROVE  AccountInv'
    BY <1>0, <2>1, <2>3, TellStep DEF Ats, c
  <2>4. /\ server.github \in Users
        /\ [server EXCEPT !.accounts[2] = "active", !.github = 2] \in Server
        /\ [server EXCEPT !.github = c.cookie.user] \in Server
    BY <1>0, ServerKept DEF Server
  <2>5. CASE Tell(l, "error", Nobody) /\ server' = server
    BY <1>0, <2>3, <2>5
  <2>6. CASE Tell(l, "no", Nobody) /\ server' = server
    BY <1>0, <2>3, <2>6
  <2>7. CASE Tell(l, "ok", Nobody) /\ server' = [server EXCEPT !.github = c.cookie.user]
    BY <2>3, <2>4, <2>7
  <2>8. CASE server.github # Nobody /\ OAuthSignIn(l, server.github) /\ server' = server
    BY <1>0, <2>2, <2>4, <2>8 DEF Users
  <2>9. CASE /\ OAuthSignIn(l, 2)
             /\ server' = [server EXCEPT !.accounts[2] = "active", !.github = 2]
    BY <2>2, <2>4, <2>9 DEF Accounts
  <2>. QED BY <1>14, <2>5, <2>6, <2>7, <2>8, <2>9 DEF GitHubOAuth, c
<1>. QED BY <1>1, <1>2, <1>3, <1>4, <1>5, <1>6, <1>7, <1>8, <1>9, <1>10, <1>11, <1>12, <1>13,
            <1>14 DEF Serve

LEMMA FailStep ==
  ASSUME AccountAssumption, AccountInv, NEW l \in Lanes, calls[l] # Vacant, Fail(l)
  PROVE  AccountInv'
<1>1. /\ UNCHANGED <<setup, page, own, link, user, abroad, server, apart, slow>>
      /\ Tell(l, "error", Nobody) \/ Tell(l, "lost", Nobody)
  BY DEF Fail
<1>2. steps' \in 0..MaxSteps /\ slow' \in BOOLEAN /\ server' \in Server
  BY <1>1, Typed1 DEF Fail, Steps
<1>. QED BY <1>1, <1>2, AskedIs, TellStep DEF Ats

----------------------------------------------------------------------------
(* Going to a page. *)

LEMMA LandingGuards ==
  ASSUME setup \in Setups, setup' = setup, NEW p \in Pages, page' = Landing(p, stored', shown')
  PROVE  /\ page' \in Pages /\ page' \in {p, "login", "panel"} /\ Guard'
<1>1. Console' = Console
  BY DEF Console
<1>2. CASE Console = "berry"
  BY <1>1, <1>2 DEF Landing, AuthWrapper, AuthGuard, Guard, Guarded, Wrapped, Pages
<1>3. CASE Console # "berry"
  BY <1>1, <1>3 DEF Landing, PrivateRoute, Guard, Guarded, Pages
<1>. QED BY <1>2, <1>3

LEMMA MountGood ==
  ASSUME AccountAssumption, NEW cs, apart' \in BOOLEAN, AllGood(cs, Console, apart'),
         NEW v \in Lanes, cs[v] = Vacant, setup' = setup, Guard', SignedInIsAgreed',
         cookie' \in Session
  PROVE  AllGood(Mount(page', cs), Console, apart')
<1>. DEFINE c == Ask("self", cookie')
<1>1. CASE page' = "personal" /\ Console # "default"
  <2>1. Requested(c, "self", cookie', Nobody, 0, 0)
    BY AskIs DEF CallOps
  <2>. HIDE DEF c
  <2>2. Console = "berry" /\ ~apart' => cookie'.user # Nobody
    BY <1>1 DEF Guard, SignedInIsAgreed, TabIsBrowser, StoredIsCookie, Guarded, Console
  <2>3. Fresh1(c, Console, apart')
    BY <2>1, <2>2 DEF Fresh1, Requested
  <2>4. AllGood(Put(cs, c), Console, apart')
    BY <2>3, AskedIsGood, PutGood
  <2>5. Mount(page', cs) = Put(cs, c)
    BY <1>1 DEF Mount, c
  <2>. QED BY <2>4, <2>5
<1>2. CASE ~(page' = "personal" /\ Console # "default")
  BY <1>2 DEF Mount
<1>. QED BY <1>1, <1>2

LEMMA CallsAre ==
  ASSUME NEW cs, setup' = setup, apart' \in BOOLEAN, AllGood(cs, Console, apart'), calls' = cs
  PROVE  CallsGood'
BY DEF AllGood, CallsGood, Lined, Console

LEMMA ArriveStep ==
  ASSUME AccountAssumption, AccountInv, NEW p \in Pages \ {"reset"}, NEW cs, apart' \in BOOLEAN,
         AllGood(cs, Console, apart'), NEW v \in Lanes, cs[v] = Vacant, Arrive(p, cs),
         setup' = setup, cookie' \in Session, stored' \in Users, shown' \in Users,
         SignedInIsAgreed', link' \in {link, NoLink}, abroad' \in 0..MaxSteps,
         server' = server, UNCHANGED <<slow, steps>>
  PROVE  AccountInv'
<1>0. /\ setup \in Setups /\ own \in Component /\ link \in LinkType /\ server \in Server
      /\ slow \in BOOLEAN /\ steps \in 0..MaxSteps
  BY Typed1 DEF LinkType
<1>1. page' = Landing(p, stored', shown')
  BY DEF Arrive
<1>2. page' \in Pages /\ page' # "reset" /\ Guard'
  BY <1>0, <1>1, LandingGuards
<1>3. link' \in LinkType /\ LinkGood'
  BY <1>0, <1>2 DEF LinkType, LinkGood, NoLink, AccountAssumption
<1>4. CASE page' = page
  <2>1. own' = own /\ calls' = cs
    BY <1>1, <1>4 DEF Arrive
  <2>2. CallsGood'
    BY <2>1, CallsAre
  <2>. QED BY <1>0, <1>2, <1>3, <2>1, <2>2, InvMade
<1>5. CASE page' # page
  <2>1. own' = Fresh /\ calls' = Mount(page', Left(cs))
    BY <1>1, <1>5 DEF Arrive
  <2>2. AllGood(Left(cs), Console, apart') /\ Left(cs)[v] = Vacant
    BY LeftGood DEF Left
  <2>3. AllGood(Mount(page', Left(cs)), Console, apart')
    BY <1>2, <2>2, MountGood
  <2>4. CallsGood'
    BY <2>1, <2>3, CallsAre
  <2>5. own' \in Component
    BY <1>0, <2>1, Components
  <2>. QED BY <1>0, <1>2, <1>3, <2>4, <2>5, InvMade
<1>. QED BY <1>4, <1>5

LEMMA ReloadStep ==
  ASSUME AccountAssumption, AccountInv, NEW p \in Pages, Reload(p), apart' = apart,
         setup' = setup, cookie' = cookie, stored' \in Users, shown' \in Users,
         SignedInIsAgreed', link' \in LinkType, LinkGood', abroad' = abroad,
         server' = server, UNCHANGED <<slow, steps>>
  PROVE  AccountInv'
<1>0. /\ setup \in Setups /\ own \in Component /\ server \in Server /\ cookie \in Session
      /\ slow \in BOOLEAN /\ steps \in 0..MaxSteps /\ apart \in BOOLEAN /\ abroad \in 0..MaxSteps
  BY Typed1
<1>. DEFINE none == [l \in Lanes |-> Vacant]
<1>1. page' = Landing(p, stored', shown') /\ own' = Fresh /\ calls' = Mount(page', none)
  BY DEF Reload
<1>2. page' \in Pages /\ Guard'
  BY <1>0, <1>1, LandingGuards
<1>3. AllGood(none, Console, apart') /\ none[1] = Vacant /\ 1 \in Lanes
  BY DEF AllGood, Lined, Lanes
<1>. HIDE DEF none
<1>4. AllGood(Mount(page', none), Console, apart')
  BY <1>0, <1>2, <1>3, MountGood
<1>5. CallsGood'
  BY <1>0, <1>1, <1>4, CallsAre
<1>6. own' \in Component
  BY <1>0, <1>1, Components
<1>. QED BY <1>0, <1>2, <1>5, <1>6, InvMade

LEMMA StayStep ==
  ASSUME AccountAssumption, AccountInv, NEW l \in Lanes, NEW component \in Component,
         Stay(l, component), setup' = setup, cookie' \in Session, stored' \in Users,
         shown' \in Users, abroad' \in 0..MaxSteps, apart' \in BOOLEAN, apart => apart',
         Guard', SignedInIsAgreed', link' = link, server' = server, UNCHANGED <<slow, steps>>
  PROVE  AccountInv'
<1>0. /\ own \in Component /\ link \in LinkType /\ server \in Server /\ CallsGood
      /\ slow \in BOOLEAN /\ steps \in 0..MaxSteps /\ apart \in BOOLEAN /\ page \in Pages
  BY Typed1 DEF LinkType
<1>1. page' = page /\ calls' = Without(l) /\ own' \in {own, component}
  BY DEF Stay
<1>2. AllGood(Without(l), Console, apart')
  BY <1>0, WithoutGood, AllGrow
<1>3. CallsGood'
  BY <1>1, <1>2, CallsAre
<1>4. LinkGood'
  BY <1>1 DEF AccountInv, LinkGood
<1>. QED BY <1>0, <1>1, <1>3, <1>4, InvMade

----------------------------------------------------------------------------
(* What the tab does with an answer. *)

LEMMA UserKept ==
  ASSUME AccountInv, UNCHANGED <<setup, page, cookie, stored, shown>>, apart => apart'
  PROVE  Guard' /\ SignedInIsAgreed'
<1>1. Guard /\ SignedInIsAgreed
  BY DEF AccountInv, AccountTypeOK, Guard
<1>. QED BY <1>1 DEF Guard, SignedInIsAgreed, TabIsBrowser, StoredIsCookie, Console

LEMMA AnsweredIs ==
  ASSUME AccountAssumption, AccountInv, NEW l \in Lanes, calls[l] # Vacant
  PROVE  /\ Truthful(calls[l]) /\ Accepted(calls[l], Console, apart)
         /\ calls[l].saved \in Session /\ calls[l].saves \in BOOLEAN /\ calls[l].who \in Users
         /\ calls[l].live \in BOOLEAN /\ calls[l].op \in CallOps
         /\ AllGood(Without(l), Console, apart)
         /\ Without(l)[2] = Vacant /\ 2 \in Lanes
         /\ Guard /\ SignedInIsAgreed
         /\ own \in Component /\ cookie \in Session /\ stored \in Users /\ shown \in Users
         /\ apart \in BOOLEAN /\ abroad \in 0..MaxSteps /\ page \in Pages
<1>1. calls[l] \in Call
  BY AskedIs
<1>2. /\ calls[l].saved \in Session /\ calls[l].saves \in BOOLEAN /\ calls[l].who \in Users
      /\ calls[l].live \in BOOLEAN /\ calls[l].op \in CallOps
  BY <1>1 DEF Call
<1>3. Guard /\ SignedInIsAgreed
  BY DEF AccountInv, AccountTypeOK, Guard
<1>4. AllGood(Without(l), Console, apart) /\ Without(l)[2] = Vacant /\ 2 \in Lanes
  BY Typed1, WithoutGood, WithoutIs, LanesAre
<1>. QED BY <1>2, <1>3, <1>4, AskedIs, Typed1

LEMMA DriftKeeps ==
  ASSUME AccountAssumption, AccountInv, NEW l \in Lanes, calls[l] # Vacant, Drift(l),
         setup' = setup
  PROVE  /\ cookie' \in Session /\ stored' = stored /\ shown' = shown
         /\ apart' \in BOOLEAN /\ (apart => apart') /\ SignedInIsAgreed'
         /\ page' = page => Guard'
<1>1. /\ calls[l].saved \in Session /\ cookie \in Session /\ apart \in BOOLEAN /\ Guard
      /\ SignedInIsAgreed
  BY AnsweredIs
<1>2. cookie' \in Session
  BY <1>1 DEF Drift, Receive
<1>3. stored' = stored /\ shown' = shown /\ apart' = (apart \/ cookie'.user # cookie.user)
  BY DEF Drift
<1>. QED BY <1>1, <1>2, <1>3 DEF SignedInIsAgreed, TabIsBrowser, StoredIsCookie, Guard, Console

LEMMA AnswerStep ==
  ASSUME AccountAssumption, AccountInv, NEW l \in Lanes, calls[l] # Vacant, Answer(l)
  PROVE  AccountInv'
<1>. DEFINE c == calls[l]
<1>0. /\ Truthful(c) /\ Accepted(c, Console, apart)
      /\ c.saved \in Session /\ c.saves \in BOOLEAN /\ c.who \in Users /\ c.live \in BOOLEAN
      /\ c.op \in CallOps
      /\ AllGood(Without(l), Console, apart) /\ Without(l)[2] = Vacant /\ 2 \in Lanes
      /\ Guard /\ SignedInIsAgreed
      /\ own \in Component /\ cookie \in Session /\ stored \in Users /\ shown \in Users
      /\ apart \in BOOLEAN /\ abroad \in 0..MaxSteps /\ page \in Pages
  BY AnsweredIs
<1>00. Idled \in Component /\ [Idled EXCEPT !.lost = TRUE] \in Component
       /\ [own EXCEPT !.lost = TRUE] \in Component
       /\ Unlocked(Idled) \in Component
       /\ \A b \in BOOLEAN : [Idled EXCEPT !.done = b] \in Component
       /\ \A n \in 0..MaxSteps : [Idled EXCEPT !.password = n] \in Component
  <2>1. Idled \in Component
    BY <1>0, Components DEF Idled
  <2>. HIDE DEF Idled
  <2>. QED BY <1>0, <2>1, Components
<1>. HIDE DEF c
<1>1. ASSUME LoginAnswered(l) PROVE AccountInv'
  <2>1. abroad' = abroad /\ Rest
    BY <1>1 DEF LoginAnswered
  <2>2. CASE /\ c.op \in {"signin", "wechat"} /\ c.at = "ok"
             /\ Receive(l) /\ Keep(c.got) /\ apart' = apart
             /\ Arrive(IF c.op = "signin" \/ Console = "berry" THEN "panel" ELSE "home", Without(l))
    <3>1. c.saves /\ c.got \in Accounts /\ c.saved.user = c.got
      BY <1>0, <2>2 DEF Truthful
    <3>2. cookie' = c.saved /\ stored' = c.got /\ shown' = c.got
      BY <2>2, <3>1 DEF Receive, Keep, c
    <3>3. SignedInIsAgreed'
      BY <3>1, <3>2 DEF SignedInIsAgreed, TabIsBrowser, StoredIsCookie
    <3>. DEFINE p == IF c.op = "signin" \/ Console = "berry" THEN "panel" ELSE "home"
    <3>4. p \in Pages \ {"reset"}
      BY DEF Pages
    <3>5. Arrive(p, Without(l))
      BY <2>2
    <3>. HIDE DEF p
    <3>6. link' \in {link, NoLink} /\ setup' = setup /\ server' = server
          /\ UNCHANGED <<slow, steps>>
      BY <2>1 DEF Rest
    <3>. QED BY <1>0, <2>1, <2>2, <3>1, <3>2, <3>3, <3>4, <3>5, <3>6, ArriveStep DEF Users
  <2>3. CASE SameUser /\ Stay(l, Idled)
    <3>1. UNCHANGED <<setup, page, cookie, stored, shown, apart, link, server, slow, steps>>
      BY <2>1, <2>3 DEF SameUser, user, Stay, Rest
    <3>2. Guard' /\ SignedInIsAgreed'
      BY <3>1, UserKept
    <3>. QED BY <1>0, <1>00, <2>1, <2>3, <3>1, <3>2, StayStep
  <2>. QED BY <1>1, <2>2, <2>3 DEF LoginAnswered, Answered, c
<1>2. ASSUME RegisterAnswered(l) PROVE AccountInv'
  <2>1. abroad' = abroad /\ Rest /\ Drift(l)
    BY <1>2 DEF RegisterAnswered
  <2>2. link' \in {link, NoLink} /\ setup' = setup /\ server' = server /\ UNCHANGED <<slow, steps>>
    BY <2>1 DEF Rest
  <2>3. /\ cookie' \in Session /\ stored' = stored /\ shown' = shown
        /\ apart' \in BOOLEAN /\ (apart => apart') /\ SignedInIsAgreed'
        /\ page' = page => Guard'
    BY <2>1, <2>2, DriftKeeps
  <2>4. CASE Arrive("login", Without(l))
    <3>1. AllGood(Without(l), Console, apart') /\ "login" \in Pages \ {"reset"}
      BY <1>0, <2>3, AllGrow DEF Pages
    <3>. QED BY <1>0, <2>1, <2>2, <2>3, <2>4, <3>1, ArriveStep
  <2>5. CASE Stay(l, Idled)
    <3>1. page' = page /\ link' = link
      BY <2>1, <2>5 DEF Stay, Rest
    <3>. QED BY <1>0, <1>00, <2>1, <2>2, <2>3, <2>5, <3>1, StayStep
  <2>. QED BY <1>2, <2>4, <2>5 DEF RegisterAnswered
\* the answers that leave the visitor on the page, and the session or its user as it was
<1>3. ASSUME NEW component \in Component, Stay(l, component), Rest, Drift(l),
             abroad' \in 0..MaxSteps
      PROVE  AccountInv'
  <2>1. page' = page /\ link' = link /\ setup' = setup /\ server' = server
        /\ UNCHANGED <<slow, steps>>
    BY <1>3 DEF Stay, Rest
  <2>2. /\ cookie' \in Session /\ stored' = stored /\ shown' = shown
        /\ apart' \in BOOLEAN /\ (apart => apart') /\ SignedInIsAgreed' /\ Guard'
    BY <1>3, <2>1, DriftKeeps
  <2>. QED BY <1>0, <1>3, <2>1, <2>2, StayStep
<1>4. ASSUME NEW component \in Component, Stay(l, component), Rest,
             UNCHANGED <<cookie, stored, shown, abroad>>, apart' \in BOOLEAN, apart => apart'
      PROVE  AccountInv'
  <2>1. page' = page /\ link' = link /\ setup' = setup /\ server' = server
        /\ UNCHANGED <<slow, steps>>
    BY <1>4 DEF Stay, Rest
  <2>2. Guard' /\ SignedInIsAgreed'
    BY <1>4, <2>1, UserKept
  <2>. QED BY <1>0, <1>4, <2>1, <2>2, StayStep
<1>5. ASSUME MailAnswered(l) PROVE AccountInv'
  <2>. DEFINE mailed == [Idled EXCEPT !.done = c.op = "forgot"]
              component == IF c.at = "ok" THEN mailed
                           ELSE IF c.op = "send" THEN SendRefused ELSE ForgotRefused
  <2>1. Stay(l, component) /\ Rest /\ Drift(l) /\ abroad' = abroad
    BY <1>5 DEF MailAnswered, c
  <2>2. mailed \in Component
    <3>1. (c.op = "forgot") \in BOOLEAN
      OBVIOUS
    <3>. QED BY <1>00, <3>1
  <2>3. SendRefused \in Component /\ ForgotRefused \in Component
    BY <1>00 DEF SendRefused, ForgotRefused, Unlock
  <2>. HIDE DEF mailed
  <2>4. component \in Component
    BY <2>2, <2>3
  <2>. HIDE DEF component
  <2>. QED BY <1>0, <1>3, <2>1, <2>4
<1>6. ASSUME ResetAnswered(l) PROVE AccountInv'
  <2>. DEFINE component == IF c.at = "ok" THEN [Idled EXCEPT !.password = c.got] ELSE Idled
  <2>1. component \in Component
    <3>1. c.got \in 0..MaxSteps
      BY <1>0, <1>6 DEF Truthful, ResetAnswered, Answered, c
    <3>. QED BY <1>00, <3>1
  <2>2. Stay(l, component) /\ Rest /\ SameUser /\ abroad' = abroad
    BY <1>6 DEF ResetAnswered, c
  <2>. HIDE DEF component
  <2>. QED BY <1>0, <1>4, <2>1, <2>2 DEF SameUser, user
<1>7. ASSUME BindAnswered(l) PROVE AccountInv'
  <2>1. /\ Stay(l, Idled) /\ Rest /\ UNCHANGED <<cookie, stored, apart, abroad>>
        /\ shown' \in {shown, c.who} /\ (Console # "air" => shown' = shown)
    BY <1>7 DEF BindAnswered, c
  <2>2. page' = page /\ link' = link /\ setup' = setup /\ server' = server
        /\ UNCHANGED <<slow, steps>>
    BY <2>1 DEF Stay, Rest
  <2>3. Guard' /\ SignedInIsAgreed'
    BY <1>0, <2>1, <2>2 DEF Guard, SignedInIsAgreed, TabIsBrowser, StoredIsCookie, Console
  <2>. QED BY <1>0, <1>00, <2>1, <2>2, <2>3, StayStep
<1>8. ASSUME Told(l) PROVE AccountInv'
  BY <1>0, <1>4, <1>8 DEF Told, SameUser, user
<1>9. ASSUME onGitHubOAuthClicked(l) PROVE AccountInv'
  <2>1. c.got \in 0..MaxSteps /\ abroad' = c.got
    BY <1>0, <1>9 DEF onGitHubOAuthClicked, Answered, Truthful, c
  <2>. QED BY <1>0, <1>3, <1>9, <2>1 DEF onGitHubOAuthClicked
<1>10. ASSUME sendCodeLeft(l) PROVE AccountInv'
  BY <1>0, <1>3, <1>10 DEF sendCodeLeft
<1>11. ASSUME Thrown(l) PROVE AccountInv'
  <2>. DEFINE component == [(IF Console = "berry" /\ c.op \in Caught THEN Idled ELSE own)
                            EXCEPT !.lost = TRUE]
  <2>1. component \in Component
    BY <1>00
  <2>2. Stay(l, component) /\ Rest /\ UNCHANGED <<cookie, stored, shown, abroad>>
        /\ apart' = (apart \/ c.op \in {"delete", "bye"})
    BY <1>11 DEF Thrown, user, c
  <2>. HIDE DEF component
  <2>. QED BY <1>0, <1>4, <2>1, <2>2
\* the answers that leave the session, and go on to another call
<1>12. ASSUME NEW cs, AllGood(cs, Console, apart), calls' = cs,
              UNCHANGED <<page, own, cookie, stored, apart, abroad>>, Rest,
              shown' \in Users, Console # "air" => shown' = shown
       PROVE  AccountInv'
  <2>1. link' = link /\ setup' = setup /\ server' = server /\ UNCHANGED <<slow, steps>>
    BY <1>12 DEF Rest
  <2>2. Guard' /\ SignedInIsAgreed'
    BY <1>0, <1>12, <2>1 DEF Guard, SignedInIsAgreed, TabIsBrowser, StoredIsCookie, Console
  <2>3. CallsGood'
    BY <1>0, <1>12, <2>1, CallsAre
  <2>4. LinkGood'
    BY <1>12, <2>1 DEF AccountInv, LinkGood
  <2>. QED BY <1>0, <1>12, <2>1, <2>2, <2>3, <2>4, InvMade, Typed1 DEF LinkType
<1>13. ASSUME NEW op \in CallOps, op \in OwnCalls => Console # "berry"
       PROVE  AllGood(Put(Without(l), [Ask(op, cookie) EXCEPT !.live = c.live]), Console, apart)
         \/ op \in {"signin", "wechat", "send", "forgot", "renew"}
  <2>. DEFINE a == Ask(op, cookie)
              b == [a EXCEPT !.live = c.live]
  <2>1. Requested(a, op, cookie, Nobody, 0, 0)
    BY <1>0, AskIs
  <2>. HIDE DEF a
  <2>2. b \in Call /\ b.op = op /\ b.at = "sent" /\ b.got = 0
    BY <1>0, <2>1 DEF Requested, Call
  <2>. HIDE DEF b
  <2>3. CASE op \notin {"signin", "wechat", "send", "forgot", "renew"}
    <3>1. Fresh1(b, Console, apart)
      BY <1>13, <2>2, <2>3 DEF Fresh1
    <3>2. AllGood(Put(Without(l), b), Console, apart)
      BY <1>0, <3>1, AskedIsGood, PutGood
    <3>. QED BY <3>2 DEF a, b
  <2>. QED BY <2>3
<1>14. ASSUME getUserData(l) PROVE AccountInv'
  <2>. DEFINE more == [Ask("token", cookie) EXCEPT !.live = c.live]
              cs == IF Console = "air" THEN Put(Without(l), more) ELSE Without(l)
  <2>1. /\ calls' = cs /\ UNCHANGED <<page, own, cookie, stored, apart, abroad>> /\ Rest
        /\ c.op = "self" /\ shown' = IF Console = "air" /\ c.at = "ok" THEN c.got ELSE shown
    BY <1>14 DEF getUserData, Answered, c
  <2>2. c.got \in Users
    BY <1>0, <2>1 DEF Truthful
  <2>3. Console = "air" => AllGood(Put(Without(l), more), Console, apart)
    BY <1>13 DEF CallOps
  <2>. HIDE DEF more
  <2>4. AllGood(cs, Console, apart)
    BY <1>0, <2>3
  <2>. HIDE DEF cs
  <2>. QED BY <1>0, <1>12, <2>1, <2>2, <2>4
<1>15. ASSUME Deleted(l) PROVE AccountInv'
  <2>. DEFINE more == [Ask("bye", cookie) EXCEPT !.live = c.live]
              cs == IF c.at = "ok" THEN Put(Without(l), more) ELSE Without(l)
  <2>1. calls' = cs /\ UNCHANGED <<page, own, cookie, stored, shown, apart, abroad>> /\ Rest
    BY <1>15 DEF Deleted, SameUser, user, c
  <2>3. AllGood(Put(Without(l), more), Console, apart)
    BY <1>13 DEF CallOps, OwnCalls
  <2>. HIDE DEF more
  <2>4. AllGood(cs, Console, apart)
    BY <1>0, <2>3
  <2>. HIDE DEF cs
  <2>. QED BY <1>0, <1>12, <2>1, <2>4
<1>16. ASSUME LoggedOut(l) PROVE AccountInv'
  <2>. DEFINE p == IF Console = "berry" THEN "home" ELSE "login"
  <2>1. /\ Receive(l) /\ stored' = Nobody /\ shown' = Nobody /\ abroad' = abroad /\ Rest
        /\ Arrive(p, Without(l)) /\ apart' \in {apart, TRUE}
        /\ apart' \/ (c.op \in {"logout", "bye"} /\ c.at = "ok")
    BY <1>16 DEF LoggedOut, Keep, Answered, c
  <2>2. p \in Pages \ {"reset"}
    BY DEF Pages
  <2>. HIDE DEF p
  <2>3. link' \in {link, NoLink} /\ setup' = setup /\ server' = server /\ UNCHANGED <<slow, steps>>
    BY <2>1 DEF Rest
  <2>4. cookie' = IF c.saves THEN c.saved ELSE cookie
    BY <2>1 DEF Receive, c
  <2>5. apart' \/ cookie'.user = Nobody
    BY <1>0, <2>1, <2>4 DEF Truthful
  <2>6. SignedInIsAgreed'
    BY <2>1, <2>5 DEF SignedInIsAgreed, TabIsBrowser, StoredIsCookie
  <2>7. AllGood(Without(l), Console, apart') /\ apart' \in BOOLEAN
    BY <1>0, <2>1, AllGrow
  <2>8. cookie' \in Session /\ stored' \in Users /\ shown' \in Users /\ abroad' \in 0..MaxSteps
    BY <1>0, <2>1, <2>4 DEF Users
  <2>. QED BY <1>0, <2>1, <2>2, <2>3, <2>6, <2>7, <2>8, ArriveStep
<1>17. ASSUME sendCode(l) PROVE AccountInv'
  <2>. DEFINE p == IF c.at = "no" THEN (IF Console = "berry" THEN "login" ELSE "personal")
                   ELSE IF Console = "berry" THEN "panel"
                   ELSE IF c.got = Nobody THEN "personal" ELSE "home"
  <2>1. /\ Receive(l) /\ apart' = apart /\ abroad' = abroad /\ Rest /\ Arrive(p, Without(l))
        /\ c.op = "oauth" /\ c.at \in {"ok", "no"}
        /\ IF c.got = Nobody THEN UNCHANGED <<stored, shown>> ELSE stored' = c.got /\ shown' = c.got
    BY <1>17 DEF sendCode, Keep, Answered, c
  <2>2. p \in Pages \ {"reset"}
    <3>1. p \in {"login", "personal", "panel", "home"}
      OBVIOUS
    <3>. QED BY <3>1 DEF Pages
  <2>. HIDE DEF p
  <2>3. link' \in {link, NoLink} /\ setup' = setup /\ server' = server /\ UNCHANGED <<slow, steps>>
    BY <2>1 DEF Rest
  <2>4. cookie' = IF c.saves THEN c.saved ELSE cookie
    BY <2>1 DEF Receive, c
  <2>5. c.got \in Users /\ IF c.got = Nobody THEN ~c.saves ELSE c.saves /\ c.saved.user = c.got
    BY <1>0, <2>1 DEF Truthful
  <2>6. SignedInIsAgreed'
    BY <1>0, <2>1, <2>3, <2>4, <2>5 DEF SignedInIsAgreed, TabIsBrowser, StoredIsCookie, Console
  <2>7. cookie' \in Session /\ stored' \in Users /\ shown' \in Users
    BY <1>0, <2>1, <2>4, <2>5
  <2>. QED BY <1>0, <2>1, <2>2, <2>3, <2>6, <2>7, ArriveStep
<1>18. ASSUME githubLoginFailed(l) PROVE AccountInv'
  <2>1. /\ UNCHANGED <<cookie, stored, shown, apart>> /\ abroad' = abroad /\ Rest
        /\ Arrive("login", Without(l)) /\ "login" \in Pages \ {"reset"}
    BY <1>18 DEF githubLoginFailed, SameUser, user, Pages
  <2>2. link' \in {link, NoLink} /\ setup' = setup /\ server' = server /\ UNCHANGED <<slow, steps>>
    BY <2>1 DEF Rest
  <2>3. SignedInIsAgreed'
    BY <1>0, <2>1, <2>2 DEF SignedInIsAgreed, TabIsBrowser, StoredIsCookie, Console
  <2>. QED BY <1>0, <2>1, <2>2, <2>3, ArriveStep
<1>19. ASSUME Expired(l) PROVE AccountInv'
  <2>1. /\ c.at = "gone" /\ Reload("login") /\ UNCHANGED <<cookie, apart, abroad>> /\ Rest
        /\ IF Console = "berry" THEN stored' = Nobody /\ shown' = Nobody
           ELSE stored' = stored /\ shown' = stored
    BY <1>19 DEF Expired, Keep, c
  <2>2. link' = (IF page' = page THEN link ELSE NoLink) /\ setup' = setup /\ server' = server
        /\ UNCHANGED <<slow, steps>>
    BY <2>1 DEF Rest
  <2>3. Console = "berry" => apart
    BY <1>0, <2>1 DEF Accepted
  <2>4. SignedInIsAgreed'
    BY <1>0, <2>1, <2>2, <2>3 DEF SignedInIsAgreed, TabIsBrowser, StoredIsCookie, Console
  <2>5. stored' \in Users /\ shown' \in Users
    BY <1>0, <2>1 DEF Users
  <2>6. link' \in LinkType /\ "login" \in Pages
    BY <2>2, Typed1 DEF LinkType, NoLink, Pages, AccountAssumption
  <2>7. LinkGood'
    <3>1. page' = Landing("login", stored', shown')
      BY <2>1 DEF Reload
    <3>2. page' # "reset"
      BY <2>2, <2>6, <3>1, Typed1, LandingGuards
    <3>. QED BY <3>2 DEF LinkGood
  <2>. QED BY <2>1, <2>2, <2>4, <2>5, <2>6, <2>7, ReloadStep
<1>. QED BY <1>1, <1>2, <1>5, <1>6, <1>7, <1>8, <1>9, <1>10, <1>11, <1>14, <1>15, <1>16, <1>17,
            <1>18, <1>19 DEF Answer

----------------------------------------------------------------------------
(* The users that the server, the browser and the tab agree on. *)

LEMMA VisitStep ==
  ASSUME AccountAssumption, AccountInv, NEW p \in Pages \ {"reset"}, Visit(p)
  PROVE  AccountInv'
<1>1. /\ UNCHANGED <<cookie, stored, shown, setup, abroad, server, apart, slow, steps>>
      /\ Arrive(p, calls) /\ link' = NoLink
  BY DEF Visit, user
<1>2. PICK v \in Lanes : calls[v] = Vacant
  BY DEF Visit, UnderWay
<1>3. SignedInIsAgreed'
  BY <1>1 DEF AccountInv, SignedInIsAgreed, TabIsBrowser, StoredIsCookie, Console
<1>4. AllGood(calls, Console, apart') /\ apart' \in BOOLEAN
  BY <1>1, Typed1 DEF CallsGood, AllGood, Lined
<1>5. /\ cookie' \in Session /\ stored' \in Users /\ shown' \in Users /\ abroad' \in 0..MaxSteps
      /\ link' \in {link, NoLink}
  BY <1>1, Typed1
<1>. QED BY <1>1, <1>2, <1>3, <1>4, <1>5, ArriveStep

\* The reset page is reached by a link only.
LEMMA NoWayToReset == ASSUME page \in Pages, Console \in {"default", "air", "berry"}
                      PROVE  "reset" \notin Offered \cup Menu
<1>0. Binding \subseteq {"state"} /\ Unbound \subseteq {"state"}
  BY DEF Binding, Unbound, Providers
<1>1. "reset" \notin Menu
  BY DEF Menu
<1>2. CASE page = "login"
  BY <1>1, <1>2 DEF Offered, loginDefault, loginAir, loginBerry, Providers
<1>3. CASE page = "register"
  BY <1>1, <1>3 DEF Offered, registerDefault, registerAir, registerBerry, Mailing
<1>4. CASE page \in {"forgotten", "reset"}
  BY <1>1, <1>4 DEF Offered, forgottenDefault, forgottenAir, forgottenBerry,
                    resetDefault, resetAir, resetBerry
<1>5. CASE page = "personal"
  <2>1. "reset" \notin personalDefault
    BY <1>0 DEF personalDefault, ownTokensDefault, emailDefault, deletionDefault
  <2>2. "reset" \notin personalAir
    BY <1>0 DEF personalAir, informationAir, emailAir, deletionAir, passwordAir
  <2>3. "reset" \notin personalBerry
    BY <1>0 DEF personalBerry, profileBerry, bindingBerry, othersBerry, emailBerry
  <2>. QED BY <1>1, <1>5, <2>1, <2>2, <2>3 DEF Offered
<1>6. CASE page \notin {"login", "register", "forgotten", "reset", "personal"}
  BY <1>1, <1>6 DEF Offered
<1>. QED BY <1>2, <1>3, <1>4, <1>5, <1>6

LEMMA OpenLinkStep ==
  ASSUME AccountAssumption, AccountInv, NEW m \in Mails, NEW n \in 1..MaxSteps, OpenLink(m, n)
  PROVE  AccountInv'
<1>1. /\ UNCHANGED <<cookie, stored, setup, abroad, server, apart, slow, steps>>
      /\ shown' = stored /\ Reload("reset") /\ link' = [mail |-> m, token |-> n]
  BY DEF OpenLink
<1>2. SignedInIsAgreed'
  BY <1>1 DEF AccountInv, SignedInIsAgreed, TabIsBrowser, StoredIsCookie, Console
<1>3. link' \in LinkType /\ LinkGood'
  BY <1>1 DEF LinkType, LinkGood, AccountAssumption
<1>4. stored' \in Users /\ shown' \in Users /\ "reset" \in Pages
  BY <1>1, Typed1 DEF Pages
<1>. QED BY <1>1, <1>2, <1>3, <1>4, ReloadStep

LEMMA ComeBackStep ==
  ASSUME AccountAssumption, AccountInv, ComeBack
  PROVE  AccountInv'
<1>. DEFINE a == Ask("oauth", cookie)
            c == [a EXCEPT !.code = abroad, !.live = page' = "oauth"]
<1>0. /\ setup \in Setups /\ cookie \in Session /\ stored \in Users /\ abroad \in 0..MaxSteps
      /\ server \in Server /\ slow \in BOOLEAN /\ steps \in 0..MaxSteps /\ own \in Component
      /\ CallsGood /\ apart \in BOOLEAN
  BY Typed1
<1>1. /\ UnderWay = {} /\ UNCHANGED <<cookie, stored, setup, server, apart, slow, steps>>
      /\ shown' = stored /\ page' = Landing("oauth", stored, stored) /\ own' = Fresh
      /\ calls' = Put(calls, c) /\ abroad' = 0 /\ link' = NoLink
  BY DEF ComeBack
<1>2. page' = Landing("oauth", stored', shown')
  BY <1>1
<1>3. page' \in {"oauth", "login", "panel"} /\ page' \in Pages /\ Guard'
  BY <1>0, <1>1, <1>2, LandingGuards DEF Pages
<1>4. SignedInIsAgreed'
  BY <1>1 DEF AccountInv, SignedInIsAgreed, TabIsBrowser, StoredIsCookie, Console
<1>5. Requested(a, "oauth", cookie, Nobody, 0, 0)
  BY <1>0, AskIs DEF CallOps
<1>6. Fresh1(c, Console, apart)
  <2>1. (page' = "oauth") \in BOOLEAN
    OBVIOUS
  <2>. DEFINE here == page' = "oauth"
  <2>. HIDE DEF a
  <2>2. c \in Call /\ c.op = "oauth" /\ c.at = "sent" /\ c.got = 0
    BY <1>0, <1>5, <2>1 DEF Requested, Call
  <2>. HIDE DEF c
  <2>. QED BY <2>2 DEF Fresh1, OwnCalls
<1>7. AllGood(calls, Console, apart) /\ 1 \in Lanes /\ calls[1] = Vacant
  BY <1>0, <1>1 DEF CallsGood, AllGood, Lined, UnderWay, Lanes
<1>. HIDE DEF c, a
<1>8. AllGood(Put(calls, c), Console, apart)
  BY <1>6, <1>7, AskedIsGood, PutGood
<1>9. CallsGood'
  BY <1>0, <1>1, <1>8, CallsAre
<1>10. link' \in LinkType /\ LinkGood' /\ abroad' \in 0..MaxSteps
  BY <1>1, <1>3 DEF LinkType, LinkGood, NoLink, AccountAssumption
<1>11. own' \in Component
  BY <1>0, <1>1, Components
<1>. QED BY <1>0, <1>1, <1>3, <1>4, <1>9, <1>10, <1>11, InvMade

\* What concerns the page alone: the widget, a second, a click that comes to nothing.
LEMMA PageStep ==
  ASSUME AccountAssumption, AccountInv, TurnstileVerified \/ Countdown \/ SendNothing
  PROVE  AccountInv'
<1>1. /\ own \in Component /\ server \in Server /\ slow \in BOOLEAN /\ steps \in 0..MaxSteps
      /\ CallsGood
  BY Typed1
<1>2. UNCHANGED <<setup, page, link, user, abroad, server, calls, apart, steps>>
  BY DEF TurnstileVerified, Countdown, SendNothing
<1>3. own' \in Component
  <2>1. CASE TurnstileVerified
    BY <1>1, <2>1, Components DEF TurnstileVerified
  <2>2. CASE SendNothing
    BY <1>1, <2>2, Components DEF SendNothing
  <2>3. CASE Countdown /\ own.countdown = 1
    BY <1>1, <2>3, Components DEF Countdown
  <2>4. CASE Countdown /\ own.countdown # 1
    <3>1. own.countdown \in 1..COUNTDOWN
      BY <1>1 DEF Component
    <3>2. own.countdown - 1 \in 1..COUNTDOWN
      BY <2>4, <3>1 DEF AccountAssumption
    <3>. DEFINE k == own.countdown - 1
    <3>3. own' = [own EXCEPT !.countdown = k]
      BY <2>4 DEF Countdown
    <3>4. k \in 1..COUNTDOWN
      BY <3>2
    <3>. HIDE DEF k
    <3>. QED BY <1>1, <3>3, <3>4 DEF Component
  <2>. QED BY <2>1, <2>2, <2>3, <2>4
<1>4. slow' \in BOOLEAN
  BY <1>1 DEF TurnstileVerified, Countdown, SendNothing
<1>5. CallsGood'
  BY <1>1, <1>2 DEF CallsGood, Console
<1>. QED BY <1>1, <1>2, <1>3, <1>4, <1>5, InvKept

LEMMA ExpireStep ==
  ASSUME AccountAssumption, AccountInv, Expire
  PROVE  AccountInv'
<1>1. /\ cookie' = SignedOut /\ apart' = TRUE /\ steps' = steps + 1 /\ steps < MaxSteps
      /\ UNCHANGED <<setup, page, own, link, stored, shown, abroad, server, calls, slow>>
  BY DEF Expire, Steps
<1>2. cookie' \in Session /\ steps' \in 0..MaxSteps
  BY <1>1, Typed1 DEF SignedOut, Session, Users, AccountAssumption
<1>3. Guard' /\ SignedInIsAgreed' /\ LinkGood'
  BY <1>1 DEF AccountInv, AccountTypeOK, Guard, SignedInIsAgreed, TabIsBrowser, StoredIsCookie,
              LinkGood, Console
<1>4. AllGood(calls, Console, apart')
  <2>1. AllGood(calls, Console, apart) /\ apart \in BOOLEAN
    BY Typed1 DEF CallsGood, AllGood, Lined
  <2>. QED BY <1>1, <2>1, AllGrow
<1>5. CallsGood'
  BY <1>1, <1>4, CallsAre
<1>. QED BY <1>1, <1>2, <1>3, <1>5, Typed1, InvMade DEF LinkType

LEMMA InitAccountInv ==
  ASSUME AccountAssumption, AccountInit
  PROVE  AccountInv
<1>1. CallsGood
  BY DEF AccountInit, CallsGood
<1>2. server \in Server
  BY DEF AccountInit, Server, Accounts, Mails, Nobody, Users, AccountAssumption
<1>3. /\ setup \in Setups /\ own = Fresh /\ own \in Component /\ page = "home"
  BY DEF AccountInit, Fresh, Component, AccountAssumption
<1>4. /\ stored \in Users /\ shown = stored /\ cookie \in Session /\ cookie.user = stored
  <2>. DEFINE u == IF setup.email THEN Nobody ELSE 1
  <2>1. u \in Users
    BY DEF Users, Accounts
  <2>2. stored = u /\ shown = u /\ cookie = [SignedOut EXCEPT !.user = u]
    BY DEF AccountInit
  <2>3. SignedOut \in Session
    BY DEF SignedOut, Session, Users, Nobody, AccountAssumption
  <2>. HIDE DEF u
  <2>. QED BY <2>1, <2>2, <2>3 DEF Session
<1>5. AccountTypeOK
  <2>1. /\ link \in [mail : {0} \cup Mails, token : 0..MaxSteps] /\ abroad \in 0..MaxSteps
        /\ steps \in 0..MaxSteps /\ {apart, slow} \subseteq BOOLEAN
    <3>1. link = NoLink /\ abroad = 0 /\ steps = 0 /\ apart = FALSE /\ slow = FALSE
      BY DEF AccountInit
    <3>2. 0 \in 0..MaxSteps
      BY DEF AccountAssumption
    <3>. QED BY <3>1, <3>2 DEF NoLink
  <2>2. page \in Pages /\ page \notin Guarded /\ page \notin Wrapped
    BY <1>3 DEF Pages, Guarded, Wrapped
  <2>. QED BY <1>3, <1>4, <2>1, <2>2 DEF AccountTypeOK, Component, Session, Users
<1>6. LinkGood /\ SignedInIsAgreed
  BY <1>3, <1>4 DEF LinkGood, SignedInIsAgreed, TabIsBrowser, StoredIsCookie
<1>. QED BY <1>1, <1>2, <1>5, <1>6 DEF AccountInv

LEMMA NextAccountInv ==
  ASSUME AccountAssumption, AccountInv, [AccountNext]_accountVars
  PROVE  AccountInv'
<1>1. CASE UNCHANGED accountVars
  <2>1. UNCHANGED <<setup, page, own, link, cookie, stored, shown, abroad, server, calls, apart,
                    slow, steps>>
    BY <1>1 DEF accountVars
  <2>2. CallsGood'
    BY <2>1, Typed1 DEF CallsGood, Console
  <2>. QED BY <2>1, <2>2, Typed1, InvKept DEF user
<1>2. ASSUME NEW p \in (Offered \cup Menu) \cap Pages, Visit(p) PROVE AccountInv'
  BY <1>2, VisitStep, NoWayToReset, Typed1
<1>3. ASSUME NEW l \in UnderWay, Serve(l) \/ Answer(l) \/ Fail(l) PROVE AccountInv'
  <2>1. l \in Lanes /\ calls[l] # Vacant
    BY DEF UnderWay
  <2>. QED BY <1>3, <2>1, ServingStep, AnswerStep, FailStep
<1>4. ASSUME Sending PROVE AccountInv'
  BY <1>4, SendingStep
<1>5. ASSUME NEW m \in Mails, NEW n \in 1..MaxSteps, OpenLink(m, n) PROVE AccountInv'
  BY <1>5, OpenLinkStep
<1>. QED BY <1>1, <1>2, <1>3, <1>4, <1>5, PageStep, ComeBackStep, ExpireStep DEF AccountNext

THEOREM AccountInvariance == AccountSpec => []AccountInv
<1>1. AccountInit => AccountInv
  BY InitAccountInv, AccountAssumption
<1>2. AccountInv /\ [AccountNext]_accountVars => AccountInv'
  BY NextAccountInv, AccountAssumption
<1>. QED BY <1>1, <1>2, PTL DEF AccountSpec

----------------------------------------------------------------------------
(* The buttons of the pages. *)

\* the page or its countdown alone
LEMMA ButtonsOwn ==
  ASSUME NEW cs, NEW p, NEW o, NEW late \in BOOLEAN, NEW o2, NEW later \in BOOLEAN,
         Buttons(cs, p, o, late), late => later, Runs(o2),
         o2.loading => o.loading, o.lost => o2.lost,
         o.locked /\ ~o2.locked => later \/ \A l \in Lanes : ~MailCall(cs[l])
  PROVE  Buttons(cs, p, o2, later)
<1>1. OneMail(cs, p, o2, later)
  BY DEF Buttons, OneMail
<1>2. Spins(cs, o2)
  BY DEF Buttons, Spins
<1>. QED BY <1>1, <1>2 DEF Buttons

LEMMA ButtonsClick ==
  ASSUME AccountAssumption, NEW cs \in Lined, NEW p, NEW o, NEW late, NEW o2,
         Buttons(cs, p, o, late), NEW c \in Call, c.live => p \in PagesOf(c.op),
         NEW v \in Lanes, cs[v] = Vacant,
         o2.countdown = o.countdown, o.locked => o2.locked, o.lost => o2.lost,
         o2.loading => o.loading \/ (c.live /\ BusyCall(c)),
         c.op \in {"send", "forgot"} /\ p \in {"forgotten", "personal"} => ~o.locked /\ o2.locked
  PROVE  Buttons(Put(cs, c), p, o2, late)
<1>. DEFINE ds == Put(cs, c)
<1>1. PICK k \in Lanes : cs[k] = Vacant /\ ds = [cs EXCEPT ![k] = c]
  BY PutIs
<1>2. ds[k] = c /\ \A l \in Lanes \ {k} : ds[l] = cs[l]
  BY <1>1 DEF Lined
<1>. HIDE DEF ds
<1>3. Fits(ds, p)
  BY <1>2 DEF Buttons, Fits
<1>4. Runs(o2)
  BY DEF Buttons, Runs, AccountAssumption
<1>5. OneMail(ds, p, o2, late)
  <2>1. CASE c.op \in {"send", "forgot"}
    BY <1>2, <2>1 DEF Buttons, OneMail
  <2>2. CASE c.op \notin {"send", "forgot"}
    BY <1>1, <1>2, <2>2 DEF Buttons, OneMail, MailCall
  <2>. QED BY <2>1, <2>2
<1>6. Spins(ds, o2)
  <2>1. \A l \in Lanes : BusyCall(cs[l]) => BusyCall(ds[l])
    BY <1>1, <1>2 DEF BusyCall
  <2>2. BusyCall(c) => BusyCall(ds[k])
    BY <1>2
  <2>. QED BY <2>1, <2>2 DEF Buttons, Spins
<1>. QED BY <1>3, <1>4, <1>5, <1>6 DEF Buttons, ds

\* an answer of the server
LEMMA ButtonsServed ==
  ASSUME NEW cs, NEW p, NEW o, NEW late, Buttons(cs, p, o, late), NEW ds,
         \A l \in Lanes : /\ ds[l] = Vacant <=> cs[l] = Vacant
                          /\ ds[l] # Vacant => ds[l].op = cs[l].op /\ ds[l].live = cs[l].live
  PROVE  Buttons(ds, p, o, late)
<1>1. \A l \in Lanes : (MailCall(ds[l]) <=> MailCall(cs[l])) /\ (BusyCall(ds[l]) <=> BusyCall(cs[l]))
  BY DEF MailCall, BusyCall
<1>2. Fits(ds, p)
  BY DEF Buttons, Fits
<1>. QED BY <1>1, <1>2 DEF Buttons, OneMail, Spins

\* a call ends, and the visitor stays
LEMMA ButtonsStay ==
  ASSUME CallsGood, NEW l \in Lanes, calls[l] # Vacant, NEW p, NEW o, NEW late, NEW o2,
         Buttons(calls, p, o, late), Runs(o2),
         ~calls[l].live => o2 = o,
         o.locked /\ ~o2.locked => calls[l].op \in {"send", "forgot"},
         o2.loading /\ ~o2.lost => o.loading /\ ~o.lost /\ ~BusyCall(calls[l])
  PROVE  Buttons(Without(l), p, o2, late)
<1>. DEFINE ds == Without(l)
<1>1. ds[1] = calls[3 - l] /\ ds[2] = Vacant /\ 3 - l \in Lanes /\ 3 - l # l /\ 1 \in Lanes
  BY WithoutIs, LanesAre
<1>. HIDE DEF ds
<1>2. Fits(ds, p)
  BY <1>1, LanesAre DEF Buttons, Fits
<1>3. OneMail(ds, p, o2, late)
  <2>1. ~MailCall(ds[2])
    BY <1>1 DEF MailCall
  <2>2. MailCall(ds[1]) <=> MailCall(calls[3 - l])
    BY <1>1
  <2>3. ASSUME ~late, p \in {"forgotten", "personal"}, MailCall(ds[1])
        PROVE  o2.locked
    <3>1. o.locked
      BY <1>1, <2>2, <2>3 DEF Buttons, OneMail
    <3>2. ~MailCall(calls[l])
      BY <1>1, <2>2, <2>3 DEF Buttons, OneMail
    <3>3. o2 = o \/ calls[l].op \notin {"send", "forgot"}
      BY <3>2 DEF MailCall
    <3>. QED BY <3>1, <3>3
  <2>. QED BY <2>1, <2>3, LanesAre DEF OneMail
<1>4. Spins(ds, o2)
  <2>1. ASSUME o2.loading, ~o2.lost
        PROVE  BusyCall(calls[3 - l])
    <3>1. o.loading /\ ~o.lost /\ ~BusyCall(calls[l])
      BY <2>1
    <3>2. PICK k \in Lanes : BusyCall(calls[k])
      BY <3>1 DEF Buttons, Spins
    <3>. QED BY <3>1, <3>2, LanesAre
  <2>. QED BY <1>1, <2>1 DEF Spins
<1>. QED BY <1>2, <1>3, <1>4 DEF Buttons, ds

\* another page
LEMMA ButtonsFresh ==
  ASSUME AccountAssumption, NEW cs, NEW p, NEW late,
         \A l \in Lanes : \/ cs[l] = Vacant \/ ~cs[l].live
                          \/ cs[l].op \in {"self", "oauth"} /\ p \in PagesOf(cs[l].op)
  PROVE  Buttons(cs, p, Fresh, late)
<1>1. Fresh.locked = FALSE /\ Fresh.loading = FALSE /\ Fresh.countdown = COUNTDOWN
  BY DEF Fresh
<1>2. Fits(cs, p)
  BY DEF Fits
<1>3. \A l \in Lanes : ~MailCall(cs[l])
  BY DEF MailCall
<1>4. Runs(Fresh) /\ Spins(cs, Fresh)
  BY <1>1 DEF Runs, Spins
<1>. QED BY <1>2, <1>3, <1>4 DEF Buttons, OneMail

LEMMA MountLive ==
  ASSUME AccountAssumption, NEW ds \in Lined, NEW p, cookie' \in Session,
         NEW v \in Lanes, ds[v] = Vacant,
         \A l \in Lanes : ds[l] = Vacant \/ ~ds[l].live
  PROVE  \A l \in Lanes : LET c == Mount(p, ds)[l] IN
           c = Vacant \/ ~c.live \/ (c.op \in {"self", "oauth"} /\ p \in PagesOf(c.op))
<1>. DEFINE c == Ask("self", cookie')
<1>1. CASE p = "personal" /\ Console # "default"
  <2>0. Requested(c, "self", cookie', Nobody, 0, 0)
    BY AskIs DEF CallOps
  <2>1. c.op = "self"
    BY <2>0 DEF Requested
  <2>. HIDE DEF c
  <2>2. PICK k \in Lanes : Put(ds, c) = [ds EXCEPT ![k] = c]
    BY PutIs
  <2>3. Mount(p, ds) = [ds EXCEPT ![k] = c]
    BY <1>1, <2>2 DEF Mount, c
  <2>4. "self" \in CallOps /\ p \in PagesOf("self")
    BY <1>1 DEF PagesOf, CallOps
  <2>. QED BY <2>1, <2>3, <2>4 DEF Lined
<1>2. CASE ~(p = "personal" /\ Console # "default")
  BY <1>2 DEF Mount
<1>. QED BY <1>1, <1>2

LEMMA LeftAre ==
  ASSUME NEW cs \in Lined
  PROVE  /\ Left(cs) \in Lined
         /\ \A l \in Lanes : /\ Left(cs)[l] = Vacant \/ Left(cs)[l].live = FALSE
                             /\ cs[l] = Vacant => Left(cs)[l] = Vacant
<1>1. ASSUME NEW l \in Lanes, cs[l] # Vacant
      PROVE  Left(cs)[l] \in Call /\ Left(cs)[l].live = FALSE
  BY <1>1 DEF Left, Lined, Call
<1>2. ASSUME NEW l \in Lanes, cs[l] = Vacant
      PROVE  Left(cs)[l] = Vacant
  BY <1>2 DEF Left
<1>3. Left(cs) \in Lined
  <2>1. \A l \in Lanes : Left(cs)[l] \in Call \cup {Vacant}
    BY <1>1, <1>2
  <2>. QED BY <2>1 DEF Left, Lined
<1>. QED BY <1>1, <1>2, <1>3

LEMMA ButtonsArrive ==
  ASSUME AccountAssumption, NEW cs \in Lined, NEW v \in Lanes, cs[v] = Vacant, NEW p,
         Arrive(p, cs), cookie' \in Session, slow' = slow,
         page' = page => Buttons(cs, page, own, slow)
  PROVE  ButtonInv'
<1>1. page' = Landing(p, stored', shown')
  BY DEF Arrive
<1>2. CASE page' = page
  BY <1>1, <1>2 DEF Arrive, ButtonInv
<1>3. CASE page' # page
  <2>1. own' = Fresh /\ calls' = Mount(page', Left(cs))
    BY <1>1, <1>3 DEF Arrive
  <2>2. \A l \in Lanes : LET c == Mount(page', Left(cs))[l] IN
          c = Vacant \/ ~c.live \/ (c.op \in {"self", "oauth"} /\ page' \in PagesOf(c.op))
    BY LeftAre, MountLive
  <2>3. Buttons(calls', page', Fresh, slow')
    BY <2>1, <2>2, ButtonsFresh
  <2>. QED BY <2>1, <2>3 DEF ButtonInv
<1>. QED BY <1>2, <1>3

LEMMA ButtonsReload ==
  ASSUME AccountAssumption, NEW p, Reload(p), cookie' \in Session
  PROVE  ButtonInv'
<1>. DEFINE none == [l \in Lanes |-> Vacant]
<1>1. own' = Fresh /\ calls' = Mount(page', none)
  BY DEF Reload
<1>2. none \in Lined /\ 1 \in Lanes /\ \A l \in Lanes : none[l] = Vacant
  BY DEF Lined, Lanes
<1>. HIDE DEF none
<1>3. \A l \in Lanes : LET c == Mount(page', none)[l] IN
        c = Vacant \/ ~c.live \/ (c.op \in {"self", "oauth"} /\ page' \in PagesOf(c.op))
  BY <1>2, MountLive
<1>4. Buttons(calls', page', Fresh, slow')
  BY <1>1, <1>3, ButtonsFresh
<1>. QED BY <1>1, <1>4 DEF ButtonInv

\* a click: what it asks for, and what it does to the page
LEMMA ButtonsSend ==
  ASSUME AccountAssumption, AccountInv, ButtonInv, NEW op, NEW c \in Call, NEW component,
         Click(op, c, component), page \in PagesOf(c.op), c.live = TRUE,
         component.countdown = own.countdown, own.locked => component.locked,
         component.lost = own.lost,
         component.loading => own.loading \/ BusyCall(c),
         c.op \in {"send", "forgot"} /\ page \in {"forgotten", "personal"} =>
           ~own.locked /\ component.locked
  PROVE  ButtonInv'
<1>. DEFINE t == [c EXCEPT !.solved = own.solved]
            number == IF t.op \in Numbered THEN steps' ELSE 0
            s == [t EXCEPT !.n = number]
<1>1. /\ UnderWay # Lanes /\ calls' = Put(calls, s) /\ own' = component
      /\ steps < MaxSteps /\ steps' = steps + 1 /\ UNCHANGED <<page, slow>>
  BY DEF Click, Send, Steps
<1>2. steps' \in 0..MaxSteps /\ 0 \in 0..MaxSteps /\ own.solved \in BOOLEAN
  BY <1>1, Typed1 DEF AccountAssumption, Component
<1>3. s \in Call /\ s.op = c.op /\ s.live = TRUE
  <2>1. t \in Call /\ t.op = c.op /\ t.live = TRUE
    BY <1>2 DEF Call
  <2>. HIDE DEF t
  <2>2. number \in 0..MaxSteps
    BY <1>2
  <2>. HIDE DEF number
  <2>. QED BY <2>1, <2>2 DEF Call
<1>. HIDE DEF s
<1>4. PICK v \in Lanes : calls[v] = Vacant
  BY <1>1 DEF UnderWay
<1>5. calls \in Lined /\ Buttons(calls, page, own, slow)
  BY Typed1 DEF CallsGood, Lined, ButtonInv
<1>6. BusyCall(c) => BusyCall(s)
  BY <1>3, VacantIsNoCall DEF BusyCall
<1>7. Buttons(Put(calls, s), page, component, slow)
  BY <1>3, <1>4, <1>5, <1>6, ButtonsClick
<1>. QED BY <1>1, <1>7 DEF ButtonInv

LEMMA ButtonsSending ==
  ASSUME AccountAssumption, AccountInv, ButtonInv, Sending
  PROVE  ButtonInv'
<1>0. /\ own \in Component /\ cookie \in Session /\ 0 \in 0..MaxSteps
      /\ 0 \in {0} \cup Mails /\ Nobody \in Users /\ shown \in Users /\ Accounts \subseteq Users
      /\ Mails \subseteq {0} \cup Mails
      /\ page \in Pages /\ Console \in {"default", "air", "berry"}
  BY Typed1 DEF Users, AccountAssumption
<1>00. /\ Loading.loading = TRUE /\ Loading.locked = own.locked /\ Loading.lost = own.lost
       /\ Loading.countdown = own.countdown /\ Loading \in Component
  BY <1>0 DEF Loading, Component
<1>. HIDE DEF Loading
<1>1. ASSUME NEW op \in CallOps, NEW w, NEW m, NEW k, NEW c, Requested(c, op, cookie, w, m, k),
             NEW component, Click(op, c, component),
             component.countdown = own.countdown, own.locked => component.locked,
             component.lost = own.lost,
             component.loading => own.loading
               \/ op \in {"signin", "signup", "send", "forgot", "renew", "bind"},
             op \in {"send", "forgot"} /\ page \in {"forgotten", "personal"} =>
               ~own.locked /\ component.locked
      PROVE  ButtonInv'
  <2>1. page \in PagesOf(op)
    BY <1>0, <1>1, OfferedHere DEF Click
  <2>2. c \in Call /\ c.op = op /\ c.live = TRUE /\ c # Vacant
    BY <1>1, VacantIsNoCall DEF Requested
  <2>3. op \in {"signin", "signup", "send", "forgot", "renew", "bind"} => BusyCall(c)
    BY <2>2 DEF BusyCall
  <2>. QED BY <1>1, <2>1, <2>2, <2>3, ButtonsSend
<1>2. ASSUME NEW who \in Accounts, login(who) PROVE ButtonInv'
  <2>. DEFINE c == [Ask("signin", cookie) EXCEPT !.who = who]
              component == IF Console = "berry" THEN Loading ELSE own
  <2>1. Requested(c, "signin", cookie, who, 0, 0) /\ "signin" \in CallOps
    BY <1>0, RequestIs DEF CallOps
  <2>2. Click("signin", c, component)
    BY <1>2 DEF login
  <2>3. /\ component.countdown = own.countdown /\ component.locked = own.locked
        /\ component.lost = own.lost
    BY <1>00
  <2>. HIDE DEF c, component
  <2>. QED BY <1>1, <2>1, <2>2, <2>3
<1>3. ASSUME NEW who \in Accounts, wechatLogin(who) PROVE ButtonInv'
  <2>. DEFINE c == [Ask("wechat", cookie) EXCEPT !.who = who]
  <2>1. Requested(c, "wechat", cookie, who, 0, 0) /\ "wechat" \in CallOps
    BY <1>0, RequestIs DEF CallOps
  <2>2. Click("wechat", c, own)
    BY <1>3 DEF wechatLogin
  <2>. HIDE DEF c
  <2>. QED BY <1>1, <2>1, <2>2
<1>4. ASSUME NEW m \in {0} \cup Mails, NEW n \in 0..MaxSteps, register(m, n) PROVE ButtonInv'
  <2>. DEFINE c == [Ask("signup", cookie) EXCEPT !.mail = m, !.code = n]
  <2>1. Requested(c, "signup", cookie, Nobody, m, n) /\ "signup" \in CallOps
    BY <1>0, RequestIs DEF CallOps
  <2>2. Click("signup", c, Loading)
    BY <1>4 DEF register
  <2>. HIDE DEF c
  <2>. QED BY <1>00, <1>1, <2>1, <2>2
<1>5. ASSUME NEW m \in Mails, sendVerificationCode(m) PROVE ButtonInv'
  <2>. DEFINE c == [Ask("send", cookie) EXCEPT !.mail = m]
              component == IF Console = "berry" /\ page = "register" THEN own ELSE LockOfSend(Loading)
  <2>1. Requested(c, "send", cookie, Nobody, m, 0) /\ "send" \in CallOps
    BY <1>0, RequestIs DEF CallOps
  <2>2. Click("send", c, component)
    BY <1>5 DEF sendVerificationCode
  <2>3. /\ LockOfSend(Loading).countdown = own.countdown /\ LockOfSend(Loading).lost = own.lost
        /\ own.locked => LockOfSend(Loading).locked
        /\ page = "personal" => LockOfSend(Loading).locked
    BY <1>00 DEF LockOfSend, Component
  <2>4. page = "personal" => ~own.locked
    BY <1>5 DEF sendVerificationCode, SendEnabled
  <2>5. page \in {"register", "personal"}
    BY <1>0, <2>1, <2>2, OfferedHere DEF Click, PagesOf
  <2>6. /\ component.countdown = own.countdown /\ component.lost = own.lost
        /\ own.locked => component.locked
        /\ page = "personal" => component.locked
    BY <2>3
  <2>. HIDE DEF c, component
  <2>. QED BY <1>1, <2>1, <2>2, <2>4, <2>5, <2>6
<1>6. ASSUME NEW m \in Mails, PasswordResetForm(m) PROVE ButtonInv'
  <2>. DEFINE c == [Ask("forgot", cookie) EXCEPT !.mail = m]
              component == [Loading EXCEPT !.locked = TRUE]
  <2>1. Requested(c, "forgot", cookie, Nobody, m, 0) /\ "forgot" \in CallOps
    BY <1>0, RequestIs DEF CallOps
  <2>2. Click("forgot", c, component) /\ ~own.locked
    BY <1>6 DEF PasswordResetForm, ForgotEnabled
  <2>3. /\ component.countdown = own.countdown /\ component.lost = own.lost
        /\ component.locked = TRUE
    BY <1>00 DEF Component
  <2>. HIDE DEF c, component
  <2>. QED BY <1>1, <2>1, <2>2, <2>3
<1>7. ASSUME NEW m \in Mails, NEW n \in 1..MaxSteps, bindEmail(m, n) PROVE ButtonInv'
  <2>. DEFINE c == [Ask("bind", cookie) EXCEPT !.who = shown, !.mail = m, !.code = n]
  <2>0. n \in 0..MaxSteps /\ "bind" \in CallOps
    BY DEF AccountAssumption, CallOps
  <2>1. Requested(c, "bind", cookie, shown, m, n)
    BY <1>0, <2>0, RequestIs
  <2>2. Click("bind", c, Loading)
    BY <1>7 DEF bindEmail
  <2>. HIDE DEF c
  <2>. QED BY <1>00, <1>1, <2>0, <2>1, <2>2
<1>8. ASSUME PasswordResetConfirm PROVE ButtonInv'
  <2>. DEFINE c == [Ask("renew", cookie) EXCEPT !.mail = link.mail, !.code = link.token]
              component == IF Console = "berry" THEN own ELSE [Loading EXCEPT !.locked = TRUE]
  <2>1. page = "reset" /\ Click("renew", c, component)
    BY <1>8 DEF PasswordResetConfirm
  <2>2. link.mail \in Mails /\ link.token \in 0..MaxSteps
    BY <2>1 DEF AccountInv, LinkGood, AccountAssumption
  <2>3. Requested(c, "renew", cookie, Nobody, link.mail, link.token) /\ "renew" \in CallOps
    BY <1>0, <2>2, RequestIs DEF CallOps
  <2>4. /\ [Loading EXCEPT !.locked = TRUE].countdown = own.countdown
        /\ [Loading EXCEPT !.locked = TRUE].lost = own.lost
        /\ [Loading EXCEPT !.locked = TRUE].locked = TRUE
    BY <1>00 DEF Component
  <2>5. /\ component.countdown = own.countdown /\ component.lost = own.lost
        /\ own.locked => component.locked
    BY <2>4
  <2>. HIDE DEF c, component
  <2>. QED BY <1>1, <2>1, <2>3, <2>5
<1>9. ASSUME NEW op \in {"token", "password", "delete", "state", "logout"},
             Click(op, Ask(op, cookie), own)
      PROVE  ButtonInv'
  <2>. DEFINE c == Ask(op, cookie)
  <2>1. Requested(c, op, cookie, Nobody, 0, 0) /\ op \in CallOps
    BY <1>0, AskIs DEF CallOps
  <2>2. Click(op, c, own)
    BY <1>9
  <2>. HIDE DEF c
  <2>. QED BY <1>1, <2>1, <2>2
<1>10. ASSUME getAffLink PROVE ButtonInv'
  <2>. DEFINE c == Ask("token", cookie)
  <2>1. Requested(c, "token", cookie, Nobody, 0, 0)
    BY <1>0, AskIs DEF CallOps
  <2>2. Click("aff", c, own)
    BY <1>10 DEF getAffLink
  <2>3. page \in PagesOf("token")
    BY <1>0, <2>2, OfferedHere DEF Click, PagesOf
  <2>. HIDE DEF c
  <2>. QED BY <2>1, <2>2, <2>3, ButtonsSend DEF Requested
<1>11. CASE generateAccessToken \/ changePassword \/ deleteAccount \/ getOAuthState \/ logout
  BY <1>9, <1>11 DEF generateAccessToken, changePassword, deleteAccount, getOAuthState, logout
<1>. QED BY <1>2, <1>3, <1>4, <1>5, <1>6, <1>7, <1>8, <1>10, <1>11 DEF Sending, Addresses

\* Serving and failing change neither the button nor whose call it is.
Settled(l) ==
  \E at \in {"ok", "no", "error", "lost", "gone", "verified"} :
    \E got, brings, saved : Settle(l, at, got, brings, saved)
LEMMA ServedAre ==
  ASSUME AccountAssumption, AccountInv, NEW l \in Lanes, calls[l] # Vacant, Serve(l) \/ Fail(l)
  PROVE  /\ UNCHANGED <<setup, page, own, link, user, slow>>
         /\ Settled(l)
<1>1. ASSUME Fail(l)
      PROVE  /\ UNCHANGED <<setup, page, own, link, user, slow>>
             /\ \E at \in {"error", "lost"} : Tell(l, at, Nobody)
  BY <1>1 DEF Fail
<1>2. ASSUME NEW at \in {"ok", "no", "error", "lost", "gone", "verified"}, NEW got,
             Tell(l, at, got)
      PROVE  Settled(l)
  BY <1>2 DEF Tell, Settled
<1>3. ASSUME NEW at \in {"ok", "no"}, Checked(l, at) PROVE Settled(l)
  BY <1>3 DEF Checked, Tell, Settled
<1>31. ASSUME NEW got, NEW saved, Settle(l, "ok", got, TRUE, saved) PROVE Settled(l)
  BY <1>31 DEF Settled
<1>4. CASE Fail(l)
  BY <1>1, <1>2, <1>4
<1>5. CASE Serve(l)
  <2>1. UNCHANGED <<setup, page, own, link, user, slow>>
    BY <1>5 DEF Serve, Login, TurnstileCheck, SendEmailVerification, SendPasswordResetEmail,
       MailFails, Register, ResetPassword, UserAuth, UpdateSelf, DeleteSelf, EmailBind, Logout,
       GenerateOAuthCode, GitHubOAuth, Serving, ServerOnly
  <2>5. ASSUME Login(l) PROVE Settled(l)
    BY <1>2, <1>31, <2>5 DEF Login
  <2>6. ASSUME TurnstileCheck(l) PROVE Settled(l)
    BY <1>2, <2>6 DEF TurnstileCheck
  <2>7. ASSUME SendEmailVerification(l) \/ SendPasswordResetEmail(l) \/ MailFails(l) \/ Register(l) PROVE Settled(l)
    BY <1>3, <2>7 DEF SendEmailVerification, SendPasswordResetEmail, MailFails, Register
  <2>8. ASSUME ResetPassword(l) PROVE Settled(l)
    BY <1>2, <2>8 DEF ResetPassword
  <2>9. ASSUME UserAuth(l) \/ UpdateSelf(l) \/ DeleteSelf(l) \/ EmailBind(l) PROVE Settled(l)
    BY <1>2, <2>9 DEF UserAuth, UpdateSelf, DeleteSelf, EmailBind
  <2>10. ASSUME Logout(l) \/ GenerateOAuthCode(l) PROVE Settled(l)
    BY <1>31, <2>10 DEF Logout, GenerateOAuthCode
  <2>11. ASSUME GitHubOAuth(l) PROVE Settled(l)
    BY <1>2, <1>31, <2>11 DEF GitHubOAuth, OAuthSignIn
  <2>12. Settled(l)
    BY <1>5, <2>5, <2>6, <2>7, <2>8, <2>9, <2>10, <2>11 DEF Serve
  <2>. QED BY <2>1, <2>12
<1>. QED BY <1>4, <1>5

LEMMA SettledAre ==
  ASSUME AccountInv, NEW l \in Lanes, calls[l] # Vacant, NEW at, NEW got, NEW brings, NEW saved,
         Settle(l, at, got, brings, saved)
  PROVE  /\ \A k \in Lanes \ {l} : calls'[k] = calls[k]
         /\ calls'[l] # Vacant /\ calls'[l].op = calls[l].op /\ calls'[l].live = calls[l].live
         /\ calls'[l].mail = calls[l].mail /\ calls'[l].code = calls[l].code
         /\ calls'[l].n = calls[l].n /\ calls'[l].at = at /\ calls'[l].got = got
<1>1. calls[l] \in Call /\ calls \in Lined
  BY Typed1 DEF CallsGood, Good, Lined
<1>. DEFINE c == calls[l]
            d == [c EXCEPT !.at = at, !.got = got, !.saves = brings, !.saved = saved,
                           !.cookie = SignedOut]
<1>2. calls' = [calls EXCEPT ![l] = d]
  BY DEF Settle
<1>3. /\ d.op = c.op /\ d.live = c.live /\ d.mail = c.mail /\ d.code = c.code /\ d.n = c.n
      /\ d.at = at /\ d.got = got
  BY <1>1 DEF Call
<1>4. calls'[l] = d /\ \A k \in Lanes \ {l} : calls'[k] = calls[k]
  BY <1>1, <1>2 DEF Lined
<1>. HIDE DEF d
<1>5. d # Vacant
  <2>1. d.op \in CallOps /\ Vacant.op = "none"
    BY <1>1, <1>3 DEF Call, Vacant
  <2>. QED BY <2>1 DEF CallOps
<1>. QED BY <1>3, <1>4, <1>5

LEMMA ButtonsServing ==
  ASSUME AccountAssumption, AccountInv, ButtonInv, NEW l \in Lanes, calls[l] # Vacant,
         Serve(l) \/ Fail(l)
  PROVE  ButtonInv'
<1>1. UNCHANGED <<page, own, slow>>
  BY ServedAre
<1>2. PICK at, got, brings, saved : Settle(l, at, got, brings, saved)
  BY ServedAre DEF Settled
<1>3. \A k \in Lanes : /\ calls'[k] = Vacant <=> calls[k] = Vacant
                       /\ calls'[k] # Vacant => /\ calls'[k].op = calls[k].op
                                                /\ calls'[k].live = calls[k].live
  BY <1>2, SettledAre
<1>4. Buttons(calls, page, own, slow)
  BY DEF ButtonInv
<1>5. Buttons(calls', page, own, slow)
  BY <1>3, <1>4, ButtonsServed
<1>. QED BY <1>1, <1>5 DEF ButtonInv

LEMMA ButtonsAnswer ==
  ASSUME AccountAssumption, AccountInv, AccountInv', ButtonInv, NEW l \in Lanes,
         calls[l] # Vacant, Answer(l)
  PROVE  ButtonInv'
<1>. DEFINE c == calls[l]
<1>0. /\ Truthful(c) /\ c.live \in BOOLEAN /\ c.op \in CallOps /\ c # Vacant
      /\ own \in Component /\ cookie' \in Session /\ CallsGood
      /\ Without(l) \in Lined /\ Without(l)[2] = Vacant /\ 2 \in Lanes
      /\ page \in Pages /\ setup \in Setups
  BY AnsweredIs, Typed1, WithoutIs, LanesAre DEF AccountInv, AccountTypeOK, Session, Users
<1>00. Buttons(calls, page, own, slow) /\ (c.live => page \in PagesOf(c.op)) /\ Runs(own)
  BY <1>0 DEF ButtonInv, Buttons, Fits
<1>. DEFINE idle == Idled
<1>01. /\ idle.loading = FALSE /\ idle.locked = own.locked /\ idle.countdown = own.countdown
       /\ idle.lost = own.lost /\ idle \in Component
  BY <1>0 DEF Component, Idled
<1>. HIDE DEF c, idle
<1>1. ASSUME NEW component, Stay(l, component), slow' = slow, Runs(component),
             own.locked /\ ~component.locked => c.op \in {"send", "forgot"},
             component.loading /\ ~component.lost =>
               own.loading /\ ~own.lost
               /\ c.op \notin {"signin", "signup", "send", "forgot", "renew", "bind"}
      PROVE  ButtonInv'
  <2>. DEFINE o2 == IF c.live THEN component ELSE own
  <2>1. page' = page /\ own' = o2 /\ calls' = Without(l)
    BY <1>1 DEF Stay, c
  <2>2. Runs(o2) /\ (~c.live => o2 = own)
    BY <1>00, <1>1
  <2>3. own.locked /\ ~o2.locked => c.op \in {"send", "forgot"}
    BY <1>1
  <2>4. o2.loading /\ ~o2.lost => own.loading /\ ~own.lost /\ ~BusyCall(c)
    BY <1>1 DEF BusyCall
  <2>. HIDE DEF o2
  <2>5. Buttons(Without(l), page, o2, slow)
    BY <1>0, <1>00, <2>2, <2>3, <2>4, ButtonsStay DEF c
  <2>. QED BY <1>1, <2>1, <2>5 DEF ButtonInv
<1>2. ASSUME NEW p, Arrive(p, Without(l)), slow' = slow, page' = page => ~BusyCall(c)
      PROVE  ButtonInv'
  <2>1. page' = page => Buttons(Without(l), page, own, slow)
    BY <1>0, <1>00, <1>2, ButtonsStay DEF c
  <2>. QED BY <1>0, <1>2, <2>1, ButtonsArrive
<1>3. Rest => slow' = slow /\ setup' = setup
  BY DEF Rest
\* a spinner that goes, or a component left alone
<1>4. ASSUME Stay(l, idle), slow' = slow PROVE ButtonInv'
  <2>1. Runs(idle)
    BY <1>00, <1>01 DEF Runs
  <2>. QED BY <1>01, <1>1, <1>4, <2>1
<1>5. ASSUME Stay(l, own), slow' = slow,
             c.op \notin {"signin", "signup", "send", "forgot", "renew", "bind"}
      PROVE  ButtonInv'
  BY <1>00, <1>1, <1>5
<1>6. ASSUME LoginAnswered(l) PROVE ButtonInv'
  <2>1. slow' = slow /\ setup' = setup
    BY <1>3, <1>6 DEF LoginAnswered
  <2>2. CASE c.at = "no"
    BY <1>4, <1>6, <2>1, <2>2 DEF LoginAnswered, Answered, c, idle
  <2>3. CASE c.at # "no"
    <3>. DEFINE p == IF c.op = "signin" \/ Console = "berry" THEN "panel" ELSE "home"
    <3>1. /\ c.at = "ok" /\ c.op \in {"signin", "wechat"} /\ Arrive(p, Without(l))
          /\ stored' = c.got /\ shown' = c.got
      BY <1>6, <2>3 DEF LoginAnswered, Answered, Keep, c
    <3>2. c.got \in Accounts
      BY <1>0, <3>1 DEF Truthful
    <3>3. page' = page => ~BusyCall(c)
      <4>1. CASE c.op = "wechat"
        BY <4>1 DEF BusyCall
      <4>2. CASE c.op = "signin"
        <5>1. page' = Landing("panel", stored', shown')
          BY <3>1, <4>2 DEF Arrive
        <5>2. page' = "panel"
          BY <3>1, <3>2, <5>1 DEF Landing, AuthWrapper, AuthGuard, PrivateRoute, Wrapped, Guarded,
                                  Accounts, Nobody
        <5>3. c.live => page = "login"
          BY <1>00, <4>2 DEF PagesOf
        <5>. QED BY <5>2, <5>3 DEF BusyCall
      <4>. QED BY <3>1, <4>1, <4>2
    <3>. HIDE DEF p
    <3>. QED BY <1>2, <2>1, <3>1, <3>3
  <2>. QED BY <2>2, <2>3
<1>7. ASSUME RegisterAnswered(l) PROVE ButtonInv'
  <2>1. slow' = slow /\ setup' = setup /\ c.op = "signup"
    BY <1>3, <1>7 DEF RegisterAnswered, Answered, c
  <2>2. CASE Stay(l, Idled)
    BY <1>4, <2>1, <2>2 DEF idle
  <2>3. CASE Arrive("login", Without(l))
    <3>1. page' = Landing("login", stored', shown')
      BY <2>3 DEF Arrive
    <3>2. page' \in {"login", "panel"}
      BY <3>1 DEF Landing, AuthWrapper, AuthGuard, PrivateRoute
    <3>3. c.live => page = "register"
      BY <1>00, <2>1 DEF PagesOf
    <3>4. page' = page => ~BusyCall(c)
      BY <3>2, <3>3 DEF BusyCall
    <3>. QED BY <1>2, <2>1, <2>3, <3>4
  <2>. QED BY <1>7, <2>2, <2>3 DEF RegisterAnswered
<1>8. ASSUME MailAnswered(l) PROVE ButtonInv'
  <2>. DEFINE mailed == [Idled EXCEPT !.done = c.op = "forgot"]
              component == IF c.at = "ok" THEN mailed
                           ELSE IF c.op = "send" THEN SendRefused ELSE ForgotRefused
  <2>1. Stay(l, component) /\ slow' = slow /\ c.op \in {"send", "forgot"}
    BY <1>3, <1>8 DEF MailAnswered, Answered, c
  <2>2. mailed.loading = FALSE /\ Runs(mailed)
    <3>1. mailed = [idle EXCEPT !.done = c.op = "forgot"]
      BY DEF idle
    <3>. HIDE DEF mailed
    <3>2. /\ mailed.loading = FALSE /\ mailed.locked = own.locked
          /\ mailed.countdown = own.countdown
      BY <1>01, <3>1 DEF Component
    <3>. QED BY <1>00, <3>2 DEF Runs
  <2>3. Runs(idle) /\ idle.loading = FALSE
    BY <1>00, <1>01 DEF Runs
  <2>4. Runs(Unlocked(idle)) /\ Unlocked(idle).loading = FALSE
    <3>1. /\ Unlocked(idle).locked = FALSE /\ Unlocked(idle).countdown = COUNTDOWN
          /\ Unlocked(idle).loading = FALSE
      BY <1>01 DEF Unlocked, Component
    <3>. QED BY <3>1 DEF Runs
  <2>5. SendRefused \in {idle, Unlocked(idle)} /\ ForgotRefused \in {idle, Unlocked(idle)}
    BY DEF SendRefused, ForgotRefused, Unlock, idle
  <2>. HIDE DEF mailed
  <2>6. component \in {mailed, idle, Unlocked(idle)}
    BY <2>5
  <2>. HIDE DEF component
  <2>7. component.loading = FALSE /\ Runs(component)
    BY <2>2, <2>3, <2>4, <2>6
  <2>. QED BY <1>1, <2>1, <2>7
<1>9. ASSUME ResetAnswered(l) PROVE ButtonInv'
  <2>. DEFINE shows == [idle EXCEPT !.password = c.got]
  <2>1. slow' = slow /\ (Stay(l, shows) \/ Stay(l, idle))
    BY <1>3, <1>9 DEF ResetAnswered, c, idle
  <2>2. /\ shows.loading = FALSE /\ shows.locked = own.locked
        /\ shows.countdown = own.countdown
    BY <1>01 DEF Component
  <2>. HIDE DEF shows
  <2>3. Runs(shows)
    BY <1>00, <2>2 DEF Runs
  <2>4. Stay(l, shows) => ButtonInv'
    BY <1>1, <2>1, <2>2, <2>3
  <2>. QED BY <1>4, <2>1, <2>4
<1>10. ASSUME BindAnswered(l) PROVE ButtonInv'
  BY <1>3, <1>4, <1>10 DEF BindAnswered, idle
<1>11. ASSUME Told(l) PROVE ButtonInv'
  <2>1. Stay(l, own) /\ slow' = slow /\ c.op \in {"token", "password"}
    BY <1>3, <1>11 DEF Told, Answered, c
  <2>. QED BY <1>5, <2>1
<1>12. ASSUME onGitHubOAuthClicked(l) PROVE ButtonInv'
  <2>1. Stay(l, own) /\ slow' = slow /\ c.op = "state"
    BY <1>3, <1>12 DEF onGitHubOAuthClicked, Answered, c
  <2>. QED BY <1>5, <2>1
<1>13. ASSUME sendCodeLeft(l) PROVE ButtonInv'
  <2>1. Stay(l, own) /\ slow' = slow /\ c.op = "oauth"
    BY <1>3, <1>13 DEF sendCodeLeft, Answered, c
  <2>. QED BY <1>5, <2>1
<1>14. ASSUME Thrown(l) PROVE ButtonInv'
  <2>. DEFINE o == IF Console = "berry" /\ c.op \in Caught THEN idle ELSE own
              component == [o EXCEPT !.lost = TRUE]
  <2>1. Stay(l, component) /\ slow' = slow
    BY <1>3, <1>14 DEF Thrown, c, idle
  <2>2. o \in Component /\ o.locked = own.locked /\ o.countdown = own.countdown
    BY <1>0, <1>01
  <2>. HIDE DEF o
  <2>3. /\ component.lost = TRUE /\ component.locked = own.locked
        /\ component.countdown = own.countdown
    BY <2>2 DEF Component
  <2>. HIDE DEF component
  <2>4. Runs(component)
    BY <1>00, <2>3 DEF Runs
  <2>. QED BY <1>1, <2>1, <2>3, <2>4
\* the answers that go on to another call
<1>15. ASSUME NEW op \in {"token", "bye"}, slow' = slow, UNCHANGED <<page, own>>,
              c.op \in {"self", "delete"},
              \/ calls' = Without(l)
              \/ calls' = Put(Without(l), [Ask(op, cookie) EXCEPT !.live = c.live])
       PROVE  ButtonInv'
  <2>1. ~BusyCall(c)
    BY <1>15 DEF BusyCall
  <2>2. Buttons(Without(l), page, own, slow)
    BY <1>0, <1>00, <2>1, ButtonsStay DEF c
  <2>3. CASE calls' = Without(l)
    BY <1>15, <2>2, <2>3 DEF ButtonInv
  <2>4. CASE calls' = Put(Without(l), [Ask(op, cookie) EXCEPT !.live = c.live])
    <3>. DEFINE a == Ask(op, cookie)
                b == [a EXCEPT !.live = c.live]
    <3>1. Requested(a, op, cookie, Nobody, 0, 0)
      BY AskIs, Typed1 DEF CallOps
    <3>. HIDE DEF a
    <3>2. b \in Call /\ b.op = op /\ b.live = c.live
      BY <1>0, <3>1 DEF Requested, Call
    <3>3. calls' = Put(Without(l), b)
      BY <2>4 DEF a
    <3>. HIDE DEF b
    <3>4. b.live => page \in PagesOf(b.op)
      <4>1. PagesOf(c.op) = {"personal"} /\ PagesOf(op) = {"personal"}
        BY <1>15 DEF PagesOf
      <4>. QED BY <1>00, <3>2, <4>1
    <3>5. Buttons(Put(Without(l), b), page, own, slow)
      BY <1>0, <2>2, <3>2, <3>4, ButtonsClick
    <3>. QED BY <1>15, <3>3, <3>5 DEF ButtonInv
  <2>. QED BY <1>15, <2>3, <2>4
<1>16. ASSUME getUserData(l) PROVE ButtonInv'
  <2>1. /\ slow' = slow /\ UNCHANGED <<page, own>> /\ c.op = "self"
        /\ \/ calls' = Without(l)
           \/ calls' = Put(Without(l), [Ask("token", cookie) EXCEPT !.live = c.live])
    BY <1>3, <1>16 DEF getUserData, Answered, c
  <2>. QED BY <1>15, <2>1
<1>17. ASSUME Deleted(l) PROVE ButtonInv'
  <2>1. /\ slow' = slow /\ UNCHANGED <<page, own>> /\ c.op = "delete"
        /\ \/ calls' = Without(l)
           \/ calls' = Put(Without(l), [Ask("bye", cookie) EXCEPT !.live = c.live])
    BY <1>3, <1>17 DEF Deleted, Answered, c
  <2>. QED BY <1>15, <2>1
<1>18. ASSUME LoggedOut(l) PROVE ButtonInv'
  <2>. DEFINE p == IF Console = "berry" THEN "home" ELSE "login"
  <2>1. slow' = slow /\ c.op \in {"logout", "bye"} /\ Arrive(p, Without(l))
    BY <1>3, <1>18 DEF LoggedOut, Answered, c
  <2>2. ~BusyCall(c)
    BY <2>1 DEF BusyCall
  <2>. HIDE DEF p
  <2>. QED BY <1>2, <2>1, <2>2
<1>19. ASSUME sendCode(l) PROVE ButtonInv'
  <2>. DEFINE p == IF c.at = "no" THEN (IF Console = "berry" THEN "login" ELSE "personal")
                   ELSE IF Console = "berry" THEN "panel"
                   ELSE IF c.got = Nobody THEN "personal" ELSE "home"
  <2>1. slow' = slow /\ c.op = "oauth" /\ Arrive(p, Without(l))
    BY <1>3, <1>19 DEF sendCode, Answered, c
  <2>2. ~BusyCall(c)
    BY <2>1 DEF BusyCall
  <2>. HIDE DEF p
  <2>. QED BY <1>2, <2>1, <2>2
<1>20. ASSUME githubLoginFailed(l) PROVE ButtonInv'
  <2>1. slow' = slow /\ c.op = "oauth" /\ Arrive("login", Without(l))
    BY <1>3, <1>20 DEF githubLoginFailed, Answered, c
  <2>2. ~BusyCall(c)
    BY <2>1 DEF BusyCall
  <2>. QED BY <1>2, <2>1, <2>2
<1>21. ASSUME Expired(l) PROVE ButtonInv'
  BY <1>0, <1>21, ButtonsReload DEF Expired
<1>. QED BY <1>6, <1>7, <1>8, <1>9, <1>10, <1>11, <1>12, <1>13, <1>14, <1>16, <1>17, <1>18,
            <1>19, <1>20, <1>21 DEF Answer

LEMMA InitButtonInv ==
  ASSUME AccountAssumption, AccountInit
  PROVE  ButtonInv
<1>1. own = Fresh /\ calls = [l \in Lanes |-> Vacant]
  BY DEF AccountInit
<1>2. \A l \in Lanes : calls[l] = Vacant
  BY <1>1
<1>3. Buttons(calls, page, Fresh, slow)
  BY <1>2, ButtonsFresh
<1>. QED BY <1>1, <1>3 DEF ButtonInv

LEMMA NextButtonInv ==
  ASSUME AccountAssumption, AccountInv, AccountInv', ButtonInv, [AccountNext]_accountVars
  PROVE  ButtonInv'
<1>0. /\ Buttons(calls, page, own, slow) /\ own \in Component /\ cookie' \in Session
      /\ slow \in BOOLEAN /\ calls \in Lined /\ Runs(own)
  BY Typed1 DEF ButtonInv, Buttons, AccountInv, AccountTypeOK, Session, Users, CallsGood, Lined
<1>1. CASE UNCHANGED accountVars
  BY <1>1 DEF accountVars, ButtonInv, Buttons, Fits, OneMail, Spins, Runs
<1>2. ASSUME NEW p, Visit(p) PROVE ButtonInv'
  <2>1. Arrive(p, calls) /\ slow' = slow
    BY <1>2 DEF Visit
  <2>2. PICK v \in Lanes : calls[v] = Vacant
    BY <1>2 DEF Visit, UnderWay
  <2>. QED BY <1>0, <2>1, <2>2, ButtonsArrive
<1>3. ASSUME NEW l \in UnderWay, Serve(l) \/ Answer(l) \/ Fail(l) PROVE ButtonInv'
  <2>1. l \in Lanes /\ calls[l] # Vacant
    BY DEF UnderWay
  <2>. QED BY <1>3, <2>1, ButtonsServing, ButtonsAnswer
<1>4. ASSUME NEW m, NEW n, OpenLink(m, n) PROVE ButtonInv'
  BY <1>0, <1>4, ButtonsReload DEF OpenLink
<1>5. ASSUME ComeBack PROVE ButtonInv'
  <2>. DEFINE a == Ask("oauth", cookie)
              c == [a EXCEPT !.code = abroad, !.live = page' = "oauth"]
  <2>1. own' = Fresh /\ calls' = Put(calls, c) /\ \A l \in Lanes : calls[l] = Vacant
    BY <1>5 DEF ComeBack, UnderWay
  <2>2. Requested(a, "oauth", cookie, Nobody, 0, 0)
    BY Typed1, AskIs DEF CallOps
  <2>. HIDE DEF a
  <2>3. c.op = "oauth" /\ (c.live => page' = "oauth")
    BY <2>2 DEF Requested, Call
  <2>. HIDE DEF c
  <2>4. PICK k \in Lanes : Put(calls, c) = [calls EXCEPT ![k] = c]
    BY <1>0, <2>1, PutIs, LanesAre
  <2>5. \A l \in Lanes : \/ calls'[l] = Vacant \/ ~calls'[l].live
                         \/ calls'[l].op \in {"self", "oauth"} /\ page' \in PagesOf(calls'[l].op)
    <3>1. PagesOf("oauth") = {"oauth"}
      BY DEF PagesOf
    <3>. QED BY <1>0, <2>1, <2>3, <2>4, <3>1 DEF Lined
  <2>6. Buttons(calls', page', Fresh, slow')
    BY <2>5, ButtonsFresh
  <2>. QED BY <2>1, <2>6 DEF ButtonInv
<1>6. ASSUME NEW o2, NEW later \in BOOLEAN, own' = o2, slow' = later, UNCHANGED <<calls, page>>,
             slow => later, Runs(o2), o2.loading => own.loading, own.lost => o2.lost,
             own.locked /\ ~o2.locked => later \/ \A l \in Lanes : ~MailCall(calls[l])
      PROVE  ButtonInv'
  <2>1. Buttons(calls, page, o2, later)
    BY <1>0, <1>6, ButtonsOwn
  <2>. QED BY <1>6, <2>1 DEF ButtonInv
<1>7. ASSUME TurnstileVerified PROVE ButtonInv'
  <2>. DEFINE o2 == [own EXCEPT !.solved = TRUE]
  <2>1. own' = o2 /\ slow' = slow /\ UNCHANGED <<calls, page>>
    BY <1>7 DEF TurnstileVerified
  <2>2. /\ o2.locked = own.locked /\ o2.countdown = own.countdown /\ o2.loading = own.loading
        /\ o2.lost = own.lost
    BY <1>0 DEF Component
  <2>. HIDE DEF o2
  <2>3. Runs(o2)
    BY <1>0, <2>2 DEF Runs
  <2>. QED BY <1>0, <1>6, <2>1, <2>2, <2>3
<1>8. ASSUME SendNothing PROVE ButtonInv'
  <2>. DEFINE o2 == [own EXCEPT !.locked = TRUE]
  <2>1. own' = o2 /\ slow' = slow /\ UNCHANGED <<calls, page>>
    BY <1>8 DEF SendNothing
  <2>2. /\ o2.locked = TRUE /\ o2.countdown = own.countdown /\ o2.loading = own.loading
        /\ o2.lost = own.lost
    BY <1>0 DEF Component
  <2>. HIDE DEF o2
  <2>3. Runs(o2)
    BY <1>0, <2>2 DEF Runs, Component
  <2>. QED BY <1>0, <1>6, <2>1, <2>2, <2>3
<1>9. ASSUME Countdown, own.countdown = 1 PROVE ButtonInv'
  <2>. DEFINE o2 == Unlocked(own)
              later == slow \/ Live # {}
  <2>1. own' = o2 /\ slow' = later /\ UNCHANGED <<calls, page>>
    BY <1>9 DEF Countdown
  <2>2. /\ o2.locked = FALSE /\ o2.countdown = COUNTDOWN /\ o2.loading = own.loading
        /\ o2.lost = own.lost
    BY <1>0 DEF Component, Unlocked
  <2>3. later \/ \A l \in Lanes : ~MailCall(calls[l])
    BY DEF MailCall, Live, UnderWay
  <2>4. later \in BOOLEAN /\ (slow => later)
    BY <1>0
  <2>. HIDE DEF o2, later
  <2>5. Runs(o2)
    BY <2>2 DEF Runs
  <2>. QED BY <1>6, <2>1, <2>2, <2>3, <2>4, <2>5
<1>10. ASSUME Countdown, own.countdown # 1 PROVE ButtonInv'
  <2>. DEFINE o2 == [own EXCEPT !.countdown = @ - 1]
  <2>1. own' = o2 /\ slow' = slow /\ UNCHANGED <<calls, page>> /\ own.locked
    BY <1>10 DEF Countdown
  <2>2. /\ o2.locked = own.locked /\ o2.countdown = own.countdown - 1 /\ o2.loading = own.loading
        /\ o2.lost = own.lost
    BY <1>0 DEF Component
  <2>. HIDE DEF o2
  <2>3. Runs(o2)
    <3>1. own.countdown \in 1..COUNTDOWN
      BY <1>0 DEF Component
    <3>2. own.countdown - 1 \in 1..COUNTDOWN
      BY <1>10, <3>1 DEF AccountAssumption
    <3>. QED BY <2>1, <2>2, <3>2 DEF Runs
  <2>. QED BY <1>0, <1>6, <2>1, <2>2, <2>3
<1>11. ASSUME Expire PROVE ButtonInv'
  BY <1>0, <1>6, <1>11 DEF Expire
<1>12. ASSUME Sending PROVE ButtonInv'
  BY <1>12, ButtonsSending
<1>. QED BY <1>1, <1>2, <1>3, <1>4, <1>5, <1>7, <1>8, <1>9, <1>10, <1>11, <1>12 DEF AccountNext

----------------------------------------------------------------------------
(* The reset of a password. *)

LEMMA ResetsStay ==
  ASSUME CallsGood, NEW l \in Lanes, NEW o, NEW o2, NEW lk, NEW srv,
         Resets(calls, o, lk, srv), o.locked => o2.locked,
         \/ o2.password = o.password
         \/ RenewCall(calls[l]) /\ calls[l].at = "ok" /\ o2.password = calls[l].got
  PROVE  Resets(Without(l), o2, lk, srv)
<1>. DEFINE ds == Without(l)
<1>1. ds[1] = calls[3 - l] /\ ds[2] = Vacant /\ 3 - l \in Lanes /\ 3 - l # l
  BY WithoutIs, LanesAre
<1>. HIDE DEF ds
<1>2. ASSUME NEW k \in Lanes, RenewCall(ds[k])
      PROVE  k = 1 /\ RenewCall(calls[3 - l]) /\ ds[k] = calls[3 - l]
  BY <1>1, <1>2, LanesAre DEF RenewCall
<1>3. ASSUME NEW k \in Lanes, RenewCall(ds[k])
      PROVE  /\ o2.locked /\ ds[k].mail = lk.mail /\ ds[k].code = lk.token
             /\ ds[k].at = "ok" => Renewed(srv, lk, ds[k].got)
  BY <1>1, <1>2, <1>3 DEF Resets
<1>4. ASSUME o2.password # 0
      PROVE  /\ Renewed(srv, lk, o2.password)
             /\ \A k \in Lanes : RenewCall(ds[k]) => ds[k].at \notin {"ok", "verified"}
  <2>1. CASE o2.password = o.password
    BY <1>1, <1>2, <1>4, <2>1 DEF Resets
  <2>2. CASE RenewCall(calls[l]) /\ calls[l].at = "ok" /\ o2.password = calls[l].got
    <3>1. Renewed(srv, lk, o2.password)
      BY <2>2 DEF Resets
    <3>2. ~RenewCall(calls[3 - l])
      BY <1>1, <2>2 DEF Resets
    <3>. QED BY <1>2, <3>1, <3>2
  <2>. QED BY <2>1, <2>2
<1>. QED BY <1>2, <1>3, <1>4 DEF Resets, ds

LEMMA ResetsOwn ==
  ASSUME NEW cs, NEW o, NEW o2, NEW lk, NEW srv, Resets(cs, o, lk, srv),
         o2.password = o.password,
         o.locked => o2.locked \/ \A l \in Lanes : ~RenewCall(cs[l])
  PROVE  Resets(cs, o2, lk, srv)
BY DEF Resets

LEMMA ResetsClick ==
  ASSUME NEW cs \in Lined, NEW v \in Lanes, cs[v] = Vacant, NEW o, NEW o2, NEW lk, NEW srv,
         Resets(cs, o, lk, srv), NEW c \in Call, c.at = "sent",
         o2.password = o.password, o.locked => o2.locked,
         c.op = "renew" => ~o.locked /\ o2.locked /\ c.mail = lk.mail /\ c.code = lk.token
  PROVE  Resets(Put(cs, c), o2, lk, srv)
<1>. DEFINE ds == Put(cs, c)
<1>1. PICK k \in Lanes : cs[k] = Vacant /\ ds = [cs EXCEPT ![k] = c]
  BY PutIs
<1>2. ds[k] = c /\ \A l \in Lanes \ {k} : ds[l] = cs[l]
  BY <1>1 DEF Lined
<1>. HIDE DEF ds
<1>3. CASE c.op = "renew"
  <2>1. \A l \in Lanes : ~RenewCall(cs[l])
    BY <1>3 DEF Resets
  <2>2. \A l \in Lanes : RenewCall(ds[l]) => l = k
    BY <1>2, <2>1
  <2>. QED BY <1>2, <1>3, <2>2 DEF Resets, ds
<1>4. CASE c.op # "renew"
  <2>1. \A l \in Lanes : RenewCall(ds[l]) => RenewCall(cs[l]) /\ ds[l] = cs[l]
    BY <1>2, <1>4 DEF RenewCall
  <2>. QED BY <2>1 DEF Resets, ds
<1>. QED BY <1>3, <1>4

LEMMA ResetsServed ==
  ASSUME NEW cs, NEW ds, NEW l \in Lanes, NEW o, NEW lk, NEW srv, NEW after,
         Resets(cs, o, lk, srv), \A k \in Lanes \ {l} : ds[k] = cs[k],
         RenewCall(ds[l]) => RenewCall(cs[l]),
         ds[l].mail = cs[l].mail, ds[l].code = cs[l].code,
         \/ after = srv /\ ~RenewCall(cs[l])
         \/ after = srv /\ ds[l].at \notin {"ok", "verified"}
         \/ /\ after = srv /\ RenewCall(cs[l]) /\ ds[l].at = "verified"
            /\ srv.links[cs[l].mail] = cs[l].code
         \/ /\ RenewCall(cs[l]) /\ cs[l].at = "verified" /\ ds[l].at = "ok"
            /\ Renewed(after, lk, ds[l].got)
  PROVE  Resets(ds, o, lk, after)
<1>1. \A k \in Lanes : RenewCall(ds[k]) =>
        RenewCall(cs[k]) /\ o.locked /\ ds[k].mail = lk.mail /\ ds[k].code = lk.token
  BY DEF Resets
<1>2. \A j, k \in Lanes : RenewCall(ds[j]) /\ RenewCall(ds[k]) => j = k
  BY <1>1 DEF Resets
<1>3. ASSUME NEW k \in Lanes, RenewCall(ds[k]), ds[k].at = "ok"
      PROVE  Renewed(after, lk, ds[k].got)
  <2>1. CASE RenewCall(cs[l]) /\ cs[l].at = "verified" /\ ds[l].at = "ok"
             /\ Renewed(after, lk, ds[l].got)
    <3>1. k = l
      BY <1>1, <1>3, <2>1 DEF Resets
    <3>. QED BY <2>1, <3>1
  <2>2. CASE after = srv /\ (RenewCall(cs[l]) => ds[l].at # "ok")
    <3>1. k # l
      BY <1>1, <1>3, <2>2
    <3>. QED BY <1>3, <2>2, <3>1 DEF Resets
  <2>. QED BY <2>1, <2>2
<1>4. ASSUME o.password # 0
      PROVE  /\ Renewed(after, lk, o.password)
             /\ \A k \in Lanes : RenewCall(ds[k]) => ds[k].at \notin {"ok", "verified"}
  <2>1. /\ Renewed(srv, lk, o.password)
        /\ \A k \in Lanes : RenewCall(cs[k]) => cs[k].at \notin {"ok", "verified"}
    BY <1>4 DEF Resets
  <2>2. ASSUME RenewCall(cs[l]) PROVE srv.links[cs[l].mail] # cs[l].code
    BY <2>1, <2>2 DEF Resets, Renewed
  <2>3. after = srv /\ (RenewCall(cs[l]) => ds[l].at \notin {"ok", "verified"})
    BY <2>1, <2>2
  <2>. QED BY <1>1, <2>1, <2>3
<1>. QED BY <1>1, <1>2, <1>3, <1>4 DEF Resets

LEMMA OnResetPage ==
  ASSUME AccountAssumption, AccountInv, ButtonInv, ResetInv, page = "reset", NEW l \in Lanes,
         calls[l] # Vacant
  PROVE  calls[l].live /\ calls[l].op \in {"renew", "logout"}
<1>1. calls[l].live /\ calls[l].op \in CallOps
  BY AskedIs DEF ResetInv
<1>2. "reset" \in PagesOf(calls[l].op)
  BY <1>1 DEF ButtonInv, Buttons, Fits
<1>. QED BY <1>1, <1>2 DEF PagesOf, CallOps

LEMMA ResetElsewhere ==
  ASSUME page' # "reset", own'.password = 0
  PROVE  ResetInv'
BY DEF ResetInv

LEMMA ResetArrive ==
  ASSUME AccountAssumption, AccountInv, ResetInv, NEW p \in Pages \ {"reset"}, NEW cs,
         Arrive(p, cs), setup' = setup
  PROVE  ResetInv'
<1>1. page' = Landing(p, stored', shown')
  BY DEF Arrive
<1>2. page' # "reset"
  BY <1>1, LandingGuards, Typed1
<1>3. own'.password = 0
  <2>1. Fresh.password = 0
    BY DEF Fresh
  <2>. QED BY <1>1, <1>2, <2>1 DEF Arrive, ResetInv
<1>. QED BY <1>2, <1>3, ResetElsewhere

LEMMA ResetStay ==
  ASSUME AccountAssumption, AccountInv, ButtonInv, ResetInv, NEW l \in Lanes, calls[l] # Vacant,
         NEW component, Stay(l, component), UNCHANGED <<setup, link, server, slow>>,
         \/ component.password = own.password
         \/ calls[l].op = "renew" /\ calls[l].at = "ok" /\ component.password = calls[l].got,
         own.locked => component.locked \/ calls[l].op \in {"send", "forgot"}
  PROVE  ResetInv'
<1>1. /\ page' = page /\ calls' = Without(l)
      /\ own' = IF calls[l].live THEN component ELSE own
  BY DEF Stay
<1>2. /\ calls'[1] = calls[3 - l] /\ calls'[2] = Vacant /\ 3 - l \in Lanes /\ CallsGood
  BY <1>1, WithoutIs, LanesAre, Typed1
<1>3. CASE page # "reset"
  <2>1. calls[l].live => calls[l].op # "renew"
    BY <1>3 DEF ButtonInv, Buttons, Fits, PagesOf
  <2>2. own'.password = own.password
    BY <1>1, <2>1
  <2>3. own'.password = 0
    BY <1>3, <2>2 DEF ResetInv
  <2>. QED BY <1>1, <1>3, <2>3, ResetElsewhere
<1>4. CASE page = "reset"
  <2>1. own' = component /\ calls[l].op \in {"renew", "logout"}
    BY <1>1, <1>4, OnResetPage
  <2>2. \A k \in Lanes : calls'[k] # Vacant => calls'[k].live
    BY <1>2, <1>4, LanesAre DEF ResetInv
  <2>3. ASSUME Console # "berry", ~slow PROVE Resets(calls', own', link, server)
    <3>1. Resets(calls, own, link, server)
      BY <1>4, <2>3 DEF ResetInv
    <3>2. calls[l].op = "renew" => RenewCall(calls[l])
      BY DEF RenewCall
    <3>3. Resets(Without(l), component, link, server)
      BY <1>2, <2>1, <3>1, <3>2, ResetsStay
    <3>. QED BY <1>1, <2>1, <3>3
  <2>. QED BY <1>1, <1>4, <2>2, <2>3 DEF ResetInv, Console
<1>. QED BY <1>3, <1>4

\* the lanes stay as they are
LEMMA ResetOwn ==
  ASSUME ResetInv, UNCHANGED <<setup, page, link, server, calls>>,
         own'.password = own.password, slow => slow',
         ~slow' /\ own.locked => own'.locked \/ \A l \in Lanes : ~(calls[l] # Vacant /\ calls[l].live)
  PROVE  ResetInv'
<1>1. CASE page # "reset"
  <2>1. own'.password = 0
    BY <1>1 DEF ResetInv
  <2>. QED BY <1>1, <2>1, ResetElsewhere
<1>2. CASE page = "reset"
  <2>1. \A l \in Lanes : calls[l] # Vacant => calls[l].live
    BY <1>2 DEF ResetInv
  <2>2. ASSUME Console # "berry", ~slow' PROVE Resets(calls, own', link, server)
    <3>1. Resets(calls, own, link, server)
      BY <1>2, <2>2 DEF ResetInv
    <3>2. own.locked => own'.locked \/ \A l \in Lanes : ~RenewCall(calls[l])
      BY <2>1, <2>2 DEF RenewCall
    <3>. QED BY <3>1, <3>2, ResetsOwn
  <2>. QED BY <1>2, <2>1, <2>2 DEF ResetInv, Console
<1>. QED BY <1>1, <1>2


LEMMA ResetSend ==
  ASSUME AccountAssumption, AccountInv, ResetInv, NEW op, NEW c \in Call, NEW component,
         Click(op, c, component), c.live = TRUE, c.at = "sent",
         component.password = own.password, own.locked => component.locked,
         c.op = "renew" /\ Console # "berry" =>
           ~own.locked /\ component.locked /\ c.mail = link.mail /\ c.code = link.token
  PROVE  ResetInv'
<1>. DEFINE t == [c EXCEPT !.solved = own.solved]
            number == IF t.op \in Numbered THEN steps' ELSE 0
            s == [t EXCEPT !.n = number]
<1>1. /\ UnderWay # Lanes /\ calls' = Put(calls, s) /\ own' = component
      /\ steps < MaxSteps /\ steps' = steps + 1 /\ UNCHANGED <<setup, page, link, server, slow>>
  BY DEF Click, Send, Steps
<1>2. steps' \in 0..MaxSteps /\ 0 \in 0..MaxSteps /\ own.solved \in BOOLEAN /\ calls \in Lined
  BY <1>1, Typed1 DEF AccountAssumption, Component, CallsGood, Lined
<1>3. /\ s \in Call /\ s.op = c.op /\ s.live = TRUE /\ s.at = "sent"
      /\ s.mail = c.mail /\ s.code = c.code
  <2>1. /\ t \in Call /\ t.op = c.op /\ t.live = TRUE /\ t.at = "sent"
        /\ t.mail = c.mail /\ t.code = c.code
    BY <1>2 DEF Call
  <2>. HIDE DEF t
  <2>2. number \in 0..MaxSteps
    BY <1>2
  <2>. HIDE DEF number
  <2>. QED BY <2>1, <2>2 DEF Call
<1>. HIDE DEF s
<1>4. PICK v \in Lanes : calls[v] = Vacant
  BY <1>1 DEF UnderWay
<1>5. CASE page # "reset"
  <2>1. own'.password = 0
    BY <1>1, <1>5 DEF ResetInv
  <2>. QED BY <1>1, <1>5, <2>1, ResetElsewhere
<1>6. CASE page = "reset"
  <2>1. PICK k \in Lanes : Put(calls, s) = [calls EXCEPT ![k] = s]
    BY <1>2, <1>4, PutIs
  <2>2. \A l \in Lanes : calls'[l] # Vacant => calls'[l].live
    BY <1>1, <1>2, <1>3, <1>6, <2>1 DEF ResetInv, Lined
  <2>3. ASSUME Console # "berry", ~slow PROVE Resets(calls', own', link, server)
    <3>1. Resets(calls, own, link, server)
      BY <1>6, <2>3 DEF ResetInv
    <3>2. Resets(Put(calls, s), component, link, server)
      BY <1>2, <1>3, <1>4, <2>3, <3>1, ResetsClick
    <3>. QED BY <1>1, <3>2
  <2>. QED BY <1>1, <1>6, <2>2, <2>3 DEF ResetInv, Console
<1>. QED BY <1>5, <1>6

LEMMA ResetSending ==
  ASSUME AccountAssumption, AccountInv, ResetInv, Sending
  PROVE  ResetInv'
<1>0. /\ own \in Component /\ cookie \in Session /\ 0 \in {0} \cup Mails /\ 0 \in 0..MaxSteps
      /\ Nobody \in Users /\ shown \in Users /\ Accounts \subseteq Users
      /\ Mails \subseteq {0} \cup Mails
  BY Typed1 DEF Users, AccountAssumption
<1>. DEFINE Same(component) ==
              component.password = own.password /\ (own.locked => component.locked)
            lock == [Loading EXCEPT !.locked = TRUE]
<1>00. Same(own) /\ Same(Loading) /\ Same(LockOfSend(Loading)) /\ Same(lock) /\ lock.locked = TRUE
  <2>1. Loading \in Component /\ Loading.password = own.password /\ Loading.locked = own.locked
    BY <1>0 DEF Loading, Component
  <2>. HIDE DEF Loading
  <2>2. Same(Loading) /\ Same(lock) /\ lock.locked = TRUE /\ Same(own)
    BY <2>1 DEF Component
  <2>3. Same(LockOfSend(Loading))
    BY <2>1 DEF Component, LockOfSend
  <2>. QED BY <2>2, <2>3
<1>. HIDE DEF Same, lock
<1>1. ASSUME NEW op \in CallOps \ {"renew"}, NEW w, NEW m, NEW k, NEW c,
             Requested(c, op, cookie, w, m, k), NEW button, NEW component, Same(component),
             Click(button, c, component)
      PROVE  ResetInv'
  <2>1. c \in Call /\ c.live = TRUE /\ c.at = "sent" /\ c.op # "renew"
    BY <1>1 DEF Requested
  <2>. QED BY <1>1, <2>1, ResetSend DEF Same
<1>2. ASSUME NEW who \in Accounts, login(who) PROVE ResetInv'
  <2>. DEFINE c == [Ask("signin", cookie) EXCEPT !.who = who]
              component == IF Console = "berry" THEN Loading ELSE own
  <2>1. Requested(c, "signin", cookie, who, 0, 0)
    BY <1>0, RequestIs DEF CallOps
  <2>2. Click("signin", c, component) /\ Same(component)
    BY <1>00, <1>2 DEF login
  <2>. HIDE DEF c, component
  <2>. QED BY <1>1, <2>1, <2>2 DEF CallOps
<1>3. ASSUME NEW who \in Accounts, wechatLogin(who) PROVE ResetInv'
  <2>. DEFINE c == [Ask("wechat", cookie) EXCEPT !.who = who]
  <2>1. Requested(c, "wechat", cookie, who, 0, 0)
    BY <1>0, RequestIs DEF CallOps
  <2>2. Click("wechat", c, own)
    BY <1>3 DEF wechatLogin
  <2>. HIDE DEF c
  <2>. QED BY <1>00, <1>1, <2>1, <2>2 DEF CallOps
<1>4. ASSUME NEW m \in {0} \cup Mails, NEW n \in 0..MaxSteps, register(m, n) PROVE ResetInv'
  <2>. DEFINE c == [Ask("signup", cookie) EXCEPT !.mail = m, !.code = n]
  <2>1. Requested(c, "signup", cookie, Nobody, m, n)
    BY <1>0, RequestIs DEF CallOps
  <2>2. Click("signup", c, Loading)
    BY <1>4 DEF register
  <2>. HIDE DEF c
  <2>. QED BY <1>00, <1>1, <2>1, <2>2 DEF CallOps
<1>5. ASSUME NEW m \in Mails, sendVerificationCode(m) PROVE ResetInv'
  <2>. DEFINE c == [Ask("send", cookie) EXCEPT !.mail = m]
              component == IF Console = "berry" /\ page = "register" THEN own ELSE LockOfSend(Loading)
  <2>1. Requested(c, "send", cookie, Nobody, m, 0)
    BY <1>0, RequestIs DEF CallOps
  <2>2. Click("send", c, component) /\ Same(component)
    BY <1>00, <1>5 DEF sendVerificationCode
  <2>. HIDE DEF c, component
  <2>. QED BY <1>1, <2>1, <2>2 DEF CallOps
<1>6. ASSUME NEW m \in Mails, PasswordResetForm(m) PROVE ResetInv'
  <2>. DEFINE c == [Ask("forgot", cookie) EXCEPT !.mail = m]
  <2>1. Requested(c, "forgot", cookie, Nobody, m, 0)
    BY <1>0, RequestIs DEF CallOps
  <2>2. Click("forgot", c, lock)
    BY <1>6 DEF PasswordResetForm, lock
  <2>. HIDE DEF c
  <2>. QED BY <1>00, <1>1, <2>1, <2>2 DEF CallOps
<1>7. ASSUME NEW m \in Mails, NEW n \in 1..MaxSteps, bindEmail(m, n) PROVE ResetInv'
  <2>. DEFINE c == [Ask("bind", cookie) EXCEPT !.who = shown, !.mail = m, !.code = n]
  <2>0. n \in 0..MaxSteps /\ "bind" \in CallOps
    BY DEF AccountAssumption, CallOps
  <2>1. Requested(c, "bind", cookie, shown, m, n)
    BY <1>0, <2>0, RequestIs
  <2>2. Click("bind", c, Loading)
    BY <1>7 DEF bindEmail
  <2>. HIDE DEF c
  <2>. QED BY <1>00, <1>1, <2>0, <2>1, <2>2
<1>8. ASSUME PasswordResetConfirm PROVE ResetInv'
  <2>. DEFINE c == [Ask("renew", cookie) EXCEPT !.mail = link.mail, !.code = link.token]
              component == IF Console = "berry" THEN own ELSE lock
  <2>1. /\ page = "reset" /\ Click("renew", c, component) /\ Same(component)
        /\ Console # "berry" => ~own.locked /\ component.locked
    BY <1>00, <1>8 DEF PasswordResetConfirm, ResetEnabled, lock
  <2>2. link.mail \in Mails /\ link.token \in 0..MaxSteps
    BY <2>1 DEF AccountInv, LinkGood, AccountAssumption
  <2>3. Requested(c, "renew", cookie, Nobody, link.mail, link.token)
    BY <1>0, <2>2, RequestIs DEF CallOps
  <2>. HIDE DEF c, component
  <2>4. /\ c \in Call /\ c.live = TRUE /\ c.at = "sent"
        /\ c.mail = link.mail /\ c.code = link.token
    BY <2>3 DEF Requested
  <2>. QED BY <2>1, <2>4, ResetSend DEF Same
<1>9. ASSUME NEW op \in {"token", "password", "delete", "state", "logout"}, NEW button,
             Click(button, Ask(op, cookie), own)
      PROVE  ResetInv'
  <2>. DEFINE c == Ask(op, cookie)
  <2>1. Requested(c, op, cookie, Nobody, 0, 0) /\ op \in CallOps \ {"renew"}
    BY <1>0, AskIs DEF CallOps
  <2>2. Click(button, c, own)
    BY <1>9
  <2>. HIDE DEF c
  <2>. QED BY <1>00, <1>1, <2>1, <2>2
<1>10. CASE generateAccessToken \/ getAffLink \/ changePassword \/ deleteAccount
            \/ getOAuthState \/ logout
  BY <1>9, <1>10 DEF generateAccessToken, getAffLink, changePassword, deleteAccount,
     getOAuthState, logout
<1>. QED BY <1>2, <1>3, <1>4, <1>5, <1>6, <1>7, <1>8, <1>10 DEF Sending, Addresses

LEMMA ResetServes ==
  ASSUME AccountAssumption, AccountInv, NEW l \in Lanes, calls[l] # Vacant, Serve(l) \/ Fail(l),
         calls[l].op \in {"renew", "logout"}
  PROVE  \/ calls[l].op = "logout" /\ server' = server
         \/ server' = server /\ \E at \in {"no", "error", "lost"} : Tell(l, at, Nobody)
         \/ /\ calls[l].op = "renew" /\ server' = server /\ Tell(l, "verified", Nobody)
            /\ server.links[calls[l].mail] = calls[l].code
         \/ calls[l].op = "renew" /\ ResetPassword(l) /\ calls[l].at = "verified"
<1>1. calls[l].at = "verified" => calls[l].op = "renew"
  BY AskedIs DEF Truthful
<1>2. CASE Fail(l)
  BY <1>2 DEF Fail
<1>3. CASE Serve(l)
  <2>1. ResetPassword(l) \/ Logout(l)
    BY <1>3 DEF Serve, Login, TurnstileCheck, SendEmailVerification, SendPasswordResetEmail,
       MailFails, Register, UserAuth, UpdateSelf, DeleteSelf, EmailBind,
       GenerateOAuthCode, GitHubOAuth, Asked, OwnCalls
  <2>2. CASE Logout(l)
    BY <2>2 DEF Logout, Asked, Serving
  <2>3. CASE ResetPassword(l)
    BY <1>1, <2>3 DEF ResetPassword, Asked
  <2>. QED BY <2>1, <2>2, <2>3
<1>. QED BY <1>2, <1>3

LEMMA ToldAre ==
  ASSUME AccountInv, NEW l \in Lanes, calls[l] # Vacant, NEW at, NEW got, Tell(l, at, got)
  PROVE  calls'[l].at = at /\ calls'[l].got = got
<1>1. \E brings, saved : Settle(l, at, got, brings, saved)
  BY DEF Tell
<1>2. PICK brings, saved : Settle(l, at, got, brings, saved)
  BY <1>1
<1>. QED BY <1>2, SettledAre

LEMMA ResetServing ==
  ASSUME AccountAssumption, AccountInv, ButtonInv, ResetInv, NEW l \in Lanes, calls[l] # Vacant,
         Serve(l) \/ Fail(l)
  PROVE  ResetInv'
<1>1. UNCHANGED <<setup, page, own, link, slow>>
  BY ServedAre
<1>2. PICK at, got, brings, saved : Settle(l, at, got, brings, saved)
  BY ServedAre DEF Settled
<1>3. /\ \A k \in Lanes \ {l} : calls'[k] = calls[k]
      /\ calls'[l] # Vacant /\ calls'[l].op = calls[l].op /\ calls'[l].live = calls[l].live
      /\ calls'[l].mail = calls[l].mail /\ calls'[l].code = calls[l].code
  BY <1>2, SettledAre
<1>4. CASE page # "reset"
  <2>1. own'.password = 0
    BY <1>1, <1>4 DEF ResetInv
  <2>. QED BY <1>1, <1>4, <2>1, ResetElsewhere
<1>5. CASE page = "reset"
  <2>1. \A k \in Lanes : calls'[k] # Vacant => calls'[k].live
    BY <1>3, <1>5 DEF ResetInv
  <2>2. calls[l].op \in {"renew", "logout"}
    BY <1>5, OnResetPage
  <2>3. ASSUME Console # "berry", ~slow PROVE Resets(calls', own, link, server')
    <3>1. Resets(calls, own, link, server)
      BY <1>5, <2>3 DEF ResetInv
    <3>2. RenewCall(calls'[l]) <=> RenewCall(calls[l])
      BY <1>3 DEF RenewCall
    <3>3. RenewCall(calls[l]) <=> calls[l].op = "renew"
      BY DEF RenewCall
    <3>4. CASE calls[l].op = "logout" /\ server' = server
      BY <1>3, <3>1, <3>2, <3>3, <3>4, ResetsServed
    <3>5. ASSUME server' = server, NEW how \in {"no", "error", "lost"}, Tell(l, how, Nobody)
          PROVE  Resets(calls', own, link, server')
      <4>1. calls'[l].at = how
        BY <3>5, ToldAre
      <4>2. calls'[l].at \notin {"ok", "verified"}
        BY <4>1
      <4>. QED BY <1>3, <3>1, <3>2, <3>5, <4>2, ResetsServed
    <3>6. CASE /\ calls[l].op = "renew" /\ server' = server /\ Tell(l, "verified", Nobody)
               /\ server.links[calls[l].mail] = calls[l].code
      <4>1. calls'[l].at = "verified"
        BY <3>6, ToldAre
      <4>. QED BY <1>3, <3>1, <3>2, <3>3, <3>6, <4>1, ResetsServed
    <3>7. CASE calls[l].op = "renew" /\ ResetPassword(l) /\ calls[l].at = "verified"
      <4>. DEFINE c == calls[l]
                  passwords == [a \in Accounts |-> IF a \in Holders(c.mail) THEN c.n
                                                   ELSE server.password[a]]
      <4>1. /\ Tell(l, "ok", c.n)
            /\ server' = [server EXCEPT !.password = passwords, !.links[c.mail] = 0]
        BY <3>7 DEF ResetPassword, Asked
      <4>2. calls'[l].at = "ok" /\ calls'[l].got = c.n
        BY <4>1, ToldAre
      <4>3. c.mail = link.mail /\ link.mail \in Mails /\ link.token \in 1..MaxSteps
        BY <1>5, <3>1, <3>3, <3>7 DEF Resets, AccountInv, LinkGood
      <4>4. /\ server'.address = server.address /\ server'.password = passwords
            /\ server'.links[link.mail] = 0
        BY <4>1, <4>3, Typed1 DEF Server
      <4>5. \A a \in Accounts : server.address[a] = link.mail => passwords[a] = c.n
        BY <4>3 DEF Holders
      <4>6. Renewed(server', link, c.n)
        BY <4>3, <4>4, <4>5 DEF Renewed, AccountAssumption
      <4>. QED BY <1>3, <3>1, <3>2, <3>3, <3>7, <4>2, <4>6, ResetsServed
    <3>. QED BY <2>2, <3>4, <3>5, <3>6, <3>7, ResetServes
  <2>. QED BY <1>1, <1>5, <2>1, <2>3 DEF ResetInv, Console
<1>. QED BY <1>4, <1>5

LEMMA ResetReload ==
  ASSUME AccountAssumption, AccountInv, NEW p \in Pages \ {"reset"}, Reload(p), setup' = setup
  PROVE  ResetInv'
<1>1. page' = Landing(p, stored', shown') /\ own' = Fresh
  BY DEF Reload
<1>2. page' # "reset"
  BY <1>1, LandingGuards, Typed1
<1>. QED BY <1>1, <1>2, ResetElsewhere DEF Fresh

LEMMA ResetAnswer ==
  ASSUME AccountAssumption, AccountInv, ButtonInv, ResetInv, NEW l \in Lanes, calls[l] # Vacant,
         Answer(l)
  PROVE  ResetInv'
<1>. DEFINE c == calls[l]
<1>0. own \in Component /\ (c.live => page \in PagesOf(c.op)) /\ c.op \in CallOps /\ setup \in Setups
  BY AnsweredIs, Typed1 DEF ButtonInv, Buttons, Fits
<1>. DEFINE idle == Idled
<1>01. idle \in Component /\ idle.password = own.password /\ idle.locked = own.locked
  BY <1>0 DEF Component, Idled
<1>. HIDE DEF c, idle
<1>1. Rest => slow' = slow /\ setup' = setup /\ server' = server
  BY DEF Rest
<1>2. ASSUME NEW component, Stay(l, component), Rest,
             \/ component.password = own.password
             \/ c.op = "renew" /\ c.at = "ok" /\ component.password = c.got,
             own.locked => component.locked \/ c.op \in {"send", "forgot"}
      PROVE  ResetInv'
  <2>1. link' = link
    BY <1>2 DEF Stay, Rest
  <2>. QED BY <1>1, <1>2, <2>1, ResetStay DEF c
<1>3. ASSUME Stay(l, idle) \/ Stay(l, own), Rest PROVE ResetInv'
  BY <1>01, <1>2, <1>3
<1>4. ASSUME NEW p \in Pages \ {"reset"}, NEW cs, Arrive(p, cs), Rest PROVE ResetInv'
  BY <1>1, <1>4, ResetArrive
<1>5. ASSUME LoginAnswered(l) PROVE ResetInv'
  <2>. DEFINE p == IF c.op = "signin" \/ Console = "berry" THEN "panel" ELSE "home"
  <2>1. Rest /\ (Stay(l, idle) \/ Arrive(p, Without(l)))
    BY <1>5 DEF LoginAnswered, c, idle
  <2>2. p \in Pages \ {"reset"}
    BY DEF Pages
  <2>. HIDE DEF p
  <2>. QED BY <1>3, <1>4, <2>1, <2>2
<1>6. ASSUME RegisterAnswered(l) PROVE ResetInv'
  <2>1. Rest /\ (Stay(l, idle) \/ Arrive("login", Without(l)))
    BY <1>6 DEF RegisterAnswered, idle
  <2>2. "login" \in Pages \ {"reset"}
    BY DEF Pages
  <2>. QED BY <1>3, <1>4, <2>1, <2>2
<1>7. ASSUME MailAnswered(l) PROVE ResetInv'
  <2>. DEFINE mailed == [idle EXCEPT !.done = c.op = "forgot"]
              component == IF c.at = "ok" THEN mailed
                           ELSE IF c.op = "send" THEN SendRefused ELSE ForgotRefused
  <2>1. Stay(l, component) /\ Rest /\ c.op \in {"send", "forgot"}
    BY <1>7 DEF MailAnswered, Answered, c, idle
  <2>2. mailed.password = own.password /\ Unlocked(idle).password = own.password
    BY <1>01 DEF Component, Unlocked
  <2>3. SendRefused \in {idle, Unlocked(idle)} /\ ForgotRefused \in {idle, Unlocked(idle)}
    BY DEF SendRefused, ForgotRefused, Unlock, idle
  <2>. HIDE DEF mailed
  <2>4. component \in {mailed, idle, Unlocked(idle)}
    BY <2>3
  <2>. HIDE DEF component
  <2>5. component.password = own.password
    BY <1>01, <2>2, <2>4
  <2>. QED BY <1>2, <2>1, <2>5
<1>8. ASSUME ResetAnswered(l) PROVE ResetInv'
  <2>. DEFINE shows == [idle EXCEPT !.password = c.got]
  <2>1. Rest /\ c.op = "renew" /\ Stay(l, IF c.at = "ok" THEN shows ELSE idle)
    BY <1>8 DEF ResetAnswered, Answered, c, idle
  <2>2. shows.password = c.got /\ shows.locked = own.locked
    BY <1>01 DEF Component
  <2>. HIDE DEF shows
  <2>3. CASE c.at = "ok"
    BY <1>2, <2>1, <2>2, <2>3
  <2>4. CASE c.at # "ok"
    BY <1>3, <2>1, <2>4
  <2>. QED BY <2>3, <2>4
<1>9. ASSUME BindAnswered(l) \/ Told(l) \/ onGitHubOAuthClicked(l) \/ sendCodeLeft(l)
       PROVE  ResetInv'
  <2>1. Rest /\ (Stay(l, idle) \/ Stay(l, own))
    BY <1>9 DEF BindAnswered, Told, onGitHubOAuthClicked, sendCodeLeft, idle
  <2>. QED BY <1>3, <2>1
<1>10. ASSUME getUserData(l) \/ Deleted(l) PROVE ResetInv'
  <2>1. Rest /\ UNCHANGED <<page, own>> /\ c.op \in {"self", "delete"}
    BY <1>10 DEF getUserData, Deleted, Answered, c
  <2>2. page # "reset"
    BY <2>1, OnResetPage DEF c
  <2>. QED BY <2>1, <2>2, ResetElsewhere DEF ResetInv
<1>11. ASSUME LoggedOut(l) PROVE ResetInv'
  <2>. DEFINE p == IF Console = "berry" THEN "home" ELSE "login"
  <2>1. Rest /\ Arrive(p, Without(l)) /\ p \in Pages \ {"reset"}
    BY <1>11 DEF LoggedOut, Pages
  <2>. HIDE DEF p
  <2>. QED BY <1>4, <2>1
<1>12. ASSUME sendCode(l) PROVE ResetInv'
  <2>. DEFINE p == IF c.at = "no" THEN (IF Console = "berry" THEN "login" ELSE "personal")
                   ELSE IF Console = "berry" THEN "panel"
                   ELSE IF c.got = Nobody THEN "personal" ELSE "home"
  <2>1. Rest /\ Arrive(p, Without(l))
    BY <1>12 DEF sendCode, c
  <2>2. p \in Pages \ {"reset"}
    BY DEF Pages
  <2>. HIDE DEF p
  <2>. QED BY <1>4, <2>1, <2>2
<1>13. ASSUME githubLoginFailed(l) PROVE ResetInv'
  <2>1. Rest /\ Arrive("login", Without(l)) /\ "login" \in Pages \ {"reset"}
    BY <1>13 DEF githubLoginFailed, Pages
  <2>. QED BY <1>4, <2>1
<1>14. ASSUME Expired(l) PROVE ResetInv'
  <2>1. Reload("login") /\ setup' = setup /\ "login" \in Pages \ {"reset"}
    BY <1>1, <1>14 DEF Expired, Pages
  <2>. QED BY <2>1, ResetReload
<1>15. ASSUME Thrown(l) PROVE ResetInv'
  <2>. DEFINE o == IF Console = "berry" /\ c.op \in Caught THEN idle ELSE own
              component == [o EXCEPT !.lost = TRUE]
  <2>1. Stay(l, component) /\ Rest
    BY <1>15 DEF Thrown, c, idle
  <2>2. o \in Component /\ o.locked = own.locked /\ o.password = own.password
    BY <1>0, <1>01
  <2>. HIDE DEF o
  <2>3. component.password = own.password /\ component.locked = own.locked
    BY <2>2 DEF Component
  <2>. HIDE DEF component
  <2>. QED BY <1>2, <2>1, <2>3
<1>. QED BY <1>5, <1>6, <1>7, <1>8, <1>9, <1>10, <1>11, <1>12, <1>13, <1>14, <1>15 DEF Answer

LEMMA ResetLink ==
  ASSUME AccountAssumption, AccountInv, NEW m, NEW n, OpenLink(m, n)
  PROVE  ResetInv'
<1>. DEFINE none == [l \in Lanes |-> Vacant]
<1>1. page' = Landing("reset", stored', shown') /\ own' = Fresh /\ calls' = Mount(page', none)
  BY DEF OpenLink, Reload
<1>2. own'.password = 0
  BY <1>1 DEF Fresh
<1>3. CASE page' = "reset"
  <2>1. calls' = none
    BY <1>1, <1>3 DEF Mount
  <2>2. \A l \in Lanes : calls'[l] = Vacant
    BY <2>1
  <2>3. Resets(calls', own', link', server')
    BY <1>2, <2>2 DEF Resets, RenewCall
  <2>. QED BY <1>2, <2>2, <2>3 DEF ResetInv
<1>4. CASE page' # "reset"
  BY <1>2, <1>4, ResetElsewhere
<1>. QED BY <1>3, <1>4

LEMMA InitResetInv ==
  ASSUME AccountInit
  PROVE  ResetInv
BY DEF AccountInit, Fresh, ResetInv

LEMMA NextResetInv ==
  ASSUME AccountAssumption, AccountInv, ButtonInv, ResetInv, [AccountNext]_accountVars
  PROVE  ResetInv'
<1>0. own \in Component /\ page \in Pages /\ setup \in Setups /\ Console \in {"default", "air", "berry"}
  BY Typed1
<1>1. CASE UNCHANGED accountVars
  BY <1>1 DEF accountVars, ResetInv, Console
<1>2. ASSUME NEW p \in (Offered \cup Menu) \cap Pages, Visit(p) PROVE ResetInv'
  <2>1. p \in Pages \ {"reset"}
    BY <1>0, NoWayToReset
  <2>. QED BY <1>2, <2>1, ResetArrive DEF Visit
<1>3. ASSUME NEW l \in UnderWay, Serve(l) \/ Answer(l) \/ Fail(l) PROVE ResetInv'
  <2>1. l \in Lanes /\ calls[l] # Vacant
    BY DEF UnderWay
  <2>. QED BY <1>3, <2>1, ResetServing, ResetAnswer
<1>4. ASSUME NEW m, NEW n, OpenLink(m, n) PROVE ResetInv'
  BY <1>4, ResetLink
<1>5. ASSUME ComeBack PROVE ResetInv'
  <2>1. page' = Landing("oauth", stored', shown') /\ own' = Fresh /\ setup' = setup
    BY <1>5 DEF ComeBack
  <2>2. page' # "reset"
    BY <1>0, <2>1, LandingGuards DEF Pages
  <2>3. own'.password = 0
    BY <2>1 DEF Fresh
  <2>. QED BY <2>2, <2>3, ResetElsewhere
<1>6. ASSUME TurnstileVerified PROVE ResetInv'
  <2>. DEFINE o2 == [own EXCEPT !.solved = TRUE]
  <2>1. own' = o2 /\ UNCHANGED <<setup, page, link, server, calls, slow>>
    BY <1>6 DEF TurnstileVerified
  <2>2. o2.password = own.password /\ o2.locked = own.locked
    BY <1>0 DEF Component
  <2>. HIDE DEF o2
  <2>. QED BY <2>1, <2>2, ResetOwn
<1>7. ASSUME SendNothing PROVE ResetInv'
  <2>. DEFINE o2 == [own EXCEPT !.locked = TRUE]
  <2>1. own' = o2 /\ UNCHANGED <<setup, page, link, server, calls, slow>>
    BY <1>7 DEF SendNothing
  <2>2. o2.password = own.password /\ o2.locked = TRUE
    BY <1>0 DEF Component
  <2>. HIDE DEF o2
  <2>. QED BY <2>1, <2>2, ResetOwn
<1>8. ASSUME Countdown, own.countdown = 1 PROVE ResetInv'
  <2>. DEFINE o2 == Unlocked(own)
  <2>1. /\ own' = o2 /\ slow' = (slow \/ Live # {})
        /\ UNCHANGED <<setup, page, link, server, calls>>
    BY <1>8 DEF Countdown
  <2>2. o2.password = own.password
    BY <1>0 DEF Component, Unlocked
  <2>. HIDE DEF o2
  <2>3. slow' \/ \A l \in Lanes : ~(calls[l] # Vacant /\ calls[l].live)
    BY <2>1 DEF Live, UnderWay
  <2>. QED BY <2>1, <2>2, <2>3, ResetOwn
<1>9. ASSUME Countdown, own.countdown # 1 PROVE ResetInv'
  <2>. DEFINE o2 == [own EXCEPT !.countdown = @ - 1]
  <2>1. own' = o2 /\ UNCHANGED <<setup, page, link, server, calls, slow>>
    BY <1>9 DEF Countdown
  <2>2. o2.password = own.password /\ o2.locked = own.locked
    BY <1>0 DEF Component
  <2>. HIDE DEF o2
  <2>. QED BY <2>1, <2>2, ResetOwn
<1>10. ASSUME Expire PROVE ResetInv'
  <2>1. UNCHANGED <<setup, page, link, server, calls, slow, own>>
    BY <1>10 DEF Expire
  <2>. QED BY <2>1, ResetOwn
<1>11. ASSUME Sending PROVE ResetInv'
  BY <1>11, ResetSending
<1>. QED BY <1>1, <1>2, <1>3, <1>4, <1>5, <1>6, <1>7, <1>8, <1>9, <1>10, <1>11 DEF AccountNext

----------------------------------------------------------------------------
(* What the properties say follows. *)

LEMMA OneAtMost ==
  ASSUME NEW S, \A a, b \in S : a = b
  PROVE  Cardinality(S) <= 1
<1>1. CASE S = {}
  BY <1>1, FS_EmptySet
<1>2. CASE S # {}
  <2>1. PICK a : a \in S
    BY <1>2
  <2>2. S = {a}
    BY <2>1
  <2>. QED BY <2>2, FS_Singleton
<1>. QED BY <1>1, <1>2

LEMMA PromiseKept ==
  ASSUME AccountAssumption, AccountInv, ButtonInv, ResetInv
  PROVE  MailsKeepTheirPromise
<1>1. LockRunsOut
  BY DEF ButtonInv, Buttons, Runs, LockRunsOut
<1>2. OneMailAtATime
  <2>. DEFINE S == {l \in Live : calls[l].op \in {"send", "forgot"}}
  <2>1. ASSUME ~slow, page \in {"forgotten", "personal"}
        PROVE  Cardinality(S) <= 1
    <3>1. \A l \in S : l \in Lanes /\ MailCall(calls[l])
      BY DEF Live, UnderWay, MailCall
    <3>2. \A a, b \in S : a = b
      BY <2>1, <3>1 DEF ButtonInv, Buttons, OneMail
    <3>. HIDE DEF S
    <3>. QED BY <3>2, OneAtMost
  <2>. QED BY <2>1 DEF OneMailAtATime
<1>3. ShownPasswordWorks
  <2>1. ASSUME Console # "berry", ~slow, own.password # 0
        PROVE  \A a \in Holders(link.mail) : server.password[a] = own.password
    <3>1. Resets(calls, own, link, server)
      BY <2>1 DEF ResetInv
    <3>2. Renewed(server, link, own.password)
      BY <2>1, <3>1 DEF Resets
    <3>. QED BY <3>2 DEF Renewed, Holders
  <2>. QED BY <2>1 DEF ShownPasswordWorks
<1>. QED BY <1>1, <1>2, <1>3 DEF MailsKeepTheirPromise

LEMMA SpinnerKept ==
  ASSUME ButtonInv
  PROVE  AccountSpinner
BY DEF ButtonInv, Buttons, Spins, BusyCall, AccountSpinner, Live, UnderWay

AllInv == AccountInv /\ ButtonInv /\ ResetInv

\* The inductive invariant of the account, in the project's composition with the forms:
\* there the account moves by its own steps only.
THEOREM AllInvariance == WebFormsSpec => []AllInv
<1>1. WebFormsInit => AllInv
  BY AccountAssumption, InitAccountInv, InitButtonInv, InitResetInv DEF WebFormsInit, AllInv
<1>2. AllInv /\ [WebFormsNext]_<<formVars, accountVars, focus>> => AllInv'
  <2>1. ASSUME AllInv, [WebFormsNext]_<<formVars, accountVars, focus>>
        PROVE  AllInv'
    <3>1. [AccountNext]_accountVars
      BY <2>1 DEF WebFormsNext
    <3>2. AccountInv'
      BY <2>1, <3>1, AccountAssumption, NextAccountInv DEF AllInv
    <3>. QED BY <2>1, <3>1, <3>2, AccountAssumption, NextButtonInv, NextResetInv DEF AllInv
  <2>. QED BY <2>1
<1>. QED BY <1>1, <1>2, PTL DEF WebFormsSpec

\* The server, the browser and the tab mean the same user, in whatever order the answers
\* come, until the session is changed by something else than signing in or out.
THEOREM SignedInStaysAgreed == WebFormsSpec => []SignedInIsAgreed
<1>1. AllInv => SignedInIsAgreed
  BY DEF AllInv, AccountInv
<1>. QED BY <1>1, AllInvariance, PTL

\* One click is one mail until its countdown ends, a lock runs out, and the password that
\* the reset page shows is the one of the account (sendVerificationCode, PasswordResetForm,
\* PasswordResetConfirm).
THEOREM MailsKeepPromise == WebFormsSpec => []MailsKeepTheirPromise
<1>1. AllInv => MailsKeepTheirPromise
  BY AccountAssumption, PromiseKept DEF AllInv
<1>. QED BY <1>1, AllInvariance, PTL

----------------------------------------------------------------------------
(* What a form, its loads and its saves hold. *)

Data == [Parts -> Values]
LoadCall == [at : {"preparing", "asked", "read"}, id : 0..3, data : Data]
SaveCall ==
  [at : {"sent", "found", "stored", "refused"}, put : BOOLEAN, id : 0..2, data : Data, left : 1..2,
   some : BOOLEAN, opening : 0..MaxOpenings, restarted : BOOLEAN]

\* the loads and the saves under way, by their ids
LoadsFit(ls) ==
  /\ ls \in [Slots -> LoadCall \cup {Idle}]
  /\ \A l \in Slots : ls[l].at \in {"asked", "read"} => ls[l].id # New
  /\ \A l \in Slots : ls[l].at = "preparing" => Theme = "air" /\ Entity = "channel"
SavesFit(ss, late) ==
  /\ ss \in [Slots -> SaveCall \cup {Idle}]
  /\ \A s \in Slots : ss[s] # Idle => ss[s].opening <= late

\* A timer runs for the tokens of air, and the side sheet of a user is open for a user.
Modes(e, v, c) ==
  /\ c => Theme = "air" /\ Entity = "token"
  /\ Theme = "air" /\ Entity = "user" /\ v => e # New

FormTyped ==
  FormTypeOK /\ LoadsFit(formLoads) /\ SavesFit(saves, openings) /\ Modes(editing, visible, closing)

\* The same of the next state, where the sheet is the same.
Held(c, g, t) ==
  c \in Data /\ g \in Data /\ t \subseteq Shown /\ (Theme # "berry" => g = Origin)

LEMMA FormTypes ==
  ASSUME FormTyped
  PROVE  /\ Held(content, given, typedSince) /\ records \in [RecordIds -> Data]
         /\ visible \in BOOLEAN /\ closing \in BOOLEAN /\ formBusy \in BOOLEAN /\ spent \in BOOLEAN
         /\ astray \in BOOLEAN /\ failed \in BOOLEAN /\ lostOne \in BOOLEAN /\ unsure \in BOOLEAN
         /\ editing \in 0..2 /\ openings \in 0..MaxOpenings /\ acts \in 0..MaxActs
         /\ LoadsFit(formLoads) /\ SavesFit(saves, openings) /\ Modes(editing, visible, closing)
         /\ statusRead \in [Slots -> Values]
<1>1. FormTypeOK
  BY DEF FormTyped
<1>5. statusRead \in [Slots -> Values]
  BY <1>1 DEF FormTypeOK
<1>2. /\ visible \in BOOLEAN /\ closing \in BOOLEAN /\ formBusy \in BOOLEAN /\ spent \in BOOLEAN
      /\ astray \in BOOLEAN /\ failed \in BOOLEAN /\ lostOne \in BOOLEAN /\ unsure \in BOOLEAN
  BY <1>1 DEF FormTypeOK
<1>3. Held(content, given, typedSince) /\ records \in [RecordIds -> Data]
  <2>1. /\ content \in [Parts -> Values] /\ given \in [Parts -> Values]
        /\ records \in [RecordIds -> [Parts -> Values]]
        /\ typedSince \subseteq Shown /\ (Theme # "berry" => given = Origin)
    BY <1>1 DEF FormTypeOK
  <2>. QED BY <2>1 DEF Held, Data
<1>4. editing \in 0..2 /\ openings \in 0..MaxOpenings /\ acts \in 0..MaxActs
  BY <1>1 DEF FormTypeOK, RecordIds, New
<1>. QED BY <1>2, <1>3, <1>4, <1>5 DEF FormTyped

LEMMA SheetIs ==
  ASSUME FormTyped
  PROVE  /\ Theme \in {"default", "air", "berry"}
         /\ Entity \in {"channel", "token", "user", "newuser", "redemption"}
<1>1. sheet \in Sheets
  BY DEF FormTyped, FormTypeOK
<1>2. ASSUME NEW theme \in {"default", "air", "berry"},
             NEW es \in SUBSET {"token", "user", "newuser", "redemption"}, NEW s \in Others(theme, es)
      PROVE  s.theme = theme /\ s.entity \in es
  BY DEF Others
<1>3. ASSUME NEW theme \in {"default", "air", "berry"}, NEW ts, NEW s \in Channels(theme, ts)
      PROVE  s.theme = theme /\ s.entity = "channel"
  BY DEF Channels
<1>. QED BY <1>1, <1>2, <1>3 DEF Sheets, Theme, Entity

LEMMA SheetSame ==
  ASSUME sheet' = sheet
  PROVE  /\ Parts' = Parts /\ Shown' = Shown /\ Theme' = Theme /\ Entity' = Entity
         /\ Origin' = Origin /\ Data' = Data
<1>1. Shown' = Shown /\ Theme' = Theme /\ Entity' = Entity
  BY DEF Shown, Theme, Entity
<1>2. Parts' = Parts
  BY <1>1 DEF Parts
<1>. QED BY <1>1, <1>2 DEF Origin, Data

LEMMA FormMade ==
  ASSUME FormTyped, sheet' = sheet, Held(content', given', typedSince'),
         records' \in [RecordIds -> Data], statusRead' \in [Slots -> Values], visible' \in BOOLEAN, closing' \in BOOLEAN,
         formBusy' \in BOOLEAN, spent' \in BOOLEAN, astray' \in BOOLEAN, failed' \in BOOLEAN,
         lostOne' \in BOOLEAN, unsure' \in BOOLEAN, editing' \in 0..2,
         openings' \in 0..MaxOpenings, acts' \in 0..MaxActs,
         LoadsFit(formLoads'), SavesFit(saves', openings'), Modes(editing', visible', closing')
  PROVE  FormTyped'
<1>1. /\ Parts' = Parts /\ Shown' = Shown /\ Theme' = Theme /\ Entity' = Entity
      /\ Origin' = Origin /\ Data' = Data
  BY SheetSame
<1>2. FormTypeOK'
  BY <1>1 DEF FormTyped, FormTypeOK, Held, RecordIds, New, Data
<1>3. LoadsFit(formLoads)' /\ SavesFit(saves, openings)'
  BY <1>1 DEF LoadsFit, SavesFit, LoadCall, SaveCall
<1>4. Modes(editing, visible, closing)'
  BY <1>1 DEF Modes
<1>. QED BY <1>2, <1>3, <1>4 DEF FormTyped

LEMMA PartsAre == /\ "id" \in Parts /\ "status" \in Parts /\ "secret" \in Parts
                  /\ Shown \subseteq Parts
BY DEF Parts

LEMMA OriginTyped == Origin \in Data
BY DEF Origin, Data, Unset, Values

LEMMA GivenTyped ==
  ASSUME NEW i \in 1..3, NEW rs \in [RecordIds -> Data]
  PROVE  Given(i, rs) \in Data
<1>1. \A r \in Parts : i \in RecordIds => rs[i][r] \in Values
  BY DEF Data
<1>2. i # Self => i \in RecordIds
  BY DEF RecordIds, Self
<1>. QED BY <1>1, <1>2 DEF Given, Data, Values, Unset, Self

LEMMA SentTyped ==
  ASSUME NEW c \in Data
  PROVE  Sent(c) \in Data
BY DEF Sent, Data, Values, Typed, Preset

LEMMA ComposedTyped ==
  ASSUME NEW c \in Data
  PROVE  Composed(c) \in Data
<1>1. Preset \in Values
  BY DEF Preset, Values
<1>2. [c EXCEPT !["secret"] = Preset] \in Data
  BY <1>1 DEF Data
<1>3. ComposedDefault(c) \in Data
  BY <1>2 DEF ComposedDefault
<1>. QED BY <1>3 DEF Composed, ComposedBerry

LEMMA FreeIs ==
  ASSUME NEW slots, Free(slots) # {}
  PROVE  \E l \in Free(slots) : \A m \in Free(slots) : l <= m
<1>1. Free(slots) \subseteq {1, 2}
  BY DEF Free, Slots
<1>2. CASE 1 \in Free(slots)
  BY <1>1, <1>2
<1>3. CASE 1 \notin Free(slots)
  BY <1>1, <1>3
<1>. QED BY <1>2, <1>3

LEMMA FreeLoadIs ==
  ASSUME Free(formLoads) # {}
  PROVE  FreeLoad \in Slots /\ formLoads[FreeLoad] = Idle
<1>1. FreeLoad \in Free(formLoads)
  BY FreeIs DEF FreeLoad
<1>. QED BY <1>1 DEF Free

LEMMA FreeSaveIs ==
  ASSUME Free(saves) # {}
  PROVE  FreeSave \in Slots /\ saves[FreeSave] = Idle
<1>1. FreeSave \in Free(saves)
  BY FreeIs DEF FreeSave
<1>. QED BY <1>1 DEF Free

LEMMA NotIdle == \A c \in LoadCall \cup SaveCall : c # Idle /\ c.at # "none"
BY DEF LoadCall, SaveCall, Idle

\* What the form is given to hold.
LEMMA HoldIs ==
  ASSUME FormTyped, NEW data \in Data, Hold(data)
  PROVE  /\ Held(content', given', typedSince')
         /\ Theme = "berry" => formBusy' \in BOOLEAN /\ (formBusy' => formBusy)
<1>. QED BY FormTypes DEF Hold, Held

LEMMA LoadFits ==
  ASSUME FormTyped, Free(formLoads) # {}, NEW id \in 1..3
  PROVE  LoadsFit(Load(FreeLoad, "asked", id))
<1>. DEFINE c == [at |-> "asked", id |-> id, data |-> Origin]
<1>1. c \in LoadCall
  BY OriginTyped DEF LoadCall
<1>2. c.at = "asked" /\ c.id # New
  BY DEF New
<1>3. Load(FreeLoad, "asked", id) = [formLoads EXCEPT ![FreeLoad] = c]
  BY DEF Load
<1>. HIDE DEF c
<1>. QED BY <1>1, <1>2, <1>3, FreeLoadIs, FormTypes DEF LoadsFit

LEMMA MountedIs ==
  ASSUME FormTyped, NEW id \in 0..2, Mounted(id), Theme # "default" \/ id = editing
  PROVE  /\ editing' = id /\ Held(content', given', typedSince') /\ formBusy' \in BOOLEAN
         /\ LoadsFit(formLoads')
<1>1. /\ Held(content, given, typedSince) /\ formBusy \in BOOLEAN /\ LoadsFit(formLoads)
      /\ Held(Origin, Origin, {}) /\ Origin \in Data
  BY FormTypes, OriginTyped DEF Held
<1>2. ASSUME id = editing
      PROVE  /\ Held(content', given', typedSince') /\ formBusy' \in BOOLEAN
             /\ LoadsFit(formLoads')
  BY <1>1, <1>2 DEF Mounted, Held
<1>3. ASSUME mountedBerry(id), Theme = "berry"
      PROVE  /\ Held(content', given', typedSince') /\ formBusy' \in BOOLEAN
             /\ LoadsFit(formLoads')
  <2>1. id # New => id \in 1..3
    BY DEF New
  <2>. QED BY <1>1, <1>3, <2>1, LoadFits DEF mountedBerry, Held
<1>4. ASSUME mountedAirChannel(id), Theme = "air", Entity = "channel"
      PROVE  /\ Held(content', given', typedSince') /\ formBusy' \in BOOLEAN
             /\ LoadsFit(formLoads')
  <2>. DEFINE others == [l \in Slots |-> IF formLoads[l].at = "preparing" THEN Idle ELSE formLoads[l]]
              k == CHOOSE l \in Free(others) : TRUE
              c == [at |-> "preparing", id |-> id, data |-> Origin]
  <2>1. Free(others) # {} /\ formLoads' = [others EXCEPT ![k] = c]
        /\ UNCHANGED <<content, given, formBusy, typedSince>>
    BY <1>4 DEF mountedAirChannel
  <2>2. k \in Slots
    BY <2>1 DEF Free
  <2>3. c \in LoadCall /\ c.at = "preparing"
    BY <1>1 DEF LoadCall
  <2>4. LoadsFit(others)
    BY <1>1 DEF LoadsFit, Idle
  <2>. HIDE DEF others, k, c
  <2>5. LoadsFit([others EXCEPT ![k] = c])
    BY <1>4, <2>2, <2>3, <2>4 DEF LoadsFit
  <2>. QED BY <1>1, <2>1, <2>5
<1>5. ASSUME mountedAirToken(id), Theme # "berry"
      PROVE  /\ Held(content', given', typedSince') /\ formBusy' \in BOOLEAN
             /\ LoadsFit(formLoads')
  <2>1. CASE id # New /\ editing = New
    <3>1. id \in 1..3
      BY <2>1 DEF New
    <3>. QED BY <1>1, <1>5, <2>1, <3>1, LoadFits DEF mountedAirToken
  <2>2. CASE id = New /\ editing # New
    BY <1>1, <1>5, <2>2, HoldIs DEF mountedAirToken
  <2>3. CASE ~(id # New /\ editing = New) /\ ~(id = New /\ editing # New)
    BY <1>1, <1>5, <2>3 DEF mountedAirToken
  <2>. QED BY <2>1, <2>2, <2>3
<1>6. ASSUME mountedAirUser(id)
      PROVE  /\ Held(content', given', typedSince') /\ formBusy' \in BOOLEAN
             /\ LoadsFit(formLoads')
  <2>1. (IF id = New THEN Self ELSE id) \in 1..3
    BY DEF New, Self
  <2>. QED BY <1>1, <1>6, <2>1, LoadFits DEF mountedAirUser
<1>7. ASSUME mountedAirRedemption(id), Theme = "air"
      PROVE  /\ Held(content', given', typedSince') /\ formBusy' \in BOOLEAN
             /\ LoadsFit(formLoads')
  <2>1. id # New => id \in 1..3
    BY DEF New
  <2>. QED BY <1>1, <1>7, <2>1, LoadFits, HoldIs DEF mountedAirRedemption
<1>8. editing' = id
  BY DEF Mounted
<1>9. id # editing =>
        \/ Theme = "berry" /\ mountedBerry(id)
        \/ Theme = "air" /\ Entity = "channel" /\ mountedAirChannel(id)
        \/ Theme = "air" /\ mountedAirToken(id)
        \/ mountedAirUser(id) \/ (Theme = "air" /\ mountedAirRedemption(id))
  <2>1. id # editing => IF Theme = "berry" THEN mountedBerry(id)
                        ELSE CASE Entity = "channel" -> mountedAirChannel(id)
                               [] Entity = "token" -> mountedAirToken(id)
                               [] Entity = "user" -> mountedAirUser(id)
                               [] OTHER -> mountedAirRedemption(id)
    BY DEF Mounted
  <2>2. CASE Theme = "berry"
    <3>1. id # editing => mountedBerry(id)
      BY <2>1, <2>2
    <3>. QED BY <2>2, <3>1
  <2>3. CASE Theme # "berry"
    <3>1. id # editing => \/ Entity = "channel" /\ mountedAirChannel(id)
                          \/ mountedAirToken(id) \/ mountedAirUser(id)
                          \/ mountedAirRedemption(id)
      BY <2>1, <2>3
    <3>. QED BY <2>3, <3>1, SheetIs
  <2>. QED BY <2>2, <2>3
<1>. QED BY <1>2, <1>3, <1>4, <1>5, <1>6, <1>7, <1>8, <1>9

----------------------------------------------------------------------------
(* The types of a step. *)

LEMMA LoadsChange ==
  ASSUME NEW ls, LoadsFit(ls), NEW l \in Slots, NEW c,
         \/ c = Idle
         \/ c \in LoadCall /\ c.at \in {"asked", "read"} /\ c.id # New
  PROVE  LoadsFit([ls EXCEPT ![l] = c])
<1>1. c \in LoadCall \cup {Idle}
  OBVIOUS
<1>2. c.at \in {"asked", "read"} => c.id # New
  BY DEF Idle
<1>3. c.at # "preparing"
  BY DEF Idle
<1>. QED BY <1>1, <1>2, <1>3 DEF LoadsFit

LEMMA SavesChange ==
  ASSUME NEW ss, NEW late, SavesFit(ss, late), NEW s \in Slots, NEW c,
         c = Idle \/ (c \in SaveCall /\ c.opening <= late)
  PROVE  SavesFit([ss EXCEPT ![s] = c], late)
BY DEF SavesFit

LEMMA LoadIs ==
  ASSUME FormTyped, NEW l \in Slots, formLoads[l].at \in {"preparing", "asked", "read"}
  PROVE  /\ formLoads[l] \in LoadCall /\ formLoads[l] # Idle
         /\ formLoads[l].at \in {"asked", "read"} => formLoads[l].id \in 1..3
         /\ formLoads[l].at = "preparing" => Theme = "air" /\ Entity = "channel"
         /\ LoadsFit([formLoads EXCEPT ![l] = Idle])
<1>1. LoadsFit(formLoads)
  BY FormTypes
<1>2. formLoads[l] \in LoadCall \cup {Idle} /\ Idle.at = "none"
  BY <1>1 DEF LoadsFit, Idle
<1>3. formLoads[l] \in LoadCall /\ formLoads[l] # Idle
  BY <1>2
<1>4. formLoads[l].at \in {"asked", "read"} => formLoads[l].id \in 1..3
  BY <1>1, <1>3 DEF LoadsFit, LoadCall, New
<1>. QED BY <1>1, <1>3, <1>4, LoadsChange DEF LoadsFit

LEMMA SaveIs ==
  ASSUME FormTyped, NEW s \in Slots, saves[s].at \in {"sent", "found", "stored", "refused"}
  PROVE  saves[s] \in SaveCall /\ saves[s] # Idle /\ saves[s].opening <= openings
<1>1. SavesFit(saves, openings)
  BY FormTypes
<1>2. saves[s] \in SaveCall \cup {Idle} /\ Idle.at = "none"
  BY <1>1 DEF SavesFit, Idle
<1>3. saves[s] \in SaveCall /\ saves[s] # Idle
  BY <1>2
<1>. QED BY <1>1, <1>3 DEF SavesFit

\* a new way of a load, or of a save
LEMMA LoadMoves ==
  ASSUME FormTyped, NEW l \in Slots, NEW data \in Data, NEW at \in {"asked", "read"},
         formLoads[l].at \in {"preparing", "asked", "read"}, formLoads[l].id # New
  PROVE  /\ LoadsFit([formLoads EXCEPT ![l].at = at])
         /\ LoadsFit([formLoads EXCEPT ![l].at = at, ![l].data = data])
<1>. DEFINE c == [formLoads[l] EXCEPT !.at = at]
            d == [formLoads[l] EXCEPT !.at = at, !.data = data]
<1>1. formLoads[l] \in LoadCall /\ LoadsFit(formLoads)
  BY LoadIs, FormTypes
<1>2. /\ c \in LoadCall /\ c.at = at /\ c.id # New
      /\ d \in LoadCall /\ d.at = at /\ d.id # New
  BY <1>1 DEF LoadCall
<1>3. /\ [formLoads EXCEPT ![l].at = at] = [formLoads EXCEPT ![l] = c]
      /\ [formLoads EXCEPT ![l].at = at, ![l].data = data] = [formLoads EXCEPT ![l] = d]
  BY <1>1 DEF LoadsFit
<1>. HIDE DEF c, d
<1>4. LoadsFit([formLoads EXCEPT ![l] = c]) /\ LoadsFit([formLoads EXCEPT ![l] = d])
  BY <1>1, <1>2, LoadsChange
<1>. QED BY <1>3, <1>4

LEMMA SaveMoves ==
  ASSUME FormTyped, NEW s \in Slots, NEW at \in {"sent", "found", "stored", "refused"},
         saves[s].at \in {"sent", "found", "stored", "refused"}
  PROVE  /\ SavesFit([saves EXCEPT ![s].at = at], openings)
         /\ SavesFit([saves EXCEPT ![s] = Idle], openings)
<1>. DEFINE c == [saves[s] EXCEPT !.at = at]
<1>1. saves[s] \in SaveCall /\ saves[s].opening <= openings /\ SavesFit(saves, openings)
  BY SaveIs, FormTypes
<1>2. c \in SaveCall /\ c.opening <= openings
  BY <1>1 DEF SaveCall
<1>3. [saves EXCEPT ![s].at = at] = [saves EXCEPT ![s] = c]
  BY <1>1 DEF SavesFit
<1>. HIDE DEF c
<1>. QED BY <1>1, <1>2, <1>3, SavesChange

LEMMA RestartedFits ==
  ASSUME FormTyped
  PROVE  SavesFit(Restarted, openings)
<1>1. SavesFit(saves, openings)
  BY FormTypes
<1>2. ASSUME NEW s \in Slots, saves[s] # Idle
      PROVE  /\ [saves[s] EXCEPT !.restarted = TRUE] \in SaveCall
             /\ [saves[s] EXCEPT !.restarted = TRUE].opening <= openings
  <2>1. saves[s] \in SaveCall /\ saves[s].opening <= openings
    BY <1>1, <1>2 DEF SavesFit
  <2>. QED BY <2>1 DEF SaveCall
<1>3. \A s \in Slots : Restarted[s] \in {saves[s], [saves[s] EXCEPT !.restarted = TRUE]}
                       /\ (Restarted[s] # saves[s] => saves[s] # Idle)
  BY DEF Restarted, SavesUnderWay
<1>4. Restarted \in [Slots -> SaveCall \cup {Idle}]
  <2>1. \A s \in Slots : Restarted[s] \in SaveCall \cup {Idle}
    BY <1>1, <1>2, <1>3 DEF SavesFit
  <2>. QED BY <2>1 DEF Restarted
<1>5. \A s \in Slots : Restarted[s] # Idle => Restarted[s].opening <= openings
  BY <1>1, <1>2, <1>3 DEF SavesFit
<1>. QED BY <1>4, <1>5 DEF SavesFit

LEMMA CloseIs ==
  ASSUME FormTyped, Theme # "default", Close
  PROVE  /\ editing' \in 0..2 /\ Held(content', given', typedSince') /\ formBusy' \in BOOLEAN
         /\ LoadsFit(formLoads') /\ visible' = FALSE /\ closing' \in BOOLEAN
         /\ Modes(editing', visible', closing')
<1>. DEFINE id == IF Theme = "berry" \/ Entity = "user" THEN New ELSE editing
<1>1. /\ visible' = FALSE /\ closing' = (closing \/ (Theme = "air" /\ Entity = "token"))
      /\ Mounted(id)
  BY DEF Close
<1>2. id \in 0..2 /\ closing \in BOOLEAN /\ Modes(editing, visible, closing)
  BY FormTypes DEF New
<1>. HIDE DEF id
<1>3. /\ editing' = id /\ Held(content', given', typedSince') /\ formBusy' \in BOOLEAN
      /\ LoadsFit(formLoads')
  BY <1>1, <1>2, MountedIs
<1>4. Modes(editing', visible', closing')
  BY <1>1, <1>2 DEF Modes
<1>. QED BY <1>1, <1>2, <1>3, <1>4

LEMMA ActsCount == ASSUME FormTyped, Acts PROVE acts' \in 0..MaxActs
BY FormTypes, FormsAssumption DEF Acts

LEMMA OpenFormTyped ==
  ASSUME FormTyped, NEW id \in RecordIds \cup {New}, handleOpen(id)
  PROVE  FormTyped'
<1>1. /\ id \in Editable /\ openings' = openings + 1 /\ openings < MaxOpenings /\ visible' = TRUE
      /\ Mounted(id) /\ acts' \in 0..MaxActs
      /\ UNCHANGED <<sheet, closing, spent, records, statusRead, saves, astray, failed, lostOne, unsure>>
  BY ActsCount DEF handleOpen
<1>2. Theme # "default" /\ (Theme = "air" /\ Entity = "user" => id # New)
  BY <1>1 DEF Editable, RecordIds, New
<1>3. id \in 0..2
  BY DEF RecordIds, New
<1>4. /\ editing' = id /\ Held(content', given', typedSince') /\ formBusy' \in BOOLEAN
      /\ LoadsFit(formLoads')
  BY <1>1, <1>2, <1>3, MountedIs
<1>5. openings' \in 0..MaxOpenings /\ SavesFit(saves', openings')
  <2>1. openings \in 0..MaxOpenings /\ SavesFit(saves, openings)
    BY FormTypes
  <2>2. \A s \in Slots : saves[s] # Idle => saves[s].opening \in 0..MaxOpenings
    BY <2>1 DEF SavesFit, SaveCall
  <2>3. openings + 1 \in 0..MaxOpenings
    BY <1>1, <2>1, FormsAssumption
  <2>. QED BY <1>1, <2>1, <2>2, <2>3, FormsAssumption DEF SavesFit
<1>6. Modes(editing', visible', closing')
  BY <1>1, <1>2, <1>4, FormTypes DEF Modes
<1>. QED BY <1>1, <1>3, <1>4, <1>5, <1>6, FormTypes, FormMade

LEMMA CloseFormTyped ==
  ASSUME FormTyped, handleCancel \/ closeTimer
  PROVE  FormTyped'
<1>1. CASE handleCancel
  <2>1. /\ Close /\ Theme # "default"
        /\ UNCHANGED <<sheet, spent, records, statusRead, saves, astray, failed, lostOne, unsure, openings, acts>>
    BY <1>1 DEF handleCancel
  <2>. QED BY <2>1, CloseIs, FormTypes, FormMade
<1>2. CASE closeTimer
  <2>1. /\ closing /\ closing' = FALSE /\ Mounted(New)
        /\ UNCHANGED <<sheet, visible, spent, records, statusRead, saves, astray, failed, lostOne, unsure,
                       openings, acts>>
    BY <1>2 DEF closeTimer
  <2>2. Theme = "air" /\ Entity = "token" /\ New \in 0..2
    BY <2>1, FormTypes DEF Modes, New
  <2>3. /\ editing' = New /\ Held(content', given', typedSince') /\ formBusy' \in BOOLEAN
        /\ LoadsFit(formLoads')
    BY <2>1, <2>2, MountedIs
  <2>4. Modes(editing', visible', closing')
    BY <2>1, <2>2 DEF Modes
  <2>. QED BY <2>1, <2>2, <2>3, <2>4, FormTypes, FormMade
<1>. QED BY <1>1, <1>2

LEMMA LoadFormTyped ==
  ASSUME FormTyped, NEW l \in Slots,
         Prepared(l) \/ GetRecord(l) \/ RecordLoaded(l) \/ LoadRefused(l) \/ LoadLost(l)
  PROVE  FormTyped'
<1>0. /\ Held(content, given, typedSince) /\ records \in [RecordIds -> Data]
      /\ formBusy \in BOOLEAN /\ SavesFit(saves, openings) /\ Modes(editing, visible, closing)
      /\ Origin \in Data
  BY FormTypes, OriginTyped
<1>1. CASE Prepared(l)
  <2>1. /\ formLoads[l].at = "preparing"
        /\ UNCHANGED <<sheet, editing, visible, closing, spent, records, statusRead, saves, astray, failed,
                       lostOne, unsure, openings, acts>>
    BY <1>1 DEF Prepared
  <2>2. CASE /\ formLoads[l].id = New /\ Hold(Origin) /\ UNCHANGED formBusy
             /\ formLoads' = [formLoads EXCEPT ![l] = Idle]
    <3>1. LoadsFit(formLoads') /\ Held(content', given', typedSince')
      BY <1>0, <2>1, <2>2, LoadIs, HoldIs
    <3>. QED BY <1>0, <2>1, <2>2, <3>1, FormTypes, FormMade
  <2>3. CASE /\ formLoads[l].id # New /\ formBusy' = TRUE /\ UNCHANGED <<content, given, typedSince>>
             /\ formLoads' = [formLoads EXCEPT ![l].at = "asked"]
    <3>1. LoadsFit(formLoads')
      BY <1>0, <2>1, <2>3, LoadMoves
    <3>. QED BY <1>0, <2>1, <2>3, <3>1, FormTypes, FormMade
  <2>. QED BY <1>1, <2>2, <2>3 DEF Prepared
<1>2. CASE GetRecord(l)
  <2>. DEFINE data == Given(formLoads[l].id, records)
  <2>1. /\ formLoads[l].at = "asked"
        /\ formLoads' = [formLoads EXCEPT ![l].at = "read", ![l].data = data]
        /\ UNCHANGED <<sheet, editing, visible, closing, content, given, formBusy, spent,
                       records, statusRead, saves, typedSince, astray, failed, lostOne, unsure, openings, acts>>
    BY <1>2 DEF GetRecord, history
  <2>a. formLoads[l].at = "asked"
    BY <1>2 DEF GetRecord
  <2>b. formLoads[l].id \in 1..3
    BY <2>a, LoadIs
  <2>2. formLoads[l].id \in 1..3 /\ formLoads[l].id # New
    BY <2>b DEF New
  <2>3. data \in Data
    BY <1>0, <2>2, GivenTyped
  <2>. HIDE DEF data
  <2>4. LoadsFit(formLoads')
    BY <2>1, <2>2, <2>3, LoadMoves
  <2>. QED BY <1>0, <2>1, <2>4, FormTypes, FormMade
<1>3. CASE RecordLoaded(l)
  <2>. DEFINE data == formLoads[l].data
  <2>1. /\ formLoads[l].at = "read" /\ Hold(data) /\ (Theme # "berry" => formBusy' = FALSE)
        /\ unsure' \in BOOLEAN /\ saves' \in {saves, Restarted} /\ spent' = FALSE
        /\ formLoads' = [formLoads EXCEPT ![l] = Idle]
        /\ UNCHANGED <<sheet, editing, visible, closing, records, statusRead, astray, failed, lostOne,
                       openings, acts>>
    BY <1>3 DEF RecordLoaded, Loaded
  <2>2. data \in Data
    BY <2>1, LoadIs DEF LoadCall
  <2>. HIDE DEF data
  <2>3. Held(content', given', typedSince') /\ formBusy' \in BOOLEAN /\ LoadsFit(formLoads')
    BY <2>1, <2>2, HoldIs, LoadIs
  <2>4. SavesFit(saves', openings')
    BY <1>0, <2>1, RestartedFits
  <2>. QED BY <1>0, <2>1, <2>3, <2>4, FormTypes, FormMade
<1>4. CASE LoadRefused(l) \/ LoadLost(l)
  <2>1. /\ formLoads[l].at \in {"asked", "read"} /\ acts' \in 0..MaxActs /\ formBusy' \in BOOLEAN
        /\ formLoads' = [formLoads EXCEPT ![l] = Idle] /\ failed' = TRUE
        /\ lostOne' \in {lostOne, TRUE}
        /\ UNCHANGED <<sheet, editing, visible, closing, content, given, spent, records, statusRead, saves,
                       typedSince, astray, unsure, openings>>
    BY <1>0, <1>4, ActsCount DEF LoadRefused, LoadLost
  <2>2. LoadsFit(formLoads')
    BY <2>1, LoadIs
  <2>. QED BY <1>0, <2>1, <2>2, FormTypes, FormMade
<1>. QED BY <1>1, <1>2, <1>3, <1>4

LEMMA TypingFormTyped ==
  ASSUME FormTyped, \/ handleTypeChange \/ submitIncomplete
                    \/ \E r \in Shown, v \in Values : handleInputChange(r, v)
  PROVE  FormTyped'
<1>0. /\ Held(content, given, typedSince) /\ records \in [RecordIds -> Data] /\ content \in Data
      /\ formBusy \in BOOLEAN /\ SavesFit(saves, openings) /\ Modes(editing, visible, closing)
      /\ Origin \in Data /\ LoadsFit(formLoads)
  BY FormTypes, OriginTyped DEF Held
<1>1. CASE handleTypeChange
  <2>. DEFINE c == [r \in Parts |-> IF r = "models" THEN Preset
                                    ELSE IF r = "config" /\ Theme = "berry" THEN Cleared
                                    ELSE content[r]]
              t == typedSince \cup ({"models", "config"} \cap Shown)
  <2>1. /\ content' = c /\ typedSince' = t
        /\ UNCHANGED <<sheet, editing, visible, closing, given, formBusy, spent, records, statusRead,
                       formLoads, saves, astray, failed, lostOne, unsure, openings, acts>>
    BY <1>1 DEF handleTypeChange
  <2>2. c \in Data /\ t \subseteq Shown
    BY <1>0 DEF Data, Values, Preset, Cleared, Held
  <2>. HIDE DEF c, t
  <2>3. Held(content', given', typedSince')
    BY <1>0, <2>1, <2>2 DEF Held
  <2>. QED BY <1>0, <2>1, <2>3, FormTypes, FormMade
<1>2. CASE submitIncomplete
  <2>. DEFINE c == Composed(content)
  <2>1. UNCHANGED <<sheet, editing, visible, closing, spent, records, statusRead, formLoads, saves,
                    astray, failed, lostOne, unsure, openings, acts>>
    BY <1>2 DEF submitIncomplete
  <2>2. c \in Data
    BY <1>0, ComposedTyped
  <2>. HIDE DEF c
  <2>3. \/ formBusy' = TRUE /\ UNCHANGED <<content, given, typedSince>>
        \/ formBusy' = FALSE /\ Hold(Origin)
        \/ formBusy' = FALSE /\ UNCHANGED <<content, given, typedSince>>
        \/ content' = c /\ UNCHANGED <<given, formBusy, typedSince>>
    BY <1>2 DEF submitIncomplete, c
  <2>4. Held(content', given', typedSince') /\ formBusy' \in BOOLEAN
    BY <1>0, <2>2, <2>3, HoldIs DEF Held
  <2>. QED BY <1>0, <2>1, <2>4, FormTypes, FormMade
<1>3. ASSUME NEW r \in Shown, NEW v \in Values, handleInputChange(r, v)
      PROVE  FormTyped'
  <2>1. /\ content' = [content EXCEPT ![r] = v] /\ typedSince' = typedSince \cup {r}
        /\ spent' \in {spent, FALSE} /\ acts' \in 0..MaxActs
        /\ UNCHANGED <<sheet, editing, visible, closing, given, formBusy, records, statusRead, formLoads,
                       saves, astray, failed, lostOne, unsure, openings>>
    BY <1>3, ActsCount DEF handleInputChange
  <2>2. Held(content', given', typedSince')
    BY <1>0, <2>1 DEF Held, Data
  <2>. QED BY <1>0, <2>1, <2>2, FormTypes, FormMade
<1>. QED BY <1>1, <1>2, <1>3

LEMMA SubmitFormTyped ==
  ASSUME FormTyped, NEW copies \in 1..2, submit(copies)
  PROVE  FormTyped'
<1>0. /\ Held(content, given, typedSince) /\ records \in [RecordIds -> Data] /\ content \in Data
      /\ formBusy \in BOOLEAN /\ SavesFit(saves, openings) /\ Modes(editing, visible, closing)
      /\ LoadsFit(formLoads) /\ editing \in 0..2 /\ openings \in 0..MaxOpenings
  BY FormTypes DEF Held
<1>. DEFINE c == Composed(content)
            again == \E s \in SavesUnderWay : saves[s].opening = openings /\ saves[s].restarted
            call == [at |-> "sent", put |-> Puts(c), id |-> editing, data |-> Sent(c),
                     left |-> copies, some |-> FALSE, opening |-> openings, restarted |-> again]
<1>1. /\ Free(saves) # {} /\ acts' \in 0..MaxActs /\ content' = c
      /\ saves' = [saves EXCEPT ![FreeSave] = call]
      /\ formBusy' = (formBusy \/ RaisesLoading \/ Locks)
      /\ spent' = (Theme = "default" /\ Entity = "token") /\ typedSince' = {}
      /\ unsure' \in BOOLEAN
      /\ UNCHANGED <<sheet, editing, visible, closing, given, records, statusRead, formLoads, astray,
                     failed, lostOne, openings>>
  BY ActsCount DEF submit
<1>2. c \in Data
  BY <1>0, ComposedTyped
<1>. HIDE DEF c, again
<1>3. call \in SaveCall /\ call.opening = openings
  <2>1. Sent(c) \in Data /\ Puts(c) \in BOOLEAN /\ again \in BOOLEAN
    BY <1>2, SentTyped DEF Puts, again
  <2>. HIDE DEF Puts
  <2>. QED BY <1>0, <2>1 DEF SaveCall
<1>. HIDE DEF call
<1>4. SavesFit(saves', openings')
  <2>1. FreeSave \in Slots
    BY <1>1, FreeSaveIs
  <2>2. call.opening <= openings
    BY <1>0, <1>3, FormsAssumption
  <2>3. SavesFit([saves EXCEPT ![FreeSave] = call], openings)
    BY <1>0, <1>3, <2>1, <2>2, SavesChange
  <2>. QED BY <1>1, <2>3
<1>5. Held(content', given', typedSince')
  BY <1>0, <1>1, <1>2 DEF Held
<1>6. formBusy' \in BOOLEAN /\ spent' \in BOOLEAN /\ unsure' \in BOOLEAN
  BY <1>0, <1>1
<1>. QED BY <1>0, <1>1, <1>4, <1>5, <1>6, FormTypes, FormMade

LEMMA WriteFormTyped ==
  ASSUME FormTyped, NEW s \in Slots, ReadRecord(s) \/ UpdateRecord(s) \/ AddRecord(s) \/ RefuseRecord(s) \/ SaveLost(s)
  PROVE  FormTyped'
<1>0. /\ Held(content, given, typedSince) /\ records \in [RecordIds -> Data]
      /\ formBusy \in BOOLEAN /\ SavesFit(saves, openings) /\ Modes(editing, visible, closing)
      /\ LoadsFit(formLoads) /\ statusRead \in [Slots -> Values]
  BY FormTypes
<1>5. CASE ReadRecord(s)
  <2>1. /\ saves[s].at = "sent" /\ saves' = [saves EXCEPT ![s].at = "found"]
        /\ statusRead' = [statusRead EXCEPT ![s] = Found(s)] /\ saves[s].id # New
        /\ UNCHANGED <<sheet, editing, visible, closing, content, given, formBusy, spent, records,
                       formLoads, typedSince, astray, failed, lostOne, unsure, openings, acts>>
    BY <1>5 DEF ReadRecord, history
  <2>2. SavesFit(saves', openings')
    BY <2>1, SaveMoves
  <2>3. saves[s].id \in RecordIds
    BY <2>1, SaveIs DEF SaveCall, New, RecordIds
  <2>4. Found(s) \in Values
    BY <1>0, <2>3, PartsAre DEF Found, Data
  <2>5. statusRead' \in [Slots -> Values]
    BY <1>0, <2>1, <2>4
  <2>. QED BY <1>0, <2>1, <2>2, <2>5, FormTypes, FormMade
<1>1. CASE UpdateRecord(s)
  <2>. DEFINE i == saves[s].id
              data == saves[s].data
              row == [r \in Parts |-> IF r = "id" THEN i ELSE Written(r, data[r], Before(s, r))]
  <2>1. /\ saves[s].at \in {"sent", "found"} /\ i # New
        /\ records' = [records EXCEPT ![i] = row]
        /\ statusRead' = [statusRead EXCEPT ![s] = Unset]
        /\ saves' = [saves EXCEPT ![s].at = "stored"] /\ astray' = (astray \/ data["id"] # i)
        /\ UNCHANGED <<sheet, editing, visible, closing, content, given, formBusy, spent,
                       formLoads, typedSince, failed, lostOne, unsure, openings, acts>>
    BY <1>1 DEF UpdateRecord
  <2>a. saves[s].at \in {"sent", "found"} /\ i # New
    BY <1>1 DEF UpdateRecord
  <2>b. statusRead' \in [Slots -> Values]
    BY <1>0, <2>1 DEF Unset, Values
  <2>2. i \in 0..2 /\ data \in Data
    BY <2>a, SaveIs DEF SaveCall
  <2>3. i \in RecordIds
    BY <2>a, <2>2 DEF New, RecordIds
  <2>. HIDE DEF i, data
  <2>4. ASSUME NEW r \in Parts PROVE Written(r, data[r], Before(s, r)) \in Values
    <3>1. data[r] \in Values /\ Before(s, r) \in Values
      BY <1>0, <2>2, <2>3 DEF Data, Before, i
    <3>2. Written(r, data[r], Before(s, r)) \in {data[r], Before(s, r)}
      BY DEF Written
    <3>. QED BY <3>1, <3>2
  <2>5. row \in Data
    BY <2>3, <2>4 DEF Data, RecordIds, Values
  <2>. HIDE DEF row
  <2>6. records' \in [RecordIds -> Data]
    BY <1>0, <2>1, <2>5
  <2>7. SavesFit(saves', openings')
    BY <2>1, <2>a, SaveMoves
  <2>. QED BY <1>0, <2>1, <2>b, <2>6, <2>7, FormTypes, FormMade
<1>2. CASE AddRecord(s)
  <2>1. /\ saves[s].at = "sent" /\ saves' = [saves EXCEPT ![s].at = "stored"]
        /\ UNCHANGED <<sheet, editing, visible, closing, content, given, formBusy, spent, records, statusRead,
                       formLoads, typedSince, astray, failed, lostOne, unsure, openings, acts>>
    BY <1>2 DEF AddRecord, history
  <2>2. SavesFit(saves', openings')
    BY <2>1, SaveMoves
  <2>. QED BY <1>0, <2>1, <2>2, FormTypes, FormMade
<1>3. CASE RefuseRecord(s)
  <2>1. /\ saves[s].at \in {"sent", "found"} /\ saves' = [saves EXCEPT ![s].at = "refused"]
        /\ statusRead' = [statusRead EXCEPT ![s] = Unset]
        /\ unsure' = TRUE /\ acts' \in 0..MaxActs
        /\ UNCHANGED <<sheet, editing, visible, closing, content, given, formBusy, spent, records,
                       formLoads, typedSince, astray, failed, lostOne, openings>>
    BY <1>3, ActsCount DEF RefuseRecord
  <2>2. SavesFit(saves', openings')
    BY <2>1, SaveMoves
  <2>3. statusRead' \in [Slots -> Values]
    BY <1>0, <2>1 DEF Unset, Values
  <2>. QED BY <1>0, <2>1, <2>2, <2>3, FormTypes, FormMade
<1>4. CASE SaveLost(s)
  <2>1. /\ saves[s].at \in {"sent", "stored"} /\ saves' = [saves EXCEPT ![s] = Idle]
        /\ unsure' = TRUE /\ lostOne' = TRUE /\ acts' \in 0..MaxActs /\ formBusy' \in BOOLEAN
        /\ UNCHANGED <<sheet, editing, visible, closing, content, given, spent, records, statusRead,
                       formLoads, typedSince, astray, failed, openings>>
    BY <1>0, <1>4, ActsCount DEF SaveLost
  <2>2. SavesFit(saves', openings')
    BY <2>1, SaveMoves
  <2>. QED BY <1>0, <2>1, <2>2, FormTypes, FormMade
<1>. QED BY <1>1, <1>2, <1>3, <1>4, <1>5

LEMMA SystemFormTyped ==
  ASSUME FormTyped, NEW i \in RecordIds, SystemMoves(i)
  PROVE  FormTyped'
<1>0. /\ Held(content, given, typedSince) /\ records \in [RecordIds -> Data]
      /\ formBusy \in BOOLEAN /\ SavesFit(saves, openings) /\ Modes(editing, visible, closing)
      /\ LoadsFit(formLoads)
  BY FormTypes
<1>. DEFINE r == IF "amount" \in Shown /\ Entity # "redemption" THEN "amount" ELSE "status"
            one == [records EXCEPT ![i]["status"] = Moved]
<1>1. /\ records' = [records EXCEPT ![i]["status"] = Moved, ![i][r] = Moved]
      /\ unsure' = TRUE /\ acts' \in 0..MaxActs
      /\ UNCHANGED <<sheet, editing, visible, closing, content, given, formBusy, spent,
                     statusRead, formLoads, saves, typedSince, astray, failed, lostOne, openings>>
  BY ActsCount DEF SystemMoves
<1>2. records' = [one EXCEPT ![i][r] = Moved]
  BY <1>1
<1>3. Moved \in Values
  BY DEF Moved, Values
<1>4. one \in [RecordIds -> Data]
  BY <1>0, <1>3 DEF Data
<1>. HIDE DEF one, r
<1>5. records' \in [RecordIds -> Data]
  BY <1>2, <1>3, <1>4 DEF Data
<1>. QED BY <1>0, <1>1, <1>5, FormTypes, FormMade

\* What an answered save leaves of the form, whatever the form is.
LEMMA FormAnswer ==
  ASSUME FormTyped, NEW s \in Slots, SaveAnswered(s)
  PROVE  \/ /\ saves[s].at = "stored" /\ saves[s].left > 1
            /\ saves' = [saves EXCEPT ![s].at = "sent", ![s].left = @ - 1, ![s].some = TRUE]
            /\ UNCHANGED <<editing, visible, closing, content, given, formBusy, spent,
                           formLoads, typedSince>>
         \/ /\ saves' = [saves EXCEPT ![s] = Idle]
            /\ \/ Theme = "default" /\ answeredDefault(saves[s].at = "stored")
               \/ Theme = "berry" /\ answeredBerry(s, saves[s].at = "stored")
               \/ Theme = "air" /\ Entity = "channel" /\ answeredAirChannel(saves[s].at = "stored")
               \/ /\ Theme = "air" /\ Entity = "token"
                  /\ answeredAirToken(saves[s].at = "stored" \/ saves[s].some)
               \/ Theme = "air" /\ Entity = "user" /\ answeredAirUser(saves[s].at = "stored")
               \/ Theme = "air" /\ Entity = "newuser" /\ answeredAirNewUser(saves[s].at = "stored")
               \/ /\ Theme = "air" /\ Entity = "redemption"
                  /\ answeredAirRedemption(saves[s].at = "stored")
<1>1. /\ Theme \in {"default", "air", "berry"}
      /\ Entity \in {"channel", "token", "user", "newuser", "redemption"}
  BY SheetIs
<1>. QED BY <1>1, Zenon DEF SaveAnswered

LEMMA CopyFits ==
  ASSUME NEW c \in SaveCall, c.left > 1
  PROVE  LET d == [c EXCEPT !.at = "sent", !.left = @ - 1, !.some = TRUE]
         IN d \in SaveCall /\ d.opening = c.opening
<1>1. c.left - 1 \in 1..2
  BY DEF SaveCall
<1>. QED BY <1>1 DEF SaveCall

LEMMA AnswerFormTyped ==
  ASSUME FormTyped, NEW s \in Slots, SaveAnswered(s)
  PROVE  FormTyped'
<1>0. /\ Held(content, given, typedSince) /\ records \in [RecordIds -> Data] /\ editing \in 0..2
      /\ formBusy \in BOOLEAN /\ SavesFit(saves, openings) /\ Modes(editing, visible, closing)
      /\ LoadsFit(formLoads) /\ Origin \in Data /\ visible \in BOOLEAN /\ closing \in BOOLEAN
      /\ spent \in BOOLEAN
  BY FormTypes, OriginTyped
<1>1. /\ saves[s].at \in {"stored", "refused"}
      /\ UNCHANGED <<sheet, records, statusRead, astray, failed, lostOne, unsure, openings, acts>>
  BY DEF SaveAnswered
<1>. DEFINE Kept == UNCHANGED <<editing, visible, closing, content, given, formBusy, spent,
                                formLoads, typedSince>>
            Fit == /\ Held(content', given', typedSince') /\ editing' \in 0..2
                   /\ formBusy' \in BOOLEAN /\ spent' \in BOOLEAN /\ LoadsFit(formLoads')
                   /\ visible' \in BOOLEAN /\ closing' \in BOOLEAN
                   /\ Modes(editing', visible', closing')
            done == saves[s].at = "stored"
            any == done \/ saves[s].some
<1>a. done \in BOOLEAN /\ any \in BOOLEAN
  <2>1. saves[s] \in SaveCall
    BY <1>1, SaveIs
  <2>. QED BY <2>1 DEF SaveCall
<1>2. SavesFit([saves EXCEPT ![s] = Idle], openings)
  BY <1>1, SaveMoves
<1>3. ASSUME saves[s].at = "stored", saves[s].left > 1,
             saves' = [saves EXCEPT ![s].at = "sent", ![s].left = @ - 1, ![s].some = TRUE], Kept
      PROVE  FormTyped'
  <2>. DEFINE c == [saves[s] EXCEPT !.at = "sent", !.left = @ - 1, !.some = TRUE]
  <2>1. saves[s] \in SaveCall /\ saves[s].opening <= openings
    BY <1>1, SaveIs
  <2>2. c \in SaveCall /\ c.opening <= openings
    BY <1>3, <2>1, CopyFits
  <2>3. saves' = [saves EXCEPT ![s] = c]
    BY <1>0, <1>3 DEF SavesFit
  <2>. HIDE DEF c
  <2>4. SavesFit(saves', openings')
    BY <1>0, <1>1, <2>2, <2>3, SavesChange
  <2>. QED BY <1>0, <1>1, <1>3, <2>4, FormTypes, FormMade
<1>. HIDE DEF done, any
<1>4. ASSUME Theme = "default", answeredDefault(done)
      PROVE  Fit
  <2>1. UNCHANGED <<editing, visible, closing, formBusy, formLoads>>
    BY <1>4 DEF answeredDefault
  <2>2. CASE done /\ editing = New
    <3>. DEFINE data == [r \in Parts |-> IF r = "config" THEN content[r] ELSE Unset]
    <3>1. Hold(data) /\ spent' = FALSE
      BY <1>4, <2>2 DEF answeredDefault
    <3>2. data \in Data
      BY <1>0 DEF Data, Held, Unset, Values
    <3>. HIDE DEF data
    <3>. QED BY <1>0, <2>1, <3>1, <3>2, HoldIs
  <2>3. CASE ~(done /\ editing = New)
    <3>1. UNCHANGED <<content, given, typedSince, spent>>
      BY <1>4, <2>3 DEF answeredDefault
    <3>. QED BY <1>0, <2>1, <3>1
  <2>. QED BY <2>2, <2>3
<1>5. ASSUME Theme = "berry", answeredBerry(s, done)
      PROVE  Fit
  <2>1. CASE done
    BY <1>0, <1>5, <2>1, CloseIs DEF answeredBerry
  <2>2. CASE ~done
    BY <1>0, <1>5, <2>2 DEF answeredBerry
  <2>. QED BY <2>1, <2>2
<1>6. ASSUME Theme = "air", Entity = "channel", answeredAirChannel(done)
      PROVE  Fit
  BY <1>0, <1>6, HoldIs DEF answeredAirChannel, Modes
<1>7. ASSUME Theme = "air", Entity = "token", answeredAirToken(any)
      PROVE  Fit
  BY <1>0, <1>7, HoldIs DEF answeredAirToken, Modes
<1>8. ASSUME Theme = "air", Entity = "user", answeredAirUser(done)
      PROVE  Fit
  <2>1. CASE done
    BY <1>0, <1>8, <2>1, CloseIs DEF answeredAirUser
  <2>2. CASE ~done
    BY <1>0, <1>8, <2>2 DEF answeredAirUser, AfterRefusal, EndsBusy
  <2>. QED BY <2>1, <2>2
<1>9. ASSUME Theme = "air", Entity = "newuser", answeredAirNewUser(done)
      PROVE  Fit
  BY <1>0, <1>9, HoldIs DEF answeredAirNewUser, Modes
<1>10. ASSUME Theme = "air", Entity = "redemption",
              answeredAirRedemption(done)
       PROVE  Fit
  BY <1>0, <1>10, HoldIs DEF answeredAirRedemption, Modes, AfterRefusal, EndsBusy
<1>11. ASSUME saves' = [saves EXCEPT ![s] = Idle], Fit
       PROVE  FormTyped'
  BY <1>0, <1>1, <1>2, <1>11, FormTypes, FormMade
<1>. USE DEF done, any
<1>12. \/ FormTyped'
       \/ /\ saves' = [saves EXCEPT ![s] = Idle]
          /\ \/ Theme = "default" /\ answeredDefault(done)
             \/ Theme = "berry" /\ answeredBerry(s, done)
             \/ Theme = "air" /\ Entity = "channel" /\ answeredAirChannel(done)
             \/ Theme = "air" /\ Entity = "token" /\ answeredAirToken(any)
             \/ Theme = "air" /\ Entity = "user" /\ answeredAirUser(done)
             \/ Theme = "air" /\ Entity = "newuser" /\ answeredAirNewUser(done)
             \/ Theme = "air" /\ Entity = "redemption" /\ answeredAirRedemption(done)
  BY <1>3, FormAnswer, Zenon DEF Kept
<1>. HIDE DEF done, any, Fit, Kept
<1>13. FormTyped' \/ (saves' = [saves EXCEPT ![s] = Idle] /\ Fit)
  BY <1>4, <1>5, <1>6, <1>7, <1>8, <1>9, <1>10, <1>12
<1>. QED BY <1>11, <1>13

LEMMA InitFormTyped == ASSUME FormsInit PROVE FormTyped
<1>1. /\ sheet \in Sheets /\ editing \in {New, 1} /\ (Theme # "default" => editing = New)
      /\ visible = (Theme = "default") /\ closing = FALSE /\ content = Origin /\ given = Origin
      /\ formBusy = (Theme = "default" /\ editing # New) /\ spent = FALSE
      /\ records = [i \in RecordIds |-> Record(i)] /\ saves = [s \in Slots |-> Idle]
      /\ typedSince = {} /\ astray = FALSE /\ failed = FALSE /\ lostOne = FALSE
      /\ unsure = FALSE /\ openings = 0 /\ acts = 0 /\ statusRead = [s \in Slots |-> Unset]
  BY DEF FormsInit
<1>2. Origin \in Data /\ \A i \in RecordIds : Record(i) \in Data
  BY OriginTyped DEF Record, Data, RecordIds, Values
<1>3. FormTypeOK
  <2>1. content \in [Parts -> Values] /\ given \in [Parts -> Values]
        /\ records \in [RecordIds -> [Parts -> Values]] /\ statusRead \in [Slots -> Values]
    BY <1>1, <1>2 DEF Data, Unset, Values
  <2>2. editing \in RecordIds \cup {New} /\ openings \in 0..MaxOpenings /\ acts \in 0..MaxActs
    BY <1>1, FormsAssumption DEF RecordIds, New
  <2>3. {visible, closing, formBusy, spent, astray, failed, lostOne, unsure} \subseteq BOOLEAN
    BY <1>1
  <2>4. typedSince \subseteq Shown /\ (Theme # "berry" => given = Origin)
    BY <1>1
  <2>. QED BY <1>1, <2>1, <2>2, <2>3, <2>4 DEF FormTypeOK
<1>4. LoadsFit([l \in Slots |-> Idle])
  BY DEF LoadsFit, Idle
<1>5. LoadsFit(formLoads)
  <2>. DEFINE c == [at |-> "asked", id |-> editing, data |-> Origin]
              ls == [l \in Slots |-> IF l = 1 THEN c ELSE Idle]
  <2>1. formLoads = IF formBusy THEN ls ELSE [l \in Slots |-> Idle]
    BY DEF FormsInit
  <2>2. ASSUME formBusy PROVE LoadsFit(ls)
    <3>1. editing = 1
      BY <1>1, <2>2
    <3>2. c \in LoadCall /\ c.at = "asked" /\ c.id # New
      BY <1>2, <3>1 DEF LoadCall, New
    <3>. HIDE DEF c
    <3>. QED BY <3>2 DEF LoadsFit, Idle
  <2>. QED BY <1>4, <2>1, <2>2
<1>6. SavesFit(saves, openings)
  BY <1>1 DEF SavesFit
<1>7. Modes(editing, visible, closing)
  BY <1>1 DEF Modes
<1>. QED BY <1>3, <1>5, <1>6, <1>7 DEF FormTyped

LEMMA NextFormTyped == ASSUME FormTyped, [FormsNext]_formVars PROVE FormTyped'
<1>1. CASE UNCHANGED formVars
  BY <1>1, FormTypes, FormMade DEF formVars
<1>2. CASE FormsNext
  BY <1>2, OpenFormTyped, CloseFormTyped, LoadFormTyped, TypingFormTyped, SubmitFormTyped,
     WriteFormTyped, SystemFormTyped, AnswerFormTyped DEF FormsNext
<1>. QED BY <1>1, <1>2

----------------------------------------------------------------------------
(* What a form that is loading waits for. *)

Under(cs) == {k \in Slots : cs[k] # Idle}
Read(ls) == {l \in Slots : ls[l].at \in {"asked", "read"}}

\* Outside berry.  The side sheet of a channel does not wait for what it prepares, and the one
\* of a user does not wait for a save once it is closed, when it loads the own account.
Waiting(busy, id, ls, ss) ==
  busy =>
    \/ Theme = "default" /\ Under(ls) # {}
    \/ /\ Theme = "air"
       /\ \/ Entity = "channel" /\ Read(ls) # {}
          \/ Entity = "user" /\ (Under(ls) # {} \/ (id # New /\ Under(ss) # {}))
          \/ Entity = "newuser"
          \/ Entity \in {"token", "redemption"} /\ (Under(ls) # {} \/ Under(ss) # {})

WaitInv == Theme # "berry" /\ ~lostOne => Waiting(formBusy, editing, formLoads, saves)

LEMMA UnderIs == LoadsUnderWay = Under(formLoads) /\ SavesUnderWay = Under(saves)
BY DEF LoadsUnderWay, SavesUnderWay, Under

LEMMA ReadUnder ==
  ASSUME NEW ls
  PROVE  Read(ls) \subseteq Under(ls)
BY DEF Read, Under, Idle

LEMMA LoadWaits ==
  ASSUME FormTyped, Free(formLoads) # {}, NEW id
  PROVE  Read(Load(FreeLoad, "asked", id)) # {} /\ Under(Load(FreeLoad, "asked", id)) # {}
<1>1. FreeLoad \in Slots /\ LoadsFit(formLoads)
  BY FreeLoadIs, FormTypes
<1>2. Load(FreeLoad, "asked", id)[FreeLoad].at = "asked"
  BY <1>1 DEF Load, LoadsFit
<1>3. FreeLoad \in Read(Load(FreeLoad, "asked", id))
  BY <1>1, <1>2 DEF Read
<1>. QED BY <1>3, ReadUnder

LEMMA MountedWaits ==
  ASSUME FormTyped, Theme = "air", NEW id \in 0..2, Mounted(id),
         Waiting(formBusy, editing, formLoads, saves)
  PROVE  Waiting(formBusy', id, formLoads', saves)
<1>1. CASE id = editing
  <2>1. UNCHANGED <<formBusy, formLoads>>
    BY <1>1 DEF Mounted
  <2>. QED BY <1>1, <2>1
<1>2. CASE id # editing
  <2>1. IF Theme = "berry" THEN mountedBerry(id)
        ELSE CASE Entity = "channel" -> mountedAirChannel(id)
               [] Entity = "token" -> mountedAirToken(id)
               [] Entity = "user" -> mountedAirUser(id)
               [] OTHER -> mountedAirRedemption(id)
    BY <1>2 DEF Mounted
  <2>2. \/ Entity = "channel" /\ mountedAirChannel(id)
        \/ Entity = "token" /\ mountedAirToken(id)
        \/ Entity = "user" /\ mountedAirUser(id)
        \/ Entity \in {"newuser", "redemption"} /\ mountedAirRedemption(id)
    <3>1. \/ Entity = "channel" /\ mountedAirChannel(id)
          \/ Entity = "token" /\ mountedAirToken(id)
          \/ Entity = "user" /\ mountedAirUser(id)
          \/ Entity \notin {"channel", "token", "user"} /\ mountedAirRedemption(id)
      BY <2>1
    <3>. QED BY <3>1, SheetIs
  <2>3. CASE Entity = "channel" /\ mountedAirChannel(id)
    <3>. DEFINE others == [l \in Slots |-> IF formLoads[l].at = "preparing" THEN Idle ELSE formLoads[l]]
                k == CHOOSE l \in Free(others) : TRUE
                c == [at |-> "preparing", id |-> id, data |-> Origin]
    <3>1. Free(others) # {} /\ formLoads' = [others EXCEPT ![k] = c] /\ formBusy' = formBusy
      BY <2>3 DEF mountedAirChannel
    <3>2. k \in Free(others)
      BY <3>1
    <3>3. \A l \in Read(formLoads) : others[l] = formLoads[l] /\ l # k
      BY <3>2 DEF Free, Read, Idle
    <3>4. Read(formLoads) \subseteq Read(formLoads')
      <4>. HIDE DEF k, c
      <4>1. \A l \in Read(formLoads) : formLoads'[l] = formLoads[l]
        BY <3>1, <3>3 DEF Read
      <4>. QED BY <4>1 DEF Read
    <3>5. Read(formLoads) # {} => Read(formLoads') # {} /\ Under(formLoads') # {}
      BY <3>4, ReadUnder
    <3>6. formBusy => Read(formLoads) # {} \/ Theme = "default"
      BY <2>3 DEF Waiting
    <3>. HIDE DEF others, k, c
    <3>7. formBusy => Read(formLoads) # {}
      BY <2>3, <3>6
    <3>. QED BY <2>3, <3>1, <3>5, <3>7 DEF Waiting
  <2>4. CASE Entity = "token" /\ mountedAirToken(id)
    <3>1. \/ Under(formLoads') # {}
          \/ UNCHANGED <<formBusy, formLoads>>
      BY <2>4, LoadWaits DEF mountedAirToken
    <3>. QED BY <2>4, <3>1 DEF Waiting
  <2>5. CASE Entity = "user" /\ mountedAirUser(id)
    <3>1. Under(formLoads') # {}
      BY <2>5, LoadWaits DEF mountedAirUser
    <3>. QED BY <2>5, <3>1 DEF Waiting
  <2>6. CASE Entity \in {"newuser", "redemption"} /\ mountedAirRedemption(id)
    <3>1. \/ Under(formLoads') # {}
          \/ UNCHANGED <<formBusy, formLoads>>
      BY <2>6, LoadWaits DEF mountedAirRedemption
    <3>. QED BY <2>6, <3>1 DEF Waiting
  <2>. QED BY <2>2, <2>3, <2>4, <2>5, <2>6
<1>. QED BY <1>1, <1>2

\* What a save or a load leaves of the ones under way.
LEMMA LoadEnds ==
  ASSUME FormTyped, NEW l \in Slots
  PROVE  /\ Under([formLoads EXCEPT ![l] = Idle]) = Under(formLoads) \ {l}
         /\ Read([formLoads EXCEPT ![l] = Idle]) = Read(formLoads) \ {l}
<1>1. formLoads \in [Slots -> LoadCall \cup {Idle}]
  BY FormTypes DEF LoadsFit
<1>. QED BY <1>1 DEF Under, Read, Idle

LEMMA SaveEnds ==
  ASSUME FormTyped, NEW s \in Slots
  PROVE  Under([saves EXCEPT ![s] = Idle]) = Under(saves) \ {s}
<1>1. saves \in [Slots -> SaveCall \cup {Idle}]
  BY FormTypes DEF SavesFit
<1>. QED BY <1>1 DEF Under

LEMMA SaveGoesOn ==
  ASSUME FormTyped, NEW s \in Slots, saves[s] # Idle, NEW c, c # Idle
  PROVE  Under([saves EXCEPT ![s] = c]) = Under(saves)
<1>1. saves \in [Slots -> SaveCall \cup {Idle}]
  BY FormTypes DEF SavesFit
<1>. QED BY <1>1 DEF Under

\* another step of a save, and another copy of it
LEMMA SaveStays ==
  ASSUME FormTyped, NEW s \in Slots, NEW at \in {"found", "stored", "refused"},
         saves[s].at \in {"sent", "found", "stored", "refused"}
  PROVE  /\ Under([saves EXCEPT ![s].at = at]) = Under(saves)
         /\ Under([saves EXCEPT ![s].at = "sent", ![s].left = @ - 1, ![s].some = TRUE]) = Under(saves)
<1>. DEFINE c == [saves[s] EXCEPT !.at = at]
            d == [saves[s] EXCEPT !.at = "sent", !.left = @ - 1, !.some = TRUE]
<1>1. saves[s] \in SaveCall /\ SavesFit(saves, openings)
  BY SaveIs, FormTypes
<1>2. c.at # "none" /\ d.at # "none" /\ saves[s].at # "none"
  BY <1>1 DEF SaveCall
<1>3. /\ [saves EXCEPT ![s].at = at] = [saves EXCEPT ![s] = c]
      /\ [saves EXCEPT ![s].at = "sent", ![s].left = @ - 1, ![s].some = TRUE]
           = [saves EXCEPT ![s] = d]
  BY <1>1 DEF SavesFit
<1>. HIDE DEF c, d
<1>4. c # Idle /\ d # Idle /\ saves[s] # Idle
  BY <1>2 DEF Idle
<1>5. Under([saves EXCEPT ![s] = c]) = Under(saves)
  BY <1>4, SaveGoesOn
<1>6. Under([saves EXCEPT ![s] = d]) = Under(saves)
  BY <1>4, SaveGoesOn
<1>. QED BY <1>3, <1>5, <1>6

LEMMA WaitsOpen ==
  ASSUME FormTyped, Theme # "berry", ~lostOne',
         Waiting(formBusy, editing, formLoads, saves),
         (\E id \in RecordIds \cup {New} : handleOpen(id)) \/ handleCancel \/ closeTimer
  PROVE  Waiting(formBusy', editing', formLoads', saves')
<1>1. Theme # "default" => Theme = "air"
  BY SheetIs
<1>2. ASSUME NEW id \in RecordIds \cup {New}, handleOpen(id)
      PROVE  Waiting(formBusy', editing', formLoads', saves')
  <2>1. Mounted(id) /\ id \in Editable /\ UNCHANGED <<saves, lostOne>> /\ editing' = id
    BY <1>2 DEF handleOpen, Mounted
  <2>2. id \in 0..2 /\ Theme = "air"
    BY <1>1, <2>1 DEF Editable, RecordIds, New
  <2>. QED BY <2>1, <2>2, MountedWaits
<1>3. CASE handleCancel
  <2>. DEFINE id == IF Theme = "berry" \/ Entity = "user" THEN New ELSE editing
  <2>1. Mounted(id) /\ Theme = "air" /\ UNCHANGED <<saves, lostOne>>
    BY <1>1, <1>3 DEF handleCancel, Close
  <2>2. id \in 0..2
    BY FormTypes DEF New
  <2>. HIDE DEF id
  <2>3. editing' = id
    BY <2>1 DEF Mounted
  <2>. QED BY <2>1, <2>2, <2>3, MountedWaits
<1>4. CASE closeTimer
  <2>1. Mounted(New) /\ Theme = "air" /\ UNCHANGED <<saves, lostOne>> /\ editing' = New
    BY <1>4, FormTypes DEF closeTimer, Modes, Mounted
  <2>2. New \in 0..2
    BY DEF New
  <2>. QED BY <2>1, <2>2, MountedWaits
<1>. QED BY <1>2, <1>3, <1>4

LEMMA WaitsLoad ==
  ASSUME FormTyped, Theme # "berry", ~lostOne',
         Waiting(formBusy, editing, formLoads, saves), NEW l \in Slots,
         Prepared(l) \/ GetRecord(l) \/ RecordLoaded(l) \/ LoadRefused(l) \/ LoadLost(l)
  PROVE  Waiting(formBusy', editing', formLoads', saves')
<1>1. CASE Prepared(l)
  <2>1. /\ formLoads[l].at = "preparing" /\ UNCHANGED <<editing, saves, lostOne>>
        /\ \/ UNCHANGED formBusy /\ formLoads' = [formLoads EXCEPT ![l] = Idle]
           \/ formLoads' = [formLoads EXCEPT ![l].at = "asked"]
    BY <1>1 DEF Prepared
  <2>2. Entity = "channel" /\ Theme = "air" /\ LoadsFit(formLoads)
    BY <2>1, LoadIs, FormTypes
  <2>3. l \notin Read(formLoads)
    BY <2>1 DEF Read
  <2>4. CASE UNCHANGED formBusy /\ formLoads' = [formLoads EXCEPT ![l] = Idle]
    <3>1. Read(formLoads') = Read(formLoads) \ {l}
      BY <2>4, LoadEnds
    <3>2. Read(formLoads') = Read(formLoads)
      BY <2>3, <3>1
    <3>. QED BY <2>1, <2>2, <2>4, <3>2 DEF Waiting
  <2>5. CASE formLoads' = [formLoads EXCEPT ![l].at = "asked"]
    <3>1. formLoads'[l].at = "asked"
      BY <2>1, <2>2, <2>5, LoadIs DEF LoadsFit, LoadCall
    <3>2. Read(formLoads') # {}
      BY <3>1 DEF Read
    <3>. QED BY <2>2, <3>2 DEF Waiting
  <2>. QED BY <2>1, <2>4, <2>5
<1>2. CASE GetRecord(l)
  <2>. DEFINE data == Given(formLoads[l].id, records)
  <2>1. /\ formLoads[l].at = "asked" /\ UNCHANGED <<editing, formBusy, saves, lostOne>>
        /\ formLoads' = [formLoads EXCEPT ![l].at = "read", ![l].data = data]
    BY <1>2 DEF GetRecord, history
  <2>. HIDE DEF data
  <2>2. formLoads'[l].at = "read"
    BY <2>1, LoadIs, FormTypes DEF LoadsFit, LoadCall
  <2>3. l \in Read(formLoads')
    BY <2>2 DEF Read
  <2>4. Read(formLoads') # {} /\ Under(formLoads') # {}
    BY <2>3, ReadUnder
  <2>. QED BY <2>1, <2>4 DEF Waiting
<1>3. CASE RecordLoaded(l) \/ LoadRefused(l) \/ LoadLost(l)
  <2>1. ~formBusy' \/ lostOne'
    BY <1>3 DEF RecordLoaded, LoadRefused, LoadLost
  <2>. QED BY <2>1 DEF Waiting
<1>. QED BY <1>1, <1>2, <1>3

LEMMA WaitsSave ==
  ASSUME FormTyped, Theme # "berry", ~lostOne',
         Waiting(formBusy, editing, formLoads, saves),
         \/ handleTypeChange \/ submitIncomplete
         \/ \E r \in Shown, v \in Values : handleInputChange(r, v)
         \/ \E n \in 1..2 : submit(n)
         \/ \E s \in Slots : ReadRecord(s) \/ UpdateRecord(s) \/ AddRecord(s) \/ RefuseRecord(s) \/ SaveLost(s)
         \/ \E i \in RecordIds : SystemMoves(i)
  PROVE  Waiting(formBusy', editing', formLoads', saves')
<1>0. Waiting(formBusy, editing, formLoads, saves)
  OBVIOUS
<1>1. ASSUME \/ handleTypeChange \/ (\E r \in Shown, v \in Values : handleInputChange(r, v))
             \/ (\E i \in RecordIds : SystemMoves(i))
      PROVE  Waiting(formBusy', editing', formLoads', saves')
  <2>1. UNCHANGED <<editing, formBusy, formLoads, saves, lostOne>>
    BY <1>1 DEF handleTypeChange, handleInputChange, SystemMoves
  <2>. QED BY <1>0, <2>1
<1>2. CASE submitIncomplete
  <2>1. /\ UNCHANGED <<editing, formLoads, saves, lostOne>>
        /\ \/ Theme = "air" /\ Entity = "newuser"
           \/ formBusy' = FALSE \/ formBusy' = formBusy
    BY <1>2 DEF submitIncomplete
  <2>. QED BY <1>0, <2>1 DEF Waiting
<1>3. ASSUME NEW n \in 1..2, submit(n) PROVE Waiting(formBusy', editing', formLoads', saves')
  <2>. DEFINE c == Composed(content)
              call == [at |-> "sent", put |-> Puts(c), id |-> editing, data |-> Sent(c),
                       left |-> n, some |-> FALSE, opening |-> openings,
                       restarted |-> \E s \in SavesUnderWay :
                                        saves[s].opening = openings /\ saves[s].restarted]
  <2>1. /\ visible /\ (Theme = "default" => ~formBusy) /\ Free(saves) # {}
        /\ saves' = [saves EXCEPT ![FreeSave] = call]
        /\ formBusy' = (formBusy \/ RaisesLoading \/ Locks)
        /\ UNCHANGED <<editing, formLoads, lostOne>>
    BY <1>3 DEF submit, Usable
  <2>2. call.at = "sent"
    OBVIOUS
  <2>. HIDE DEF call
  <2>3. FreeSave \in Slots /\ SavesFit(saves, openings)
    BY <2>1, FreeSaveIs, FormTypes
  <2>4. saves'[FreeSave] = call /\ call # Idle
    BY <2>1, <2>2, <2>3 DEF SavesFit, Idle
  <2>5. Under(saves') # {}
    BY <2>3, <2>4 DEF Under
  <2>6. Theme = "default" => ~formBusy'
    BY <2>1 DEF RaisesLoading, Locks
  <2>7. Theme = "air" /\ Entity = "user" => editing # New
    BY <2>1, FormTypes DEF Modes
  <2>8. Theme = "air" /\ Entity = "channel" => formBusy' = formBusy
    BY <2>1, FormTypes DEF RaisesLoading, Locks
  <2>. QED BY <1>0, <2>1, <2>5, <2>6, <2>7, <2>8, SheetIs DEF Waiting
<1>4. ASSUME NEW s \in Slots, ReadRecord(s) \/ UpdateRecord(s) \/ AddRecord(s) \/ RefuseRecord(s)
      PROVE  Waiting(formBusy', editing', formLoads', saves')
  <2>1. /\ saves[s].at \in {"sent", "found"} /\ UNCHANGED <<editing, formBusy, formLoads, lostOne>>
        /\ \E at \in {"found", "stored", "refused"} : saves' = [saves EXCEPT ![s].at = at]
    BY <1>4 DEF ReadRecord, UpdateRecord, AddRecord, RefuseRecord, history
  <2>2. PICK at \in {"found", "stored", "refused"} : saves' = [saves EXCEPT ![s].at = at]
    BY <2>1
  <2>3. Under(saves') = Under(saves)
    BY <2>1, <2>2, SaveStays
  <2>. QED BY <1>0, <2>1, <2>3 DEF Waiting
<1>5. ASSUME NEW s \in Slots, SaveLost(s) PROVE Waiting(formBusy', editing', formLoads', saves')
  BY <1>5 DEF SaveLost
<1>. QED BY <1>1, <1>2, <1>3, <1>4, <1>5

LEMMA WaitsAnswer ==
  ASSUME FormTyped, Theme # "berry", ~lostOne',
         Waiting(formBusy, editing, formLoads, saves), NEW s \in Slots, SaveAnswered(s)
  PROVE  Waiting(formBusy', editing', formLoads', saves')
<1>1. saves[s].at \in {"stored", "refused"} /\ lostOne' = lostOne
  BY DEF SaveAnswered
<1>2. Waiting(formBusy, editing, formLoads, saves) /\ saves[s] # Idle
  BY <1>1 DEF Idle
<1>3. CASE /\ saves' = [saves EXCEPT ![s].at = "sent", ![s].left = @ - 1, ![s].some = TRUE]
           /\ UNCHANGED <<editing, visible, closing, content, given, formBusy, spent,
                          formLoads, typedSince>>
  <2>1. Under(saves') = Under(saves)
    BY <1>1, <1>3, SaveStays
  <2>. QED BY <1>2, <1>3, <2>1 DEF Waiting
<1>4. ASSUME saves' = [saves EXCEPT ![s] = Idle], Entity = "user", answeredAirUser(saves[s].at = "stored"),
             Theme = "air"
      PROVE  Waiting(formBusy', editing', formLoads', saves')
  <2>1. Close \/ formBusy' = FALSE
    BY <1>4 DEF answeredAirUser, AfterRefusal, EndsBusy
  <2>2. CASE Close
    <3>1. Mounted(New)
      BY <1>4, <2>2 DEF Close
    <3>2. CASE editing = New
      <4>1. UNCHANGED <<formBusy, formLoads>>
        BY <1>4, <3>1, <3>2 DEF Mounted
      <4>. QED BY <1>2, <1>4, <3>2, <4>1 DEF Waiting
    <3>3. CASE editing # New
      <4>1. mountedAirUser(New)
        BY <1>4, <3>1, <3>3 DEF Mounted
      <4>2. Under(formLoads') # {}
        BY <4>1, LoadWaits DEF mountedAirUser
      <4>. QED BY <1>4, <4>2 DEF Waiting
    <3>. QED BY <3>2, <3>3
  <2>3. CASE formBusy' = FALSE
    BY <2>3 DEF Waiting
  <2>. QED BY <2>1, <2>2, <2>3
<1>5. ASSUME formBusy' = FALSE PROVE Waiting(formBusy', editing', formLoads', saves')
  BY <1>5 DEF Waiting
<1>6. ASSUME UNCHANGED <<formBusy, formLoads>>, Theme = "default" \/ Entity = "channel"
      PROVE  Waiting(formBusy', editing', formLoads', saves')
  BY <1>2, <1>6 DEF Waiting
<1>7. ASSUME Theme = "air", Entity = "newuser"
      PROVE  Waiting(formBusy', editing', formLoads', saves')
  BY <1>7 DEF Waiting
<1>8. ASSUME Theme = "default", answeredDefault(saves[s].at = "stored")
      PROVE  UNCHANGED <<formBusy, formLoads>>
  BY <1>8 DEF answeredDefault
<1>9. ASSUME answeredAirChannel(saves[s].at = "stored") PROVE UNCHANGED <<formBusy, formLoads>>
  BY <1>9 DEF answeredAirChannel
<1>10. ASSUME answeredAirToken(saves[s].at = "stored" \/ saves[s].some) PROVE formBusy' = FALSE
  BY <1>10 DEF answeredAirToken
<1>11. ASSUME answeredAirRedemption(saves[s].at = "stored") PROVE formBusy' = FALSE
  BY <1>11 DEF answeredAirRedemption, AfterRefusal, EndsBusy
<1>. HIDE DEF Waiting
<1>. QED BY <1>3, <1>4, <1>5, <1>6, <1>7, <1>8, <1>9, <1>10, <1>11, FormAnswer, Zenon

----------------------------------------------------------------------------
(* The lock of a dialog of berry. *)

\* A locked dialog has a save of its opening; a save of this opening locks it, unless a load
\* started the form again under it; and only under such a load are there two of one opening.
Lock(ss, busy, open, now) ==
  /\ busy => \E s \in Under(ss) : ss[s].opening = now
  /\ open => \A s \in Under(ss) : ss[s].opening = now => ss[s].restarted \/ busy
  /\ \A s, t \in Under(ss) :
        s # t /\ ss[s].opening = ss[t].opening => ss[s].restarted /\ ss[t].restarted

LockInv == Theme = "berry" => Lock(saves, formBusy, visible, openings)

LEMMA MountedUnlocks ==
  ASSUME Theme = "berry", NEW id, Mounted(id)
  PROVE  formBusy' = FALSE
<1>1. CASE id = editing
  BY <1>1 DEF Mounted
<1>2. CASE id # editing
  <2>1. mountedBerry(id)
    BY <1>2 DEF Mounted
  <2>. QED BY <2>1 DEF mountedBerry
<1>. QED BY <1>1, <1>2

LEMMA ClosedUnlocks ==
  ASSUME Theme = "berry", Close
  PROVE  formBusy' = FALSE /\ visible' = FALSE
BY MountedUnlocks DEF Close

\* A save ends, and unlocks the form when it is of this opening.
LEMMA LockEnds ==
  ASSUME FormTyped, NEW s \in Slots, saves[s] # Idle, Lock(saves, formBusy, visible, openings)
  PROVE  /\ Lock([saves EXCEPT ![s] = Idle], formBusy /\ saves[s].opening # openings, visible, openings)
         /\ Lock([saves EXCEPT ![s] = Idle], FALSE, FALSE, openings)
<1>1. saves \in [Slots -> SaveCall \cup {Idle}] /\ s \in Under(saves)
  BY FormTypes DEF SavesFit, Under
<1>2. Under([saves EXCEPT ![s] = Idle]) = Under(saves) \ {s}
  BY SaveEnds
<1>3. \A k \in Under(saves) \ {s} : [saves EXCEPT ![s] = Idle][k] = saves[k]
  BY <1>1 DEF Under
<1>. QED BY <1>1, <1>2, <1>3 DEF Lock

LEMMA LockSame ==
  ASSUME FormTyped, LockInv, Theme = "berry",
         \/ handleTypeChange \/ submitIncomplete
         \/ \E l \in Slots : Prepared(l) \/ GetRecord(l) \/ LoadRefused(l) \/ LoadLost(l)
         \/ \E r \in Shown, v \in Values : handleInputChange(r, v)
         \/ \E i \in RecordIds : SystemMoves(i)
  PROVE  Lock(saves', formBusy', visible', openings')
<1>1. ASSUME NEW l \in Slots, LoadRefused(l) \/ LoadLost(l)
      PROVE  formBusy' = formBusy /\ UNCHANGED <<saves, visible, openings>>
  BY <1>1, FormTypes DEF LoadRefused, LoadLost
<1>2. ASSUME NEW l \in Slots, Prepared(l) PROVE FALSE
  BY <1>2, LoadIs DEF Prepared
<1>3. CASE submitIncomplete
  BY <1>3 DEF submitIncomplete, LockInv
<1>4. UNCHANGED <<formBusy, saves, visible, openings>> \/ submitIncomplete
  BY <1>1, <1>2 DEF handleTypeChange, GetRecord, handleInputChange, SystemMoves, history
<1>. QED BY <1>3, <1>4 DEF LockInv

LEMMA LockForm ==
  ASSUME FormTyped, LockInv, Theme = "berry",
         \/ \E id \in RecordIds \cup {New} : handleOpen(id)
         \/ handleCancel \/ closeTimer
         \/ \E l \in Slots : RecordLoaded(l)
  PROVE  Lock(saves', formBusy', visible', openings')
<1>0. Lock(saves, formBusy, visible, openings) /\ SavesFit(saves, openings) /\ openings \in Nat
  BY FormTypes, FormsAssumption DEF LockInv
<1>1. ASSUME NEW id \in RecordIds \cup {New}, handleOpen(id)
      PROVE  Lock(saves', formBusy', visible', openings')
  <2>1. openings' = openings + 1 /\ saves' = saves /\ formBusy' = FALSE
    BY <1>1, MountedUnlocks DEF handleOpen
  <2>2. \A s \in Under(saves) : saves[s].opening # openings + 1
    <3>1. \A s \in Under(saves) : saves[s].opening \in 0..MaxOpenings /\ saves[s].opening <= openings
      BY <1>0 DEF SavesFit, Under, SaveCall
    <3>. QED BY <1>0, <3>1, FormsAssumption
  <2>. QED BY <1>0, <2>1, <2>2 DEF Lock
<1>2. CASE handleCancel
  <2>1. saves' = saves /\ openings' = openings /\ formBusy' = FALSE /\ visible' = FALSE
    BY <1>2, ClosedUnlocks DEF handleCancel
  <2>. QED BY <1>0, <2>1 DEF Lock
<1>3. ~closeTimer
  BY FormTypes DEF closeTimer, Modes
<1>4. ASSUME NEW l \in Slots, RecordLoaded(l)
      PROVE  Lock(saves', formBusy', visible', openings')
  <2>. DEFINE data == formLoads[l].data
  <2>1. /\ UNCHANGED <<visible, openings>>
        /\ saves' = IF visible /\ data # given THEN Restarted ELSE saves
        /\ IF visible /\ data = given THEN UNCHANGED formBusy ELSE formBusy' = FALSE
    BY <1>4 DEF RecordLoaded, Hold, Loaded
  <2>. HIDE DEF data
  <2>2. CASE visible /\ data # given
    <3>1. saves' = Restarted /\ formBusy' = FALSE
      BY <2>1, <2>2
    <3>2. Under(Restarted) = Under(saves)
      <4>1. \A s \in Slots : saves[s] # Idle => [saves[s] EXCEPT !.restarted = TRUE] # Idle
        <5>1. \A s \in Slots : saves[s] # Idle => saves[s] \in SaveCall
          BY <1>0 DEF SavesFit
        <5>2. \A s \in Slots : saves[s] # Idle => [saves[s] EXCEPT !.restarted = TRUE] \in SaveCall
          BY <5>1 DEF SaveCall
        <5>. QED BY <5>2, NotIdle
      <4>. QED BY <4>1 DEF Under, Restarted, SavesUnderWay
    <3>3. \A s \in Under(saves) : /\ Restarted[s].opening = saves[s].opening
                                  /\ saves[s].opening = openings => Restarted[s].restarted = TRUE
                                  /\ saves[s].opening # openings => Restarted[s] = saves[s]
      <4>1. \A s \in Under(saves) : s \in Slots /\ s \in SavesUnderWay /\ saves[s] \in SaveCall
        BY <1>0 DEF SavesFit, Under, SavesUnderWay
      <4>2. \A s \in Under(saves) :
               Restarted[s] = IF saves[s].opening = openings
                              THEN [saves[s] EXCEPT !.restarted = TRUE] ELSE saves[s]
        BY <4>1 DEF Restarted
      <4>3. \A s \in Under(saves) : /\ [saves[s] EXCEPT !.restarted = TRUE].opening = saves[s].opening
                                    /\ [saves[s] EXCEPT !.restarted = TRUE].restarted = TRUE
        BY <4>1 DEF SaveCall
      <4>. QED BY <4>2, <4>3
    <3>4. /\ \A s \in Under(Restarted) : Restarted[s].opening = openings => Restarted[s].restarted
          /\ \A s, t \in Under(Restarted) :
                s # t /\ Restarted[s].opening = Restarted[t].opening
                  => Restarted[s].restarted /\ Restarted[t].restarted
      BY <1>0, <3>2, <3>3 DEF Lock
    <3>. QED BY <2>1, <3>1, <3>4 DEF Lock
  <2>3. CASE visible /\ data = given
    <3>1. UNCHANGED <<saves, formBusy>>
      BY <2>1, <2>3
    <3>. QED BY <1>0, <2>1, <3>1
  <2>4. CASE ~visible
    <3>1. saves' = saves /\ formBusy' = FALSE
      BY <2>1, <2>4
    <3>. QED BY <1>0, <2>1, <2>4, <3>1 DEF Lock
  <2>. QED BY <2>2, <2>3, <2>4
<1>. QED BY <1>1, <1>2, <1>3, <1>4

LEMMA LockSubmit ==
  ASSUME FormTyped, LockInv, Theme = "berry", NEW n \in 1..2, submit(n)
  PROVE  Lock(saves', formBusy', visible', openings')
<1>0. /\ Lock(saves, formBusy, visible, openings) /\ saves \in [Slots -> SaveCall \cup {Idle}]
      /\ formBusy \in BOOLEAN
  BY FormTypes DEF LockInv, SavesFit
<1>. DEFINE c == Composed(content)
            again == \E s \in SavesUnderWay : saves[s].opening = openings /\ saves[s].restarted
            call == [at |-> "sent", put |-> Puts(c), id |-> editing, data |-> Sent(c),
                     left |-> n, some |-> FALSE, opening |-> openings, restarted |-> again]
<1>1. /\ visible /\ ~formBusy /\ Free(saves) # {}
      /\ saves' = [saves EXCEPT ![FreeSave] = call]
      /\ UNCHANGED <<visible, openings>>
  BY DEF submit, Usable, Locks
<1>2. formBusy' = TRUE
  BY DEF submit, Locks
<1>3. call.opening = openings /\ call.restarted = again /\ call.at = "sent"
  OBVIOUS
<1>. HIDE DEF call
<1>4. FreeSave \in Slots /\ saves[FreeSave] = Idle /\ call # Idle
  BY <1>1, <1>3, FreeSaveIs DEF Idle
<1>5. Under(saves') = Under(saves) \cup {FreeSave}
  BY <1>0, <1>1, <1>4 DEF Under
<1>6. \A s \in Under(saves) : saves'[s] = saves[s] /\ s # FreeSave
  BY <1>0, <1>1, <1>4 DEF Under
<1>7. saves'[FreeSave] = call
  BY <1>0, <1>1, <1>4
<1>8. \A s \in Under(saves) : saves[s].opening = openings => saves[s].restarted
  BY <1>0, <1>1 DEF Lock
<1>9. \A s \in Under(saves) : saves[s].opening = openings => again
  BY <1>8, UnderIs
<1>. HIDE DEF again
<1>10. \A s \in Under(saves) : saves[s].opening = openings => call.restarted
  BY <1>3, <1>9
<1>11. \A s, t \in Under(saves') :
          s # t /\ saves'[s].opening = saves'[t].opening
            => saves'[s].restarted /\ saves'[t].restarted
  BY <1>0, <1>3, <1>5, <1>6, <1>7, <1>8, <1>10 DEF Lock
<1>12. \E s \in Under(saves') : saves'[s].opening = openings
  BY <1>3, <1>5, <1>7
<1>. QED BY <1>1, <1>2, <1>11, <1>12 DEF Lock

LEMMA LockWrite ==
  ASSUME FormTyped, LockInv, Theme = "berry", NEW s \in Slots,
         ReadRecord(s) \/ UpdateRecord(s) \/ AddRecord(s) \/ RefuseRecord(s) \/ SaveLost(s) \/ SaveAnswered(s)
  PROVE  Lock(saves', formBusy', visible', openings')
<1>0. /\ Lock(saves, formBusy, visible, openings) /\ SavesFit(saves, openings)
      /\ formBusy \in BOOLEAN /\ visible \in BOOLEAN
  BY FormTypes DEF LockInv
<1>1. saves[s].at \in {"sent", "found", "stored", "refused"}
  BY DEF ReadRecord, UpdateRecord, AddRecord, RefuseRecord, SaveLost, SaveAnswered
<1>2. saves[s] \in SaveCall /\ saves[s] # Idle
  BY <1>1, SaveIs
<1>3. ASSUME ReadRecord(s) \/ UpdateRecord(s) \/ AddRecord(s) \/ RefuseRecord(s)
      PROVE  Lock(saves', formBusy', visible', openings')
  <2>1. /\ UNCHANGED <<formBusy, visible, openings>>
        /\ \E at \in {"found", "stored", "refused"} : saves' = [saves EXCEPT ![s].at = at]
    BY <1>3 DEF ReadRecord, UpdateRecord, AddRecord, RefuseRecord, history
  <2>2. PICK at \in {"found", "stored", "refused"} : saves' = [saves EXCEPT ![s].at = at]
    BY <2>1
  <2>3. Under(saves') = Under(saves)
    BY <1>1, <2>2, SaveStays
  <2>4. \A k \in Under(saves) : saves'[k].opening = saves[k].opening
                                /\ saves'[k].restarted = saves[k].restarted
    BY <1>0, <1>2, <2>2 DEF SavesFit, SaveCall, Under
  <2>5. Lock(saves', formBusy, visible, openings)
    BY <1>0, <2>3, <2>4 DEF Lock
  <2>. QED BY <2>1, <2>5
<1>4. CASE SaveLost(s)
  <2>1. /\ UNCHANGED <<visible, openings>> /\ saves' = [saves EXCEPT ![s] = Idle]
        /\ formBusy' = (formBusy /\ saves[s].opening # openings)
    BY <1>4 DEF SaveLost, Locks
  <2>. QED BY <1>0, <1>2, <2>1, LockEnds
<1>5. CASE SaveAnswered(s)
  <2>1. openings' = openings
    BY <1>5 DEF SaveAnswered
  <2>2. CASE /\ saves' = [saves EXCEPT ![s].at = "sent", ![s].left = @ - 1, ![s].some = TRUE]
             /\ UNCHANGED <<editing, visible, closing, content, given, formBusy, spent,
                            formLoads, typedSince>>
    <3>1. Under(saves') = Under(saves)
      BY <1>1, <2>2, SaveStays
    <3>2. \A k \in Under(saves) : saves'[k].opening = saves[k].opening
                                  /\ saves'[k].restarted = saves[k].restarted
      BY <1>0, <1>2, <2>2 DEF SavesFit, SaveCall, Under
    <3>3. Lock(saves', formBusy, visible, openings)
      BY <1>0, <3>1, <3>2 DEF Lock
    <3>. QED BY <2>1, <2>2, <3>3
  <2>3. CASE /\ saves' = [saves EXCEPT ![s] = Idle]
             /\ answeredBerry(s, saves[s].at = "stored")
    <3>1. CASE Close
      <4>1. formBusy' = FALSE /\ visible' = FALSE
        BY <3>1, ClosedUnlocks
      <4>. QED BY <1>0, <1>2, <2>1, <2>3, <4>1, LockEnds
    <3>2. CASE ~Close
      <4>1. visible' = visible /\ formBusy' = (formBusy /\ saves[s].opening # openings)
        BY <2>3, <3>2 DEF answeredBerry
      <4>. QED BY <1>0, <1>2, <2>1, <2>3, <4>1, LockEnds
    <3>. QED BY <3>1, <3>2
  <2>. QED BY <1>5, <2>2, <2>3, FormAnswer
<1>. QED BY <1>3, <1>4, <1>5

LEMMA FormsMove ==
  ASSUME FormTyped, WaitInv, LockInv, [FormsNext]_formVars
  PROVE  WaitInv' /\ LockInv'
<1>0. sheet' = sheet
  BY DEF FormsNext, formVars, handleOpen, handleCancel, closeTimer, handleTypeChange,
         submitIncomplete, Prepared, GetRecord, RecordLoaded, LoadRefused, LoadLost,
         handleInputChange, submit, ReadRecord, UpdateRecord, AddRecord, RefuseRecord, SaveAnswered, SaveLost,
         SystemMoves
<1>1. Theme' = Theme /\ Entity' = Entity
  BY <1>0, SheetSame
<1>2. lostOne => lostOne'
  BY DEF FormsNext, formVars, handleOpen, handleCancel, closeTimer, handleTypeChange,
         submitIncomplete, Prepared, GetRecord, RecordLoaded, LoadRefused, LoadLost, history,
         handleInputChange, submit, ReadRecord, UpdateRecord, AddRecord, RefuseRecord, SaveAnswered, SaveLost,
         SystemMoves
<1>3. ASSUME Theme # "berry", ~lostOne' PROVE Waiting(formBusy', editing', formLoads', saves')
  <2>1. Waiting(formBusy, editing, formLoads, saves)
    BY <1>2, <1>3 DEF WaitInv
  <2>2. CASE UNCHANGED formVars
    BY <2>1, <2>2 DEF formVars
  <2>3. CASE FormsNext
    BY <1>3, <2>1, <2>3, WaitsOpen, WaitsLoad, WaitsSave, WaitsAnswer DEF FormsNext
  <2>. QED BY <2>2, <2>3
<1>4. ASSUME Theme = "berry" PROVE Lock(saves', formBusy', visible', openings')
  <2>1. CASE UNCHANGED formVars
    BY <1>4, <2>1 DEF formVars, LockInv
  <2>2. CASE FormsNext
    BY <1>4, <2>2, LockSame, LockForm, LockSubmit, LockWrite DEF FormsNext
  <2>. QED BY <2>1, <2>2
<1>. QED BY <1>1, <1>3, <1>4 DEF WaitInv, LockInv, Waiting, Under, Read

LEMMA FormsStart ==
  ASSUME FormsInit
  PROVE  WaitInv /\ LockInv
<1>1. /\ (IF Theme = "default" THEN TRUE ELSE editing = New) /\ formBusy = (Theme = "default" /\ editing # New)
      /\ saves = [s \in Slots |-> Idle]
      /\ formLoads = IF formBusy THEN [l \in Slots |-> IF l = 1
                                          THEN [at |-> "asked", id |-> editing, data |-> Origin]
                                          ELSE Idle]
                     ELSE [l \in Slots |-> Idle]
  BY DEF FormsInit
<1>2. formBusy => Theme = "default" /\ formLoads[1].at = "asked"
  BY <1>1 DEF Slots
<1>3. formBusy => Theme = "default" /\ Under(formLoads) # {}
  BY <1>2 DEF Under, Slots, Idle
<1>4. Under(saves) = {}
  BY <1>1 DEF Under
<1>. QED BY <1>3, <1>4 DEF WaitInv, Waiting, LockInv, Lock

LEMMA SpinnerWaits ==
  ASSUME WaitInv, LockInv
  PROVE  FormSpinner /\ OneSaveAtATime
<1>1. FormSpinner
  BY UnderIs, ReadUnder DEF WaitInv, Waiting, LockInv, Lock, FormSpinner
<1>2. OneSaveAtATime
  BY UnderIs DEF LockInv, Lock, OneSaveAtATime
<1>. QED BY <1>1, <1>2

\* Only the write of a save whose row was read before takes the status back.
TakesBack(i) ==
  \E s \in Slots : /\ saves[s].at = "found" /\ saves'[s].at = "stored"
                   /\ saves[s].id = i /\ statusRead[s] # Moved

LEMMA StatusStays ==
  ASSUME FormTyped, FormsNext, NEW i \in RecordIds, Entity \in {"token", "redemption"},
         records[i]["status"] = Moved
  PROVE  records[i]["status"]' = Moved \/ TakesBack(i)
<1>0. records \in [RecordIds -> Data] /\ "status" \in Parts
  BY FormTypes, PartsAre
<1>1. ASSUME NEW s \in Slots, UpdateRecord(s) PROVE records'[i]["status"] = Moved \/ TakesBack(i)
  <2>. DEFINE j == saves[s].id
              data == saves[s].data
              row == [r \in Parts |-> IF r = "id" THEN j ELSE Written(r, data[r], Before(s, r))]
  <2>1. /\ saves[s].at = "found" /\ records' = [records EXCEPT ![j] = row]
        /\ saves' = [saves EXCEPT ![s].at = "stored"]
    BY <1>1 DEF UpdateRecord, ReadsFirst
  <2>2. row["status"] = statusRead[s]
    BY <1>0 DEF Written, Before, ReadsFirst
  <2>3. saves'[s].at = "stored"
    <3>1. saves[s] \in SaveCall /\ SavesFit(saves, openings)
      BY <2>1, SaveIs, FormTypes
    <3>. QED BY <2>1, <3>1 DEF SavesFit, SaveCall
  <2>4. CASE i = j
    <3>1. records'[i]["status"] = statusRead[s]
      BY <1>0, <2>1, <2>2, <2>4
    <3>. QED BY <2>1, <2>3, <2>4, <3>1 DEF TakesBack
  <2>. HIDE DEF j, row
  <2>5. CASE i # j
    BY <1>0, <2>1, <2>5
  <2>. QED BY <2>4, <2>5
<1>2. ASSUME NEW k \in RecordIds, SystemMoves(k) PROVE records'[i]["status"] = Moved
  <2>. DEFINE r == IF "amount" \in Shown /\ Entity # "redemption" THEN "amount" ELSE "status"
              one == [records EXCEPT ![k]["status"] = Moved]
  <2>1. records' = [one EXCEPT ![k][r] = Moved]
    BY <1>2 DEF SystemMoves
  <2>2. one[i]["status"] = Moved /\ one \in [RecordIds -> Data]
    BY <1>0 DEF Data, Moved, Values
  <2>. HIDE DEF one, r
  <2>. QED BY <1>0, <2>1, <2>2 DEF Data
<1>3. records' = records \/ (\E s \in Slots : UpdateRecord(s)) \/ (\E k \in RecordIds : SystemMoves(k))
  BY DEF FormsNext, handleOpen, handleCancel, closeTimer, handleTypeChange,
         submitIncomplete, Prepared, GetRecord, RecordLoaded, LoadRefused, LoadLost,
         handleInputChange, submit, ReadRecord, AddRecord, RefuseRecord, SaveAnswered, SaveLost
<1>. QED BY <1>1, <1>2, <1>3

----------------------------------------------------------------------------
(* Whose values a form and a record hold. *)

Own(d, i) ==
  \A r \in Parts \ {"id"} :
    /\ d[r] \notin {Self} \cup (RecordIds \ {i})
    /\ d[r] = Unset => Entity = "user" /\ r = "secret"

\* What a form, a load or a save holds: of one record, until one went astray.
SoundData(d, lost) ==
  /\ Entity = "user" => d["secret"] \in {Unset, Typed}
  /\ Entity = "channel" /\ d["id"] \in RecordIds => ~Zero(d["secret"])
  /\ d["id"] \in RecordIds => lost \/ Own(d, d["id"])
SoundRow(i, row, lost) ==
  /\ Entity = "user" => row["secret"] \in {i, Typed}
  /\ Entity = "channel" => ~Zero(row["secret"])
  /\ lost \/ \A r \in Parts \ {"id"} : row[r] \notin {Unset, Self} \cup (RecordIds \ {i})
SoundLoads(ls, lost) == \A l \in Slots : ls[l].at = "read" => SoundData(ls[l].data, lost)
SoundSaves(ss, lost) == \A s \in Slots : ss[s] # Idle => SoundData(ss[s].data, lost)
SoundRows(rs, lost) == \A i \in RecordIds : SoundRow(i, rs[i], lost)
Sounds(c, g, ls, ss, rs, lost) ==
  /\ SoundData(c, lost) /\ SoundData(g, lost)
  /\ SoundLoads(ls, lost) /\ SoundSaves(ss, lost) /\ SoundRows(rs, lost)
SoundInv == Sounds(content, given, formLoads, saves, records, astray)

\* The status that the server read for a save is one of the row of that save.
Finds(ss, status, lost) ==
  \A s \in Slots :
    ss[s].at = "found" =>
      /\ ss[s].id \in RecordIds
      /\ lost \/ status[s] \notin {Unset, Self} \cup (RecordIds \ {ss[s].id})
FoundInv == Finds(saves, statusRead, astray)

LEMMA ShownIs ==
  ASSUME FormTyped
  PROVE  /\ "id" \notin Shown /\ "status" \notin Shown
         /\ Entity \in {"token", "redemption"} => "secret" \notin Shown
<1>1. Shown = {RoleOf(f) : f \in FieldsOf(sheet)}
  <2>1. sheet \in Sheets
    BY DEF FormTyped, FormTypeOK
  <2>. QED BY <2>1 DEF Shown, ShownOf
<1>2. \A f : RoleOf(f) # "id" /\ RoleOf(f) # "status"
  BY DEF RoleOf
<1>3. \A f : RoleOf(f) = "secret" => f \in {"key", "password"}
  BY DEF RoleOf
<1>4. ASSUME Entity = "token" PROVE "key" \notin FieldsOf(sheet) /\ "password" \notin FieldsOf(sheet)
  <2>1. FieldsOf(sheet) \in {tokenDefault, tokenAir, tokenBerry}
    BY <1>4 DEF FieldsOf, Entity
  <2>. QED BY <2>1 DEF tokenDefault, tokenAir, tokenBerry
<1>5. ASSUME Entity = "redemption"
      PROVE  "key" \notin FieldsOf(sheet) /\ "password" \notin FieldsOf(sheet)
  <2>1. FieldsOf(sheet) \in {redemptionDefault, redemptionAir, redemptionBerry}
    BY <1>5 DEF FieldsOf, Entity
  <2>. QED BY <2>1 DEF redemptionDefault, redemptionAir, redemptionBerry
<1>. QED BY <1>1, <1>2, <1>3, <1>4, <1>5

LEMMA OriginSound == ASSUME NEW lost PROVE SoundData(Origin, lost)
<1>1. "id" \in Parts /\ "secret" \in Parts
  BY PartsAre
<1>. QED BY <1>1 DEF SoundData, Origin, Unset, RecordIds

LEMMA GivenSound ==
  ASSUME NEW i \in 1..3, NEW rs \in [RecordIds -> Data], NEW lost \in BOOLEAN, SoundRows(rs, lost)
  PROVE  SoundData(Given(i, rs), lost)
<1>1. "id" \in Parts /\ "secret" \in Parts
  BY PartsAre
<1>2. CASE i = Self
  BY <1>1, <1>2 DEF SoundData, Given, Self, RecordIds, Unset
<1>3. CASE i # Self
  <2>1. i \in RecordIds /\ i # Unset /\ i # Self
    BY <1>3 DEF RecordIds, Self, Unset
  <2>2. SoundRow(i, rs[i], lost)
    BY <2>1 DEF SoundRows
  <2>3. /\ Given(i, rs)["id"] = i
        /\ Given(i, rs)["secret"] = IF Entity = "user" THEN Unset ELSE rs[i]["secret"]
        /\ \A r \in Parts \ {"id", "secret"} : Given(i, rs)[r] = rs[i][r]
    BY <1>1, <1>3 DEF Given
  <2>4. ASSUME ~lost PROVE Own(Given(i, rs), i)
    <3>1. \A r \in Parts \ {"id"} : rs[i][r] \notin {Unset, Self} \cup (RecordIds \ {i})
      BY <2>2, <2>4 DEF SoundRow
    <3>2. Unset \notin {Self} \cup (RecordIds \ {i})
      BY DEF Unset, Self, RecordIds
    <3>. QED BY <2>3, <3>1, <3>2 DEF Own
  <2>. QED BY <2>2, <2>3, <2>4 DEF SoundData, SoundRow
<1>. QED BY <1>2, <1>3

\* what is put into a form is nobody's, and does not blank its secret
LEMMA PutSound ==
  ASSUME NEW d \in Data, NEW e \in Data, NEW lost \in BOOLEAN, SoundData(d, lost), e["id"] = d["id"],
         \A r \in Parts : e[r] = d[r] \/ (e[r] \in {Typed, Odd, Cleared, Preset} /\ r # "secret")
                          \/ (r = "secret" /\ e[r] = Typed)
                          \/ (r = "secret" /\ e[r] = Preset /\ Entity = "channel")
  PROVE  SoundData(e, lost)
<1>1. "id" \in Parts /\ "secret" \in Parts
  BY PartsAre
<1>2. /\ ~Zero(Typed) /\ ~Zero(Preset)
      /\ \A i \in RecordIds : {Typed, Odd, Cleared, Preset} \cap ({Unset, Self} \cup RecordIds) = {}
  BY DEF Zero, Typed, Odd, Cleared, Preset, Unset, Self, RecordIds
<1>3. Own(d, d["id"]) /\ d["id"] \in RecordIds => Own(e, d["id"])
  BY <1>2 DEF Own
<1>4. e["secret"] \in {d["secret"], Typed} \/ (e["secret"] = Preset /\ Entity = "channel")
  BY <1>1
<1>. QED BY <1>1, <1>2, <1>3, <1>4 DEF SoundData

LEMMA TypedSound ==
  ASSUME FormTyped, NEW d \in Data, NEW lost \in BOOLEAN, SoundData(d, lost), NEW r \in Shown,
         NEW v \in Typeable(r)
  PROVE  SoundData([d EXCEPT ![r] = v], lost) /\ [d EXCEPT ![r] = v] \in Data
<1>1. v \in {Typed, Odd, Cleared} /\ (r = "secret" => v = Typed)
  BY DEF Typeable
<1>2. v \in Values /\ r \in Parts /\ r # "id"
  BY <1>1, PartsAre, ShownIs DEF Values, Typed, Odd, Cleared
<1>. DEFINE e == [d EXCEPT ![r] = v]
<1>3. e \in Data /\ e[r] = v /\ \A q \in Parts : q # r => e[q] = d[q]
  BY <1>2 DEF Data
<1>4. e["id"] = d["id"]
  BY <1>2, <1>3, PartsAre
<1>. HIDE DEF e
<1>5. SoundData(e, lost)
  BY <1>1, <1>3, <1>4, PutSound
<1>. QED BY <1>3, <1>5 DEF e

LEMMA ComposedSound ==
  ASSUME NEW d \in Data, NEW lost \in BOOLEAN, SoundData(d, lost)
  PROVE  /\ SoundData(Composed(d), lost) /\ Composed(d)["id"] = d["id"]
         /\ d["id"] \in RecordIds => Composed(d) = d
<1>. DEFINE e == [d EXCEPT !["secret"] = Preset]
<1>1. "id" \in Parts /\ "secret" \in Parts /\ Preset \in Values
  BY PartsAre DEF Preset, Values
<1>2. e \in Data /\ e["secret"] = Preset /\ \A q \in Parts : q # "secret" => e[q] = d[q]
  BY <1>1 DEF Data
<1>3. Entity = "channel" => SoundData(e, lost)
  <2>. HIDE DEF e
  <2>. QED BY <1>1, <1>2, PutSound
<1>4. ComposedDefault(d) \in {d, e}
      /\ (ComposedDefault(d) # d => Entity = "channel" /\ Zero(d["secret"]))
  BY DEF ComposedDefault
<1>5. Composed(d) \in {d, ComposedDefault(d)}
  BY DEF Composed, ComposedBerry
<1>. HIDE DEF e
<1>6. Composed(d) # d => Composed(d) = e /\ Entity = "channel" /\ Zero(d["secret"])
  BY <1>4, <1>5
<1>. QED BY <1>1, <1>2, <1>3, <1>6 DEF SoundData

LEMMA SentSound ==
  ASSUME NEW d \in Data, NEW lost \in BOOLEAN, SoundData(d, lost)
  PROVE  SoundData(Sent(d), lost) /\ Sent(d)["id"] = d["id"]
<1>1. "id" \in Parts /\ "secret" \in Parts /\ Sent(d) \in Data
  BY PartsAre, SentTyped
<1>2. \A r \in Parts : Sent(d)[r] = d[r] \/ (Sent(d)[r] \in {Typed, Preset} /\ r \notin {"id", "secret"})
  BY DEF Sent
<1>3. Sent(d)["id"] = d["id"]
  BY <1>1, <1>2
<1>. QED BY <1>1, <1>2, <1>3, PutSound

LEMMA SoundLost ==
  ASSUME NEW d, NEW x \in BOOLEAN, NEW y \in BOOLEAN, x => y, SoundData(d, x)
  PROVE  SoundData(d, y)
BY DEF SoundData

LEMMA HoldSound ==
  ASSUME NEW data, NEW lost \in BOOLEAN, Hold(data), SoundData(data, lost), SoundData(content, lost),
         SoundData(given, lost)
  PROVE  SoundData(content', lost) /\ SoundData(given', lost)
BY DEF Hold

LEMMA SoundParts ==
  ASSUME FormTyped, SoundInv
  PROVE  /\ SoundData(content, astray) /\ SoundData(given, astray) /\ SoundData(Origin, astray)
         /\ SoundLoads(formLoads, astray) /\ SoundSaves(saves, astray) /\ SoundRows(records, astray)
         /\ content \in Data /\ given \in Data /\ astray \in BOOLEAN
         /\ records \in [RecordIds -> Data] /\ LoadsFit(formLoads) /\ SavesFit(saves, openings)
BY FormTypes, OriginSound DEF SoundInv, Sounds, Held

\* loads that read nothing new
LEMMA LoadsSound ==
  ASSUME FormTyped, SoundInv, NEW ls,
         \A l \in Slots : ls[l].at # "read" \/ ls[l] = formLoads[l]
  PROVE  SoundLoads(ls, astray)
BY SoundParts DEF SoundLoads

LEMMA LoadSound ==
  ASSUME FormTyped, SoundInv, NEW l \in Slots
  PROVE  /\ \A at \in {"preparing", "asked"} : \A id : SoundLoads(Load(l, at, id), astray)
         /\ SoundLoads([formLoads EXCEPT ![l] = Idle], astray)
<1>1. \A m \in Slots : formLoads[m] = formLoads[m] /\ l \in DOMAIN formLoads
  BY FormTypes DEF LoadsFit
<1>2. ASSUME NEW at \in {"preparing", "asked"}, NEW id PROVE SoundLoads(Load(l, at, id), astray)
  <2>. DEFINE c == [at |-> at, id |-> id, data |-> Origin]
  <2>1. c.at # "read" /\ Load(l, at, id) = [formLoads EXCEPT ![l] = c]
    BY DEF Load
  <2>. HIDE DEF c
  <2>2. \A m \in Slots : Load(l, at, id)[m].at # "read" \/ Load(l, at, id)[m] = formLoads[m]
    BY <1>1, <2>1 DEF LoadsFit
  <2>. QED BY <2>2, LoadsSound
<1>3. \A m \in Slots : [formLoads EXCEPT ![l] = Idle][m].at # "read"
                       \/ [formLoads EXCEPT ![l] = Idle][m] = formLoads[m]
  BY FormTypes DEF LoadsFit, Idle
<1>. QED BY <1>2, <1>3, LoadsSound

LEMMA MountedSound ==
  ASSUME FormTyped, SoundInv, NEW id, Mounted(id)
  PROVE  /\ SoundData(content', astray) /\ SoundData(given', astray)
         /\ SoundLoads(formLoads', astray)
<1>0. /\ SoundData(content, astray) /\ SoundData(given, astray) /\ SoundLoads(formLoads, astray)
      /\ SoundData(Origin, astray) /\ astray \in BOOLEAN
  BY SoundParts
<1>1. CASE id = editing
  <2>1. content' \in {content, given} /\ UNCHANGED <<given, formLoads>>
    BY <1>1 DEF Mounted
  <2>. QED BY <1>0, <2>1
<1>2. CASE id # editing
  <2>1. IF Theme = "berry" THEN mountedBerry(id)
        ELSE CASE Entity = "channel" -> mountedAirChannel(id)
               [] Entity = "token" -> mountedAirToken(id)
               [] Entity = "user" -> mountedAirUser(id)
               [] OTHER -> mountedAirRedemption(id)
    BY <1>2 DEF Mounted
  <2>2. \/ mountedBerry(id) \/ mountedAirChannel(id) \/ mountedAirToken(id)
        \/ mountedAirUser(id) \/ mountedAirRedemption(id)
    BY <2>1
  <2>3. CASE mountedBerry(id)
    BY <1>0, <2>3, FreeLoadIs, LoadSound DEF mountedBerry
  <2>4. CASE mountedAirChannel(id)
    <3>. DEFINE others == [l \in Slots |-> IF formLoads[l].at = "preparing" THEN Idle ELSE formLoads[l]]
                k == CHOOSE l \in Free(others) : TRUE
                c == [at |-> "preparing", id |-> id, data |-> Origin]
    <3>1. formLoads' = [others EXCEPT ![k] = c] /\ UNCHANGED <<content, given>>
      BY <2>4 DEF mountedAirChannel
    <3>2. c.at = "preparing"
      OBVIOUS
    <3>. HIDE DEF c, k
    <3>3. \A l \in Slots : formLoads'[l] \in {c, Idle, formLoads[l]}
      BY <3>1
    <3>4. \A l \in Slots : formLoads'[l].at # "read" \/ formLoads'[l] = formLoads[l]
      BY <3>2, <3>3 DEF Idle
    <3>. QED BY <1>0, <3>1, <3>4, LoadsSound
  <2>5. CASE mountedAirToken(id)
    <3>1. \/ formLoads' = Load(FreeLoad, "asked", id) /\ FreeLoad \in Slots /\ UNCHANGED <<content, given>>
          \/ Hold(Origin) /\ UNCHANGED formLoads
          \/ UNCHANGED <<content, given, formLoads>>
      BY <2>5, FreeLoadIs DEF mountedAirToken
    <3>. QED BY <1>0, <3>1, LoadSound, HoldSound
  <2>6. CASE mountedAirUser(id)
    BY <1>0, <2>6, FreeLoadIs, LoadSound DEF mountedAirUser
  <2>7. CASE mountedAirRedemption(id)
    <3>1. \/ formLoads' = Load(FreeLoad, "asked", id) /\ FreeLoad \in Slots /\ UNCHANGED <<content, given>>
          \/ Hold(Origin) /\ UNCHANGED formLoads
      BY <2>7, FreeLoadIs DEF mountedAirRedemption
    <3>. QED BY <1>0, <3>1, LoadSound, HoldSound
  <2>. QED BY <2>2, <2>3, <2>4, <2>5, <2>6, <2>7
<1>. QED BY <1>1, <1>2

LEMMA SoundForm ==
  ASSUME FormTyped, SoundInv,
         \/ \E id \in RecordIds \cup {New} : handleOpen(id)
         \/ handleCancel \/ closeTimer \/ handleTypeChange \/ submitIncomplete
         \/ \E r \in Shown, v \in Values : handleInputChange(r, v)
  PROVE  Sounds(content', given', formLoads', saves', records', astray')
<1>0. /\ SoundData(content, astray) /\ SoundData(given, astray) /\ SoundData(Origin, astray)
      /\ SoundLoads(formLoads, astray) /\ SoundSaves(saves, astray) /\ SoundRows(records, astray)
      /\ content \in Data /\ given \in Data /\ astray \in BOOLEAN
  BY SoundParts
<1>1. ASSUME NEW id, Mounted(id), UNCHANGED <<saves, records, astray>>
      PROVE  Sounds(content', given', formLoads', saves', records', astray')
  BY <1>0, <1>1, MountedSound DEF Sounds
<1>2. ASSUME SoundData(content', astray), SoundData(given', astray),
             UNCHANGED <<formLoads, saves, records, astray>>
      PROVE  Sounds(content', given', formLoads', saves', records', astray')
  BY <1>0, <1>2 DEF Sounds
<1>3. CASE handleTypeChange
  <2>1. /\ content' = [r \in Parts |-> IF r = "models" THEN Preset
                                       ELSE IF r = "config" /\ Theme = "berry" THEN Cleared
                                       ELSE content[r]]
        /\ UNCHANGED <<given, formLoads, saves, records, astray>>
    BY <1>3 DEF handleTypeChange
  <2>2. content' \in Data
    BY <1>0, <2>1 DEF Data, Values, Preset, Cleared
  <2>3. /\ content'["id"] = content["id"]
        /\ \A r \in Parts : content'[r] = content[r]
                            \/ (content'[r] \in {Preset, Cleared} /\ r # "secret")
    BY <2>1, PartsAre
  <2>4. SoundData(content', astray)
    BY <1>0, <2>2, <2>3, PutSound
  <2>. QED BY <1>0, <1>2, <2>1, <2>4
<1>4. CASE submitIncomplete
  <2>1. UNCHANGED <<formLoads, saves, records, astray>>
    BY <1>4 DEF submitIncomplete
  <2>2. \/ UNCHANGED <<content, given>> \/ Hold(Origin)
        \/ content' = Composed(content) /\ given' = given
    BY <1>4 DEF submitIncomplete
  <2>3. SoundData(Composed(content), astray)
    BY <1>0, ComposedSound
  <2>4. SoundData(content', astray) /\ SoundData(given', astray)
    BY <1>0, <2>2, <2>3, HoldSound
  <2>. QED BY <1>2, <2>1, <2>4
<1>5. ASSUME NEW r \in Shown, NEW v \in Values, handleInputChange(r, v)
      PROVE  Sounds(content', given', formLoads', saves', records', astray')
  <2>1. /\ v \in Typeable(r) /\ content' = [content EXCEPT ![r] = v]
        /\ UNCHANGED <<given, formLoads, saves, records, astray>>
    BY <1>5 DEF handleInputChange
  <2>2. SoundData(content', astray)
    BY <1>0, <2>1, TypedSound
  <2>. QED BY <1>0, <1>2, <2>1, <2>2
<1>6. ASSUME NEW id \in RecordIds \cup {New}, handleOpen(id)
      PROVE  Sounds(content', given', formLoads', saves', records', astray')
  BY <1>1, <1>6 DEF handleOpen
<1>7. CASE handleCancel
  BY <1>1, <1>7 DEF handleCancel, Close
<1>8. CASE closeTimer
  BY <1>1, <1>8 DEF closeTimer
<1>. QED BY <1>3, <1>4, <1>5, <1>6, <1>7, <1>8

LEMMA SoundLoading ==
  ASSUME FormTyped, SoundInv, NEW l \in Slots,
         Prepared(l) \/ GetRecord(l) \/ RecordLoaded(l) \/ LoadRefused(l) \/ LoadLost(l)
  PROVE  Sounds(content', given', formLoads', saves', records', astray')
<1>0. /\ SoundData(content, astray) /\ SoundData(given, astray) /\ SoundData(Origin, astray)
      /\ SoundLoads(formLoads, astray) /\ SoundSaves(saves, astray) /\ SoundRows(records, astray)
      /\ content \in Data /\ given \in Data /\ astray \in BOOLEAN
      /\ records \in [RecordIds -> Data] /\ LoadsFit(formLoads) /\ SavesFit(saves, openings)
  BY SoundParts
<1>1. SoundLoads([formLoads EXCEPT ![l] = Idle], astray)
  BY LoadSound
<1>2. CASE Prepared(l)
  <2>1. /\ UNCHANGED <<saves, records, astray>>
        /\ \/ Hold(Origin) /\ formLoads' = [formLoads EXCEPT ![l] = Idle]
           \/ formLoads' = [formLoads EXCEPT ![l].at = "asked"] /\ UNCHANGED <<content, given>>
    BY <1>2 DEF Prepared
  <2>2. CASE Hold(Origin) /\ formLoads' = [formLoads EXCEPT ![l] = Idle]
    BY <1>0, <1>1, <2>1, <2>2, HoldSound DEF Sounds
  <2>3. CASE formLoads' = [formLoads EXCEPT ![l].at = "asked"] /\ UNCHANGED <<content, given>>
    <3>1. formLoads[l] \in LoadCall
      BY <1>2, LoadIs DEF Prepared
    <3>2. \A m \in Slots : formLoads'[m].at # "read" \/ formLoads'[m] = formLoads[m]
      BY <1>0, <2>3, <3>1 DEF LoadsFit, LoadCall
    <3>. QED BY <1>0, <2>1, <2>3, <3>2, LoadsSound DEF Sounds
  <2>. QED BY <2>1, <2>2, <2>3
<1>3. CASE GetRecord(l)
  <2>. DEFINE data == Given(formLoads[l].id, records)
  <2>1. /\ formLoads[l].at = "asked" /\ UNCHANGED <<content, given, saves, records, astray>>
        /\ formLoads' = [formLoads EXCEPT ![l].at = "read", ![l].data = data]
    BY <1>3 DEF GetRecord, history
  <2>2. formLoads[l].at = "asked"
    BY <2>1
  <2>3. formLoads[l].id \in 1..3 /\ formLoads[l] \in LoadCall
    BY <2>2, LoadIs
  <2>4. SoundData(data, astray)
    BY <1>0, <2>3, GivenSound
  <2>. HIDE DEF data
  <2>5. \A m \in Slots : \/ m = l /\ formLoads'[m].data = data
                         \/ m # l /\ formLoads'[m] = formLoads[m]
    BY <1>0, <2>1, <2>3 DEF LoadsFit, LoadCall
  <2>6. SoundLoads(formLoads', astray)
    BY <1>0, <2>4, <2>5 DEF SoundLoads
  <2>. QED BY <1>0, <2>1, <2>6 DEF Sounds
<1>4. CASE RecordLoaded(l)
  <2>. DEFINE data == formLoads[l].data
  <2>1. /\ formLoads[l].at = "read" /\ Hold(data) /\ saves' \in {saves, Restarted}
        /\ formLoads' = [formLoads EXCEPT ![l] = Idle] /\ UNCHANGED <<records, astray>>
    BY <1>4 DEF RecordLoaded, Loaded
  <2>2. SoundData(data, astray)
    BY <1>0, <2>1 DEF SoundLoads
  <2>. HIDE DEF data
  <2>3. SoundData(content', astray) /\ SoundData(given', astray)
    BY <1>0, <2>1, <2>2, HoldSound
  <2>4. SoundSaves(Restarted, astray)
    <3>1. \A s \in Slots : saves[s] # Idle => saves[s] \in SaveCall
      BY <1>0 DEF SavesFit
    <3>2. \A s \in Slots : Restarted[s] # Idle => saves[s] # Idle /\ Restarted[s].data = saves[s].data
      BY <3>1 DEF Restarted, SavesUnderWay, SaveCall
    <3>. QED BY <1>0, <3>2 DEF SoundSaves
  <2>. QED BY <1>0, <1>1, <2>1, <2>3, <2>4 DEF Sounds
<1>5. CASE LoadRefused(l) \/ LoadLost(l)
  <2>1. /\ formLoads' = [formLoads EXCEPT ![l] = Idle]
        /\ UNCHANGED <<content, given, saves, records, astray>>
    BY <1>5 DEF LoadRefused, LoadLost
  <2>. QED BY <1>0, <1>1, <2>1 DEF Sounds
<1>. QED BY <1>2, <1>3, <1>4, <1>5

LEMMA SoundSaving ==
  ASSUME FormTyped, SoundInv,
         \/ \E n \in 1..2 : submit(n)
         \/ \E s \in Slots : ReadRecord(s) \/ AddRecord(s) \/ RefuseRecord(s) \/ SaveLost(s)
         \/ \E i \in RecordIds : SystemMoves(i)
  PROVE  Sounds(content', given', formLoads', saves', records', astray')
<1>0. /\ SoundData(content, astray) /\ SoundData(given, astray) /\ SoundData(Origin, astray)
      /\ SoundLoads(formLoads, astray) /\ SoundSaves(saves, astray) /\ SoundRows(records, astray)
      /\ content \in Data /\ given \in Data /\ astray \in BOOLEAN
      /\ records \in [RecordIds -> Data] /\ LoadsFit(formLoads) /\ SavesFit(saves, openings)
  BY SoundParts
<1>1. ASSUME NEW n \in 1..2, submit(n)
      PROVE  Sounds(content', given', formLoads', saves', records', astray')
  <2>. DEFINE c == Composed(content)
              call == [at |-> "sent", put |-> Puts(c), id |-> editing, data |-> Sent(c),
                       left |-> n, some |-> FALSE, opening |-> openings,
                       restarted |-> \E s \in SavesUnderWay :
                                        saves[s].opening = openings /\ saves[s].restarted]
  <2>1. /\ Free(saves) # {} /\ content' = c /\ saves' = [saves EXCEPT ![FreeSave] = call]
        /\ UNCHANGED <<given, formLoads, records, astray>>
    BY <1>1 DEF submit
  <2>2. SoundData(c, astray) /\ c \in Data
    BY <1>0, ComposedSound, ComposedTyped
  <2>3. call.data = Sent(c)
    OBVIOUS
  <2>. HIDE DEF c, call
  <2>4. SoundData(call.data, astray)
    BY <1>0, <2>2, <2>3, SentSound
  <2>5. \A s \in Slots : saves'[s] \in {call, saves[s]}
    BY <1>0, <2>1 DEF SavesFit
  <2>6. SoundSaves(saves', astray)
    BY <1>0, <2>4, <2>5 DEF SoundSaves
  <2>. QED BY <1>0, <2>1, <2>2, <2>6 DEF Sounds
<1>2. ASSUME NEW s \in Slots, ReadRecord(s) \/ AddRecord(s) \/ RefuseRecord(s) \/ SaveLost(s)
      PROVE  Sounds(content', given', formLoads', saves', records', astray')
  <2>1. /\ UNCHANGED <<content, given, formLoads, records, astray>>
        /\ saves[s].at \in {"sent", "found", "stored"}
        /\ \/ saves' = [saves EXCEPT ![s] = Idle]
           \/ \E at \in {"found", "stored", "refused"} : saves' = [saves EXCEPT ![s].at = at]
    BY <1>2 DEF ReadRecord, AddRecord, RefuseRecord, SaveLost, history
  <2>2. saves[s] \in SaveCall
    BY <2>1, SaveIs
  <2>3. \A k \in Slots : saves'[k] # Idle =>
           saves[k] # Idle /\ saves'[k].data = saves[k].data
    BY <1>0, <2>1, <2>2, NotIdle DEF SavesFit, SaveCall
  <2>4. SoundSaves(saves', astray)
    BY <1>0, <2>3 DEF SoundSaves
  <2>. QED BY <1>0, <2>1, <2>4 DEF Sounds
<1>3. ASSUME NEW i \in RecordIds, SystemMoves(i)
      PROVE  Sounds(content', given', formLoads', saves', records', astray')
  <2>. DEFINE r == IF "amount" \in Shown /\ Entity # "redemption" THEN "amount" ELSE "status"
              one == [records EXCEPT ![i]["status"] = Moved]
  <2>1. /\ records' = [one EXCEPT ![i][r] = Moved]
        /\ UNCHANGED <<content, given, formLoads, saves, astray>>
    BY <1>3 DEF SystemMoves
  <2>2. /\ one \in [RecordIds -> Data]
        /\ \A k \in RecordIds, q \in Parts : one[k][q] \in {records[k][q], Moved}
        /\ \A k \in RecordIds : one[k]["secret"] = records[k]["secret"]
    BY <1>0, PartsAre DEF Data, Moved, Values
  <2>3. r # "secret"
    OBVIOUS
  <2>. HIDE DEF one, r
  <2>4. /\ \A k \in RecordIds, q \in Parts : records'[k][q] \in {records[k][q], Moved}
        /\ \A k \in RecordIds : records'[k]["secret"] = records[k]["secret"]
    BY <1>0, <2>1, <2>2, <2>3, PartsAre DEF Data
  <2>5. ASSUME NEW k \in RecordIds PROVE SoundRow(k, records'[k], astray)
    <3>1. SoundRow(k, records[k], astray)
      BY <1>0 DEF SoundRows
    <3>2. Moved \notin {Unset, Self} \cup RecordIds
      BY DEF Moved, Unset, Self, RecordIds
    <3>. QED BY <2>4, <3>1, <3>2 DEF SoundRow
  <2>. QED BY <1>0, <2>1, <2>5 DEF Sounds, SoundRows
<1>. QED BY <1>1, <1>2, <1>3

LEMMA WrittenSound ==
  ASSUME FormTyped, NEW i \in RecordIds, NEW row \in Data, NEW data \in Data, NEW lost \in BOOLEAN,
         SoundRow(i, row, lost), SoundData(data, lost)
  PROVE  SoundRow(i, [r \in Parts |-> IF r = "id" THEN i ELSE Written(r, data[r], row[r])],
                  lost \/ data["id"] # i)
<1>. DEFINE new == [r \in Parts |-> IF r = "id" THEN i ELSE Written(r, data[r], row[r])]
<1>1. \A r \in Parts \ {"id"} : new[r] = Written(r, data[r], row[r])
  OBVIOUS
<1>2. new["secret"] = Written("secret", data["secret"], row["secret"])
  BY <1>1, PartsAre
<1>. HIDE DEF new
<1>3. Entity = "user" => new["secret"] \in {i, Typed}
  BY <1>2 DEF Written, SoundRow, SoundData, Zero
<1>4. Entity = "channel" => ~Zero(new["secret"])
  BY <1>2 DEF Written, SoundRow
<1>5. ASSUME ~(lost \/ data["id"] # i), NEW r \in Parts \ {"id"}
      PROVE  new[r] \notin {Unset, Self} \cup (RecordIds \ {i})
  <2>1. Own(data, i)
    BY <1>5 DEF SoundData
  <2>2. row[r] \notin {Unset, Self} \cup (RecordIds \ {i})
    BY <1>5 DEF SoundRow
  <2>3. data[r] = Unset => Written(r, data[r], row[r]) = row[r]
    BY <1>5, <2>1 DEF Own, Written, Zero
  <2>4. Written(r, data[r], row[r]) \in {data[r], row[r]}
    BY DEF Written
  <2>. QED BY <1>1, <1>5, <2>1, <2>2, <2>3, <2>4 DEF Own
<1>6. SoundRow(i, new, lost \/ data["id"] # i)
  BY <1>3, <1>4, <1>5 DEF SoundRow
<1>. QED BY <1>6 DEF new

LEMMA SoundUpdate ==
  ASSUME FormTyped, SoundInv, FoundInv, NEW s \in Slots, UpdateRecord(s)
  PROVE  Sounds(content', given', formLoads', saves', records', astray')
<1>0. /\ SoundData(content, astray) /\ SoundData(given, astray)
      /\ SoundLoads(formLoads, astray) /\ SoundSaves(saves, astray) /\ SoundRows(records, astray)
      /\ content \in Data /\ given \in Data /\ astray \in BOOLEAN
      /\ records \in [RecordIds -> Data] /\ LoadsFit(formLoads) /\ SavesFit(saves, openings)
  BY SoundParts
<1>. DEFINE i == saves[s].id
            data == saves[s].data
            row == [r \in Parts |-> Before(s, r)]
            new == [r \in Parts |-> IF r = "id" THEN i ELSE Written(r, data[r], row[r])]
<1>1. /\ saves[s].at = (IF ReadsFirst THEN "found" ELSE "sent") /\ i # New
      /\ saves' = [saves EXCEPT ![s].at = "stored"] /\ astray' = (astray \/ data["id"] # i)
      /\ records' = [records EXCEPT ![i] = new]
      /\ UNCHANGED <<content, given, formLoads>>
  BY DEF UpdateRecord, ReadsFirst
<1>2. saves[s].at \in {"sent", "found"} /\ i # New
  BY <1>1
<1>3. saves[s] \in SaveCall /\ saves[s] # Idle
  BY <1>2, SaveIs
<1>4. i \in RecordIds /\ data \in Data
  BY <1>2, <1>3 DEF SaveCall, RecordIds, New
<1>5. \A k \in Slots : saves'[k] # Idle => saves[k] # Idle /\ saves'[k].data = saves[k].data
  BY <1>0, <1>1, <1>3 DEF SavesFit, SaveCall
<1>6. SoundData(data, astray)
  BY <1>0, <1>3 DEF SoundSaves
<1>7. SoundRow(i, row, astray) /\ row \in Data
  <2>1. SoundRow(i, records[i], astray) /\ records[i] \in Data /\ statusRead \in [Slots -> Values]
    BY <1>0, <1>4, FormTypes DEF SoundRows
  <2>2. ASSUME NEW r \in Parts
        PROVE  row[r] = IF r = "status" /\ ReadsFirst THEN statusRead[s] ELSE records[i][r]
    BY DEF Before
  <2>3. row["secret"] = records[i]["secret"]
    BY <2>2, PartsAre
  <2>4. ReadsFirst => astray \/ statusRead[s] \notin {Unset, Self} \cup (RecordIds \ {i})
    BY <1>1 DEF FoundInv, Finds
  <2>5. row \in Data
    <3>1. \A r \in Parts : row[r] \in Values
      BY <2>1, <2>2 DEF Data
    <3>. QED BY <3>1 DEF Data
  <2>. HIDE DEF row, i
  <2>6. astray \/ \A r \in Parts \ {"id"} : row[r] \notin {Unset, Self} \cup (RecordIds \ {i})
    BY <2>1, <2>2, <2>4 DEF SoundRow
  <2>. QED BY <2>1, <2>3, <2>5, <2>6 DEF SoundRow
<1>. HIDE DEF i, data, row
<1>8. SoundRow(i, new, astray \/ data["id"] # i)
  BY <1>0, <1>4, <1>6, <1>7, WrittenSound
<1>9. SoundRow(i, new, astray')
  BY <1>1, <1>8
<1>. HIDE DEF new
<1>10. astray => astray'
  BY <1>1
<1>11. astray' \in BOOLEAN
  BY <1>1
<1>12. SoundRows(records', astray')
  <2>1. \A k \in RecordIds : records'[k] = IF k = i THEN new ELSE records[k]
    BY <1>0, <1>1
  <2>. QED BY <1>0, <1>9, <1>10, <2>1 DEF SoundRows, SoundRow
<1>13. SoundData(content', astray') /\ SoundData(given', astray')
  BY <1>0, <1>1, <1>10, <1>11, SoundLost
<1>14. SoundSaves(saves', astray')
  BY <1>0, <1>5, <1>10 DEF SoundSaves, SoundData
<1>15. SoundLoads(formLoads', astray')
  BY <1>0, <1>1, <1>10 DEF SoundLoads, SoundData
<1>. QED BY <1>12, <1>13, <1>14, <1>15 DEF Sounds

LEMMA SoundAnswer ==
  ASSUME FormTyped, SoundInv, NEW s \in Slots, SaveAnswered(s)
  PROVE  Sounds(content', given', formLoads', saves', records', astray')
<1>0. /\ SoundData(content, astray) /\ SoundData(given, astray) /\ SoundData(Origin, astray)
      /\ SoundLoads(formLoads, astray) /\ SoundSaves(saves, astray) /\ SoundRows(records, astray)
      /\ content \in Data /\ given \in Data /\ astray \in BOOLEAN
      /\ records \in [RecordIds -> Data] /\ LoadsFit(formLoads) /\ SavesFit(saves, openings)
  BY SoundParts
<1>1. saves[s].at \in {"stored", "refused"} /\ UNCHANGED <<records, astray>>
  BY DEF SaveAnswered
<1>2. saves[s] \in SaveCall /\ saves[s] # Idle
  BY <1>1, SaveIs
<1>3. /\ SoundSaves([saves EXCEPT ![s] = Idle], astray)
      /\ SoundSaves([saves EXCEPT ![s].at = "sent", ![s].left = @ - 1, ![s].some = TRUE], astray)
  <2>. DEFINE a == [saves EXCEPT ![s] = Idle]
              b == [saves EXCEPT ![s].at = "sent", ![s].left = @ - 1, ![s].some = TRUE]
  <2>1. \A k \in Slots : a[k] # Idle => a[k] = saves[k]
    BY <1>0 DEF SavesFit
  <2>2. \A k \in Slots : b[k] # Idle => saves[k] # Idle /\ b[k].data = saves[k].data
    BY <1>0, <1>2 DEF SavesFit, SaveCall
  <2>. HIDE DEF a, b
  <2>3. SoundSaves(a, astray) /\ SoundSaves(b, astray)
    BY <1>0, <2>1, <2>2 DEF SoundSaves
  <2>. QED BY <2>3 DEF a, b
<1>4. SoundSaves(saves', astray)
  BY <1>3, FormAnswer
<1>5. ASSUME Close \/ UNCHANGED <<content, given, formLoads>>
      PROVE  /\ SoundData(content', astray) /\ SoundData(given', astray)
             /\ SoundLoads(formLoads', astray)
  BY <1>0, <1>5, MountedSound DEF Close
<1>6. ASSUME Hold(Origin), UNCHANGED formLoads
      PROVE  /\ SoundData(content', astray) /\ SoundData(given', astray)
             /\ SoundLoads(formLoads', astray)
  BY <1>0, <1>6, HoldSound
<1>7. ASSUME Hold([r \in Parts |-> IF r = "config" THEN content[r] ELSE Unset]), UNCHANGED formLoads
      PROVE  /\ SoundData(content', astray) /\ SoundData(given', astray)
             /\ SoundLoads(formLoads', astray)
  <2>. DEFINE data == [r \in Parts |-> IF r = "config" THEN content[r] ELSE Unset]
  <2>1. data["id"] = Unset /\ data["secret"] = Unset
    BY PartsAre
  <2>2. Hold(data)
    BY <1>7
  <2>. HIDE DEF data
  <2>3. SoundData(data, astray)
    BY <2>1 DEF SoundData, Unset, RecordIds
  <2>. QED BY <1>0, <1>7, <2>2, <2>3, HoldSound
<1>8. \/ Close \/ UNCHANGED <<content, given, formLoads>>
      \/ Hold(Origin) /\ UNCHANGED formLoads
      \/ /\ Hold([r \in Parts |-> IF r = "config" THEN content[r] ELSE Unset])
         /\ UNCHANGED formLoads
  BY FormAnswer, Zenon DEF answeredDefault, answeredBerry, answeredAirChannel, answeredAirToken,
     answeredAirUser, answeredAirNewUser, answeredAirRedemption
<1>. QED BY <1>0, <1>1, <1>4, <1>5, <1>6, <1>7, <1>8 DEF Sounds

LEMMA NextSound ==
  ASSUME FormTyped, SoundInv, FoundInv, [FormsNext]_formVars
  PROVE  SoundInv'
<1>0. sheet' = sheet
  BY DEF FormsNext, formVars, handleOpen, handleCancel, closeTimer, handleTypeChange,
         submitIncomplete, Prepared, GetRecord, RecordLoaded, LoadRefused, LoadLost,
         handleInputChange, submit, ReadRecord, UpdateRecord, AddRecord, RefuseRecord,
         SaveAnswered, SaveLost, SystemMoves
<1>1. Parts' = Parts /\ Entity' = Entity
  BY <1>0, SheetSame
<1>2. Sounds(content', given', formLoads', saves', records', astray')
  <2>1. CASE UNCHANGED formVars
    BY <2>1 DEF formVars, SoundInv
  <2>2. CASE FormsNext
    BY <2>2, SoundForm, SoundLoading, SoundSaving, SoundUpdate, SoundAnswer DEF FormsNext
  <2>. QED BY <2>1, <2>2
<1>3. /\ SoundData(content, astray)' = SoundData(content', astray')
      /\ SoundData(given, astray)' = SoundData(given', astray')
  BY <1>1 DEF SoundData, Own
<1>4. SoundLoads(formLoads, astray)' = SoundLoads(formLoads', astray')
  BY <1>1 DEF SoundLoads, SoundData, Own
<1>5. SoundSaves(saves, astray)' = SoundSaves(saves', astray')
  BY <1>1 DEF SoundSaves, SoundData, Own
<1>6. SoundRows(records, astray)' = SoundRows(records', astray')
  BY <1>1 DEF SoundRows, SoundRow
<1>. QED BY <1>2, <1>3, <1>4, <1>5, <1>6 DEF SoundInv, Sounds

\* What was read for a save stays until it is written or refused.
LEMMA NextFound ==
  ASSUME FormTyped, SoundInv, FoundInv, [FormsNext]_formVars
  PROVE  FoundInv'
<1>0. /\ Finds(saves, statusRead, astray) /\ SoundRows(records, astray)
      /\ SavesFit(saves, openings) /\ astray \in BOOLEAN /\ statusRead \in [Slots -> Values]
  BY FormTypes DEF FoundInv, SoundInv, Sounds
<1>1. ASSUME \A s \in Slots : saves'[s].at = "found" =>
               saves[s].at = "found" /\ saves'[s].id = saves[s].id /\ statusRead'[s] = statusRead[s],
             astray => astray'
      PROVE  Finds(saves', statusRead', astray')
  BY <1>0, <1>1 DEF Finds
<1>2. ASSUME NEW s \in Slots, NEW c, c.at # "found", saves' = [saves EXCEPT ![s] = c],
             \A t \in Slots \ {s} : statusRead'[t] = statusRead[t], astray => astray'
      PROVE  Finds(saves', statusRead', astray')
  <2>1. \A t \in Slots : saves'[t].at = "found" => t # s /\ saves'[t] = saves[t]
    BY <1>0, <1>2 DEF SavesFit
  <2>. QED BY <1>1, <1>2, <2>1
<1>3. ASSUME NEW s \in Slots, ReadRecord(s) PROVE Finds(saves', statusRead', astray')
  <2>1. /\ saves[s].at = "sent" /\ saves[s].id # New
        /\ saves' = [saves EXCEPT ![s].at = "found"]
        /\ statusRead' = [statusRead EXCEPT ![s] = Found(s)] /\ astray' = astray
    BY <1>3 DEF ReadRecord, history
  <2>2. saves[s] \in SaveCall
    BY <2>1, SaveIs
  <2>3. saves[s].id \in RecordIds /\ saves'[s].id = saves[s].id
    BY <1>0, <2>1, <2>2 DEF SaveCall, RecordIds, New, SavesFit
  <2>4. SoundRow(saves[s].id, records[saves[s].id], astray)
    BY <1>0, <2>3 DEF SoundRows
  <2>5. astray \/ Found(s) \notin {Unset, Self} \cup (RecordIds \ {saves[s].id})
    BY <2>4, PartsAre DEF SoundRow, Found
  <2>6. statusRead'[s] = Found(s)
    BY <1>0, <2>1
  <2>7. \A t \in Slots \ {s} : saves'[t] = saves[t] /\ statusRead'[t] = statusRead[t]
    BY <1>0, <2>1 DEF SavesFit
  <2>. QED BY <1>0, <2>1, <2>3, <2>5, <2>6, <2>7 DEF Finds
<1>4. ASSUME NEW s \in Slots, UpdateRecord(s) \/ AddRecord(s) \/ RefuseRecord(s)
      PROVE  Finds(saves', statusRead', astray')
  <2>1. /\ saves[s].at \in {"sent", "found"} /\ (astray => astray')
        /\ \E at \in {"stored", "refused"} : saves' = [saves EXCEPT ![s].at = at]
        /\ statusRead' = [statusRead EXCEPT ![s] = Unset] \/ statusRead' = statusRead
    <3>1. CASE UpdateRecord(s)
      BY <1>0, <3>1 DEF UpdateRecord
    <3>2. CASE AddRecord(s)
      BY <3>2 DEF AddRecord, history
    <3>3. CASE RefuseRecord(s)
      BY <3>3 DEF RefuseRecord
    <3>. QED BY <1>4, <3>1, <3>2, <3>3
  <2>2. PICK at \in {"stored", "refused"} : saves' = [saves EXCEPT ![s].at = at]
    BY <2>1
  <2>3. saves[s] \in SaveCall
    BY <2>1, SaveIs
  <2>. DEFINE c == [saves[s] EXCEPT !.at = at]
  <2>4. c.at # "found" /\ saves' = [saves EXCEPT ![s] = c]
    BY <1>0, <2>2, <2>3 DEF SaveCall, SavesFit
  <2>5. \A t \in Slots \ {s} : statusRead'[t] = statusRead[t]
    BY <1>0, <2>1
  <2>. HIDE DEF c
  <2>. QED BY <1>2, <2>1, <2>4, <2>5
<1>5. ASSUME NEW s \in Slots, SaveLost(s) PROVE Finds(saves', statusRead', astray')
  <2>1. saves' = [saves EXCEPT ![s] = Idle] /\ UNCHANGED <<statusRead, astray>>
    BY <1>5 DEF SaveLost
  <2>. QED BY <1>2, <2>1 DEF Idle
<1>6. ASSUME NEW s \in Slots, SaveAnswered(s) PROVE Finds(saves', statusRead', astray')
  <2>1. UNCHANGED <<statusRead, astray>> /\ saves[s].at \in {"stored", "refused"}
    BY <1>6 DEF SaveAnswered
  <2>2. CASE saves' = [saves EXCEPT ![s] = Idle]
    BY <1>2, <2>1, <2>2 DEF Idle
  <2>3. CASE saves' = [saves EXCEPT ![s].at = "sent", ![s].left = @ - 1, ![s].some = TRUE]
    <3>. DEFINE c == [saves[s] EXCEPT !.at = "sent", !.left = @ - 1, !.some = TRUE]
    <3>1. saves[s] \in SaveCall
      BY <2>1, SaveIs
    <3>2. c.at # "found" /\ saves' = [saves EXCEPT ![s] = c]
      BY <1>0, <2>3, <3>1 DEF SaveCall, SavesFit
    <3>. HIDE DEF c
    <3>. QED BY <1>2, <2>1, <3>2
  <2>. QED BY <1>6, <2>2, <2>3, FormAnswer
<1>7. ASSUME NEW n \in 1..2, submit(n) PROVE Finds(saves', statusRead', astray')
  <2>. DEFINE c == Composed(content)
              call == [at |-> "sent", put |-> Puts(c), id |-> editing, data |-> Sent(c),
                       left |-> n, some |-> FALSE, opening |-> openings,
                       restarted |-> \E s \in SavesUnderWay :
                                        saves[s].opening = openings /\ saves[s].restarted]
  <2>1. /\ Free(saves) # {} /\ saves' = [saves EXCEPT ![FreeSave] = call]
        /\ UNCHANGED <<statusRead, astray>>
    BY <1>7 DEF submit
  <2>2. call.at = "sent"
    OBVIOUS
  <2>. HIDE DEF call
  <2>3. FreeSave \in Slots
    BY <2>1, FreeSaveIs
  <2>. QED BY <1>2, <2>1, <2>2, <2>3
<1>8. ASSUME NEW l \in Slots, RecordLoaded(l) PROVE Finds(saves', statusRead', astray')
  <2>1. saves' \in {saves, Restarted} /\ UNCHANGED <<statusRead, astray>>
    BY <1>8 DEF RecordLoaded
  <2>2. \A s \in Slots : Restarted[s].at = "found" =>
           saves[s].at = "found" /\ Restarted[s].id = saves[s].id
    BY <1>0 DEF Restarted, SavesUnderWay, SavesFit, SaveCall
  <2>3. \A s \in Slots : saves'[s].at = "found" =>
           saves[s].at = "found" /\ saves'[s].id = saves[s].id /\ statusRead'[s] = statusRead[s]
    <3>1. CASE saves' = saves
      BY <2>1, <3>1
    <3>2. CASE saves' = Restarted
      BY <2>1, <2>2, <3>2
    <3>. QED BY <2>1, <3>1, <3>2
  <2>. QED BY <1>1, <2>1, <2>3
<1>9. CASE UNCHANGED <<saves, statusRead, astray>>
  BY <1>0, <1>9 DEF FoundInv, Finds
<1>10. \/ UNCHANGED <<saves, statusRead, astray>>
       \/ \E n \in 1..2 : submit(n)
       \/ \E l \in Slots : RecordLoaded(l)
       \/ \E s \in Slots : \/ ReadRecord(s) \/ UpdateRecord(s) \/ AddRecord(s)
                           \/ RefuseRecord(s) \/ SaveAnswered(s) \/ SaveLost(s)
  BY DEF FormsNext, formVars, handleOpen, handleCancel, closeTimer, handleTypeChange,
         submitIncomplete, Prepared, GetRecord, LoadRefused, LoadLost, handleInputChange,
         SystemMoves, history
<1>. QED BY <1>3, <1>4, <1>5, <1>6, <1>7, <1>8, <1>9, <1>10 DEF FoundInv, Finds

LEMMA InitFound == ASSUME FormsInit PROVE FoundInv
<1>1. saves = [s \in Slots |-> Idle]
  BY DEF FormsInit
<1>. QED BY <1>1 DEF FoundInv, Finds, Idle

LEMMA InitSound == ASSUME FormsInit PROVE SoundInv
<1>1. /\ content = Origin /\ given = Origin /\ records = [i \in RecordIds |-> Record(i)]
      /\ saves = [s \in Slots |-> Idle] /\ astray = FALSE
      /\ \/ formLoads = [l \in Slots |-> Idle]
         \/ formLoads = [l \in Slots |-> IF l = 1
                            THEN [at |-> "asked", id |-> editing, data |-> Origin] ELSE Idle]
  BY DEF FormsInit
<1>2. SoundLoads(formLoads, astray)
  BY <1>1 DEF SoundLoads, Idle
<1>3. SoundSaves(saves, astray)
  BY <1>1 DEF SoundSaves
<1>4. \A i \in RecordIds : SoundRow(i, Record(i), astray)
  BY <1>1, PartsAre DEF SoundRow, Record, RecordIds, Zero, Unset, Cleared, Self
<1>5. SoundRows(records, astray)
  BY <1>1, <1>4 DEF SoundRows
<1>. QED BY <1>1, <1>2, <1>3, <1>5, OriginSound DEF SoundInv, Sounds

----------------------------------------------------------------------------
(* A page of the default console holds its own record, unless its load failed. *)

PageFits(c, ls, ss, id, busy, fail, lost) ==
  /\ \A l \in Under(ls) : ls[l].id = id /\ (ls[l].at = "read" => ls[l].data["id"] = id)
  /\ fail \/ id = New \/ busy \/ c["id"] = id
  /\ fail \/ \A s \in Under(ss) : ss[s].put => ss[s].data["id"] = ss[s].id
  /\ lost => fail
PageInv ==
  Theme = "default" => PageFits(content, formLoads, saves, editing, formBusy, failed, astray)

LEMMA PageLoading ==
  ASSUME FormTyped, PageInv, Theme = "default", NEW l \in Slots,
         GetRecord(l) \/ RecordLoaded(l) \/ LoadRefused(l) \/ LoadLost(l)
  PROVE  PageFits(content', formLoads', saves', editing', formBusy', failed', astray')
<1>0. /\ PageFits(content, formLoads, saves, editing, formBusy, failed, astray)
      /\ LoadsFit(formLoads)
  BY FormTypes DEF PageInv
<1>1. formLoads[l].at \in {"asked", "read"}
  BY DEF GetRecord, RecordLoaded, LoadRefused, LoadLost
<1>2. /\ formLoads[l] \in LoadCall /\ l \in Under(formLoads) /\ formLoads[l].id = editing
      /\ formLoads[l].id \in 1..3
  BY <1>0, <1>1, LoadIs DEF PageFits, Under
<1>3. CASE GetRecord(l)
  <2>. DEFINE data == Given(formLoads[l].id, records)
  <2>1. /\ UNCHANGED <<content, saves, editing, formBusy, failed, astray>>
        /\ formLoads' = [formLoads EXCEPT ![l].at = "read", ![l].data = data]
    BY <1>3 DEF GetRecord, history
  <2>2. data["id"] = editing
    BY <1>2, PartsAre DEF Given
  <2>. HIDE DEF data
  <2>3. \A m \in Under(formLoads') : \/ m = l /\ formLoads'[m].data = data /\ formLoads'[m].id = editing
                                     \/ m \in Under(formLoads) /\ formLoads'[m] = formLoads[m]
    BY <1>0, <1>2, <2>1 DEF LoadsFit, LoadCall, Under
  <2>. QED BY <1>0, <2>1, <2>2, <2>3 DEF PageFits
<1>4. Under([formLoads EXCEPT ![l] = Idle]) = Under(formLoads) \ {l}
      /\ \A m \in Slots \ {l} : [formLoads EXCEPT ![l] = Idle][m] = formLoads[m]
  BY <1>0, LoadEnds DEF LoadsFit
<1>5. CASE RecordLoaded(l)
  <2>1. /\ formLoads[l].at = "read" /\ content' = formLoads[l].data
        /\ formLoads' = [formLoads EXCEPT ![l] = Idle]
        /\ UNCHANGED <<saves, editing, failed, astray>>
    BY <1>5 DEF RecordLoaded, Hold, Loaded
  <2>2. content'["id"] = editing
    BY <1>0, <1>2, <2>1 DEF PageFits
  <2>. QED BY <1>0, <1>4, <2>1, <2>2 DEF PageFits, Under
<1>6. CASE LoadRefused(l) \/ LoadLost(l)
  <2>1. /\ failed' = TRUE /\ formLoads' = [formLoads EXCEPT ![l] = Idle]
        /\ UNCHANGED <<saves, editing, astray>>
    BY <1>6 DEF LoadRefused, LoadLost
  <2>. QED BY <1>0, <1>4, <2>1 DEF PageFits, Under
<1>. QED BY <1>3, <1>5, <1>6

LEMMA PageSaving ==
  ASSUME FormTyped, PageInv, Theme = "default", NEW s \in Slots,
         ReadRecord(s) \/ UpdateRecord(s) \/ AddRecord(s) \/ RefuseRecord(s) \/ SaveLost(s) \/ SaveAnswered(s)
  PROVE  PageFits(content', formLoads', saves', editing', formBusy', failed', astray')
<1>0. /\ PageFits(content, formLoads, saves, editing, formBusy, failed, astray)
      /\ SavesFit(saves, openings)
  BY FormTypes DEF PageInv
<1>1. saves[s].at \in {"sent", "found", "stored", "refused"}
  BY DEF ReadRecord, UpdateRecord, AddRecord, RefuseRecord, SaveLost, SaveAnswered
<1>2. saves[s] \in SaveCall /\ s \in Under(saves)
  BY <1>1, SaveIs DEF Under
<1>3. /\ UNCHANGED <<formLoads, editing, formBusy, failed>>
      /\ \/ astray' = astray
         \/ saves[s].put /\ astray' = (astray \/ saves[s].data["id"] # saves[s].id)
      /\ \/ saves' = [saves EXCEPT ![s] = Idle]
         \/ saves' = [saves EXCEPT ![s].at = "sent", ![s].left = @ - 1, ![s].some = TRUE]
         \/ \E at \in {"found", "stored", "refused"} : saves' = [saves EXCEPT ![s].at = at]
  <2>1. CASE SaveAnswered(s)
    <3>1. failed' = failed /\ astray' = astray
      BY <2>1 DEF SaveAnswered
    <3>2. \/ saves' = [saves EXCEPT ![s] = Idle] /\ answeredDefault(saves[s].at = "stored")
          \/ /\ saves' = [saves EXCEPT ![s].at = "sent", ![s].left = @ - 1, ![s].some = TRUE]
             /\ UNCHANGED <<editing, formBusy, formLoads>>
      BY <2>1, FormAnswer
    <3>3. UNCHANGED <<editing, formBusy, formLoads>>
      BY <3>2 DEF answeredDefault
    <3>. QED BY <3>1, <3>2, <3>3
  <2>2. CASE SaveLost(s)
    <3>1. formBusy' = formBusy
      BY <2>2, FormTypes DEF SaveLost, Locks
    <3>. QED BY <2>2, <3>1 DEF SaveLost
  <2>. QED BY <2>1, <2>2 DEF ReadRecord, UpdateRecord, AddRecord, RefuseRecord, history
<1>4. content' = content \/ editing = New
  <2>1. CASE SaveAnswered(s)
    BY <2>1, FormAnswer DEF answeredDefault
  <2>. QED BY <2>1 DEF ReadRecord, UpdateRecord, AddRecord, RefuseRecord, SaveLost
<1>5. \A k \in Under(saves') : /\ k \in Under(saves) /\ saves'[k].data = saves[k].data
                               /\ saves'[k].put = saves[k].put /\ saves'[k].id = saves[k].id
  BY <1>0, <1>2, <1>3 DEF SavesFit, SaveCall, Under
<1>6. astray' => failed
  BY <1>0, <1>2, <1>3 DEF PageFits
<1>. QED BY <1>0, <1>3, <1>4, <1>5, <1>6 DEF PageFits

LEMMA PageForm ==
  ASSUME FormTyped, PageInv, Theme = "default",
         \/ \E id \in RecordIds \cup {New} : handleOpen(id)
         \/ handleCancel \/ closeTimer \/ handleTypeChange \/ submitIncomplete
         \/ \E l \in Slots : Prepared(l)
         \/ \E r \in Shown, v \in Values : handleInputChange(r, v)
         \/ \E i \in RecordIds : SystemMoves(i)
         \/ \E n \in 1..2 : submit(n)
  PROVE  PageFits(content', formLoads', saves', editing', formBusy', failed', astray')
<1>0. /\ PageFits(content, formLoads, saves, editing, formBusy, failed, astray)
      /\ SavesFit(saves, openings) /\ content \in Data
  BY FormTypes DEF PageInv, Held
<1>1. Composed(content)["id"] = content["id"]
  <2>1. Composed(content) \in {content, [content EXCEPT !["secret"] = Preset]}
    BY DEF Composed, ComposedBerry, ComposedDefault
  <2>. QED BY <1>0, <2>1, PartsAre DEF Data
<1>2. ~(\E id \in RecordIds \cup {New} : handleOpen(id)) /\ ~handleCancel
  BY DEF handleOpen, Editable, handleCancel
<1>3. ~closeTimer /\ ~(\E l \in Slots : Prepared(l))
  BY FormTypes, LoadIs DEF closeTimer, Modes, Prepared
<1>4. ASSUME NEW n \in 1..2, submit(n)
      PROVE  PageFits(content', formLoads', saves', editing', formBusy', failed', astray')
  <2>. DEFINE c == Composed(content)
              call == [at |-> "sent", put |-> Puts(c), id |-> editing, data |-> Sent(c),
                       left |-> n, some |-> FALSE, opening |-> openings,
                       restarted |-> \E s \in SavesUnderWay :
                                        saves[s].opening = openings /\ saves[s].restarted]
  <2>1. /\ Free(saves) # {} /\ content' = c /\ saves' = [saves EXCEPT ![FreeSave] = call]
        /\ ~formBusy /\ UNCHANGED <<formLoads, editing, failed, astray>>
    BY <1>4 DEF submit, Usable
  <2>2. call.data = Sent(c) /\ call.id = editing /\ call.put = Puts(c)
    OBVIOUS
  <2>3. Sent(c)["id"] = c["id"] /\ (Puts(c) <=> editing # New)
    BY PartsAre DEF Sent, Puts
  <2>4. c["id"] = content["id"]
    BY <1>1
  <2>. HIDE DEF c, call
  <2>5. \A k \in Under(saves') : saves'[k] = call \/ (k \in Under(saves) /\ saves'[k] = saves[k])
    BY <1>0, <2>1 DEF SavesFit, Under
  <2>6. failed \/ (call.put => call.data["id"] = call.id)
    BY <1>0, <2>1, <2>2, <2>3, <2>4 DEF PageFits
  <2>. QED BY <1>0, <2>1, <2>4, <2>5, <2>6 DEF PageFits
<1>5. ASSUME content'["id"] = content["id"], UNCHANGED <<formLoads, saves, editing, formBusy, failed, astray>>
      PROVE  PageFits(content', formLoads', saves', editing', formBusy', failed', astray')
  BY <1>0, <1>5 DEF PageFits
<1>6. CASE handleTypeChange
  <2>1. content'["id"] = content["id"]
    BY <1>6, PartsAre DEF handleTypeChange
  <2>. QED BY <1>5, <1>6, <2>1 DEF handleTypeChange
<1>7. CASE submitIncomplete
  <2>1. content' = Composed(content) /\ formBusy' = formBusy
    BY <1>7 DEF submitIncomplete
  <2>. QED BY <1>1, <1>5, <1>7, <2>1 DEF submitIncomplete
<1>8. ASSUME NEW r \in Shown, NEW v \in Values, handleInputChange(r, v)
      PROVE  PageFits(content', formLoads', saves', editing', formBusy', failed', astray')
  <2>1. content' = [content EXCEPT ![r] = v] /\ r # "id"
    BY <1>8, ShownIs DEF handleInputChange
  <2>2. content'["id"] = content["id"]
    BY <1>0, <2>1, PartsAre DEF Data
  <2>. QED BY <1>5, <1>8, <2>2 DEF handleInputChange
<1>9. ASSUME NEW i \in RecordIds, SystemMoves(i)
      PROVE  PageFits(content', formLoads', saves', editing', formBusy', failed', astray')
  BY <1>5, <1>9 DEF SystemMoves
<1>. QED BY <1>2, <1>3, <1>4, <1>6, <1>7, <1>8, <1>9

LEMMA NextPage ==
  ASSUME FormTyped, PageInv, [FormsNext]_formVars
  PROVE  PageInv'
<1>1. Theme' = Theme
  <2>1. sheet' = sheet
    BY DEF FormsNext, formVars, handleOpen, handleCancel, closeTimer, handleTypeChange,
           submitIncomplete, Prepared, GetRecord, RecordLoaded, LoadRefused, LoadLost,
           handleInputChange, submit, ReadRecord, UpdateRecord, AddRecord, RefuseRecord, SaveAnswered, SaveLost,
           SystemMoves
  <2>. QED BY <2>1, SheetSame
<1>2. ASSUME Theme = "default"
      PROVE  PageFits(content', formLoads', saves', editing', formBusy', failed', astray')
  <2>1. CASE UNCHANGED formVars
    BY <1>2, <2>1 DEF formVars, PageInv
  <2>2. CASE FormsNext
    BY <1>2, <2>2, PageForm, PageLoading, PageSaving DEF FormsNext
  <2>. QED BY <2>1, <2>2
<1>. QED BY <1>1, <1>2 DEF PageInv, PageFits, Under

LEMMA InitPage == ASSUME FormsInit PROVE PageInv
<1>1. /\ saves = [s \in Slots |-> Idle] /\ astray = FALSE /\ failed = FALSE
      /\ formBusy = (Theme = "default" /\ editing # New)
      /\ \/ formLoads = [l \in Slots |-> Idle]
         \/ formLoads = [l \in Slots |-> IF l = 1
                            THEN [at |-> "asked", id |-> editing, data |-> Origin] ELSE Idle]
  BY DEF FormsInit
<1>2. \A l \in Under(formLoads) : formLoads[l].id = editing /\ formLoads[l].at = "asked"
  BY <1>1 DEF Under
<1>3. Under(saves) = {}
  BY <1>1 DEF Under
<1>. QED BY <1>1, <1>2, <1>3 DEF PageInv, PageFits

LEMMA KeptIs ==
  ASSUME FormTyped, SoundInv, PageInv
  PROVE  RecordsKept /\ PasswordKept
<1>1. \A i \in RecordIds : SoundRow(i, records[i], astray)
  BY SoundParts DEF SoundRows
<1>2. astray \/ \A i \in RecordIds : \A r \in Parts \ {"id"} :
                   records[i][r] \notin {Unset, Self} \cup (RecordIds \ {i})
  BY <1>1 DEF SoundRow
<1>3. astray /\ Theme = "default" => failed
  BY DEF PageInv, PageFits
<1>4. PasswordKept
  BY <1>1 DEF SoundRow, PasswordKept
<1>. QED BY <1>2, <1>3, <1>4 DEF RecordsKept

----------------------------------------------------------------------------
(* What a form shows is what its record holds. *)

\* The side sheet of a new user has no id; a dialog of berry that is closed has none, and
\* holds and was given the same record.
NewInv == Entity = "newuser" => editing = New /\ \A s \in Under(saves) : saves[s].id = New
BerryInv == Theme = "berry" => content["id"] = given["id"] /\ (visible \/ editing = New)

Agrees(row, c, t) ==
  \A r \in Shown \ t :
     \/ row[r] = Sent(c)[r] \/ row[r] = c[r]
     \/ Zero(c[r]) /\ (Entity = "user" \/ r \in {"name", "models"})
     \/ r = "secret" /\ Entity = "user"
Faithful(rs, d, t) == d["id"] \in RecordIds => Agrees(rs[d["id"]], d, t)
\* the save of a form, and what it made of the record
OnItsWay(call, c, t, id, rs) ==
  /\ call.id = c["id"] /\ call.left = 1 /\ (Theme = "berry" => id = c["id"])
  /\ \/ call.at \in {"sent", "found"} /\ call.put /\ \A r \in Shown \ t : call.data[r] = Sent(c)[r]
     \/ call.at = "stored" /\ Agrees(rs[c["id"]], c, t)

\* While nothing disturbs the form: without a save what it holds and was given is the record,
\* and there is no other save than its own.
Shows(c, g, t, id, ss, rs) ==
  /\ Under(ss) = {} => Faithful(rs, c, t) /\ (Theme = "berry" => Faithful(rs, g, {}))
  /\ \A s, u \in Under(ss) : s = u
  /\ \A s \in Under(ss) : c["id"] \in RecordIds => OnItsWay(ss[s], c, t, id, rs)
ShowsInv == ~unsure => Shows(content, given, typedSince, editing, saves, records)

LEMMA SheetStays == ASSUME [FormsNext]_formVars PROVE sheet' = sheet
BY DEF FormsNext, formVars, handleOpen, handleCancel, closeTimer, handleTypeChange,
       submitIncomplete, Prepared, GetRecord, RecordLoaded, LoadRefused, LoadLost,
       handleInputChange, submit, ReadRecord, UpdateRecord, AddRecord, RefuseRecord, SaveAnswered, SaveLost,
       SystemMoves

LEMMA NextNew ==
  ASSUME FormTyped, NewInv, [FormsNext]_formVars
  PROVE  NewInv'
<1>1. Entity' = Entity
  BY SheetStays, SheetSame
<1>2. ASSUME Entity = "newuser"
      PROVE  editing' = New /\ \A s \in Under(saves') : saves'[s].id = New
  <2>0. editing = New /\ (\A s \in Under(saves) : saves[s].id = New) /\ SavesFit(saves, openings)
    BY <1>2, FormTypes DEF NewInv
  <2>1. ASSUME NEW id \in RecordIds \cup {New}, handleOpen(id) PROVE editing' = New /\ saves' = saves
    BY <1>2, <2>1 DEF handleOpen, Mounted, Editable
  <2>2. ASSUME Close PROVE editing' = New
    BY <2>0, <2>2 DEF Close, Mounted
  <2>3. ASSUME closeTimer PROVE editing' = New /\ saves' = saves
    BY <2>3 DEF closeTimer, Mounted
  <2>4. ASSUME NEW n \in 1..2, submit(n)
        PROVE  editing' = New /\ \A s \in Under(saves') : saves'[s].id = New
    <3>. DEFINE c == Composed(content)
                call == [at |-> "sent", put |-> Puts(c), id |-> editing, data |-> Sent(c),
                         left |-> n, some |-> FALSE, opening |-> openings,
                         restarted |-> \E s \in SavesUnderWay :
                                          saves[s].opening = openings /\ saves[s].restarted]
    <3>1. saves' = [saves EXCEPT ![FreeSave] = call] /\ editing' = editing
      BY <2>4 DEF submit
    <3>2. call.id = editing
      OBVIOUS
    <3>. HIDE DEF call
    <3>3. \A k \in Under(saves') : saves'[k] = call \/ (k \in Under(saves) /\ saves'[k] = saves[k])
      BY <2>0, <3>1 DEF SavesFit, Under
    <3>. QED BY <2>0, <3>1, <3>2, <3>3
  <2>5. ASSUME NEW s \in Slots,
               ReadRecord(s) \/ UpdateRecord(s) \/ AddRecord(s) \/ RefuseRecord(s) \/ SaveLost(s) \/ SaveAnswered(s)
        PROVE  editing' = New /\ \A k \in Under(saves') : saves'[k].id = New
    <3>1. saves[s] \in SaveCall /\ saves[s] # Idle
      <4>1. saves[s].at \in {"sent", "found", "stored", "refused"}
        BY <2>5 DEF ReadRecord, UpdateRecord, AddRecord, RefuseRecord, SaveLost, SaveAnswered
      <4>. QED BY <4>1, SaveIs
    <3>2. /\ editing' = New
          /\ \/ saves' = [saves EXCEPT ![s] = Idle]
             \/ saves' = [saves EXCEPT ![s].at = "sent", ![s].left = @ - 1, ![s].some = TRUE]
             \/ \E at \in {"found", "stored", "refused"} : saves' = [saves EXCEPT ![s].at = at]
      <4>1. CASE SaveAnswered(s)
        <5>1. \/ saves' = [saves EXCEPT ![s] = Idle]
              \/ saves' = [saves EXCEPT ![s].at = "sent", ![s].left = @ - 1, ![s].some = TRUE]
          BY <4>1, FormAnswer
        <5>2. Close \/ editing' = editing
          BY <4>1, FormAnswer, Zenon DEF answeredDefault, answeredBerry, answeredAirChannel,
             answeredAirToken, answeredAirUser, answeredAirNewUser, answeredAirRedemption
        <5>. QED BY <2>0, <2>2, <5>1, <5>2
      <4>2. CASE ~SaveAnswered(s)
        BY <2>0, <2>5, <4>2 DEF ReadRecord, UpdateRecord, AddRecord, RefuseRecord, SaveLost, history
      <4>. QED BY <4>1, <4>2
    <3>3. \A k \in Under(saves') : k \in Under(saves) /\ saves'[k].id = saves[k].id
      BY <2>0, <3>1, <3>2 DEF SavesFit, SaveCall, Under
    <3>. QED BY <2>0, <3>2, <3>3
  <2>6. ASSUME handleCancel PROVE editing' = New /\ saves' = saves
    BY <2>2, <2>6 DEF handleCancel
  <2>7. ASSUME NEW l \in Slots, RecordLoaded(l)
        PROVE  editing' = New /\ \A k \in Under(saves') : saves'[k].id = New
    <3>1. editing' = editing /\ saves' \in {saves, Restarted}
      BY <2>7 DEF RecordLoaded
    <3>2. \A k \in Under(Restarted) : k \in Under(saves) /\ Restarted[k].id = saves[k].id
      BY <2>0 DEF Under, Restarted, SavesUnderWay, SavesFit, SaveCall
    <3>. QED BY <2>0, <3>1, <3>2
  <2>8. CASE UNCHANGED <<editing, saves>>
    BY <2>0, <2>8
  <2>9. \/ UNCHANGED <<editing, saves>> \/ FormsNext
    BY DEF formVars
  <2>10. FormsNext =>
           \/ UNCHANGED <<editing, saves>> \/ handleCancel \/ closeTimer
           \/ \E id \in RecordIds \cup {New} : handleOpen(id)
           \/ \E n \in 1..2 : submit(n)
           \/ \E l \in Slots : RecordLoaded(l)
           \/ \E s \in Slots : \/ ReadRecord(s) \/ UpdateRecord(s) \/ AddRecord(s) \/ RefuseRecord(s)
                               \/ SaveLost(s) \/ SaveAnswered(s)
    BY DEF FormsNext, handleTypeChange, submitIncomplete, Prepared, GetRecord, LoadRefused,
           LoadLost, handleInputChange, SystemMoves
  <2>. QED BY <2>0, <2>1, <2>3, <2>4, <2>5, <2>6, <2>7, <2>8, <2>9, <2>10
<1>. QED BY <1>1, <1>2 DEF NewInv, Under

LEMMA MountedGiven ==
  ASSUME Theme = "berry", NEW id, Mounted(id)
  PROVE  /\ editing' = id
         /\ \/ content' = given /\ given' = given /\ typedSince' = {} /\ (id = New => editing = New)
            \/ content' = Origin /\ given' = Origin /\ id = New /\ typedSince' = {}
<1>1. CASE id = editing
  BY <1>1 DEF Mounted
<1>2. CASE id # editing
  BY <1>2 DEF Mounted, mountedBerry
<1>. QED BY <1>1, <1>2

LEMMA NextBerry ==
  ASSUME FormTyped, BerryInv, [FormsNext]_formVars
  PROVE  BerryInv'
<1>1. Theme' = Theme
  BY SheetStays, SheetSame
<1>2. ASSUME Theme = "berry" PROVE content'["id"] = given'["id"] /\ (visible' \/ editing' = New)
  <2>0. content["id"] = given["id"] /\ (visible \/ editing = New) /\ content \in Data
    BY <1>2, FormTypes DEF BerryInv, Held
  <2>1. ASSUME NEW id, Mounted(id), visible' \/ id = New
        PROVE  content'["id"] = given'["id"] /\ (visible' \/ editing' = New)
    BY <1>2, <2>0, <2>1, MountedGiven
  <2>2. ASSUME Close PROVE content'["id"] = given'["id"] /\ (visible' \/ editing' = New)
    BY <1>2, <2>1, <2>2 DEF Close
  <2>3. ASSUME content'["id"] = content["id"], UNCHANGED <<given, visible, editing>>
        PROVE  content'["id"] = given'["id"] /\ (visible' \/ editing' = New)
    BY <2>0, <2>3
  <2>4. ASSUME NEW data, Hold(data), UNCHANGED <<visible, editing>>
        PROVE  content'["id"] = given'["id"] /\ (visible' \/ editing' = New)
    BY <1>2, <2>0, <2>4 DEF Hold
  <2>5. Composed(content)["id"] = content["id"]
    <3>1. Composed(content) \in {content, [content EXCEPT !["secret"] = Preset]}
      BY DEF Composed, ComposedBerry, ComposedDefault
    <3>. QED BY <2>0, <3>1, PartsAre DEF Data
  <2>6. ASSUME NEW r \in Shown, NEW v \in Values, handleInputChange(r, v)
        PROVE  content'["id"] = content["id"] /\ UNCHANGED <<given, visible, editing>>
    <3>1. content' = [content EXCEPT ![r] = v] /\ r # "id"
      BY <2>6, ShownIs DEF handleInputChange
    <3>. QED BY <2>0, <2>6, <3>1, PartsAre DEF Data, handleInputChange
  <2>7. ASSUME handleTypeChange
        PROVE  content'["id"] = content["id"] /\ UNCHANGED <<given, visible, editing>>
    BY <2>7, PartsAre DEF handleTypeChange
  <2>8. ASSUME NEW n \in 1..2, submit(n)
        PROVE  content'["id"] = content["id"] /\ UNCHANGED <<given, visible, editing>>
    BY <2>5, <2>8 DEF submit
  <2>9. ASSUME submitIncomplete
        PROVE  content'["id"] = content["id"] /\ UNCHANGED <<given, visible, editing>>
    BY <1>2, <2>5, <2>9 DEF submitIncomplete
  <2>10. ASSUME NEW l \in Slots, Prepared(l) PROVE FALSE
    BY <1>2, <2>10, LoadIs DEF Prepared
  <2>11. ASSUME NEW s \in Slots, SaveAnswered(s)
         PROVE  Close \/ (UNCHANGED <<content, given, visible, editing>>)
    <3>1. answeredBerry(s, saves[s].at = "stored") \/ UNCHANGED <<content, given, visible, editing>>
      BY <1>2, <2>11, FormAnswer
    <3>. QED BY <3>1, Zenon DEF answeredBerry
  <2>12. ~closeTimer
    BY <1>2, FormTypes DEF closeTimer, Modes
  <2>13. ASSUME NEW id, handleOpen(id) PROVE Mounted(id) /\ visible'
    BY <2>13 DEF handleOpen
  <2>14. ASSUME NEW l \in Slots, RecordLoaded(l)
         PROVE  content'["id"] = given'["id"] /\ (visible' \/ editing' = New)
    BY <2>4, <2>14 DEF RecordLoaded
  <2>15. ASSUME handleCancel
         PROVE  content'["id"] = given'["id"] /\ (visible' \/ editing' = New)
    BY <2>2, <2>15 DEF handleCancel
  <2>16. \/ UNCHANGED <<content, given, visible, editing>>
         \/ FormsNext
    BY DEF formVars
  <2>17. FormsNext =>
           \/ UNCHANGED <<content, given, visible, editing>>
           \/ \E id \in RecordIds \cup {New} : handleOpen(id)
           \/ handleCancel \/ closeTimer \/ handleTypeChange \/ submitIncomplete
           \/ \E r \in Shown, v \in Values : handleInputChange(r, v)
           \/ \E n \in 1..2 : submit(n)
           \/ \E l \in Slots : Prepared(l) \/ RecordLoaded(l)
           \/ \E s \in Slots : SaveAnswered(s)
    BY DEF FormsNext, GetRecord, LoadRefused, LoadLost, ReadRecord, UpdateRecord, AddRecord, RefuseRecord,
           SaveLost, SystemMoves
  <2>. QED BY <2>1, <2>3, <2>6, <2>7, <2>8, <2>9, <2>10, <2>11, <2>2, <2>12, <2>13, <2>14, <2>15,
              <2>16, <2>17
<1>. QED BY <1>1, <1>2 DEF BerryInv

\* More typed, or blank, or another edited id: what was shown of the record still is.
LEMMA ShowsTyped ==
  ASSUME NEW c, NEW d, NEW g, NEW t, NEW u, NEW id, NEW ss, NEW rs, Shows(c, g, t, id, ss, rs),
         t \subseteq u, d["id"] = c["id"], \A r \in Shown \ u : d[r] = c[r]
  PROVE  Shows(d, g, u, id, ss, rs)
<1>1. \A r \in Shown \ u : Sent(d)[r] = Sent(c)[r] /\ r \in Shown \ t
  BY PartsAre DEF Sent
<1>2. ASSUME NEW row, Agrees(row, c, t) PROVE Agrees(row, d, u)
  BY <1>1, <1>2 DEF Agrees
<1>3. Faithful(rs, c, t) => Faithful(rs, d, u)
  BY <1>2 DEF Faithful
<1>4. ASSUME NEW call, OnItsWay(call, c, t, id, rs) PROVE OnItsWay(call, d, u, id, rs)
  BY <1>1, <1>2, <1>4 DEF OnItsWay
<1>. QED BY <1>3, <1>4 DEF Shows

LEMMA ShowsBlank ==
  ASSUME NEW c, NEW d, NEW g, NEW h, NEW t, NEW u, NEW id, NEW e, NEW ss, NEW rs,
         Shows(c, g, t, id, ss, rs), d["id"] \notin RecordIds,
         Theme = "berry" => h = g \/ h["id"] \notin RecordIds
  PROVE  Shows(d, h, u, e, ss, rs)
BY DEF Shows, Faithful

LEMMA ShowsId ==
  ASSUME NEW c, NEW g, NEW h, NEW t, NEW id, NEW e, NEW ss, NEW rs, Shows(c, g, t, id, ss, rs),
         Theme # "berry"
  PROVE  Shows(c, h, t, e, ss, rs)
BY DEF Shows, OnItsWay

LEMMA OriginBlank == Origin["id"] \notin RecordIds
BY PartsAre DEF Origin, Unset, RecordIds

LEMMA HoldShows ==
  ASSUME NEW ss, NEW rs, NEW id, NEW data, Hold(data), data["id"] \notin RecordIds,
         Shows(content, given, typedSince, id, ss, rs)
  PROVE  Shows(content', given', typedSince', id, ss, rs)
<1>1. CASE content' = content /\ given' = given /\ typedSince' = typedSince
  BY <1>1
<1>2. CASE content' = data /\ (given' = data \/ given' = given)
  BY <1>2, ShowsBlank
<1>3. CASE Theme = "berry" /\ visible /\ data = given
  <2>1. content' = content /\ given' = given /\ typedSince' = typedSince
    BY <1>3 DEF Hold
  <2>. QED BY <1>1, <2>1
<1>4. ASSUME ~(Theme = "berry" /\ visible /\ data = given)
      PROVE  content' = data /\ (given' = data \/ given' = given)
  BY <1>4 DEF Hold
<1>. QED BY <1>1, <1>2, <1>3, <1>4

LEMMA MountedShows ==
  ASSUME FormTyped, BerryInv, NEW id, Mounted(id), Theme = "berry" => ~visible \/ id = New,
         Shows(content, given, typedSince, editing, saves, records)
  PROVE  Shows(content', given', typedSince', editing', saves, records)
<1>1. CASE Theme = "berry"
  <2>1. CASE content' = Origin /\ given' = Origin
    BY <2>1, OriginBlank, ShowsBlank
  <2>2. CASE /\ content' = given /\ given' = given /\ typedSince' = {}
             /\ (id = New => editing = New)
    <3>1. editing = New /\ content["id"] = given["id"]
      BY <1>1, <2>2 DEF BerryInv
    <3>2. CASE given["id"] \notin RecordIds
      BY <2>2, <3>2, ShowsBlank
    <3>3. CASE given["id"] \in RecordIds
      <4>1. Under(saves) = {}
        BY <1>1, <3>1, <3>3 DEF Shows, OnItsWay, RecordIds, New
      <4>2. Faithful(records, given, {})
        BY <1>1, <4>1 DEF Shows
      <4>. QED BY <2>2, <4>1, <4>2 DEF Shows
    <3>. QED BY <3>2, <3>3
  <2>. QED BY <1>1, <2>1, <2>2, MountedGiven
<1>2. CASE Theme # "berry"
  <2>1. CASE UNCHANGED <<content, given, typedSince>>
    BY <1>2, <2>1, ShowsId
  <2>2. CASE Hold(Origin)
    <3>1. Shows(content', given', typedSince', editing, saves, records)
      BY <2>2, OriginBlank, HoldShows
    <3>. QED BY <1>2, <3>1, ShowsId
  <2>3. id # editing => CASE Entity = "channel" -> mountedAirChannel(id)
                          [] Entity = "token" -> mountedAirToken(id)
                          [] Entity = "user" -> mountedAirUser(id)
                          [] OTHER -> mountedAirRedemption(id)
    BY <1>2 DEF Mounted
  <2>4. id # editing => \/ mountedAirChannel(id) \/ mountedAirToken(id)
                        \/ mountedAirUser(id) \/ mountedAirRedemption(id)
    BY <2>3
  <2>5. id # editing => Hold(Origin) \/ UNCHANGED <<content, given, typedSince>>
    <3>1. mountedAirChannel(id) => UNCHANGED <<content, given, typedSince>>
      BY DEF mountedAirChannel
    <3>2. mountedAirToken(id) => Hold(Origin) \/ UNCHANGED <<content, given, typedSince>>
      BY DEF mountedAirToken
    <3>3. mountedAirUser(id) => UNCHANGED <<content, given, typedSince>>
      BY DEF mountedAirUser
    <3>4. mountedAirRedemption(id) => Hold(Origin) \/ UNCHANGED <<content, given, typedSince>>
      BY DEF mountedAirRedemption
    <3>. QED BY <2>4, <3>1, <3>2, <3>3, <3>4
  <2>6. id = editing => UNCHANGED <<content, given, typedSince>>
    BY <1>2 DEF Mounted
  <2>. QED BY <2>1, <2>2, <2>5, <2>6
<1>. QED BY <1>1, <1>2

LEMMA ShowsForm ==
  ASSUME FormTyped, SoundInv, BerryInv, ~unsure',
         Shows(content, given, typedSince, editing, saves, records),
         \/ \E id \in RecordIds \cup {New} : handleOpen(id)
         \/ handleCancel \/ closeTimer \/ handleTypeChange \/ submitIncomplete
         \/ \E r \in Shown, v \in Values : handleInputChange(r, v)
         \/ \E l \in Slots : Prepared(l) \/ GetRecord(l) \/ LoadRefused(l) \/ LoadLost(l)
  PROVE  Shows(content', given', typedSince', editing', saves', records')
<1>0. content \in Data /\ SoundData(content, astray) /\ astray \in BOOLEAN
  BY SoundParts
<1>1. ASSUME NEW id \in RecordIds \cup {New}, handleOpen(id)
      PROVE  Shows(content', given', typedSince', editing', saves', records')
  <2>1. ~visible /\ Mounted(id) /\ saves' = saves /\ records' = records
    BY <1>1 DEF handleOpen
  <2>2. Shows(content', given', typedSince', editing', saves, records)
    BY <2>1, MountedShows
  <2>. QED BY <2>1, <2>2
<1>2. CASE handleCancel
  <2>. DEFINE id == IF Theme = "berry" \/ Entity = "user" THEN New ELSE editing
  <2>1. Mounted(id) /\ saves' = saves /\ records' = records /\ (Theme = "berry" => id = New)
    BY <1>2 DEF handleCancel, Close
  <2>. HIDE DEF id
  <2>2. Shows(content', given', typedSince', editing', saves, records)
    BY <2>1, MountedShows
  <2>. QED BY <2>1, <2>2
<1>3. CASE closeTimer
  <2>1. Mounted(New) /\ saves' = saves /\ records' = records
    BY <1>3 DEF closeTimer
  <2>2. Shows(content', given', typedSince', editing', saves, records)
    BY <2>1, MountedShows
  <2>. QED BY <2>1, <2>2
<1>4. CASE handleTypeChange
  <2>1. /\ content' = [r \in Parts |-> IF r = "models" THEN Preset
                                       ELSE IF r = "config" /\ Theme = "berry" THEN Cleared
                                       ELSE content[r]]
        /\ typedSince' = typedSince \cup ({"models", "config"} \cap Shown)
        /\ UNCHANGED <<given, editing, saves, records>>
    BY <1>4 DEF handleTypeChange
  <2>2. content'["id"] = content["id"] /\ \A r \in Shown \ typedSince' : content'[r] = content[r]
    BY <2>1, PartsAre
  <2>3. typedSince \subseteq typedSince'
    BY <2>1
  <2>4. Shows(content', given, typedSince', editing, saves, records)
    BY <2>2, <2>3, ShowsTyped
  <2>. QED BY <2>1, <2>4
<1>5. CASE submitIncomplete
  <2>1. /\ UNCHANGED <<editing, saves, records>>
        /\ \/ UNCHANGED <<content, given, typedSince>> \/ Hold(Origin)
           \/ content' = Composed(content) /\ UNCHANGED <<given, typedSince>>
    BY <1>5 DEF submitIncomplete
  <2>2. CASE Hold(Origin)
    <3>1. Shows(content', given', typedSince', editing, saves, records)
      BY <2>2, OriginBlank, HoldShows
    <3>. QED BY <2>1, <3>1
  <2>3. CASE content' = Composed(content) /\ UNCHANGED <<given, typedSince>>
    <3>1. CASE content["id"] \in RecordIds
      BY <1>0, <2>1, <2>3, <3>1, ComposedSound
    <3>2. CASE content["id"] \notin RecordIds
      <4>1. content'["id"] \notin RecordIds
        BY <1>0, <2>3, <3>2, ComposedSound
      <4>2. Shows(content', given, typedSince', editing, saves, records)
        BY <4>1, ShowsBlank
      <4>. QED BY <2>1, <2>3, <4>2
    <3>. QED BY <3>1, <3>2
  <2>. QED BY <2>1, <2>2, <2>3
<1>6. ASSUME NEW r \in Shown, NEW v \in Values, handleInputChange(r, v)
      PROVE  Shows(content', given', typedSince', editing', saves', records')
  <2>1. /\ content' = [content EXCEPT ![r] = v] /\ typedSince' = typedSince \cup {r} /\ r # "id"
        /\ UNCHANGED <<given, editing, saves, records>>
    BY <1>6, ShownIs DEF handleInputChange
  <2>2. content'["id"] = content["id"] /\ \A q \in Shown \ typedSince' : content'[q] = content[q]
    BY <1>0, <2>1, PartsAre DEF Data
  <2>3. typedSince \subseteq typedSince'
    BY <2>1
  <2>4. Shows(content', given, typedSince', editing, saves, records)
    BY <2>2, <2>3, ShowsTyped
  <2>. QED BY <2>1, <2>4
<1>7. ASSUME NEW l \in Slots, Prepared(l)
      PROVE  Shows(content', given', typedSince', editing', saves', records')
  <2>1. /\ UNCHANGED <<editing, saves, records>>
        /\ Hold(Origin) \/ UNCHANGED <<content, given, typedSince>>
    BY <1>7 DEF Prepared
  <2>2. CASE Hold(Origin)
    <3>1. Shows(content', given', typedSince', editing, saves, records)
      BY <2>2, OriginBlank, HoldShows
    <3>. QED BY <2>1, <3>1
  <2>. QED BY <2>1, <2>2
<1>8. ASSUME NEW l \in Slots, GetRecord(l) \/ LoadRefused(l) \/ LoadLost(l)
      PROVE  Shows(content', given', typedSince', editing', saves', records')
  BY <1>8 DEF GetRecord, LoadRefused, LoadLost, history
<1>. QED BY <1>1, <1>2, <1>3, <1>4, <1>5, <1>6, <1>7, <1>8

LEMMA ShowsLoaded ==
  ASSUME FormTyped, ShowsInv, ~unsure', NEW l \in Slots, RecordLoaded(l)
  PROVE  Shows(content', given', typedSince', editing', saves', records')
<1>. DEFINE data == formLoads[l].data
            row == Given(formLoads[l].id, records)
<1>1. /\ formLoads[l].at = "read" /\ Hold(data) /\ records' = records /\ saves' \in {saves, Restarted}
      /\ unsure' = (\/ SavesUnderWay # {} \/ data # row
                    \/ unsure /\ data = given)
  BY DEF RecordLoaded, Loaded
<1>2. Under(saves) = {} /\ data = row /\ ~(unsure /\ data = given)
  BY <1>1, UnderIs
<1>3. Under(saves') = {}
  BY <1>1, <1>2 DEF Under, Restarted, SavesUnderWay
<1>4. formLoads[l].id \in 1..3
  BY <1>1, LoadIs
<1>5. \A t : Faithful(records, row, t)
  <2>1. CASE formLoads[l].id = Self
    BY <2>1, PartsAre DEF Faithful, Given, Self, RecordIds
  <2>2. CASE formLoads[l].id # Self
    <3>1. row["id"] = formLoads[l].id
      BY PartsAre DEF Given
    <3>2. \A r \in Parts \ {"id"} : \/ row[r] = records[formLoads[l].id][r]
                                    \/ r = "secret" /\ Entity = "user"
      BY <2>2 DEF Given
    <3>3. Shown \subseteq Parts \ {"id"}
      BY PartsAre, ShownIs
    <3>. HIDE DEF row
    <3>. QED BY <3>1, <3>2, <3>3 DEF Faithful, Agrees
  <2>. QED BY <2>1, <2>2
<1>. HIDE DEF data, row
<1>6. CASE Theme = "berry" /\ visible /\ data = given
  <2>1. UNCHANGED <<content, given, typedSince>>
    BY <1>1, <1>6 DEF Hold
  <2>2. Shows(content, given, typedSince, editing, saves, records)
    BY <1>2, <1>6 DEF ShowsInv
  <2>. QED BY <1>1, <1>2, <1>3, <2>1, <2>2 DEF Shows
<1>7. CASE Theme = "berry" /\ ~(visible /\ data = given)
  <2>1. content' = data /\ given' = data
    BY <1>1, <1>7 DEF Hold
  <2>. QED BY <1>1, <1>2, <1>3, <1>5, <2>1 DEF Shows
<1>8. CASE Theme # "berry"
  <2>1. content' = data
    BY <1>1, <1>8 DEF Hold
  <2>. QED BY <1>1, <1>2, <1>3, <1>5, <1>8, <2>1 DEF Shows
<1>. QED BY <1>6, <1>7, <1>8

LEMMA ShowsSubmit ==
  ASSUME FormTyped, SoundInv, ~unsure', NEW n \in 1..2, submit(n)
  PROVE  Shows(content', given', typedSince', editing', saves', records')
<1>0. /\ content \in Data /\ SoundData(content, astray) /\ astray \in BOOLEAN
      /\ SavesFit(saves, openings)
  BY SoundParts
<1>. DEFINE c == Composed(content)
            call == [at |-> "sent", put |-> Puts(c), id |-> editing, data |-> Sent(c),
                     left |-> n, some |-> FALSE, opening |-> openings,
                     restarted |-> \E s \in SavesUnderWay :
                                      saves[s].opening = openings /\ saves[s].restarted]
<1>1. /\ Free(saves) # {} /\ content' = c /\ saves' = [saves EXCEPT ![FreeSave] = call]
      /\ UNCHANGED <<editing, given, records>> /\ typedSince' = {}
      /\ (n > 1 => editing = New)
      /\ unsure' = (SavesUnderWay # {} \/ LoadsUnderWay # {} \/ content["id"] # editing)
  BY DEF submit
<1>2. Under(saves) = {} /\ content["id"] = editing
  BY <1>1, UnderIs
<1>3. c["id"] = editing
  BY <1>0, <1>2, ComposedSound
<1>4. /\ call.at = "sent" /\ call.id = editing /\ call.left = n /\ call.data = Sent(c)
      /\ call.put = Puts(c)
  OBVIOUS
<1>5. editing \in RecordIds => editing # New
  BY DEF RecordIds, New
<1>6. editing \in RecordIds => Puts(c)
  BY <1>3, <1>5 DEF Puts
<1>. HIDE DEF c, call
<1>7. FreeSave \in Slots
  BY <1>1, FreeSaveIs
<1>8. Under(saves') \subseteq {FreeSave} /\ saves'[FreeSave] = call
  BY <1>0, <1>1, <1>2, <1>7 DEF Under, SavesFit
<1>9. call # Idle
  BY <1>4 DEF Idle
<1>10. Under(saves') = {FreeSave}
  BY <1>7, <1>8, <1>9 DEF Under
<1>11. c["id"] \in RecordIds => OnItsWay(call, c, {}, editing, records)
  <2>1. editing \in RecordIds => n = 1
    BY <1>1, <1>5
  <2>. QED BY <1>3, <1>4, <1>6, <2>1 DEF OnItsWay
<1>. QED BY <1>1, <1>8, <1>10, <1>11 DEF Shows

\* What an update makes of a record is what was sent, or what it leaves for a zero.
LEMMA WrittenIs ==
  ASSUME FormTyped, SoundData(content, astray), content["id"] \in RecordIds, Entity # "newuser",
         NEW t, NEW row, NEW new, NEW data, \A r \in Shown \ t : data[r] = Sent(content)[r],
         \A r \in Parts \ {"id"} : new[r] = Written(r, data[r], row[r])
  PROVE  Agrees(new, content, t)
<1>. SUFFICES ASSUME NEW r \in Shown \ t
              PROVE  \/ new[r] = Sent(content)[r] \/ new[r] = content[r]
                     \/ Zero(content[r]) /\ (Entity = "user" \/ r \in {"name", "models"})
                     \/ r = "secret" /\ Entity = "user"
  BY DEF Agrees
<1>1. /\ r # "id" /\ r # "status" /\ r \in Parts
      /\ Entity \in {"token", "redemption"} => r # "secret"
  BY PartsAre, ShownIs
<1>2. new[r] = Written(r, Sent(content)[r], row[r])
  BY <1>1
<1>3. Zero(Sent(content)[r]) => Zero(content[r])
  BY <1>1 DEF Sent, Zero, Typed, Preset, Unset, Cleared
<1>4. CASE Entity = "channel"
  <2>1. ~Zero(content["secret"])
    BY <1>4 DEF SoundData
  <2>2. \/ new[r] = Sent(content)[r]
        \/ r \in {"name", "secret", "models", "status"} /\ Zero(Sent(content)[r])
    BY <1>2, <1>4 DEF Written
  <2>. QED BY <1>1, <1>3, <2>1, <2>2
<1>5. CASE Entity = "user"
  <2>1. new[r] = Sent(content)[r] \/ Zero(Sent(content)[r])
    BY <1>2, <1>5 DEF Written
  <2>. QED BY <1>3, <1>5, <2>1
<1>6. CASE Entity \in {"token", "redemption"}
  <2>1. new[r] = Sent(content)[r]
    BY <1>1, <1>2, <1>6 DEF Written
  <2>. QED BY <2>1
<1>. QED BY <1>4, <1>5, <1>6, SheetIs

LEMMA ShowsUpdate ==
  ASSUME FormTyped, SoundInv, NewInv, NEW s \in Slots, UpdateRecord(s),
         Shows(content, given, typedSince, editing, saves, records)
  PROVE  Shows(content', given', typedSince', editing', saves', records')
<1>0. /\ SoundData(content, astray) /\ SavesFit(saves, openings) /\ records \in [RecordIds -> Data]
  BY SoundParts
<1>. DEFINE i == saves[s].id
            data == saves[s].data
            new == [r \in Parts |-> IF r = "id" THEN i ELSE Written(r, data[r], Before(s, r))]
<1>1. /\ saves[s].at \in {"sent", "found"} /\ saves' = [saves EXCEPT ![s].at = "stored"]
      /\ records' = [records EXCEPT ![i] = new]
      /\ UNCHANGED <<content, given, typedSince, editing>>
  BY DEF UpdateRecord
<1>2. saves[s].at \in {"sent", "found"} /\ i # New
  BY DEF UpdateRecord
<1>3. saves[s] \in SaveCall /\ saves[s] # Idle
  BY <1>2, SaveIs
<1>4. Under(saves') = Under(saves)
  BY <1>1, <1>2, SaveStays
<1>5. s \in Under(saves) /\ \A k \in Under(saves) : k = s
  BY <1>3 DEF Under, Shows
<1>6. /\ saves'[s].at = "stored" /\ saves'[s].id = saves[s].id /\ saves'[s].left = saves[s].left
  BY <1>0, <1>1, <1>3 DEF SavesFit, SaveCall
<1>7. Entity # "newuser"
  BY <1>2, <1>5 DEF NewInv
<1>8. ASSUME content["id"] \in RecordIds
      PROVE  OnItsWay(saves'[s], content, typedSince, editing, records')
  <2>1. OnItsWay(saves[s], content, typedSince, editing, records)
    BY <1>5, <1>8 DEF Shows
  <2>2. i = content["id"] /\ \A r \in Shown \ typedSince : data[r] = Sent(content)[r]
    BY <1>2, <2>1 DEF OnItsWay
  <2>3. records'[i] = new
    BY <1>0, <1>1, <1>8, <2>2
  <2>. DEFINE row == [r \in Parts |-> Before(s, r)]
  <2>4. \A r \in Parts \ {"id"} : new[r] = Written(r, data[r], row[r])
    OBVIOUS
  <2>. HIDE DEF i, data, new, row
  <2>5. Agrees(new, content, typedSince)
    BY <1>0, <1>7, <1>8, <2>2, <2>4, WrittenIs
  <2>. QED BY <1>6, <2>1, <2>2, <2>3, <2>5 DEF OnItsWay, i
<1>. HIDE DEF i, data, new
<1>. QED BY <1>1, <1>4, <1>5, <1>8 DEF Shows

LEMMA ShowsRead ==
  ASSUME FormTyped, NEW s \in Slots, ReadRecord(s),
         Shows(content, given, typedSince, editing, saves, records)
  PROVE  Shows(content', given', typedSince', editing', saves', records')
<1>1. /\ saves[s].at = "sent" /\ saves[s].put /\ saves' = [saves EXCEPT ![s].at = "found"]
      /\ UNCHANGED <<content, given, typedSince, editing, records>>
  BY DEF ReadRecord, history
<1>2. Under(saves') = Under(saves)
  BY <1>1, SaveStays
<1>3. saves[s] \in SaveCall /\ saves[s] # Idle /\ SavesFit(saves, openings)
  BY <1>1, SaveIs, FormTypes
<1>4. s \in Under(saves) /\ \A k \in Under(saves) : k = s
  BY <1>3 DEF Under, Shows
<1>5. /\ saves'[s].at = "found" /\ saves'[s].put = saves[s].put /\ saves'[s].id = saves[s].id
      /\ saves'[s].left = saves[s].left /\ saves'[s].data = saves[s].data
  BY <1>1, <1>3 DEF SavesFit, SaveCall
<1>6. ASSUME content["id"] \in RecordIds
      PROVE  OnItsWay(saves'[s], content, typedSince, editing, records)
  <2>1. OnItsWay(saves[s], content, typedSince, editing, records)
    BY <1>4, <1>6 DEF Shows
  <2>. QED BY <1>1, <1>5, <2>1 DEF OnItsWay
<1>. QED BY <1>1, <1>2, <1>4, <1>6 DEF Shows

LEMMA ShowsAdd ==
  ASSUME FormTyped, NEW s \in Slots, AddRecord(s),
         Shows(content, given, typedSince, editing, saves, records)
  PROVE  Shows(content', given', typedSince', editing', saves', records')
<1>1. /\ saves[s].at = "sent" /\ ~saves[s].put /\ saves' = [saves EXCEPT ![s].at = "stored"]
      /\ UNCHANGED <<content, given, typedSince, editing, records>>
  BY DEF AddRecord, history
<1>2. Under(saves') = Under(saves)
  BY <1>1, SaveStays
<1>3. s \in Under(saves)
  BY <1>1 DEF Under, Idle
<1>4. content["id"] \notin RecordIds
  BY <1>1, <1>3 DEF Shows, OnItsWay
<1>. QED BY <1>1, <1>2, <1>3, <1>4 DEF Shows

LEMMA ShowsAnswer ==
  ASSUME FormTyped, BerryInv, NEW s \in Slots, SaveAnswered(s),
         Shows(content, given, typedSince, editing, saves, records)
  PROVE  Shows(content', given', typedSince', editing', saves', records')
<1>1. saves[s].at \in {"stored", "refused"} /\ records' = records
  BY DEF SaveAnswered
<1>2. s \in Under(saves) /\ \A k \in Under(saves) : k = s
  BY <1>1 DEF Under, Idle, Shows
<1>3. content["id"] \in RecordIds =>
        /\ saves[s].at = "stored" /\ saves[s].left = 1
        /\ Agrees(records[content["id"]], content, typedSince)
        /\ Theme = "berry" => editing = content["id"]
  BY <1>1, <1>2 DEF Shows, OnItsWay
<1>4. CASE /\ saves[s].at = "stored" /\ saves[s].left > 1
           /\ saves' = [saves EXCEPT ![s].at = "sent", ![s].left = @ - 1, ![s].some = TRUE]
           /\ UNCHANGED <<editing, visible, closing, content, given, formBusy, spent,
                          formLoads, typedSince>>
  <2>1. content["id"] \notin RecordIds
    BY <1>3, <1>4
  <2>2. Under(saves') = Under(saves)
    BY <1>1, <1>4, SaveStays
  <2>. QED BY <1>2, <1>4, <2>1, <2>2 DEF Shows
<1>5. ASSUME saves' = [saves EXCEPT ![s] = Idle],
             Faithful(records, content', typedSince'), Theme = "berry" => Faithful(records, given', {})
      PROVE  Shows(content', given', typedSince', editing', saves', records')
  <2>1. Under(saves') = {}
    BY <1>2, <1>5, SaveEnds
  <2>. QED BY <1>1, <1>5, <2>1 DEF Shows
<1>6. Faithful(records, content, typedSince)
  BY <1>3 DEF Faithful
<1>7. \A d, t : d["id"] \notin RecordIds => Faithful(records, d, t)
  BY DEF Faithful
<1>8. ASSUME Theme # "berry", NEW data, Hold(data), data["id"] \notin RecordIds
      PROVE  Faithful(records, content', typedSince')
  BY <1>7, <1>8 DEF Hold
<1>9. ASSUME Theme # "berry", Close PROVE Faithful(records, content', typedSince')
  <2>. DEFINE id == IF Theme = "berry" \/ Entity = "user" THEN New ELSE editing
  <2>1. Mounted(id)
    BY <1>9 DEF Close
  <2>2. CASE id = editing
    BY <1>6, <1>9, <2>1, <2>2 DEF Mounted
  <2>3. CASE id # editing
    <3>1. Entity = "user"
      BY <1>9, <2>3
    <3>2. mountedAirUser(id)
      BY <1>9, <2>1, <2>3, <3>1 DEF Mounted
    <3>. QED BY <1>6, <3>2 DEF mountedAirUser
  <2>. QED BY <2>2, <2>3
<1>10. CASE Theme # "berry" /\ saves' = [saves EXCEPT ![s] = Idle]
  <2>1. [r \in Parts |-> IF r = "config" THEN content[r] ELSE Unset]["id"] \notin RecordIds
    BY PartsAre DEF Unset, RecordIds
  <2>2. saves' # [saves EXCEPT ![s].at = "sent", ![s].left = @ - 1, ![s].some = TRUE]
    <3>. DEFINE copied == [saves EXCEPT ![s].at = "sent", ![s].left = @ - 1, ![s].some = TRUE]
    <3>1. saves \in [Slots -> SaveCall \cup {Idle}]
      BY FormTypes DEF SavesFit
    <3>2. saves[s] \in SaveCall
      BY <1>1, <3>1 DEF Idle
    <3>3. copied[s].at = "sent"
      BY <3>1, <3>2 DEF SaveCall
    <3>4. saves'[s].at = "none"
      BY <1>10, <3>1 DEF Idle
    <3>. QED BY <3>3, <3>4
  <2>3. \/ UNCHANGED <<content, typedSince>> \/ Close \/ Hold(Origin)
        \/ Hold([r \in Parts |-> IF r = "config" THEN content[r] ELSE Unset])
    BY <1>10, <2>2, FormAnswer, Zenon DEF answeredDefault, answeredAirChannel, answeredAirToken,
       answeredAirUser, answeredAirNewUser, answeredAirRedemption
  <2>4. Faithful(records, content', typedSince')
    <3>1. CASE UNCHANGED <<content, typedSince>>
      BY <1>6, <3>1
    <3>2. CASE Close
      BY <1>9, <1>10, <3>2
    <3>3. CASE Hold(Origin)
      BY <1>8, <1>10, <3>3, OriginBlank
    <3>4. CASE Hold([r \in Parts |-> IF r = "config" THEN content[r] ELSE Unset])
      <4>. DEFINE data == [r \in Parts |-> IF r = "config" THEN content[r] ELSE Unset]
      <4>1. data["id"] \notin RecordIds /\ Hold(data)
        BY <2>1, <3>4
      <4>. HIDE DEF data
      <4>. QED BY <1>8, <1>10, <4>1
    <3>. QED BY <2>3, <3>1, <3>2, <3>3, <3>4
  <2>. QED BY <1>5, <1>10, <2>4
<1>11. CASE /\ Theme = "berry" /\ saves' = [saves EXCEPT ![s] = Idle]
            /\ answeredBerry(s, saves[s].at = "stored")
  <2>1. content["id"] = given["id"]
    BY <1>11 DEF BerryInv
  <2>2. CASE Close
    <3>1. Mounted(New)
      BY <1>11, <2>2 DEF Close
    <3>2. CASE content' = Origin /\ given' = Origin
      BY <1>5, <1>7, <1>11, <3>2, OriginBlank
    <3>3. CASE content' = given /\ given' = given /\ editing = New
      <4>1. content["id"] \notin RecordIds
        BY <1>3, <1>11, <3>3 DEF RecordIds, New
      <4>. QED BY <1>5, <1>7, <1>11, <2>1, <3>3, <4>1
    <3>. QED BY <1>11, <3>1, <3>2, <3>3, MountedGiven
  <2>3. CASE saves[s].at = "refused"
    <3>1. content["id"] \notin RecordIds
      BY <1>3, <2>3
    <3>2. UNCHANGED <<content, given, typedSince>>
      BY <1>11, <2>3 DEF answeredBerry
    <3>. QED BY <1>5, <1>7, <1>11, <2>1, <3>1, <3>2
  <2>4. saves[s].at = "stored" => Close
    BY <1>11 DEF answeredBerry
  <2>. QED BY <1>1, <2>2, <2>3, <2>4
<1>. QED BY <1>4, <1>10, <1>11, FormAnswer

LEMMA NextShows ==
  ASSUME FormTyped, SoundInv, NewInv, BerryInv, ShowsInv, [FormsNext]_formVars
  PROVE  ShowsInv'
<1>1. /\ Parts' = Parts /\ Shown' = Shown /\ Theme' = Theme /\ Entity' = Entity
  BY SheetStays, SheetSame
<1>2. ASSUME ~unsure'
      PROVE  Shows(content', given', typedSince', editing', saves', records')
  <2>1. CASE \/ \E n \in 1..2 : submit(n)
             \/ \E l \in Slots : RecordLoaded(l)
    BY <1>2, <2>1, ShowsSubmit, ShowsLoaded
  <2>2. CASE UNCHANGED formVars
    BY <1>2, <2>2 DEF formVars, ShowsInv
  <2>3. CASE /\ FormsNext /\ ~(\E n \in 1..2 : submit(n)) /\ ~(\E l \in Slots : RecordLoaded(l))
    <3>1. unsure' = unsure \/ unsure' = TRUE
      BY <2>3 DEF FormsNext, handleOpen, handleCancel, closeTimer, handleTypeChange,
         submitIncomplete, Prepared, GetRecord, LoadRefused, LoadLost, history,
         handleInputChange, ReadRecord, UpdateRecord, AddRecord, RefuseRecord, SaveAnswered, SaveLost,
         SystemMoves
    <3>2. ~unsure
      BY <1>2, <3>1
    <3>3. Shows(content, given, typedSince, editing, saves, records)
      BY <3>2 DEF ShowsInv
    <3>4. ASSUME NEW s \in Slots, RefuseRecord(s) \/ SaveLost(s) PROVE FALSE
      BY <1>2, <3>4 DEF RefuseRecord, SaveLost
    <3>5. ASSUME NEW i \in RecordIds, SystemMoves(i) PROVE FALSE
      BY <1>2, <3>5 DEF SystemMoves
    <3>. QED BY <1>2, <2>3, <3>3, <3>4, <3>5, ShowsForm, ShowsRead, ShowsUpdate, ShowsAdd, ShowsAnswer
             DEF FormsNext
  <2>. QED BY <2>1, <2>2, <2>3
<1>3. \A c \in {content', given'} : Sent(c)' = Sent(c')
  BY <1>1 DEF Sent
<1>4. Shows(content, given, typedSince, editing, saves, records)'
        = Shows(content', given', typedSince', editing', saves', records')
  BY <1>1 DEF Shows, Faithful, OnItsWay, Agrees, Sent, Under
<1>. QED BY <1>2, <1>4 DEF ShowsInv

LEMMA InitShows == ASSUME FormsInit PROVE NewInv /\ BerryInv /\ ShowsInv
<1>1. /\ content = Origin /\ given = Origin /\ saves = [s \in Slots |-> Idle]
      /\ (IF Theme = "default"
          THEN editing \in (IF Entity = "newuser" THEN {New} ELSE IF Entity = "user" THEN {1} ELSE {New, 1})
          ELSE editing = New)
  BY DEF FormsInit
<1>2. Under(saves) = {}
  BY <1>1 DEF Under
<1>3. Theme # "default" => editing = New
  BY <1>1
<1>4. Entity = "newuser" => editing = New
  BY <1>1
<1>5. NewInv /\ BerryInv
  BY <1>1, <1>2, <1>3, <1>4 DEF NewInv, BerryInv
<1>6. ShowsInv
  BY <1>1, <1>2, OriginBlank DEF ShowsInv, Shows, Faithful
<1>. QED BY <1>5, <1>6

LEMMA ShownIsTrue ==
  ASSUME FormTyped, ShowsInv
  PROVE  ShownIsSaved
<1>. SUFFICES ASSUME editing # New, content["id"] = editing, ~unsure, SavesUnderWay = {}
              PROVE  Agrees(records[editing], content, typedSince)
  BY DEF ShownIsSaved, Agrees
<1>1. editing \in RecordIds
  BY FormTypes DEF RecordIds, New
<1>2. Under(saves) = {}
  BY UnderIs
<1>. QED BY <1>1, <1>2 DEF ShowsInv, Shows, Faithful

----------------------------------------------------------------------------
(* The forms. *)

FormsInv ==
  /\ FormTyped /\ WaitInv /\ LockInv /\ SoundInv /\ FoundInv /\ PageInv
  /\ NewInv /\ BerryInv /\ ShowsInv

\* The inductive invariant of the forms, in the project's composition with the account:
\* there a form moves by its own steps only.
THEOREM FormsInvariance == WebFormsSpec => []FormsInv
<1>1. WebFormsInit => FormsInv
  BY InitFormTyped, FormsStart, InitSound, InitFound, InitPage, InitShows DEF WebFormsInit, FormsInv
<1>2. FormsInv /\ [WebFormsNext]_<<formVars, accountVars, focus>> => FormsInv'
  <2>1. ASSUME FormsInv, [WebFormsNext]_<<formVars, accountVars, focus>>
        PROVE  FormsInv'
    <3>1. [FormsNext]_formVars
      BY <2>1 DEF WebFormsNext
    <3>2. FormTyped' /\ WaitInv' /\ LockInv'
      BY <2>1, <3>1, NextFormTyped, FormsMove DEF FormsInv
    <3>3. SoundInv' /\ FoundInv' /\ PageInv'
      BY <2>1, <3>1, NextSound, NextFound, NextPage DEF FormsInv
    <3>4. NewInv' /\ BerryInv' /\ ShowsInv'
      BY <2>1, <3>1, NextNew, NextBerry, NextShows DEF FormsInv
    <3>. QED BY <3>2, <3>3, <3>4 DEF FormsInv
  <2>. QED BY <2>1
<1>. QED BY <1>1, <1>2, PTL DEF WebFormsSpec

\* The state of the forms and of the visitor keeps its types, for any number of steps and
\* of openings of a dialog, and a page for signed-in visitors shows for one (PrivateRoute,
\* AuthGuard, AuthWrapper).
THEOREM ConsoleTyped == WebFormsSpec => []WebFormsTypeOK
<1>1. FormsInv => FormTypeOK
  BY DEF FormsInv, FormTyped
<1>2. AllInv => AccountTypeOK
  BY DEF AllInv, AccountInv
<1>. QED BY <1>1, <1>2, FormsInvariance, AllInvariance, PTL DEF WebFormsTypeOK

\* A form or a page that is busy waits for a call, unless an answer was lost, and a dialog
\* of berry sends one save at a time, unless a load started its form again under a save
\* (loading of the default and air themes, isSubmitting of Formik).
THEOREM BusyWaits == WebFormsSpec => []BusyHasACall
<1>1. FormsInv => FormSpinner /\ OneSaveAtATime
  BY SpinnerWaits DEF FormsInv
<1>2. AllInv => AccountSpinner
  BY SpinnerKept DEF AllInv
<1>. QED BY <1>1, <1>2, FormsInvariance, AllInvariance, PTL DEF BusyHasACall

\* Whatever the order in which loads and saves of the forms are answered, lost or refused,
\* a record holds nothing of another record or of a blank form unless a save was sent from
\* a form that did not hold it; its password outlives every save with an empty field; and
\* once nothing is under way and nothing disturbed the form, the record is what it shows
\* (loadChannel, loadUser, loadToken, loadRedemption and submit of the three themes).
THEOREM RecordsStaySafe == WebFormsSpec => []RecordsAreSafe
<1>1. FormsInv => RecordsAreSafe
  BY KeptIs, ShownIsTrue DEF FormsInv, RecordsAreSafe
<1>. QED BY <1>1, FormsInvariance, PTL

\* A state of a token or of a code that the system changed is taken back by one step only:
\* the write of a save whose row the server had read before that change, however many stale
\* forms are saved and whatever they hold (UpdateToken with GetTokenByIds and Update,
\* UpdateRedemption with GetRedemptionById and Update).
THEOREM StatusIsKept == WebFormsSpec => StatusKept
<1>. DEFINE Kept ==
       \A i \in RecordIds : Entity \in {"token", "redemption"} /\ records[i]["status"] = Moved
         => \/ records[i]["status"]' = Moved
            \/ \E s \in Slots : /\ saves[s].at = "found" /\ saves'[s].at = "stored"
                                 /\ saves[s].id = i /\ statusRead[s] # Moved
<1>1. FormsInv /\ [WebFormsNext]_<<formVars, accountVars, focus>> => [Kept]_formVars
  <2>1. ASSUME FormsInv, [WebFormsNext]_<<formVars, accountVars, focus>>, formVars' # formVars
        PROVE  Kept
    <3>1. FormsNext
      BY <2>1 DEF WebFormsNext
    <3>2. FormTyped
      BY <2>1 DEF FormsInv
    <3>. QED BY <3>1, <3>2, StatusStays, Zenon DEF TakesBack
  <2>. HIDE DEF Kept
  <2>. QED BY <2>1
<1>. HIDE DEF Kept
<1>2. WebFormsSpec => [][Kept]_formVars
  BY <1>1, FormsInvariance, PTL DEF WebFormsSpec
<1>. QED BY <1>2 DEF Kept, StatusKept

=============================================================================
