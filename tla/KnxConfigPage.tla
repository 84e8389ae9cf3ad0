--------------------------- MODULE KnxConfigPage ---------------------------
(***************************************************************************)
(* The KNX gateway's login page and the form of its configuration page.    *)
(* The login is answered with a new X-Token, the only one that the servlet *)
(* accepts from then on; the page keeps it in a cookie, and in a variable  *)
(* when it is loaded.  The form is filled by the answers of two calls, the *)
(* configuration and the gateways found on the network, in any order.  A   *)
(* page that is left hears no answer, but the servlet still executes its   *)
(* calls.                                                                  *)
(***************************************************************************)
EXTENDS Integers, FiniteSets

CONSTANTS
    IPs,            \* addresses of gateways
    Configured,     \* the address in the configuration at first
    MaxLogins,      \* bound: logins
    MaxActions      \* bound: what the user does on the configuration page

VARIABLES
    token, expired,     \* the servlet's m_Token, and whether m_TokenTime is long ago
    config,             \* the servlet's configuration: the gateway, and whether there is a storage
    cookie,             \* knxcookie
    shown,              \* the page shown, and the one that the browser goes to
    form,               \* the inputs of the configuration page, and its xToken
    knxCalls,           \* calls of $.ajax: their id, what they carry and, once there is one, the answer
    nActions,
    renewed,            \* history: another login has been executed since the one of this page was answered
    edited,             \* history: the inputs that the user has changed
    early               \* history: the gateways were answered before the configuration

knxVars == <<token, expired, config, cookie, shown, form, knxCalls, nActions, renewed, edited, early>>

NoCookie == -1
Nothing == 0        \* an empty input
Manual == 1         \* the option "Manual IP"
NoToken == 0
Nowhere == "nowhere"
Unanswered == "waiting"
NewId(kind) == CHOOSE i \in 1..(Cardinality(knxCalls) + 1) : \A c \in knxCalls : c.kind = kind => c.id # i

KnxCall(kind, tok, gateway, storage) ==
    [id |-> NewId(kind), kind |-> kind, token |-> tok, gateway |-> gateway, storage |-> storage, page |-> shown.page,
     answer |-> Unanswered, value |-> Nothing, found |-> {}]
BlankConfigForm == [xToken |-> NoCookie, manual |-> Nothing, manualOff |-> FALSE, select |-> NoCookie, found |-> {},
              checked |-> TRUE, databaseOff |-> FALSE, overlay |-> FALSE]
AtPage == shown.going = Nowhere

-----------------------------------------------------------------------------
(* jquery.cookie: the cookie is there on both pages, since its path is given. *)

WriteCookie(value) == cookie' = value
ReadCookie == cookie
RemoveCookie == cookie' = NoCookie

-----------------------------------------------------------------------------
(* The login page. *)

\* What has been answered to a page that has been left is not heard.
Answered(c, answer) == knxCalls' = (knxCalls \ {c}) \cup (IF c.page = "left" THEN {} ELSE {answer})
Posts(call) == knxCalls' = knxCalls \cup {call}

\* A click on Enter, or the key Enter in the password, or both
SendPassword ==
    /\ shown.page = "index" /\ AtPage
    /\ token + Cardinality({c \in knxCalls : c.kind = "login"}) < MaxLogins
    /\ Posts(KnxCall("login", NoToken, Nothing, FALSE))
    /\ UNCHANGED <<token, expired, config, cookie, shown, form, nActions, renewed, edited, early>>

\* The servlet makes a new token, whoever has one, unless the password is wrong.
LoginExecuted(c) ==
    /\ c.kind = "login" /\ c.answer = Unanswered
    /\ \/ /\ token' = token + 1 /\ expired' = FALSE
          /\ Answered(c, [c EXCEPT !.answer = "ok", !.value = token + 1])
       \/ /\ Answered(c, [c EXCEPT !.answer = "unauthorized"])
          /\ UNCHANGED <<token, expired>>
    /\ renewed' = (renewed \/ (token' # token /\ cookie # NoCookie))
    /\ UNCHANGED <<config, cookie, shown, form, nActions, edited, early>>

\* Mutated: the cookie that is there is kept.
CookieKept(c) ==
    /\ c.kind = "login" /\ c.answer # Unanswered
    /\ knxCalls' = knxCalls \ {c}
    /\ IF c.answer = "ok"
       THEN /\ cookie' = IF cookie = NoCookie THEN c.value ELSE cookie
            /\ shown' = [shown EXCEPT !.going = "configuration"]
            /\ renewed' = (c.value # token)
       ELSE UNCHANGED <<cookie, shown, renewed>>
    /\ UNCHANGED <<token, expired, config, form, nActions, edited, early>>

\* The token is kept, and the other page loaded.
LoginHeard(c) ==
    /\ c.kind = "login" /\ c.answer # Unanswered
    /\ knxCalls' = knxCalls \ {c}
    /\ IF c.answer = "ok"
       THEN /\ WriteCookie(c.value)
            /\ shown' = [shown EXCEPT !.going = "configuration"]
            /\ renewed' = (c.value # token)
       ELSE UNCHANGED <<cookie, shown, renewed>>
    /\ UNCHANGED <<token, expired, config, form, nActions, edited, early>>

\* The browser loads a page: what is still to be answered is not heard any more.
LoadPage ==
    LET waiting == {c \in knxCalls : c.answer = Unanswered /\ c.kind \in {"login", "post"}}
        old == {[c EXCEPT !.page = "left"] : c \in waiting}
        configuration == shown.going = "configuration"
    IN  /\ ~AtPage
        /\ shown' = [page |-> shown.going, going |-> Nowhere]
        /\ form' = [BlankConfigForm EXCEPT !.xToken = ReadCookie, !.overlay = configuration]
        /\ knxCalls' = old \cup (IF ~configuration THEN {}
                              ELSE {[KnxCall(kind, ReadCookie, Nothing, FALSE) EXCEPT !.id = 1, !.page = "configuration"] :
                                        kind \in {"config", "gateways"}})
        /\ edited' = {} /\ early' = FALSE
        /\ UNCHANGED <<token, expired, config, cookie, nActions, renewed>>

-----------------------------------------------------------------------------
(* The configuration page. *)

CallAccepted(c) == c.token = token /\ token # NoToken /\ ~expired

\* doGet: the configuration, or the gateways found
GetExecuted(c) ==
    /\ c.kind \in {"config", "gateways"} /\ c.answer = Unanswered
    /\ \/ /\ ~CallAccepted(c)
          /\ Answered(c, [c EXCEPT !.answer = "unauthorized"])
       \/ /\ CallAccepted(c) /\ c.kind = "config"
          /\ Answered(c, [c EXCEPT !.answer = "ok", !.value = config.gateway, !.storage = config.storage])
       \/ /\ CallAccepted(c) /\ c.kind = "gateways"
          /\ \E found \in SUBSET IPs : Answered(c, [c EXCEPT !.answer = "ok", !.found = found])
    /\ UNCHANGED <<token, expired, config, cookie, shown, form, nActions, renewed, edited, early>>

\* doPost: the configuration is written.
PostExecuted(c) ==
    /\ c.kind = "post" /\ c.answer = Unanswered
    /\ config' = IF CallAccepted(c) THEN [gateway |-> c.gateway, storage |-> c.storage] ELSE config
    /\ Answered(c, [c EXCEPT !.answer = IF CallAccepted(c) THEN "ok" ELSE "unauthorized"])
    /\ UNCHANGED <<token, expired, cookie, shown, form, nActions, renewed, edited, early>>

HeardBy(c, kind) == c.kind = kind /\ c.answer # Unanswered /\ c.page = "configuration" /\ knxCalls' = knxCalls \ {c}

\* statusCode: to the login page
Redirects(c) ==
    /\ c.answer = "unauthorized" /\ shown' = [shown EXCEPT !.going = "index"]
    /\ UNCHANGED <<form, early>>

\* getConfig's success: with a storage, what is disabled stays so, and what the user has unticked too.
ConfigHeard(c) ==
    /\ HeardBy(c, "config")
    /\ \/ Redirects(c)
       \/ /\ c.answer = "ok"
          /\ form' = [form EXCEPT !.manual = c.value, !.databaseOff = @ \/ ~c.storage,
                                  !.checked = c.storage /\ (@ \/ "storage" \notin edited)]
          /\ UNCHANGED <<shown, early>>
    /\ UNCHANGED <<token, expired, config, cookie, nActions, renewed, edited>>

\* getIpGateway's success: the options are made anew, and "Manual IP" chosen if there is an address for it;
\* otherwise the browser takes the first it may.
GatewaysHeard(c) ==
    /\ HeardBy(c, "gateways")
    /\ \/ Redirects(c)
       \/ /\ c.answer = "ok"
          /\ \E one \in (IF form.manual # Nothing \/ c.found = {} THEN {Manual} ELSE c.found) :
                form' = [form EXCEPT !.select = one, !.found = c.found, !.overlay = FALSE]
          /\ early' = (early \/ form.manual = Nothing)
          /\ UNCHANGED shown
    /\ UNCHANGED <<token, expired, config, cookie, nActions, renewed, edited>>

\* sendConfig's success and error: an error leaves the progress bar over the page.
PostHeard(c) ==
    /\ HeardBy(c, "post")
    /\ form' = IF c.answer = "ok" THEN [form EXCEPT !.overlay = FALSE] ELSE form
    /\ UNCHANGED <<token, expired, config, cookie, shown, nActions, renewed, edited, early>>

AtForm == shown.page = "configuration" /\ AtPage /\ ~form.overlay
UserActs ==
    /\ AtForm
    /\ nActions < MaxActions /\ nActions' = nActions + 1
    /\ UNCHANGED <<token, expired, config, renewed, early>>

EditsInput(input, new) ==
    /\ UserActs
    /\ form' = new /\ edited' = edited \cup {input}
    /\ UNCHANGED <<cookie, shown, knxCalls>>

\* The change handler of ipGateway
ChooseGateway(v) ==
    /\ v # form.select
    /\ EditsInput("gateway", [form EXCEPT !.select = v, !.manualOff = v # Manual])
TypeGateway(ip) == ~form.manualOff /\ ip # form.manual /\ EditsInput("gateway", [form EXCEPT !.manual = ip])
\* The click handler of dataStorage
TickStorage == EditsInput("storage", [form EXCEPT !.checked = ~@, !.databaseOff = form.checked])

\* refreshIpGateway
RefreshGateways ==
    /\ UserActs
    /\ form' = [form EXCEPT !.overlay = TRUE]
    /\ Posts(KnxCall("gateways", form.xToken, Nothing, FALSE))
    /\ UNCHANGED <<cookie, shown, edited>>

PostedGateway == IF form.select = Manual THEN form.manual ELSE form.select

\* sendConfig
SendConfig ==
    /\ UserActs
    /\ form' = [form EXCEPT !.overlay = TRUE]
    /\ Posts(KnxCall("post", form.xToken, PostedGateway, form.checked))
    /\ UNCHANGED <<cookie, shown, edited>>

\* logout removes the cookie; the servlet is not told, and its token stays good.
LogoutClicked ==
    /\ AtForm
    /\ RemoveCookie /\ shown' = [shown EXCEPT !.going = "index"]
    /\ UNCHANGED <<token, expired, config, form, knxCalls, nActions, renewed, edited, early>>

-----------------------------------------------------------------------------

\* The configuration page is opened by its address.
Visit ==
    /\ shown.page = "index" /\ AtPage
    /\ shown' = [shown EXCEPT !.going = "configuration"]
    /\ UNCHANGED <<token, expired, config, cookie, form, knxCalls, nActions, renewed, edited, early>>

\* Another browser logs in or out.  It is assumed to post no configuration, which the servlet would accept, so
\* that the form of this page would say the old one until it is loaded again.
LoginElsewhere ==
    /\ token < MaxLogins /\ token' = token + 1 /\ renewed' = TRUE
    /\ UNCHANGED <<expired, config, cookie, shown, form, knxCalls, nActions, edited, early>>
TokenExpires ==
    /\ token # NoToken /\ ~expired /\ expired' = TRUE
    /\ UNCHANGED <<token, config, cookie, shown, form, knxCalls, nActions, renewed, edited, early>>

KnxInit ==
    /\ token = NoToken /\ expired = FALSE
    /\ config \in [gateway : {Configured}, storage : BOOLEAN]
    /\ cookie = NoCookie /\ shown = [page |-> "index", going |-> Nowhere]
    /\ form = BlankConfigForm /\ knxCalls = {} /\ nActions = 0
    /\ renewed = FALSE /\ edited = {} /\ early = FALSE

KnxNext ==
    \/ SendPassword \/ LoadPage \/ TickStorage \/ RefreshGateways \/ SendConfig \/ LogoutClicked \/ Visit \/ LoginElsewhere \/ TokenExpires
    \/ \E c \in knxCalls : LoginExecuted(c) \/ LoginHeard(c) \/ GetExecuted(c) \/ PostExecuted(c)
    \/ \E c \in knxCalls : ConfigHeard(c) \/ GatewaysHeard(c) \/ PostHeard(c)
    \/ \E v \in form.found \cup {Manual} : ChooseGateway(v)
    \/ \E ip \in IPs : TypeGateway(ip)

-----------------------------------------------------------------------------
(* Properties. *)

\* Once the login has been answered, the token that the configuration page sends is the one that the servlet
\* accepts, unless a login has been executed that this page does not know of, as the second one of a click
\* and Enter whose answer is not heard.  And what the page shows, and would send, is the configuration but for
\* what the user has changed, unless the gateways were found before the configuration was answered, when the
\* browser chooses one of them.
KnxPageAgrees ==
    shown.page = "configuration" /\ AtPage =>
        /\ cookie # NoCookie /\ ~renewed => form.xToken = token
        /\ ~form.overlay /\ ~early =>
              /\ "gateway" \notin edited => PostedGateway = config.gateway
              /\ "storage" \notin edited => form.checked = config.storage
              /\ form.databaseOff = ~form.checked
=============================================================================
