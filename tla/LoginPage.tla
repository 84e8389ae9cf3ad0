------------------------------ MODULE LoginPage ------------------------------
(***************************************************************************)
(* index.html and the cookies that the other pages read: EnoUsr, EnoIsAd   *)
(* and EnoToken are set together, but come from the answer to the POST,    *)
(* from the answer to a second call, and from the input of the user name   *)
(* as it is then.  The servlet keeps one token, that of the last login.    *)
(***************************************************************************)
EXTENDS WebRequests

CONSTANTS
    Accounts        \* the users that log in, by their names

VARIABLES
    admins,         \* the users that are administrators
    serverToken,    \* whose login made the token the servlet keeps
    login,          \* the inputs and the cookies
    retyped         \* history: the user name was changed while a login was under way

loginVars == <<admins, serverToken, login, retyped>>

NoCookies == [user |-> None, admin |-> None, token |-> None]
LoginCalls == {"login", "getUserOfLogin"}

\* The user types a name, and a password that is right for it or not.
TypeAccount(a, right) ==
    /\ login' = [login EXCEPT !.username = a, !.password = right]
    /\ Click("login", <<>>)
    /\ retyped' = (retyped \/ (Calling(LoginCalls) /\ a # login.username))
    /\ UNCHANGED <<admins, serverToken>>

Login ==
    /\ Click("login", <<Call("login", login.username, login.password)>>)
    /\ UNCHANGED loginVars

\* Without an account of that name, or with a wrong password, the status is 401.
CheckPassword ==
    \E i \in DOMAIN calls :
        /\ calls[i].fn = "login"
        /\ IF calls[i].key \in Accounts /\ calls[i].data
           THEN Executed(i, [token |-> calls[i].key]) /\ serverToken' = calls[i].key
           ELSE Reply(i, Denied) /\ UNCHANGED serverToken
        /\ UNCHANGED <<admins, login, retyped>>

\* Mutated: the rights are those of any administrator.
ReadAccountOfAny ==
    \E i \in DOMAIN calls :
        /\ calls[i].fn = "getUserOfLogin"
        /\ Reply(i, IF calls[i].key \in Accounts THEN [admin |-> admins # {}] ELSE Null)
        /\ UNCHANGED loginVars

ReadAccount ==
    \E i \in DOMAIN calls :
        /\ calls[i].fn = "getUserOfLogin"
        /\ Reply(i, IF calls[i].key \in Accounts THEN [admin |-> calls[i].key \in admins] ELSE Null)
        /\ UNCHANGED loginVars

\* The second call asks for the user that the input names now.
PasswordAccepted ==
    \E i \in DOMAIN calls :
        /\ calls[i].fn = "login"
        /\ Heard(i, <<Call("getUserOfLogin", login.username, calls[i].answer.token)>>)
        /\ UNCHANGED loginVars

\* showAlert, and the password is erased.
LoginRefused ==
    \E i \in DOMAIN calls :
        /\ calls[i].fn = "login" /\ Refused(i)
        /\ login' = [login EXCEPT !.password = FALSE]
        /\ UNCHANGED <<admins, serverToken, retyped>>

\* For an unknown name the callback has set one cookie when it throws; else the page changes.
AccountHeard ==
    \E i \in DOMAIN calls :
        LET c == calls[i]
        IN  /\ c.fn = "getUserOfLogin" /\ c.answer \notin {None, Failed, Denied} /\ page # "left"
            /\ \/ /\ c.answer = Null /\ Hear(i, <<>>)
                  /\ login' = [login EXCEPT !.cookies.user = login.username]
               \/ /\ c.answer # Null
                  /\ page' = "left" /\ calls' = <<>>
                  /\ UNCHANGED <<clicks, failures, overtaken, hasty>>
                  /\ login' = [login EXCEPT !.cookies =
                        [user |-> login.username, admin |-> c.answer.admin, token |-> c.data]]
            /\ UNCHANGED <<admins, serverToken, retyped>>

\* The button in the bar of the other pages, of which this is one.  The servlet makes a new token before it
\* checks the one of the call: the answer is always 401, and like success it leads to index.html.
Logout == Click("config", <<Call("logout", None, None)>>) /\ UNCHANGED loginVars
RenewToken ==
    \E i \in DOMAIN calls :
        /\ calls[i].fn = "logout" /\ Reply(i, Denied) /\ serverToken' = None
        /\ UNCHANGED <<admins, login, retyped>>

LoginInit ==
    /\ admins \in SUBSET Accounts /\ serverToken = None
    /\ login = [username |-> None, password |-> FALSE, cookies |-> NoCookies]
    /\ retyped = FALSE
=============================================================================
