------------------------------ MODULE UserPanel ------------------------------
(***************************************************************************)
(* user.html: the profile of the connected user, the table of the other    *)
(* users, and the pop-up that both "Edit" and "Add a user" fill in.  The   *)
(* buttons of the pop-up say whose row is saved; its inputs are filled     *)
(* when the answer arrives.                                                *)
(***************************************************************************)
EXTENDS WebRequests

CONSTANTS
    Users,          \* primary keys of users
    Names,          \* user names
    UserRows,       \* what the rows of the users may be at first
    ShortHash       \* users whose SHA-1 begins with a zero: toString(16) makes fewer than 40 digits of it

\* A row and what a form shows of it.  "of" is the user the personal data belong to; a password is the
\* hash of its owner as stored, "typed", or "rehashed": the hash of the hash.
UserRow == [of : Users \cup {None}, name : Names \cup {None}, password : {"hash", "typed", "rehashed"},
            admin : BOOLEAN, active : BOOLEAN \cup {None}]
Account == [id : Users, row : UserRow]     \* an answer with one row

ASSUME UserAssumption ==
    /\ None \notin Users \cup UserRow /\ {Null, Failed} \cap Account = {}
    /\ \A rows \in UserRows :
        /\ rows \in [Users -> UserRow \cup {None}]
        /\ \A u \in Users : rows[u] # None => rows[u].of = u /\ rows[u].password = "hash"

VARIABLES
    userRows,       \* the server's users
    userPage        \* the elements of the page, and the cookies EnoUsr and EnoIsAd

userVars == <<userRows, userPage>>

NewUser == [of |-> None, name |-> None, password |-> "typed", admin |-> FALSE, active |-> None]

UserClick(new) == Click("users", new) /\ UNCHANGED userRows
GetUsers == Call("getUsers", None, None)
GetUser == Call("getUser", userPage.cookie, None)

-----------------------------------------------------------------------------
(* The user. *)

\* The pop-up opens with what its inputs contain from the last time.
EditUser(u) ==
    /\ ~userPage.open /\ u \in DOMAIN userPage.table
    /\ UserClick(<<Call("editUser", u, None)>>)
    /\ userPage' = [userPage EXCEPT !.open = TRUE, !.saves = u]

\* Mutated: the inputs are not emptied.
AddUserFilled ==
    /\ ~userPage.open
    /\ UserClick(<<>>)
    /\ userPage' = [userPage EXCEPT !.open = TRUE, !.saves = None]

AddUser ==
    /\ ~userPage.open
    /\ UserClick(<<>>)
    /\ userPage' = [userPage EXCEPT !.open = TRUE, !.saves = None, !.form = NewUser]

ChangeStatus ==
    /\ userPage.open
    /\ UserClick(<<>>)
    /\ userPage' = [userPage EXCEPT !.form.admin = ~@]

\* Save closes the pop-up: with the buttons of editUser it updates, with those of addUser it creates.
SaveUser ==
    /\ userPage.open
    /\ EndEdit("users", <<IF userPage.saves = None THEN Call("createUser", None, userPage.form)
                          ELSE Call("updateUser", userPage.saves, userPage.form)>>)
    /\ userPage' = [userPage EXCEPT !.open = FALSE] /\ UNCHANGED userRows

CloseUser ==
    /\ userPage.open
    /\ EndEdit("users", <<>>) /\ userPage' = [userPage EXCEPT !.open = FALSE] /\ UNCHANGED userRows

DeleteUser(u) ==
    /\ ~userPage.open
    /\ u \in DOMAIN userPage.table \/ (u = userPage.me /\ ~userPage.editing)
    /\ UserClick(<<Call("deleteUser", u, None)>>) /\ UNCHANGED userPage

EditProfile ==
    /\ userPage.me # None /\ ~userPage.editing /\ ~userPage.open
    /\ UserClick(<<>>) /\ userPage' = [userPage EXCEPT !.editing = TRUE]

Rename(n) ==
    /\ userPage.editing /\ ~userPage.open
    /\ UserClick(<<>>) /\ userPage' = [userPage EXCEPT !.profile.name = n]

\* The buttons stay until the answer of getUser brings new ones.
CancelProfile ==
    /\ userPage.editing /\ ~userPage.open
    /\ EndEdit("users", <<GetUser>>) /\ UNCHANGED userVars

\* The rights are those of the cookie, the account an active one.
UpdateProfile ==
    /\ userPage.editing /\ ~userPage.open
    /\ EndEdit("users", <<Call("updateProfile", userPage.me,
                               [userPage.profile EXCEPT !.admin = userPage.isAdmin, !.active = TRUE])>>)
    /\ UNCHANGED userVars

-----------------------------------------------------------------------------
(* The servlet. *)

Rows == {u \in Users : userRows[u] # None}
ReadUsers ==
    \E i \in DOMAIN calls :
        /\ calls[i].fn = "getUsers" /\ Reply(i, [u \in Rows |-> userRows[u]])
        /\ UNCHANGED userVars

ReadUser ==
    \E i \in DOMAIN calls :
        /\ calls[i].fn \in {"editUser", "getUser"}
        /\ LET found == {u \in Rows : calls[i].key = IF calls[i].fn = "getUser" THEN userRows[u].name ELSE u}
           IN  \/ found = {} /\ Reply(i, Null)
               \/ \E u \in found : Reply(i, [id |-> u, row |-> userRows[u]])
        /\ UNCHANGED userVars

\* A password of 40 hex digits is taken for a hash, any other is hashed.  A missing "active" is false.
Stored(data) ==
    [data EXCEPT !.active = (@ = TRUE),
                 !.password = IF data.of \in ShortHash /\ @ = "hash" THEN "rehashed"
                              ELSE IF @ = "typed" THEN "hash" ELSE @]

StoreUser ==
    \E i \in DOMAIN calls :
        /\ calls[i].fn \in {"updateUser", "updateProfile"}
        /\ userRows' = [userRows EXCEPT ![calls[i].key] = IF @ = None THEN None ELSE Stored(calls[i].data)]
        /\ Executed(i, "done") /\ UNCHANGED userPage

\* A new row: the personal data are those of the form, which belong to nobody yet; the password is
\* hashed whatever it looks like.
InsertUser ==
    \E i \in DOMAIN calls :
        /\ calls[i].fn = "createUser"
        /\ \/ TableFull(i, Users \ Rows) /\ UNCHANGED userRows
           \/ \E u \in Users \ Rows :
                /\ Executed(i, "done")
                /\ userRows' = [userRows EXCEPT ![u] =
                        [calls[i].data EXCEPT !.of = IF @ = None THEN u ELSE @, !.active = TRUE,
                                              !.password = IF @ = "typed" THEN "hash" ELSE "rehashed"]]
        /\ UNCHANGED userPage

\* A deleted user stays, no longer active.
DeactivateUser ==
    \E i \in DOMAIN calls :
        /\ calls[i].fn = "deleteUser"
        /\ userRows' = [userRows EXCEPT ![calls[i].key] =
                IF @ = None THEN None ELSE [@ EXCEPT !.active = FALSE]]
        /\ Executed(i, "done") /\ UNCHANGED userPage

-----------------------------------------------------------------------------
(* The callbacks. *)

\* The table leaves out the user named by the cookie.
UsersHeard ==
    \E i \in DOMAIN calls :
        /\ calls[i].fn = "getUsers" /\ Heard(i, <<>>)
        /\ LET rows == calls[i].answer
           IN  userPage' = [userPage EXCEPT !.table =
                    [u \in {v \in DOMAIN rows : rows[v].name # userPage.cookie} |-> rows[u]]]
        /\ UNCHANGED userRows

\* For a name that is no more the callback throws on null.
ProfileHeard ==
    \E i \in DOMAIN calls :
        /\ calls[i].fn = "getUser" /\ Heard(i, <<>>)
        /\ userPage' = IF calls[i].answer = Null THEN userPage
                       ELSE [userPage EXCEPT !.profile = calls[i].answer.row, !.me = calls[i].answer.id,
                                             !.editing = FALSE]
        /\ UNCHANGED userRows

\* Whatever the pop-up is used for by now.
UserHeard ==
    \E i \in DOMAIN calls :
        /\ calls[i].fn = "editUser" /\ Heard(i, <<>>)
        /\ userPage' = IF calls[i].answer = Null THEN userPage
                       ELSE [userPage EXCEPT !.form = calls[i].answer.row]
        /\ UNCHANGED userRows

UserSaved ==
    \E i \in DOMAIN calls :
        /\ calls[i].fn \in {"updateUser", "createUser", "deleteUser"} /\ Heard(i, <<GetUsers>>)
        /\ UNCHANGED userVars

ProfileSaved ==
    \E i \in DOMAIN calls :
        /\ calls[i].fn = "updateProfile" /\ Heard(i, <<GetUser>>)
        /\ UNCHANGED userVars

UserInit ==
    /\ userRows \in UserRows
    /\ \E u \in Rows :
        userPage = [cookie |-> userRows[u].name, isAdmin |-> userRows[u].admin, me |-> None, table |-> <<>>,
                    profile |-> NewUser, editing |-> FALSE, open |-> FALSE, saves |-> None, form |-> NewUser]
=============================================================================
