----------------------------- MODULE GroupPanel -----------------------------
(***************************************************************************)
(* The groups of configuration.html: a list to select from, a form that    *)
(* shows the selected group, and below it the sensors of that group.  The  *)
(* hidden input groupId says which group the buttons mean.                 *)
(***************************************************************************)
EXTENDS SensorPanel

CONSTANT
    Existing        \* which groups may exist at first

\* What is written in a form comes from the row of a group, as it is or changed by the user.
Text == [of : Groups \cup {None}, edited : BOOLEAN]

ASSUME GroupAssumption ==
    {Null, Failed} \cap Text = {} /\ \A s \in Existing : s \subseteq Groups

VARIABLES
    groupRows,      \* the server's groups: what their names and descriptions say
    group           \* the list with the option it shows, the form, its buttons

groupVars == <<groupRows, group>>

Blank == [of |-> None, edited |-> FALSE]
Row(g) == [of |-> g, edited |-> FALSE]

GetGroups == Call("getGroups", None, None)
GetGroup(g) == Call("getGroup", g, None)

OnGroups(new) == Click("groups", new) /\ UNCHANGED <<groupRows, sensorRows, panels, popups, available>>

-----------------------------------------------------------------------------
(* The user. *)

\* The change handler of #groups; the buttons stay those of the group before.
SelectGroup(g) ==
    /\ g \in group.options \ {group.chosen}
    /\ hidden' = [hidden EXCEPT !.groupId = g]
    /\ group' = [group EXCEPT !.chosen = g, !.enabled = FALSE]
    /\ OnGroups(<<GetGroup(g), GetSensorsFromId(g)>>)

TypeGroup ==
    /\ group.enabled /\ ~group.form.edited
    /\ group' = [group EXCEPT !.form.edited = TRUE]
    /\ OnGroups(<<>>) /\ UNCHANGED hidden

AddGroup == OnGroups(<<Call("addGroup", None, None)>>) /\ UNCHANGED <<group, hidden>>

EditGroup ==
    /\ group.buttons = "view"
    /\ group' = [group EXCEPT !.enabled = TRUE, !.buttons = "edit"]
    /\ OnGroups(<<>>) /\ UNCHANGED hidden

UpdateGroup ==
    /\ group.buttons = "edit"
    /\ EndEdit("groups", <<Call("updateGroup", hidden.groupId, group.form)>>)
    /\ UNCHANGED <<groupVars, sensorVars>>

Closed(panel) == [panel EXCEPT !.enabled = FALSE, !.buttons = "view"]

\* What was typed stays in the form.
CancelGroup ==
    /\ group.buttons = "edit" /\ group' = Closed(group)
    /\ EndEdit("groups", <<GetGroups>>)
    /\ UNCHANGED <<groupRows, sensorVars>>

DeleteGroup ==
    /\ group.buttons = "view"
    /\ OnGroups(<<Call("deleteGroup", hidden.groupId, None)>>) /\ UNCHANGED <<group, hidden>>

-----------------------------------------------------------------------------
(* The servlet. *)

ReadGroups ==
    \E i \in DOMAIN calls :
        /\ calls[i].fn = "getGroups" /\ Reply(i, {g \in Groups : groupRows[g] # None})
        /\ UNCHANGED <<groupVars, sensorVars>>

ReadGroup ==
    \E i \in DOMAIN calls :
        /\ calls[i].fn = "getGroup"
        /\ Reply(i, IF groupRows[calls[i].key] = None THEN Null ELSE groupRows[calls[i].key])
        /\ UNCHANGED <<groupVars, sensorVars>>

\* With a key of its own: one that no call and no input names, for AUTO_INCREMENT never gives a key again.
InsertGroup ==
    \E i \in DOMAIN calls :
        LET free == {g \in Groups : groupRows[g] = None /\ g # hidden.groupId
                                      /\ \A j \in DOMAIN calls : calls[j].key # g}
        IN  /\ calls[i].fn = "addGroup"
            /\ \/ TableFull(i, free) /\ UNCHANGED groupRows
               \/ \E g \in free : Executed(i, "done") /\ groupRows' = [groupRows EXCEPT ![g] = Row(g)]
            /\ UNCHANGED <<group, sensorVars>>

StoreGroup ==
    \E i \in DOMAIN calls :
        /\ calls[i].fn = "updateGroup"
        /\ groupRows' = [groupRows EXCEPT ![calls[i].key] = IF @ = None THEN None ELSE calls[i].data]
        /\ Executed(i, "done") /\ UNCHANGED <<group, sensorVars>>

\* Sensors of other groups as well leave the group one by one.  At one of no other group the servlet
\* breaks off with status 500 after it has cut the sensor loose (the statement of EnOceanStorage:390).
RemoveGroup ==
    \E i \in DOMAIN calls :
        LET g == calls[i].key
            alone == {s \in InGroup(g) : sensorRows[s].groups = {g}}
            Without(gone) == [s \in Sensors |-> IF s \in gone THEN [sensorRows[s] EXCEPT !.groups = @ \ {g}]
                                                ELSE sensorRows[s]]
        IN  /\ calls[i].fn = "deleteGroup"
            /\ \/ /\ alone = {} /\ Executed(i, "done")
                  /\ groupRows' = [groupRows EXCEPT ![g] = None]
                  /\ sensorRows' = Without(InGroup(g))
               \/ \E s \in alone, before \in SUBSET (InGroup(g) \ alone) :
                    /\ Reply(i, Denied) /\ UNCHANGED groupRows
                    /\ sensorRows' = Without(before \cup {s})
            /\ UNCHANGED <<group, panels, hidden, popups, available>>

-----------------------------------------------------------------------------
(* The callbacks. *)

\* The new list shows its first option, without a change event; an empty answer leaves the old one.
GroupsHeard ==
    \E i \in DOMAIN calls :
        /\ calls[i].fn = "getGroups" /\ Heard(i, <<>>)
        /\ group' = IF calls[i].answer = {} THEN group
                    ELSE [group EXCEPT !.options = calls[i].answer, !.chosen = Min(calls[i].answer)]
        /\ UNCHANGED <<groupRows, sensorVars>>

\* For null the callback throws on its first line.  Else the answer is shown, whichever group is
\* selected by now.
GroupHeard ==
    \E i \in DOMAIN calls :
        /\ calls[i].fn = "getGroup" /\ Heard(i, <<>>)
        /\ group' = IF calls[i].answer = Null THEN group
                    ELSE [group EXCEPT !.form = calls[i].answer, !.buttons = "view"]
        /\ UNCHANGED <<groupRows, sensorVars>>

GroupAdded ==
    \E i \in DOMAIN calls :
        /\ calls[i].fn = "addGroup" /\ Heard(i, <<GetGroups>>)
        /\ UNCHANGED <<groupVars, sensorVars>>

NoPanels == [p \in Panels |-> IF InPopup(p) THEN panels[p] ELSE None]

GroupUpdated ==
    \E i \in DOMAIN calls :
        /\ calls[i].fn = "updateGroup" /\ Heard(i, <<GetGroups>>)
        /\ group' = Closed(group) /\ panels' = NoPanels
        /\ UNCHANGED <<groupRows, sensorRows, hidden, popups, available>>

\* The form is cleared, groupId and the buttons stay.
GroupDeleted ==
    \E i \in DOMAIN calls :
        /\ calls[i].fn = "deleteGroup" /\ Heard(i, <<GetGroups>>)
        /\ group' = [group EXCEPT !.form = Blank] /\ panels' = NoPanels
        /\ UNCHANGED <<groupRows, sensorRows, hidden, popups, available>>

GroupInit ==
    /\ groupRows \in {[g \in Groups |-> IF g \in s THEN Row(g) ELSE None] : s \in Existing}
    /\ group = [options |-> {}, chosen |-> None, form |-> Blank, enabled |-> FALSE, buttons |-> "none"]
=============================================================================
