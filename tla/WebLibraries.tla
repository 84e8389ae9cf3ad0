---------------------------- MODULE WebLibraries ----------------------------
(***************************************************************************)
(* The libraries that the pages of both gateways are built on, and the KNX *)
(* configuration page.  They share no state that is modelled, so that each *)
(* behaviour is of one of them.                                            *)
(***************************************************************************)
EXTENDS JQueryDeferred, JQueryAjax, JQueryFx, JQueryEvents, JQueryData, TimePicker,
        BootstrapModal, BootstrapCollapse, KnxConfigPage

VARIABLE part   \* the library that the behaviour is of

toolVars == <<deferredVars, ajaxVars, fxVars, eventVars, dataVars>>
widgetVars == <<pickerVars, modalVars, collapseVars>>
vars == <<toolVars, widgetVars, knxVars, part>>

Parts == {"deferred", "ajax", "fx", "events", "data", "picker", "modal", "collapse", "knx"}

Init ==
    /\ part \in Parts
    /\ DeferredInit /\ AjaxInit /\ FxInit /\ EventsInit /\ DataInit
    /\ PickerInit /\ ModalInit /\ CollapseInit /\ KnxInit
    \* What is not used has one value.
    /\ part # "picker" => version = "1.4" /\ limits = CHOOSE l \in Limits : TRUE
    /\ part # "modal" => ~fades
    /\ part # "events" => leaf = "other"
    /\ part # "collapse" => ~smooth
    /\ part # "knx" => ~config.storage

Next ==
    \/ /\ part = "deferred" /\ DeferredNext
       /\ UNCHANGED <<ajaxVars, fxVars, eventVars, dataVars, widgetVars, knxVars, part>>
    \/ /\ part = "ajax" /\ AjaxNext
       /\ UNCHANGED <<deferredVars, fxVars, eventVars, dataVars, widgetVars, knxVars, part>>
    \/ /\ part = "fx" /\ FxNext
       /\ UNCHANGED <<deferredVars, ajaxVars, eventVars, dataVars, widgetVars, knxVars, part>>
    \/ /\ part = "events" /\ EventsNext
       /\ UNCHANGED <<deferredVars, ajaxVars, fxVars, dataVars, widgetVars, knxVars, part>>
    \/ /\ part = "data" /\ DataNext
       /\ UNCHANGED <<deferredVars, ajaxVars, fxVars, eventVars, widgetVars, knxVars, part>>
    \/ /\ part = "picker" /\ PickerNext /\ UNCHANGED <<toolVars, modalVars, collapseVars, knxVars, part>>
    \/ /\ part = "modal" /\ ModalNext /\ UNCHANGED <<toolVars, pickerVars, collapseVars, knxVars, part>>
    \/ /\ part = "collapse" /\ CollapseNext /\ UNCHANGED <<toolVars, pickerVars, modalVars, knxVars, part>>
    \/ /\ part = "knx" /\ KnxNext /\ UNCHANGED <<toolVars, widgetVars, part>>

Spec == Init /\ [][Next]_vars

-----------------------------------------------------------------------------
(* Properties. *)

\* Whatever the user clicks while Bootstrap's pop-ups fade and its accordion moves, both come to rest as they
\* look: see ModalSettles and OneGroupOpen.
WidgetsSettle == ModalSettles /\ OneGroupOpen
=============================================================================
