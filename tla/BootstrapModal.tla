--------------------------- MODULE BootstrapModal ---------------------------
(***************************************************************************)
(* The pop-ups of the pages: bootstrap's modal.  Showing and hiding one    *)
(* takes transitions of two elements, the pop-up and the backdrop behind   *)
(* it, whose ends call the next step, and for one of them a timeout that   *)
(* does so if the end does not come.  Meanwhile the page, or the user, may *)
(* show and hide again.  The state of the page is a record, and a function *)
(* of the code one on such records.  The handlers of an ended transition   *)
(* are called one after the other; nothing else can happen before the last *)
(* of them has returned.                                                   *)
(***************************************************************************)
EXTENDS Integers, Sequences, FiniteSets, SequencesExt

CONSTANTS
    Modals,
    MaxModalCalls   \* bound: calls of show and hide

VARIABLES
    page,           \* the elements and their handlers
    handling,       \* the handlers of an ended transition that are yet to be called
    fades,          \* the browser knows transitions
    nModalCalls,
    overlapped,     \* history: the pop-ups that were shown while they were being hidden
    hasty,          \* history: those that were hidden before they had been revealed
    unguarded       \* history: those whose focus handler the hiding of another pop-up has removed

modalVars == <<page, handling, fades, nModalCalls, overlapped, hasty, unguarded>>

NoBackdrop == 0
Shown == 0          \* the handler that only says so, next to those of the timeouts
FreshId(used) == CHOOSE i \in 1..(Cardinality(used) + 1) : i \notin used
Of(m) == {b \in DOMAIN page.backs : page.backs[b].owner = m}

\* enforceFocus, and the rest of what show does once the backdrop is there
Revealed(modal) == [modal EXCEPT !.displayed = TRUE, !.in = TRUE, !.ends = IF fades THEN Append(@, Shown) ELSE @]
Reveal(p, m) == [p EXCEPT !.modals[m] = Revealed(@), !.focusins[m] = @ + 1]

\* removeBackdrop: the one that is the modal's now
RemoveBackdrop(p, m) ==
    [p EXCEPT !.backs = [b \in DOMAIN @ \ {p.modals[m].backdrop} |-> @[b]], !.modals[m].backdrop = NoBackdrop]

AfterFading(p, m, callback) == IF callback = "reveal" THEN Reveal(p, m) ELSE RemoveBackdrop(p, m)

\* backdrop
Backdrop(p, m, callback) ==
    LET new == FreshId(DOMAIN p.backs)
        old == p.modals[m].backdrop
        drawn == [p EXCEPT !.modals[m].backdrop = new,
                           !.backs = [b \in DOMAIN @ \cup {new} |->
                                         IF b # new THEN @[b]
                                         ELSE [owner |-> m, ends |-> IF fades THEN <<callback>> ELSE <<>>]]]
    IN  CASE p.modals[m].isShown -> IF fades THEN drawn ELSE AfterFading(drawn, m, callback)
          [] ~p.modals[m].isShown /\ old # NoBackdrop /\ fades -> [p EXCEPT !.backs[old].ends = Append(@, callback)]
          [] OTHER -> AfterFading(p, m, callback)

\* hideModal
HideModal(p, m) == Backdrop([p EXCEPT !.modals[m].displayed = FALSE], m, "remove")

\* escape: the key is heard while the pop-up is shown.
Escape(p, m) == [p EXCEPT !.modals[m].keyups = IF p.modals[m].isShown THEN @ + 1 ELSE 0]

\* hideWithTransition: a timeout, and a handler of the end of the transition
HideWithTransition(p, m) ==
    LET modal == p.modals[m]
        id == FreshId(modal.timeouts \cup ToSet(modal.ends))
    IN  [p EXCEPT !.modals[m] = [modal EXCEPT !.timeouts = @ \cup {id}, !.ends = Append(@, id)]]

-----------------------------------------------------------------------------

ToHandle(op, m, handlers) == [i \in DOMAIN handlers |-> [op |-> op, of |-> m, handler |-> handlers[i]]]
Calling(op) == handling # <<>> /\ Head(handling).op = op

ModalCall ==
    /\ handling = <<>> /\ nModalCalls < MaxModalCalls /\ nModalCalls' = nModalCalls + 1
    /\ UNCHANGED <<handling, fades>>

BeingHidden(m) ==
    \/ page.modals[m].timeouts # {}
    \/ \E b \in Of(m) : "remove" \in ToSet(page.backs[b].ends)

Show(m) ==
    /\ ~page.modals[m].isShown
    /\ ModalCall
    /\ page' = Backdrop(Escape([page EXCEPT !.modals[m].isShown = TRUE], m), m, "reveal")
    /\ overlapped' = IF BeingHidden(m) THEN overlapped \cup {m} ELSE overlapped
    /\ UNCHANGED <<hasty, unguarded>>

\* hide, by the page, by a button with data-dismiss or by a click on the backdrop.  The focus handlers of all
\* pop-ups go.
Hide(m) ==
    LET hidden == Escape([page EXCEPT !.modals[m].isShown = FALSE, !.modals[m].in = FALSE,
                                      !.focusins = [other \in Modals |-> 0]], m)
    IN  /\ page.modals[m].isShown
        /\ ModalCall
        /\ page' = IF fades THEN HideWithTransition(hidden, m) ELSE HideModal(hidden, m)
        /\ hasty' = IF \E b \in Of(m) : "reveal" \in ToSet(page.backs[b].ends) THEN hasty \cup {m} ELSE hasty
        /\ unguarded' = unguarded \cup {other \in Modals \ {m} : page.focusins[other] > 0}
        /\ UNCHANGED overlapped

\* The escape key, for the pop-up that has the focus
PressEscape(m) == page.modals[m].keyups > 0 /\ Hide(m)

OnlyPage == UNCHANGED <<fades, nModalCalls, overlapped, hasty, unguarded>>

\* A transition of the pop-up, or of something in it, has ended.
TransitionEnds(m) ==
    /\ handling = <<>> /\ page.modals[m].displayed /\ page.modals[m].ends # <<>>
    /\ page' = [page EXCEPT !.modals[m].ends = <<>>]
    /\ handling' = ToHandle("transition", m, page.modals[m].ends)
    /\ OnlyPage

\* Its next handler: the one that hides the pop-up has its timeout cleared.
CallTransition ==
    LET m == Head(handling).of
        id == Head(handling).handler
    IN  /\ Calling("transition")
        /\ page' = IF id = Shown THEN page ELSE HideModal([page EXCEPT !.modals[m].timeouts = @ \ {id}], m)
        /\ handling' = Tail(handling)
        /\ OnlyPage

\* Mutated: the handler of the end of the transition is not removed.
HandlerStays(m, id) ==
    /\ handling = <<>> /\ id \in page.modals[m].timeouts
    /\ page' = HideModal([page EXCEPT !.modals[m].timeouts = @ \ {id}], m)
    /\ OnlyPage /\ UNCHANGED handling

\* The timeout of hideWithTransition
HideTimeout(m, id) ==
    /\ handling = <<>> /\ id \in page.modals[m].timeouts
    /\ page' = HideModal([page EXCEPT !.modals[m].timeouts = @ \ {id}, !.modals[m].ends = <<>>], m)
    /\ OnlyPage /\ UNCHANGED handling

\* A backdrop has faded in or out.
BackdropFaded(b) ==
    /\ handling = <<>> /\ page.backs[b].ends # <<>>
    /\ page' = [page EXCEPT !.backs[b].ends = <<>>]
    /\ handling' = ToHandle("backdrop", page.backs[b].owner, page.backs[b].ends)
    /\ OnlyPage

CallBackdrop ==
    /\ Calling("backdrop")
    /\ page' = AfterFading(page, Head(handling).of, Head(handling).handler)
    /\ handling' = Tail(handling)
    /\ OnlyPage

-----------------------------------------------------------------------------

ModalInit ==
    /\ page = [modals |-> [m \in Modals |-> [isShown |-> FALSE, displayed |-> FALSE, in |-> FALSE, timeouts |-> {},
                                             ends |-> <<>>, backdrop |-> NoBackdrop, keyups |-> 0]],
               backs |-> <<>>, focusins |-> [m \in Modals |-> 0]]
    /\ handling = <<>> /\ fades \in BOOLEAN
    /\ nModalCalls = 0 /\ overlapped = {} /\ hasty = {} /\ unguarded = {}

ModalNext ==
    \/ \E m \in Modals : Show(m) \/ Hide(m) \/ PressEscape(m) \/ TransitionEnds(m)
    \/ \E m \in Modals : \E id \in page.modals[m].timeouts : HideTimeout(m, id)
    \/ \E b \in DOMAIN page.backs : BackdropFaded(b)
    \/ CallTransition \/ CallBackdrop

-----------------------------------------------------------------------------
(* Properties. *)

AtRest(m) == handling = <<>> /\ page.modals[m].timeouts = {} /\ \A b \in Of(m) : page.backs[b].ends = <<>>

\* Once the transitions are over, a pop-up is on the page, with exactly one backdrop behind it and the escape
\* key heard, if and only if it was last shown and not hidden; unless it was shown while it was still being
\* hidden, which leaves backdrops that cover the page for good, or hidden before it had been revealed, which
\* may reveal it afterwards.  And it keeps the focus, unless another one has been hidden meanwhile.
ModalSettles ==
    \A m \in Modals \ (overlapped \cup hasty) : AtRest(m) =>
        LET one == IF page.modals[m].isShown THEN 1 ELSE 0
        IN  /\ page.modals[m].displayed = page.modals[m].isShown
            /\ page.modals[m].keyups = one
            /\ Cardinality(Of(m)) = one
            /\ m \notin unguarded => page.focusins[m] = one
=============================================================================
