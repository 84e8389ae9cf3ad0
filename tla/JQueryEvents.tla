---------------------------- MODULE JQueryEvents ----------------------------
(***************************************************************************)
(* jQuery.event for one type of event with a native method, as click: on,  *)
(* one, off, trigger, and the dispatch of native events.  The elements are *)
(* the path from an element, 1, through its ancestors.  Handlers may bind, *)
(* unbind, trigger, stop the event, or throw while it is dispatched;       *)
(* frames is what JavaScript has begun, as todo in JQueryDeferred.         *)
(***************************************************************************)
EXTENDS Integers, Sequences, FiniteSets, SequencesExt

CONSTANTS
    Depth,          \* elements on the path
    Inline,         \* those with a handler in their attribute onclick
    EventFns,       \* functions that are bound
    NotGiven,       \* no function, or no selector, given to off
    MaxBindings,    \* bound: calls of on, one and off
    MaxEvents       \* bound: clicks, and calls of trigger

VARIABLES
    bound,          \* the handlers of each element, delegates in front, and how many delegates these are
    leaf,           \* what element 1 is: a link, a checkbox, or something else
    triggered,      \* jQuery.event.triggered is this type
    flags,          \* of each event: which isXxx functions return true
    frames,
    nBindings, nEvents,
    reached,        \* history: the calls of each event
    repeated        \* history: events whose native method ran while a trigger in it ended

eventVars == <<bound, leaf, triggered, flags, frames, nBindings, nEvents, reached, repeated>>

Path == 1..Depth
NoFlags == [stopped |-> FALSE, immediate |-> FALSE, prevented |-> FALSE]

\* A binding: sel is the set of elements that its selector matches, Direct for none.
Direct == {}
Binding(id, fn, sel, once) == [id |-> id, fn |-> fn, sel |-> sel, once |-> once]

\* What has begun for an event at an element of the path.
Frame(op, event, target, node, arg) == [op |-> op, event |-> event, target |-> target, node |-> node, arg |-> arg]
In(op) == frames # <<>> /\ Head(frames).op = op
EventUser == frames = <<>> \/ In("handler") \/ In("inline")
Replaced(new) == frames' = new \o Tail(frames)

-----------------------------------------------------------------------------
(* on, one and off *)

\* jQuery.event.add
Bind(node, fn, sel, once) ==
    LET b == Binding(nBindings + 1, fn, sel, once)
        h == bound[node]
    IN  /\ EventUser /\ nBindings < MaxBindings /\ nBindings' = nBindings + 1
        /\ bound' = [bound EXCEPT ![node] =
                        IF sel = Direct THEN [h EXCEPT !.list = Append(@, b)]
                        ELSE [list |-> InsertAt(h.list, h.delegates + 1, b), delegates |-> h.delegates + 1]]
        /\ UNCHANGED <<leaf, triggered, flags, frames, nEvents, reached, repeated>>

\* jQuery.event.remove: the function and the selector given must match; namespaces are left out.
Matches(b, fn, sel) == fn \in {NotGiven, b.fn} /\ sel \in {NotGiven, b.sel}

Removed(h, fn, sel) ==
    LET gone == {b \in ToSet(h.list) : Matches(b, fn, sel)}
    IN  [list |-> SelectSeq(h.list, LAMBDA b : b \notin gone),
         delegates |-> h.delegates - Cardinality({b \in gone : b.sel # Direct})]

Unbind(node, fn, sel) ==
    /\ \E b \in ToSet(bound[node].list) : Matches(b, fn, sel)
    /\ EventUser /\ nBindings < MaxBindings /\ nBindings' = nBindings + 1
    /\ bound' = [bound EXCEPT ![node] = Removed(@, fn, sel)]
    /\ UNCHANGED <<leaf, triggered, flags, frames, nEvents, reached, repeated>>

\* Mutated: one unbinds only what was bound directly.
KeepDelegates(b, h) == IF b.once /\ b.sel = Direct THEN Removed(h, b.fn, NotGiven) ELSE h

\* The wrapper of one unbinds first: whatever has its function, and its selector if it has one.
WithoutOnce(b, h) == IF b.once THEN Removed(h, b.fn, IF b.sel = Direct THEN NotGiven ELSE b.sel) ELSE h

-----------------------------------------------------------------------------
(* trigger, and native events *)

\* The history is of the events of one turn: what a handler of an earlier one did shows in bound.
NewEvent(new) ==
    /\ nEvents < MaxEvents /\ nEvents' = nEvents + 1
    /\ frames' = new \o frames
    /\ IF frames = <<>>
       THEN /\ flags' = [n \in 1..MaxEvents |-> NoFlags]
            /\ reached' = [n \in 1..MaxEvents |-> <<>>] /\ repeated' = {}
       ELSE UNCHANGED <<flags, reached, repeated>>
    /\ UNCHANGED <<bound, leaf, triggered, nBindings>>

\* The browser goes up the path; quiet: jQuery has taken the target's attribute away meanwhile.
Browser(event, node, quiet) == Frame("native", event, node, node, quiet)

UserClicks(node) == frames = <<>> /\ NewEvent(<<Browser(nEvents + 1, node, FALSE)>>)

\* jQuery.event.trigger up to the path; only: only the handlers of this element.  For a checkbox its
\* native method is called instead.
Triggers(node, only) ==
    LET n == nEvents + 1
    IN  /\ EventUser
        /\ NewEvent(IF node = 1 /\ leaf = "checkbox" /\ ~only THEN <<Browser(n, 1, FALSE)>>
                    ELSE <<Frame("path", n, node, node, only), Frame("default", n, node, node, only)>>)

\* The next element of the path: jQuery's handler and then the attribute, unless the event is stopped.
PathStep ==
    LET f == Head(frames)
        over == f.node > Depth \/ flags[f.event].stopped \/ (f.arg /\ f.node # f.target)
    IN  /\ In("path")
        /\ Replaced(IF over THEN <<>>
                    ELSE <<[f EXCEPT !.op = "handle"]>>
                            \o (IF f.node \in Inline THEN <<[f EXCEPT !.op = "inline"]>> ELSE <<>>)
                            \o <<[f EXCEPT !.node = @ + 1]>>)
        /\ UNCHANGED <<bound, leaf, triggered, flags, nBindings, nEvents, reached, repeated>>

\* The browser calls the attribute first.
NativeStep ==
    LET f == Head(frames)
        over == f.node > Depth \/ flags[f.event].stopped
    IN  /\ In("native")
        /\ Replaced(IF over THEN <<>>
                    ELSE (IF f.node \in Inline /\ ~(f.arg /\ f.node = f.target)
                          THEN <<[f EXCEPT !.op = "inline"]>> ELSE <<>>)
                            \o <<[f EXCEPT !.op = "listener"], [f EXCEPT !.node = @ + 1]>>)
        /\ UNCHANGED <<bound, leaf, triggered, flags, nBindings, nEvents, reached, repeated>>

\* Unless prevented the native method of the element runs; of a link it does not.
Default ==
    LET f == Head(frames)
        runs == ~f.arg /\ ~flags[f.event].prevented /\ ~(f.target = 1 /\ leaf = "link")
    IN  /\ In("default")
        /\ Replaced(IF runs THEN <<Browser(f.event, f.target, TRUE), [f EXCEPT !.op = "reset"]>> ELSE <<>>)
        /\ triggered' = (triggered \/ runs)
        /\ flags' = IF runs THEN [flags EXCEPT ![f.event] = NoFlags] ELSE flags
        /\ UNCHANGED <<bound, leaf, nBindings, nEvents, reached, repeated>>

Reset ==
    /\ In("reset") /\ Replaced(<<>>) /\ triggered' = FALSE
    /\ repeated' = repeated \cup {f.event : f \in {g \in ToSet(Tail(frames)) : g.op = "native" /\ g.arg}}
    /\ UNCHANGED <<bound, leaf, flags, nBindings, nEvents, reached>>

-----------------------------------------------------------------------------
(* dispatch *)

\* jQuery.event.handlers: delegates for the target and its ancestors below this element, from the inside
\* out, and then the direct ones.
HandlerQueue(target, node) ==
    LET h == bound[node]
        For(elem, list) == [i \in DOMAIN list |-> [b |-> list[i], elem |-> elem]]
        delegated == SubSeq(h.list, 1, h.delegates)
        parts == [i \in 1..(node - target) |->
                    For(target + i - 1, SelectSeq(delegated, LAMBDA b : target + i - 1 \in b.sel))]
    IN  FlattenSeq(parts) \o For(node, SubSeq(h.list, h.delegates + 1, Len(h.list)))

\* The function given to the browser; it ignores what trigger has already gone through.
Handle ==
    LET f == Head(frames)
        queue == IF triggered THEN <<>> ELSE HandlerQueue(f.target, f.node)
    IN  /\ In("handle") \/ In("listener")
        /\ Replaced(<<[f EXCEPT !.op = "dispatch", !.arg = [queue |-> queue, last |-> 0]]>>)
        /\ UNCHANGED <<bound, leaf, triggered, flags, nBindings, nEvents, reached, repeated>>

\* The next call: stopping holds from the next element on, stopping immediately from the next handler on.
MayCall(f) ==
    /\ f.arg.queue # <<>>
    /\ IF Head(f.arg.queue).elem = f.arg.last THEN ~flags[f.event].immediate ELSE ~flags[f.event].stopped

Call ==
    LET f == Head(frames)
        next == Head(f.arg.queue)
    IN  /\ In("dispatch") /\ MayCall(f)
        /\ Replaced(<<[f EXCEPT !.op = "handler", !.arg = FALSE],
                      [f EXCEPT !.arg.queue = Tail(@), !.arg.last = next.elem]>>)
        /\ bound' = [bound EXCEPT ![f.node] = WithoutOnce(next.b, @)]
        /\ reached' = [reached EXCEPT ![f.event] =
                            Append(@, [b |-> next.b.id, elem |-> next.elem, node |-> f.node])]
        /\ UNCHANGED <<leaf, triggered, flags, nBindings, nEvents, repeated>>

Dispatched ==
    /\ In("dispatch") /\ ~MayCall(Head(frames)) /\ Replaced(<<>>)
    /\ UNCHANGED <<bound, leaf, triggered, flags, nBindings, nEvents, reached, repeated>>

-----------------------------------------------------------------------------
(* A handler that runs. *)

StopImmediate ==
    /\ In("handler") /\ ~flags[Head(frames).event].immediate
    /\ flags' = [flags EXCEPT ![Head(frames).event] = [@ EXCEPT !.stopped = TRUE, !.immediate = TRUE]]
    /\ UNCHANGED <<bound, leaf, triggered, frames, nBindings, nEvents, reached, repeated>>

\* false from a handler prevents and stops, from the attribute it only prevents.
HandlerReturns(false) ==
    LET n == Head(frames).event
    IN  /\ In("handler") \/ In("inline")
        /\ Replaced(<<>>)
        /\ flags' = IF ~false THEN flags
                    ELSE [flags EXCEPT ![n].prevented = TRUE, ![n].stopped = @ \/ In("handler")]
        /\ UNCHANGED <<bound, leaf, triggered, nBindings, nEvents, reached, repeated>>

\* The browser reports what it throws, and goes on with what it was about to do.
ByBrowser(f) == f.op \in {"native", "listener"}
Thrown(stack) ==
    LET kept == {i \in DOMAIN stack : ByBrowser(stack[i])}
    IN  IF kept = {} THEN <<>> ELSE SubSeq(stack, Min(kept), Len(stack))

HandlerThrows ==
    /\ In("handler") \/ In("inline")
    /\ frames' = Thrown(frames)
    /\ UNCHANGED <<bound, leaf, triggered, flags, nBindings, nEvents, reached, repeated>>

-----------------------------------------------------------------------------

EventsInit ==
    /\ bound = [node \in Path |-> [list |-> <<>>, delegates |-> 0]]
    /\ leaf \in {"link", "checkbox", "other"} /\ triggered = FALSE
    /\ flags = [n \in 1..MaxEvents |-> NoFlags] /\ frames = <<>>
    /\ nBindings = 0 /\ nEvents = 0
    /\ reached = [n \in 1..MaxEvents |-> <<>>] /\ repeated = {}

EventsNext ==
    \/ \E node \in Path :
        \/ \E fn \in EventFns, sel \in SUBSET (1..(node - 1)), once \in BOOLEAN :
                Bind(node, fn, sel, once)
        \/ \E fn \in EventFns \cup {NotGiven}, sel \in {NotGiven} \cup (SUBSET (1..(node - 1)) \ {Direct}) :
                Unbind(node, fn, sel)
        \/ \E only \in BOOLEAN : Triggers(node, only)
        \/ UserClicks(node)
    \/ PathStep \/ NativeStep \/ Default \/ Reset
    \/ Handle \/ Call \/ Dispatched
    \/ StopImmediate \/ HandlerThrows \/ \E false \in BOOLEAN : HandlerReturns(false)

-----------------------------------------------------------------------------
(* Properties. *)

\* Whatever handlers bind, unbind and trigger while an event is dispatched: delegates stay in front of
\* the other handlers; an event calls a handler once for each element it matches, from the inside out,
\* though trigger also has the browser dispatch it (unless a trigger in that dispatch has ended); once
\* a handler bound with one has been called it is bound no more; and nothing leaves clicks ignored.
EventsReachOnce ==
    /\ \A node \in Path : \A i \in DOMAIN bound[node].list :
        bound[node].list[i].sel # Direct <=> i =< bound[node].delegates
    /\ \A n \in (1..MaxEvents) \ repeated : \A i, j \in DOMAIN reached[n] :
        LET p == reached[n][i] q == reached[n][j]
        IN  i < j => p # q /\ p.node =< q.node /\ (p.node = q.node => p.elem =< q.elem)
    /\ \A node \in Path : \A b \in ToSet(bound[node].list) : b.once =>
        \A n \in 1..MaxEvents : \A i \in DOMAIN reached[n] : reached[n][i].b # b.id
    /\ frames = <<>> => ~triggered
=============================================================================
