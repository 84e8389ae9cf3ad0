----------------------------- MODULE JQueryData -----------------------------
(***************************************************************************)
(* The data that jQuery, its plugins and the pages keep for elements:      *)
(* handlers of events, queues, and what data() is given.  It is not kept   *)
(* in the elements but in jQuery.cache, under an id that the element bears *)
(* as long as there is something under it, and that another element gets   *)
(* afterwards.  The state is a record, and a function of the code one on   *)
(* such records.                                                           *)
(***************************************************************************)
EXTENDS Integers, Sequences, FiniteSets, SequencesExt

CONSTANTS
    Nodes,          \* elements of the document
    Keys,           \* names given to data()
    Attributed,     \* elements with an attribute data-<key>, for every key
    Types,          \* types of events
    Special         \* those that jQuery.event.remove must be called for

ASSUME SpecialAssumption == Special \subseteq Types

VARIABLES
    store,          \* jQuery.cache, the ids of the elements, deletedIds and guid
    dropped,        \* elements removed from the document
    late            \* history: those that have been given data after that

dataVars == <<store, dropped, late>>

NoId == 0
NotSet == 0
NewEntry == [data |-> [k \in Keys |-> NotSet], private |-> {}, events |-> {}]

Has(s, e) == s.id[e] \in DOMAIN s.cache
EntryOf(s, e) == s.cache[s.id[e]]
IsEmptyObject(data) == \A k \in Keys : data[k] = NotSet
IsEmptyDataObject(entry) == IsEmptyObject(entry.data) /\ entry.private = {} /\ entry.events = {}

\* internalData, when there is something to store: the element gets an id, a used one if possible.
Entered(s, e) ==
    LET reused == s.deletedIds # <<>>
        id == IF s.id[e] # NoId THEN s.id[e] ELSE IF reused THEN Last(s.deletedIds) ELSE s.guid
    IN  IF Has(s, e) THEN s
        ELSE [s EXCEPT !.id[e] = id,
                       !.deletedIds = IF s.id[e] = NoId /\ reused THEN Front(@) ELSE @,
                       !.guid = IF s.id[e] = NoId /\ ~reused THEN @ + 1 ELSE @,
                       !.cache = [i \in DOMAIN @ \cup {id} |-> IF i = id THEN NewEntry ELSE @[i]]]

\* cleanData, when the entry is still there
Freed(s, e) ==
    [s EXCEPT !.cache = [i \in DOMAIN @ \ {s.id[e]} |-> @[i]], !.id[e] = NoId, !.deletedIds = Append(@, s.id[e])]

\* _removeData: the entry goes with the last thing in it.
FreedIfEmpty(s, e) == IF Has(s, e) /\ IsEmptyDataObject(EntryOf(s, e)) THEN Freed(s, e) ELSE s

\* jQuery.event.remove, which calls _removeData when no handler is left
EventsRemoved(s, e, types) ==
    LET left == EntryOf(s, e).events \ types
        removed == [s EXCEPT !.cache[s.id[e]].events = left]
    IN  IF left = {} THEN FreedIfEmpty(removed, e) ELSE removed

Unbound(s, e) == IF EntryOf(s, e).events \cap Special # {} THEN EventsRemoved(s, e, Special) ELSE s

\* Mutated: the entry is removed, and its id noted, though jQuery.event.remove has just done so.
CleanedTwice(s, e) ==
    LET id == s.id[e]
    IN  IF ~Has(s, e) THEN s
        ELSE [Unbound(s, e) EXCEPT !.cache = [i \in DOMAIN @ \ {id} |-> @[i]], !.id[e] = NoId,
                                   !.deletedIds = Append(@, id)]

\* cleanData: removing the handlers may already have removed the entry.
Cleaned(s, e) ==
    CASE ~Has(s, e) -> s
      [] Has(s, e) /\ Has(Unbound(s, e), e) -> Freed(Unbound(s, e), e)
      [] OTHER -> Unbound(s, e)

-----------------------------------------------------------------------------

Stores(e, new) ==
    /\ store' = new
    /\ late' = IF e \in dropped THEN late \cup {e} ELSE late
    /\ UNCHANGED dropped

\* data(key, value), by the owner of the element
SetData(e, k) == Stores(e, [Entered(store, e) EXCEPT !.cache[Entered(store, e).id[e]].data[k] = e])

\* data(key): what is not there is looked for in the attributes, and then kept.
ReadData(e, k) ==
    /\ e \in Attributed
    /\ Has(store, e) => EntryOf(store, e).data[k] = NotSet
    /\ SetData(e, k)

\* data(): all of it, the attributes included
ReadAllData(e) ==
    LET s == Entered(store, e)
        parsed == "parsedAttrs" \in EntryOf(s, e).private
        known == [k \in Keys |-> IF EntryOf(s, e).data[k] = NotSet /\ e \in Attributed /\ ~parsed
                                 THEN e ELSE EntryOf(s, e).data[k]]
    IN  Stores(e, [s EXCEPT !.cache[s.id[e]].data = known, !.cache[s.id[e]].private = @ \cup {"parsedAttrs"}])

\* queue: the entry of an element that has one
BeginQueue(e) ==
    Stores(e, [Entered(store, e) EXCEPT !.cache[Entered(store, e).id[e]].private = @ \cup {"fxqueue"}])
EndQueue(e) ==
    /\ Has(store, e) /\ "fxqueue" \in EntryOf(store, e).private
    /\ store' = FreedIfEmpty([store EXCEPT !.cache[store.id[e]].private = @ \ {"fxqueue"}], e)
    /\ UNCHANGED <<dropped, late>>

\* on, off
BindType(e, type) == Stores(e, [Entered(store, e) EXCEPT !.cache[Entered(store, e).id[e]].events = @ \cup {type}])
UnbindType(e, type) ==
    /\ Has(store, e) /\ type \in EntryOf(store, e).events
    /\ store' = EventsRemoved(store, e, {type})
    /\ UNCHANGED <<dropped, late>>

\* removeData, of some keys or all
RemoveData(e, keys) ==
    /\ Has(store, e)
    /\ store' = FreedIfEmpty([store EXCEPT !.cache[store.id[e]].data =
                                 [k \in Keys |-> IF k \in keys THEN NotSet ELSE @[k]]], e)
    /\ UNCHANGED <<dropped, late>>

\* remove, empty and html
DropNode(e) ==
    /\ e \notin dropped
    /\ store' = Cleaned(store, e) /\ dropped' = dropped \cup {e}
    /\ UNCHANGED late

DataInit ==
    /\ store = [cache |-> <<>>, id |-> [e \in Nodes |-> NoId], deletedIds |-> <<>>, guid |-> 1]
    /\ dropped = {} /\ late = {}

DataNext ==
    \E e \in Nodes :
        \/ \E k \in Keys : SetData(e, k) \/ ReadData(e, k)
        \/ ReadAllData(e) \/ BeginQueue(e) \/ EndQueue(e) \/ DropNode(e)
        \/ \E type \in Types : BindType(e, type) \/ UnbindType(e, type)
        \/ \E keys \in SUBSET Keys : RemoveData(e, keys)

-----------------------------------------------------------------------------
(* Properties. *)

\* However ids are given back and taken again, with elements removed while they have handlers, a queue or
\* data: no two elements bear the same id, nor one that is free to take; what is found for an element is
\* what was stored for it; and nothing is left in the cache for an element that has been removed, unless
\* something was stored for it after that, which stays there for good.
DataKeptApart ==
    LET used == {e \in Nodes : store.id[e] # NoId}
    IN  /\ \A e, f \in used : store.id[e] = store.id[f] => e = f
        /\ IsInjective(store.deletedIds)
        /\ \A e \in used : store.id[e] \notin ToSet(store.deletedIds)
        /\ \A e \in used, k \in Keys : Has(store, e) => EntryOf(store, e).data[k] \in {NotSet, e}
        /\ DOMAIN store.cache = {store.id[e] : e \in used \ (dropped \ late)}
=============================================================================
