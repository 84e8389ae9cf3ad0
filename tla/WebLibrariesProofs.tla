------------------------- MODULE WebLibrariesProofs -------------------------
(***************************************************************************)
(* Proofs about the libraries under the pages and the KNX configuration    *)
(* page, for any number of elements, requests, moments and calls.          *)
(***************************************************************************)
EXTENDS WebLibraries, FiniteSetTheorems, SequenceTheorems, TLAPS

-----------------------------------------------------------------------------
(* jQuery's data. *)

\* What jQuery.cache holds under an id.
DataEntries == [data : [Keys -> Nodes \cup {NotSet}], private : SUBSET {"parsedAttrs", "fxqueue"}, events : SUBSET Types]

DataStores ==
    [cache : UNION {[ids -> DataEntries] : ids \in SUBSET (Nat \ {0})}, id : [Nodes -> Nat],
     deletedIds : Seq(Nat \ {0}), guid : Nat \ {0}]

\* Ids are those of one element, or free to take, or not yet given; the cache has an entry for each element
\* with an id, with what was stored for it.
IdsApart(s) ==
    /\ s \in DataStores
    /\ \A e, f \in Nodes : s.id[e] = s.id[f] /\ s.id[e] # NoId => e = f
    /\ \A i, j \in DOMAIN s.deletedIds : s.deletedIds[i] = s.deletedIds[j] => i = j
    /\ \A e \in Nodes, i \in DOMAIN s.deletedIds : s.id[e] # s.deletedIds[i]
    /\ \A e \in Nodes : s.id[e] < s.guid
    /\ \A i \in DOMAIN s.deletedIds : s.deletedIds[i] < s.guid
    /\ DOMAIN s.cache = {s.id[e] : e \in {f \in Nodes : s.id[f] # NoId}}
    /\ \A e \in Nodes : s.id[e] # NoId => \A k \in Keys : s.cache[s.id[e]].data[k] \in {NotSet, e}

DataInv ==
    /\ IdsApart(store)
    /\ \A e \in Nodes : e \in dropped /\ e \notin late => store.id[e] = NoId

LEMMA StoreTyped ==
    ASSUME NEW s, IdsApart(s)
    PROVE  /\ s \in DataStores
           /\ s.cache \in [DOMAIN s.cache -> DataEntries] /\ DOMAIN s.cache \in SUBSET (Nat \ {0})
           /\ s.deletedIds \in Seq(Nat \ {0}) /\ s.guid \in Nat \ {0} /\ s.id \in [Nodes -> Nat]
           /\ Len(s.deletedIds) \in Nat /\ DOMAIN s.deletedIds = 1..Len(s.deletedIds)
<1>1. s \in DataStores
  BY DEF IdsApart
<1>2. /\ s.cache \in UNION {[ids -> DataEntries] : ids \in SUBSET (Nat \ {0})}
      /\ s.deletedIds \in Seq(Nat \ {0}) /\ s.guid \in Nat \ {0} /\ s.id \in [Nodes -> Nat]
  BY <1>1 DEF DataStores
<1>3. PICK ids \in SUBSET (Nat \ {0}) : s.cache \in [ids -> DataEntries]
  BY <1>2
<1>4. DOMAIN s.cache = ids
  BY <1>3
<1>5. Len(s.deletedIds) \in Nat /\ DOMAIN s.deletedIds = 1..Len(s.deletedIds)
  BY <1>2
<1> QED
  BY <1>1, <1>2, <1>3, <1>4, <1>5

LEMMA StoreRecord ==
    ASSUME NEW s, IdsApart(s)
    PROVE  s = [cache |-> s.cache, id |-> s.id, deletedIds |-> s.deletedIds, guid |-> s.guid]
<1>1. s \in DataStores
  BY DEF IdsApart
<1> QED
  BY <1>1 DEF DataStores

LEMMA HasItsId ==
    ASSUME NEW s, IdsApart(s), NEW e \in Nodes
    PROVE  Has(s, e) <=> s.id[e] # NoId
BY DEF Has, IdsApart, NoId

LEMMA EnteredApart ==
    ASSUME NEW s, IdsApart(s), NEW e \in Nodes
    PROVE  /\ IdsApart(Entered(s, e))
           /\ Entered(s, e).id[e] # NoId
           /\ \A f \in Nodes : f # e => Entered(s, e).id[f] = s.id[f]
<1>1. CASE s.id[e] # NoId
  BY <1>1, HasItsId DEF Entered
<1>2. CASE s.id[e] = NoId
  <2> DEFINE reused == s.deletedIds # <<>>
             id == IF reused THEN Last(s.deletedIds) ELSE s.guid
             deletedIds == IF reused THEN Front(s.deletedIds) ELSE s.deletedIds
             guid == IF reused THEN s.guid ELSE s.guid + 1
             cache == [i \in DOMAIN s.cache \cup {id} |-> IF i = id THEN NewEntry ELSE s.cache[i]]
             ids == [s.id EXCEPT ![e] = id]
             new == [cache |-> cache, id |-> ids, deletedIds |-> deletedIds, guid |-> guid]
  <2>1. ~Has(s, e)
    BY <1>2, HasItsId
  <2>2. Entered(s, e) = new
    <3>1. Entered(s, e) = [s EXCEPT !.id = ids, !.deletedIds = deletedIds, !.guid = guid, !.cache = cache]
      BY <1>2, <2>1 DEF Entered
    <3> HIDE DEF id, deletedIds, guid, cache, ids
    <3> QED
      BY <3>1, StoreRecord
  <2>3. /\ s.deletedIds \in Seq(Nat \ {0}) /\ s.guid \in Nat \ {0} /\ s.id \in [Nodes -> Nat]
        /\ \A i \in DOMAIN s.cache : s.cache[i] \in DataEntries /\ i \in Nat \ {0}
    BY StoreTyped
  <2>4. /\ \A i \in DOMAIN deletedIds : i \in DOMAIN s.deletedIds /\ deletedIds[i] = s.deletedIds[i] /\ deletedIds[i] # id
        /\ deletedIds \in Seq(Nat \ {0}) /\ guid \in Nat \ {0} /\ id \in Nat \ {0} /\ id < guid /\ s.guid =< guid
        /\ \A f \in Nodes : s.id[f] # id
    <3>1. CASE reused
      <4>1. Len(s.deletedIds) \in Nat /\ Len(s.deletedIds) > 0 /\ DOMAIN s.deletedIds = 1..Len(s.deletedIds)
        BY <2>3, <3>1
      <4>2. /\ deletedIds = SubSeq(s.deletedIds, 1, Len(s.deletedIds) - 1)
            /\ id = s.deletedIds[Len(s.deletedIds)] /\ guid = s.guid
        BY <3>1 DEF Last, Front
      <4>3. /\ deletedIds \in Seq(Nat \ {0}) /\ DOMAIN deletedIds = 1..(Len(s.deletedIds) - 1)
            /\ \A i \in 1..(Len(s.deletedIds) - 1) : deletedIds[i] = s.deletedIds[i]
        <5> DEFINE dids == s.deletedIds
        <5>1. dids \in Seq(Nat \ {0}) /\ Len(dids) \in Nat /\ Len(dids) > 0
          BY <2>3, <4>1
        <5> HIDE DEF dids
        <5>2. /\ SubSeq(dids, 1, Len(dids) - 1) \in Seq(Nat \ {0})
              /\ DOMAIN SubSeq(dids, 1, Len(dids) - 1) = 1..(Len(dids) - 1)
              /\ \A i \in 1..(Len(dids) - 1) : SubSeq(dids, 1, Len(dids) - 1)[i] = dids[i]
          BY <5>1
        <5> QED
          BY <4>2, <5>2 DEF dids
      <4>4. id \in Nat \ {0} /\ id < s.guid /\ \A f \in Nodes : s.id[f] # id
        BY <2>3, <4>1, <4>2, SMTT(30) DEF IdsApart
      <4>5. \A i \in 1..(Len(s.deletedIds) - 1) : s.deletedIds[i] # id
        BY <4>1, <4>2 DEF IdsApart
      <4> QED
        <5>1. guid = s.guid
          BY <4>2
        <5> HIDE DEF deletedIds, id, guid
        <5>2. \A i \in DOMAIN deletedIds : i \in DOMAIN s.deletedIds /\ deletedIds[i] = s.deletedIds[i]
          BY <4>1, <4>3, SMTT(30)
        <5> QED
          BY <2>3, <4>3, <4>4, <4>5, <5>1, <5>2
    <3>2. CASE ~reused
      BY <2>3, <3>2 DEF IdsApart
    <3> QED
      BY <3>1, <3>2
  <2> HIDE DEF deletedIds, guid, id
  <2>5. NewEntry \in DataEntries /\ \A k \in Keys : NewEntry.data[k] = NotSet
    BY DEF NewEntry, DataEntries
  <2>6. /\ ids \in [Nodes -> Nat] /\ ids[e] = id /\ \A f \in Nodes : f # e => ids[f] = s.id[f]
    BY <2>3, <2>4
  <2>7. /\ DOMAIN cache = DOMAIN s.cache \cup {id} /\ cache[id] = NewEntry
        /\ \A i \in DOMAIN s.cache : i # id => cache[i] = s.cache[i]
    OBVIOUS
  <2>8. cache \in UNION {[D -> DataEntries] : D \in SUBSET (Nat \ {0})}
    <3>1. cache \in [DOMAIN s.cache \cup {id} -> DataEntries]
      BY <2>3, <2>5
    <3>2. DOMAIN s.cache \cup {id} \in SUBSET (Nat \ {0})
      BY <2>3, <2>4
    <3> QED
      BY <3>1, <3>2
  <2> HIDE DEF ids, cache
  <2>9. DOMAIN cache = {ids[f] : f \in {g \in Nodes : ids[g] # NoId}}
    BY <1>2, <2>4, <2>6, <2>7 DEF IdsApart, NoId
  <2>10. \A f \in Nodes : ids[f] # NoId => \A k \in Keys : cache[ids[f]].data[k] \in {NotSet, f}
    <3> SUFFICES ASSUME NEW f \in Nodes, ids[f] # NoId
                 PROVE  \A k \in Keys : cache[ids[f]].data[k] \in {NotSet, f}
      OBVIOUS
    <3>1. CASE f = e
      BY <2>5, <2>6, <2>7, <3>1
    <3>2. CASE f # e
      <4>1. ids[f] = s.id[f] /\ s.id[f] # id /\ s.id[f] \in DOMAIN s.cache
        BY <2>4, <2>6, <3>2 DEF IdsApart
      <4> QED
        BY <2>7, <4>1 DEF IdsApart
    <3> QED
      BY <3>1, <3>2
  <2>11. new \in DataStores
    BY <2>4, <2>6, <2>8 DEF DataStores
  <2>12. /\ \A f, g \in Nodes : ids[f] = ids[g] /\ ids[f] # NoId => f = g
         /\ \A f \in Nodes, i \in DOMAIN deletedIds : ids[f] # deletedIds[i]
         /\ \A f \in Nodes : ids[f] < guid
    <3>1. /\ \A f, g \in Nodes : s.id[f] = s.id[g] /\ s.id[f] # NoId => f = g
          /\ \A f \in Nodes, i \in DOMAIN s.deletedIds : s.id[f] # s.deletedIds[i]
          /\ \A f \in Nodes : s.id[f] < s.guid
      BY DEF IdsApart
    <3>2. \A f, g \in Nodes : ids[f] = ids[g] /\ ids[f] # NoId => f = g
      BY <2>4, <2>6, <3>1
    <3>3. \A f \in Nodes, i \in DOMAIN deletedIds : ids[f] # deletedIds[i]
      BY <2>4, <2>6, <3>1
    <3>4. \A f \in Nodes : ids[f] < guid
      <4> TAKE f \in Nodes
      <4>1. CASE f = e
        BY <2>4, <2>6, <4>1
      <4>2. CASE f # e
        <5>1. ids[f] = s.id[f] /\ s.id[f] < s.guid /\ s.guid =< guid
          BY <2>4, <2>6, <3>1, <4>2
        <5>2. s.id[f] \in Nat /\ s.guid \in Nat /\ guid \in Nat
          BY <2>3, <2>4
        <5> QED
          BY <5>1, <5>2
      <4> QED
        BY <4>1, <4>2
    <3> QED
      BY <3>2, <3>3, <3>4
  <2>13. /\ \A i, j \in DOMAIN deletedIds : deletedIds[i] = deletedIds[j] => i = j
         /\ \A i \in DOMAIN deletedIds : deletedIds[i] < guid
    <3>1. /\ \A i, j \in DOMAIN s.deletedIds : s.deletedIds[i] = s.deletedIds[j] => i = j
          /\ \A i \in DOMAIN s.deletedIds : s.deletedIds[i] < s.guid
      BY DEF IdsApart
    <3>2. \A i \in DOMAIN s.deletedIds : s.deletedIds[i] \in Nat
      BY <2>3
    <3>3. \A i, j \in DOMAIN deletedIds : deletedIds[i] = deletedIds[j] => i = j
      BY <2>4, <3>1
    <3>4. \A i \in DOMAIN deletedIds : deletedIds[i] < guid
      BY <2>3, <2>4, <3>1, <3>2
    <3> QED
      BY <3>3, <3>4
  <2>14. IdsApart(new)
    BY <2>9, <2>10, <2>11, <2>12, <2>13 DEF IdsApart
  <2> QED
    BY <2>2, <2>4, <2>6, <2>14 DEF NoId
<1> QED
  BY <1>1, <1>2

\* What an element has is changed, and for nobody else.
LEMMA ChangedApart ==
    ASSUME NEW s, IdsApart(s), NEW e \in Nodes, s.id[e] # NoId,
           NEW entry \in DataEntries, \A k \in Keys : entry.data[k] \in {NotSet, e}
    PROVE  /\ IdsApart([s EXCEPT !.cache[s.id[e]] = entry])
           /\ [s EXCEPT !.cache[s.id[e]] = entry].id = s.id
<1> DEFINE cache == [s.cache EXCEPT ![s.id[e]] = entry]
           new == [cache |-> cache, id |-> s.id, deletedIds |-> s.deletedIds, guid |-> s.guid]
<1>1. [s EXCEPT !.cache[s.id[e]] = entry] = new
  <2> HIDE DEF cache
  <2>1. [s EXCEPT !.cache = cache] = new
    BY StoreRecord
  <2> QED
    BY <2>1 DEF cache
<1>2. s.id[e] \in DOMAIN s.cache
  BY DEF IdsApart
<1>3. /\ s.cache \in [DOMAIN s.cache -> DataEntries] /\ DOMAIN s.cache \in SUBSET (Nat \ {0})
      /\ s.deletedIds \in Seq(Nat \ {0}) /\ s.guid \in Nat \ {0} /\ s.id \in [Nodes -> Nat]
  BY StoreTyped
<1>4. /\ cache \in [DOMAIN s.cache -> DataEntries]
      /\ cache[s.id[e]] = entry /\ \A i \in DOMAIN s.cache : i # s.id[e] => cache[i] = s.cache[i]
  BY <1>2, <1>3
<1> HIDE DEF cache
<1>5. new \in DataStores
  BY <1>3, <1>4 DEF DataStores
<1>6. \A f \in Nodes : s.id[f] # NoId => \A k \in Keys : cache[s.id[f]].data[k] \in {NotSet, f}
  BY <1>4 DEF IdsApart
<1>7. IdsApart(new)
  <2>1. DOMAIN cache = DOMAIN s.cache
    BY <1>4
  <2> QED
    BY <1>5, <1>6, <2>1 DEF IdsApart
<1> QED
  BY <1>1, <1>7

LEMMA FreedApart ==
    ASSUME NEW s, IdsApart(s), NEW e \in Nodes, s.id[e] # NoId
    PROVE  /\ IdsApart(Freed(s, e))
           /\ Freed(s, e).id[e] = NoId
           /\ \A f \in Nodes : f # e => Freed(s, e).id[f] = s.id[f]
<1> DEFINE cache == [i \in DOMAIN s.cache \ {s.id[e]} |-> s.cache[i]]
           ids == [s.id EXCEPT ![e] = NoId]
           deletedIds == Append(s.deletedIds, s.id[e])
           new == [cache |-> cache, id |-> ids, deletedIds |-> deletedIds, guid |-> s.guid]
<1>1. Freed(s, e) = new
  <2>1. Freed(s, e) = [s EXCEPT !.cache = cache, !.id = ids, !.deletedIds = deletedIds]
    BY DEF Freed
  <2> HIDE DEF cache, ids, deletedIds
  <2> QED
    BY <2>1, StoreRecord
<1>2. /\ s.cache \in [DOMAIN s.cache -> DataEntries] /\ DOMAIN s.cache \in SUBSET (Nat \ {0})
      /\ s.deletedIds \in Seq(Nat \ {0}) /\ s.guid \in Nat \ {0} /\ s.id \in [Nodes -> Nat]
  BY StoreTyped
<1>3. /\ cache \in [DOMAIN s.cache \ {s.id[e]} -> DataEntries]
      /\ \A i \in DOMAIN s.cache : i # s.id[e] => cache[i] = s.cache[i]
  BY <1>2
<1>4. ids \in [Nodes -> Nat] /\ ids[e] = NoId /\ \A f \in Nodes : f # e => ids[f] = s.id[f]
  BY <1>2 DEF NoId
<1>5. /\ deletedIds \in Seq(Nat \ {0}) /\ DOMAIN deletedIds = 1..(Len(s.deletedIds) + 1)
      /\ Len(s.deletedIds) \in Nat /\ DOMAIN s.deletedIds = 1..Len(s.deletedIds)
      /\ \A i \in 1..Len(s.deletedIds) : deletedIds[i] = s.deletedIds[i]
      /\ deletedIds[Len(s.deletedIds) + 1] = s.id[e]
  BY <1>2 DEF NoId
<1> HIDE DEF cache, ids, deletedIds
<1>6. new \in DataStores
  BY <1>2, <1>3, <1>4, <1>5 DEF DataStores
<1>7. /\ \A f, g \in Nodes : ids[f] = ids[g] /\ ids[f] # NoId => f = g
      /\ \A f \in Nodes : ids[f] < s.guid
  <2>1. /\ \A f, g \in Nodes : s.id[f] = s.id[g] /\ s.id[f] # NoId => f = g
        /\ \A f \in Nodes : s.id[f] < s.guid
    BY DEF IdsApart
  <2> QED
    BY <1>2, <1>4, <2>1, SMTT(30) DEF NoId
<1>8. /\ \A i, j \in DOMAIN deletedIds : deletedIds[i] = deletedIds[j] => i = j
      /\ \A i \in DOMAIN deletedIds : deletedIds[i] < s.guid
  <2>1. /\ \A i, j \in DOMAIN s.deletedIds : s.deletedIds[i] = s.deletedIds[j] => i = j
        /\ \A i \in DOMAIN s.deletedIds : s.deletedIds[i] < s.guid
        /\ \A i \in DOMAIN s.deletedIds : s.id[e] # s.deletedIds[i]
        /\ s.id[e] < s.guid
    BY DEF IdsApart
  <2>2. \A i \in DOMAIN deletedIds : i \in DOMAIN s.deletedIds \/ i = Len(s.deletedIds) + 1
    BY <1>5
  <2> QED
    BY <1>5, <2>1, <2>2
<1>9. \A f \in Nodes, i \in DOMAIN deletedIds : ids[f] # deletedIds[i]
  <2>1. /\ \A f \in Nodes, i \in DOMAIN s.deletedIds : s.id[f] # s.deletedIds[i]
        /\ \A f \in Nodes : s.id[f] = s.id[e] => f = e
        /\ \A i \in DOMAIN s.deletedIds : s.deletedIds[i] # NoId
    BY <1>2 DEF IdsApart, NoId
  <2>2. \A i \in DOMAIN deletedIds : i \in DOMAIN s.deletedIds \/ i = Len(s.deletedIds) + 1
    BY <1>5
  <2> QED
    BY <1>4, <1>5, <2>1, <2>2
<1>10. DOMAIN cache = {ids[f] : f \in {g \in Nodes : ids[g] # NoId}}
  BY <1>3, <1>4 DEF IdsApart
<1>11. \A f \in Nodes : ids[f] # NoId => \A k \in Keys : cache[ids[f]].data[k] \in {NotSet, f}
  BY <1>3, <1>4 DEF IdsApart
<1>12. IdsApart(new)
  BY <1>6, <1>7, <1>8, <1>9, <1>10, <1>11 DEF IdsApart
<1> QED
  BY <1>1, <1>4, <1>12

\* What a function of jQuery's does to the entry of an element, if it leaves the element its id or frees it.
Touches(e, s, new) ==
    /\ IdsApart(new)
    /\ new.id[e] \in {s.id[e], NoId}
    /\ \A f \in Nodes : f # e => new.id[f] = s.id[f]

LEMMA FreedIfEmptyApart ==
    ASSUME NEW s, IdsApart(s), NEW e \in Nodes
    PROVE  Touches(e, s, FreedIfEmpty(s, e))
BY FreedApart, HasItsId DEF Touches, FreedIfEmpty

LEMMA EntryTyped ==
    ASSUME NEW s, IdsApart(s), NEW e \in Nodes, s.id[e] # NoId
    PROVE  /\ EntryOf(s, e) \in DataEntries
           /\ \A k \in Keys : EntryOf(s, e).data[k] \in {NotSet, e}
<1>1. s.id[e] \in DOMAIN s.cache
  BY DEF IdsApart
<1> QED
  BY <1>1, StoreTyped DEF EntryOf, IdsApart

LEMMA EventsRemovedApart ==
    ASSUME NEW s, IdsApart(s), NEW e \in Nodes, s.id[e] # NoId, NEW types
    PROVE  Touches(e, s, EventsRemoved(s, e, types))
<1> DEFINE entry == [EntryOf(s, e) EXCEPT !.events = EntryOf(s, e).events \ types]
           removed == [s EXCEPT !.cache[s.id[e]] = entry]
<1>1. entry \in DataEntries /\ \A k \in Keys : entry.data[k] \in {NotSet, e}
  BY EntryTyped DEF DataEntries
<1>2. [s EXCEPT !.cache[s.id[e]].events = EntryOf(s, e).events \ types] = removed
  BY DEF EntryOf
<1> HIDE DEF entry
<1>3. IdsApart(removed) /\ removed.id = s.id
  BY <1>1, ChangedApart
<1>4. EventsRemoved(s, e, types) \in {removed, FreedIfEmpty(removed, e)}
  BY <1>2 DEF EventsRemoved
<1> HIDE DEF removed
<1>5. Touches(e, removed, FreedIfEmpty(removed, e))
  BY <1>3, FreedIfEmptyApart
<1> QED
  BY <1>3, <1>4, <1>5 DEF Touches

\* An element that is removed has no id afterwards.
LEMMA CleanedApart ==
    ASSUME NEW s, IdsApart(s), NEW e \in Nodes
    PROVE  /\ IdsApart(Cleaned(s, e))
           /\ Cleaned(s, e).id[e] = NoId
           /\ \A f \in Nodes : f # e => Cleaned(s, e).id[f] = s.id[f]
<1>1. CASE ~Has(s, e)
  BY <1>1, HasItsId DEF Cleaned
<1>2. CASE Has(s, e)
  <2> DEFINE unbound == Unbound(s, e)
  <2>1. Touches(e, s, unbound)
    BY <1>2, HasItsId, EventsRemovedApart DEF Unbound, Touches
  <2>2. Cleaned(s, e) = IF Has(unbound, e) THEN Freed(unbound, e) ELSE unbound
    BY <1>2 DEF Cleaned
  <2> HIDE DEF unbound
  <2> QED
    BY <2>1, <2>2, FreedApart, HasItsId DEF Touches
<1> QED
  BY <1>1, <1>2

\* Something is stored for an element: its entry is changed once there is one.
LEMMA StoresApart ==
    ASSUME DataInv, NEW e \in Nodes, NEW entry \in DataEntries, \A k \in Keys : entry.data[k] \in {NotSet, e},
           Stores(e, [Entered(store, e) EXCEPT !.cache[Entered(store, e).id[e]] = entry])
    PROVE  DataInv'
<1> DEFINE s == Entered(store, e)
           new == [s EXCEPT !.cache[s.id[e]] = entry]
<1>1. IdsApart(s) /\ s.id[e] # NoId /\ \A f \in Nodes : f # e => s.id[f] = store.id[f]
  BY EnteredApart DEF DataInv
<1> HIDE DEF s
<1>2. IdsApart(new) /\ new.id = s.id
  BY <1>1, ChangedApart
<1>3. store' = new /\ dropped' = dropped /\ late' = IF e \in dropped THEN late \cup {e} ELSE late
  BY DEF Stores, s
<1> HIDE DEF new
<1> QED
  BY <1>1, <1>2, <1>3 DEF DataInv

\* Something is taken from an element.
LEMMA TouchesApart ==
    ASSUME DataInv, NEW e \in Nodes, Touches(e, store, store'), UNCHANGED <<dropped, late>>
    PROVE  DataInv'
BY DEF DataInv, Touches

LEMMA DataStep ==
    ASSUME DataInv, DataNext
    PROVE  DataInv'
<1>0. IdsApart(store)
  BY DEF DataInv
<1>1. ASSUME NEW e \in Nodes, NEW k \in Keys, SetData(e, k)
      PROVE  DataInv'
  <2> DEFINE s == Entered(store, e)
             entry == [EntryOf(s, e) EXCEPT !.data[k] = e]
  <2>1. IdsApart(s) /\ s.id[e] # NoId
    BY <1>0, EnteredApart
  <2>2. Stores(e, [s EXCEPT !.cache[s.id[e]] = entry])
    BY <1>1 DEF SetData, EntryOf
  <2>3. EntryOf(s, e) \in DataEntries /\ \A j \in Keys : EntryOf(s, e).data[j] \in {NotSet, e}
    BY <2>1, EntryTyped
  <2>4. entry \in DataEntries /\ \A j \in Keys : entry.data[j] \in {NotSet, e}
    BY <2>3 DEF DataEntries
  <2> HIDE DEF entry
  <2> QED
    BY <2>2, <2>4, StoresApart
<1>2. ASSUME NEW e \in Nodes, NEW k \in Keys, ReadData(e, k)
      PROVE  DataInv'
  BY <1>1, <1>2 DEF ReadData
<1>3. ASSUME NEW e \in Nodes, ReadAllData(e)
      PROVE  DataInv'
  <2> DEFINE s == Entered(store, e)
             parsed == "parsedAttrs" \in EntryOf(s, e).private
             known == [k \in Keys |-> IF EntryOf(s, e).data[k] = NotSet /\ e \in Attributed /\ ~parsed
                                      THEN e ELSE EntryOf(s, e).data[k]]
             entry == [EntryOf(s, e) EXCEPT !.data = known, !.private = @ \cup {"parsedAttrs"}]
  <2>1. IdsApart(s) /\ s.id[e] # NoId
    BY <1>0, EnteredApart
  <2>2. [s EXCEPT !.cache[s.id[e]].data = known, !.cache[s.id[e]].private = @ \cup {"parsedAttrs"}]
            = [s EXCEPT !.cache[s.id[e]] = entry]
    <3>1. s.id[e] \in DOMAIN s.cache
      BY <2>1 DEF IdsApart
    <3> HIDE DEF s
    <3> SUFFICES ASSUME NEW data
                 PROVE  [s EXCEPT !.cache[s.id[e]].data = data, !.cache[s.id[e]].private = @ \cup {"parsedAttrs"}]
                          = [s EXCEPT !.cache[s.id[e]] = [EntryOf(s, e) EXCEPT !.data = data,
                                                                               !.private = @ \cup {"parsedAttrs"}]]
      BY Zenon
    <3>2. s.cache \in [DOMAIN s.cache -> DataEntries]
      BY <2>1, StoreTyped
    <3>3. s = [cache |-> s.cache, id |-> s.id, deletedIds |-> s.deletedIds, guid |-> s.guid]
      BY <2>1, StoreRecord
    <3> QED
      BY <3>1, <3>2, <3>3 DEF EntryOf, DataEntries
  <2>3. EntryOf(s, e) \in DataEntries /\ \A j \in Keys : EntryOf(s, e).data[j] \in {NotSet, e}
    BY <2>1, EntryTyped
  <2>4. entry \in DataEntries /\ \A j \in Keys : entry.data[j] \in {NotSet, e}
    BY <2>3 DEF DataEntries
  <2>5. Stores(e, [s EXCEPT !.cache[s.id[e]] = entry])
    BY <1>3, <2>2 DEF ReadAllData
  <2> HIDE DEF entry
  <2> QED
    BY <2>4, <2>5, StoresApart
<1>4. ASSUME NEW e \in Nodes, BeginQueue(e)
      PROVE  DataInv'
  <2> DEFINE s == Entered(store, e)
             entry == [EntryOf(s, e) EXCEPT !.private = @ \cup {"fxqueue"}]
  <2>1. IdsApart(s) /\ s.id[e] # NoId
    BY <1>0, EnteredApart
  <2>2. Stores(e, [s EXCEPT !.cache[s.id[e]] = entry])
    BY <1>4 DEF BeginQueue, EntryOf
  <2>3. EntryOf(s, e) \in DataEntries /\ \A j \in Keys : EntryOf(s, e).data[j] \in {NotSet, e}
    BY <2>1, EntryTyped
  <2>4. entry \in DataEntries /\ \A j \in Keys : entry.data[j] \in {NotSet, e}
    BY <2>3 DEF DataEntries
  <2> HIDE DEF entry
  <2> QED
    BY <2>2, <2>4, StoresApart
<1>5. ASSUME NEW e \in Nodes, NEW type \in Types, BindType(e, type)
      PROVE  DataInv'
  <2> DEFINE s == Entered(store, e)
             entry == [EntryOf(s, e) EXCEPT !.events = @ \cup {type}]
  <2>1. IdsApart(s) /\ s.id[e] # NoId
    BY <1>0, EnteredApart
  <2>2. Stores(e, [s EXCEPT !.cache[s.id[e]] = entry])
    BY <1>5 DEF BindType, EntryOf
  <2>3. EntryOf(s, e) \in DataEntries /\ \A j \in Keys : EntryOf(s, e).data[j] \in {NotSet, e}
    BY <2>1, EntryTyped
  <2>4. entry \in DataEntries /\ \A j \in Keys : entry.data[j] \in {NotSet, e}
    BY <2>3 DEF DataEntries
  <2> HIDE DEF entry
  <2> QED
    BY <2>2, <2>4, StoresApart
<1>6. ASSUME NEW e \in Nodes, EndQueue(e)
      PROVE  DataInv'
  <2> DEFINE entry == [EntryOf(store, e) EXCEPT !.private = @ \ {"fxqueue"}]
             new == [store EXCEPT !.cache[store.id[e]] = entry]
  <2>1. store.id[e] # NoId /\ UNCHANGED <<dropped, late>>
    BY <1>0, <1>6, HasItsId DEF EndQueue
  <2>2. store' = FreedIfEmpty(new, e)
    BY <1>6 DEF EndQueue, EntryOf
  <2>3. EntryOf(store, e) \in DataEntries /\ \A j \in Keys : EntryOf(store, e).data[j] \in {NotSet, e}
    BY <1>0, <2>1, EntryTyped
  <2>4. entry \in DataEntries /\ \A j \in Keys : entry.data[j] \in {NotSet, e}
    BY <2>3 DEF DataEntries
  <2> HIDE DEF entry
  <2>5. IdsApart(new) /\ new.id = store.id
    BY <1>0, <2>1, <2>4, ChangedApart
  <2> HIDE DEF new
  <2>6. Touches(e, store, store')
    BY <2>2, <2>5, FreedIfEmptyApart DEF Touches
  <2> QED
    BY <2>1, <2>6, TouchesApart
<1>7. ASSUME NEW e \in Nodes, NEW type \in Types, UnbindType(e, type)
      PROVE  DataInv'
  <2>1. store.id[e] # NoId /\ UNCHANGED <<dropped, late>> /\ store' = EventsRemoved(store, e, {type})
    BY <1>0, <1>7, HasItsId DEF UnbindType
  <2>2. Touches(e, store, store')
    BY <1>0, <2>1, EventsRemovedApart
  <2> QED
    BY <2>1, <2>2, TouchesApart
<1>8. ASSUME NEW e \in Nodes, NEW keys \in SUBSET Keys, RemoveData(e, keys)
      PROVE  DataInv'
  <2> DEFINE entry == [EntryOf(store, e) EXCEPT !.data = [k \in Keys |-> IF k \in keys THEN NotSet ELSE @[k]]]
             new == [store EXCEPT !.cache[store.id[e]] = entry]
  <2>1. store.id[e] # NoId /\ UNCHANGED <<dropped, late>>
    BY <1>0, <1>8, HasItsId DEF RemoveData
  <2>2. store' = FreedIfEmpty(new, e)
    BY <1>8 DEF RemoveData, EntryOf
  <2>3. EntryOf(store, e) \in DataEntries /\ \A j \in Keys : EntryOf(store, e).data[j] \in {NotSet, e}
    BY <1>0, <2>1, EntryTyped
  <2>4. entry \in DataEntries /\ \A j \in Keys : entry.data[j] \in {NotSet, e}
    BY <2>3 DEF DataEntries
  <2> HIDE DEF entry
  <2>5. IdsApart(new) /\ new.id = store.id
    BY <1>0, <2>1, <2>4, ChangedApart
  <2> HIDE DEF new
  <2>6. Touches(e, store, store')
    BY <2>2, <2>5, FreedIfEmptyApart DEF Touches
  <2> QED
    BY <2>1, <2>6, TouchesApart
<1>9. ASSUME NEW e \in Nodes, DropNode(e)
      PROVE  DataInv'
  BY <1>0, <1>9, CleanedApart DEF DropNode, DataInv
<1> QED
  BY <1>1, <1>2, <1>3, <1>4, <1>5, <1>6, <1>7, <1>8, <1>9 DEF DataNext

\* For any elements, and any number of steps: no two elements bear the same id of jQuery.cache, nor one that
\* is free to take; what is found for an element is what was stored for it; and nothing is left for one that
\* has been removed, but for what was stored for it afterwards.
THEOREM DataApart == Spec => []DataKeptApart
<1>1. Init => DataInv
  <2>1. ASSUME DataInit
        PROVE  DataInv
    <3>1. store = [cache |-> <<>>, id |-> [e \in Nodes |-> NoId], deletedIds |-> <<>>, guid |-> 1]
      BY <2>1 DEF DataInit
    <3>2. store.cache \in [{} -> DataEntries]
      BY <3>1
    <3>3. store \in DataStores
      BY <3>1, <3>2 DEF DataStores, NoId
    <3>4. /\ \A e \in Nodes : store.id[e] = NoId
          /\ DOMAIN store.deletedIds = {} /\ DOMAIN store.cache = {} /\ store.guid = 1
      BY <3>1, <3>2
    <3> QED
      BY <3>3, <3>4 DEF DataInv, IdsApart, NoId
  <2> QED
    BY <2>1 DEF Init
<1>2. DataInv /\ [Next]_vars => DataInv'
  <2>1. [Next]_vars => DataNext \/ UNCHANGED dataVars
    BY DEF Next, vars, toolVars
  <2>2. DataInv /\ UNCHANGED dataVars => DataInv'
    BY DEF DataInv, dataVars
  <2> QED
    BY <2>1, <2>2, DataStep
<1>3. DataInv => DataKeptApart
  <2> SUFFICES ASSUME DataInv
               PROVE  DataKeptApart
    OBVIOUS
  <2>1. IdsApart(store)
    BY DEF DataInv
  <2>2. /\ IsInjective(store.deletedIds)
        /\ \A e \in Nodes : store.id[e] \notin ToSet(store.deletedIds)
    BY <2>1 DEF IdsApart, IsInjective, ToSet
  <2>3. \A e \in Nodes, k \in Keys : Has(store, e) => EntryOf(store, e).data[k] \in {NotSet, e}
    BY <2>1, HasItsId, EntryTyped
  <2>4. DOMAIN store.cache = {store.id[e] : e \in {f \in Nodes : store.id[f] # NoId} \ (dropped \ late)}
    BY <2>1 DEF IdsApart, DataInv
  <2> QED
    BY <2>1, <2>2, <2>3, <2>4 DEF DataKeptApart, IdsApart
<1> QED
  BY <1>1, <1>2, <1>3, PTL DEF Spec

-----------------------------------------------------------------------------
(* The KNX configuration page. *)

Values == Int \cup IPs \cup {Configured}

\* The id of a call only tells it from the others.
CallShaped(c) ==
    c \in [id : {c.id}, kind : {"login", "config", "gateways", "post"}, token : Int, gateway : Values,
           storage : BOOLEAN, page : {"index", "configuration", "left"},
           answer : {Unanswered, "ok", "unauthorized"}, value : Values, found : SUBSET IPs]

KnxTyped ==
    /\ token \in Nat /\ expired \in BOOLEAN /\ config \in [gateway : Values, storage : BOOLEAN]
    /\ cookie \in Int /\ renewed \in BOOLEAN /\ early \in BOOLEAN
    /\ shown \in [page : {"index", "configuration"}, going : {"index", "configuration", Nowhere}]
    /\ form \in [xToken : Int, manual : Values, manualOff : BOOLEAN, select : Values, found : SUBSET IPs,
                 checked : BOOLEAN, databaseOff : BOOLEAN, overlay : BOOLEAN]
    /\ \A c \in knxCalls : CallShaped(c)

\* A token that is not accepted, and will not be, since a new one is greater.
Refused(tok) == tok # token \/ tok = NoToken \/ expired

OnPage(c, kinds) == c.page = "configuration" /\ c.kind \in kinds
Waits(kinds) == \E c \in knxCalls : OnPage(c, kinds)
AtConfiguration == shown.page = "configuration" /\ AtPage

CallsKnown ==
    /\ \A c \in knxCalls :
        /\ c.page = "index" => c.kind = "login" /\ shown.page = "index"
        /\ c.page = "left" => c.answer = Unanswered /\ c.kind \in {"login", "post"}
        /\ c.page = "configuration" => c.kind # "login" /\ shown.page = "configuration" /\ c.token = form.xToken
        /\ c.page = "configuration" /\ c.answer = "unauthorized" => Refused(form.xToken)
        /\ c.kind = "login" /\ c.answer = "ok" => c.value \in Int /\ c.value =< token
    /\ \A c, d \in knxCalls : OnPage(c, {"config"}) /\ OnPage(d, {"config"}) => c = d
    /\ \A c, d \in knxCalls : OnPage(c, {"gateways", "post"}) /\ OnPage(d, {"gateways", "post"}) => c = d
    /\ Waits({"gateways", "post"}) => form.overlay

\* A post that is executed after its page has been left is refused.
PostsRefused ==
    /\ \A c \in knxCalls : c.kind = "post" /\ c.page = "left" => Refused(c.token)
    /\ shown.page = "configuration" /\ ~AtPage /\ Waits({"post"}) => Refused(form.xToken)

TokensKnown ==
    /\ cookie =< token /\ form.xToken =< token
    /\ \A c \in knxCalls : c.token =< token
    /\ cookie # NoCookie /\ ~renewed => cookie = token
    /\ AtConfiguration => form.xToken = cookie

FormAgrees ==
    /\ Waits({"config"}) =>
        /\ form.overlay /\ form.manual = Nothing /\ form.checked /\ ~form.databaseOff /\ edited = {}
        /\ Waits({"gateways"})
        /\ \A c \in knxCalls : OnPage(c, {"config"}) /\ c.answer = "ok" =>
                c.value = config.gateway /\ c.storage = config.storage
    /\ ~Waits({"config"}) =>
        /\ "gateway" \notin edited => form.manual = config.gateway
        /\ "gateway" \notin edited /\ ~Waits({"gateways"}) => PostedGateway = config.gateway
        /\ "storage" \notin edited => form.checked = config.storage
        /\ form.databaseOff = ~form.checked
        /\ \A c \in knxCalls : OnPage(c, {"post"}) /\ c.answer = Unanswered =>
                c.gateway = PostedGateway /\ c.storage = form.checked

KnxInv ==
    /\ KnxTyped /\ CallsKnown /\ PostsRefused /\ TokensKnown
    /\ AtConfiguration /\ ~early => FormAgrees

\* Calls as they are made and answered.
MadeAs(c, kind, tok, gateway, storage) ==
    /\ CallShaped(c) /\ c.kind = kind /\ c.token = tok /\ c.gateway = gateway /\ c.storage = storage
    /\ c.page = shown.page /\ c.answer = Unanswered

Replies(a, c, answer) ==
    CallShaped(a) /\ a.kind = c.kind /\ a.page = c.page /\ a.token = c.token /\ a.answer = answer

LEMMA CallMade ==
    ASSUME KnxTyped, NEW kind \in {"login", "gateways", "post", "config"}, NEW tok \in Int, NEW gateway \in Values,
           NEW storage \in BOOLEAN
    PROVE  MadeAs(KnxCall(kind, tok, gateway, storage), kind, tok, gateway, storage)
BY DEF MadeAs, KnxTyped, KnxCall, CallShaped, Values, Nothing, Unanswered

LEMMA AnswerMade ==
    ASSUME NEW c, CallShaped(c), NEW answer \in {"ok", "unauthorized"}
    PROVE  /\ Replies([c EXCEPT !.answer = answer], c, answer)
           /\ \A found \in SUBSET IPs : Replies([c EXCEPT !.answer = answer, !.found = found], c, answer)
BY DEF CallShaped, Replies

LEMMA ValueAnswered ==
    ASSUME NEW c, CallShaped(c), NEW value \in Values
    PROVE  /\ Replies([c EXCEPT !.answer = "ok", !.value = value], c, "ok")
           /\ [c EXCEPT !.answer = "ok", !.value = value].value = value
BY DEF CallShaped, Replies

ConfigReply(c, value, storage) == [c EXCEPT !.answer = "ok", !.value = value, !.storage = storage]

LEMMA ConfigAnswered ==
    ASSUME NEW c, CallShaped(c), NEW value \in Values, NEW storage \in BOOLEAN
    PROVE  LET a == ConfigReply(c, value, storage)
           IN  Replies(a, c, "ok") /\ a.value = value /\ a.storage = storage
BY DEF CallShaped, Replies, ConfigReply

\* An answer takes the place of its call.
LEMMA AnsweredKnown ==
    ASSUME KnxTyped, CallsKnown, PostsRefused, TokensKnown, NEW c \in knxCalls, c.answer = Unanswered,
           NEW answer, CallShaped(answer), answer.kind = c.kind, answer.page = c.page, answer.token = c.token,
           answer.answer # Unanswered, Answered(c, answer), UNCHANGED <<shown, form>>, token' \in Nat, token =< token',
           \A t \in Int : t =< token /\ Refused(t) => Refused(t)',
           c.page = "configuration" /\ answer.answer = "unauthorized" => Refused(form.xToken)',
           c.kind = "login" /\ answer.answer = "ok" => answer.value \in Int /\ answer.value =< token'
    PROVE  /\ \A d \in knxCalls' : CallShaped(d)
           /\ CallsKnown' /\ PostsRefused'
           /\ \A d \in knxCalls' : d.token =< token'
<1>1. \A d \in knxCalls' : d \in knxCalls \/ (d = answer /\ d.page # "left")
  BY DEF Answered
<1>2. form.xToken \in Int /\ \A d \in knxCalls : d.token \in Int /\ d.token =< token /\ (d.value \in Int /\ d.value =< token => d.value =< token')
  BY DEF KnxTyped, TokensKnown, CallShaped
<1>3. \A kinds : \A d \in knxCalls' : OnPage(d, kinds) => (d \in knxCalls /\ d # c) \/ (d = answer /\ OnPage(c, kinds))
  BY DEF Answered, OnPage
<1>4. \A kinds : Waits(kinds)' => Waits(kinds)
  BY <1>3 DEF Waits, OnPage
<1>5. \A d \in knxCalls' : CallShaped(d)
  BY <1>1 DEF KnxTyped
<1>6. CallsKnown'
  <2>1. \A d \in knxCalls' :
            /\ d.page = "index" => d.kind = "login" /\ shown'.page = "index"
            /\ d.page = "left" => d.answer = Unanswered /\ d.kind \in {"login", "post"}
            /\ d.page = "configuration" => d.kind # "login" /\ shown'.page = "configuration" /\ d.token = form'.xToken
    BY <1>1 DEF CallsKnown
  <2>2. \A d \in knxCalls' : d.page = "configuration" /\ d.answer = "unauthorized" => Refused(form.xToken)'
    BY <1>1, <1>2 DEF CallsKnown, TokensKnown
  <2>3. \A d \in knxCalls' : d.kind = "login" /\ d.answer = "ok" => d.value \in Int /\ d.value =< token'
    BY <1>1, <1>2 DEF CallsKnown
  <2>4. \A a, b \in knxCalls' : OnPage(a, {"config"}) /\ OnPage(b, {"config"}) => a = b
    BY <1>3 DEF CallsKnown
  <2>5. \A a, b \in knxCalls' : OnPage(a, {"gateways", "post"}) /\ OnPage(b, {"gateways", "post"}) => a = b
    BY <1>3 DEF CallsKnown
  <2>6. Waits({"gateways", "post"})' => form'.overlay
    BY <1>4 DEF CallsKnown
  <2> QED
    BY <2>1, <2>2, <2>3, <2>4, <2>5, <2>6 DEF CallsKnown, OnPage
<1>7. PostsRefused'
  <2>1. \A d \in knxCalls' : d.kind = "post" /\ d.page = "left" => Refused(d.token)'
    BY <1>1, <1>2 DEF PostsRefused
  <2>2. shown'.page = "configuration" /\ ~AtPage' /\ Waits({"post"})' => Refused(form.xToken)'
    BY <1>2, <1>4 DEF PostsRefused, AtPage, TokensKnown
  <2> QED
    BY <2>1, <2>2 DEF PostsRefused
<1>8. \A d \in knxCalls' : d.token =< token'
  <2>1. c.token =< token'
    BY <1>2 DEF KnxTyped
  <2> QED
    BY <1>1, <1>2, <2>1 DEF KnxTyped
<1> QED
  BY <1>5, <1>6, <1>7, <1>8

\* A call that has been answered is heard, by a page that may be left for the login page.
LEMMA HeardKnown ==
    ASSUME KnxTyped, CallsKnown, PostsRefused, TokensKnown, NEW c \in knxCalls, c.answer # Unanswered,
           c.page = "configuration", knxCalls' = knxCalls \ {c}, UNCHANGED <<token, expired>>, form'.xToken = form.xToken,
           c.kind \in {"gateways", "post"} \/ form'.overlay = form.overlay,
           shown' = shown \/ (shown' = [shown EXCEPT !.going = "index"] /\ c.answer = "unauthorized")
    PROVE  /\ \A d \in knxCalls' : CallShaped(d)
           /\ CallsKnown' /\ PostsRefused'
           /\ \A d \in knxCalls' : d.token =< token'
           /\ AtConfiguration' => AtConfiguration /\ shown' = shown
<1>1. \A t : Refused(t)' <=> Refused(t)
  BY DEF Refused
<1>2. shown'.page = shown.page /\ (shown' = shown \/ (c.answer = "unauthorized" /\ shown'.going = "index"))
  BY DEF KnxTyped
<1>3. \A kinds : Waits(kinds)' => Waits(kinds)
  BY DEF Waits, OnPage
<1>4. CallsKnown'
  <2>1. Waits({"gateways", "post"})' => form'.overlay
    BY DEF CallsKnown, Waits, OnPage
  <2>2. \A d \in knxCalls' :
        /\ d.page = "index" => d.kind = "login" /\ shown'.page = "index"
        /\ d.page = "left" => d.answer = Unanswered /\ d.kind \in {"login", "post"}
        /\ d.page = "configuration" => d.kind # "login" /\ shown'.page = "configuration" /\ d.token = form'.xToken
        /\ d.page = "configuration" /\ d.answer = "unauthorized" => Refused(form.xToken)
        /\ d.kind = "login" /\ d.answer = "ok" => d.value \in Int /\ d.value =< token
    BY <1>2 DEF CallsKnown
  <2> QED
    BY <1>1, <2>1, <2>2 DEF CallsKnown, OnPage
<1>5. PostsRefused'
  <2>1. c.answer = "unauthorized" => Refused(form.xToken)
    BY DEF CallsKnown
  <2> QED
    BY <1>1, <1>2, <1>3, <2>1 DEF PostsRefused, AtPage
<1>6. AtConfiguration' => AtConfiguration /\ shown' = shown
  BY <1>2 DEF AtConfiguration, AtPage, Nowhere
<1> QED
  BY <1>4, <1>5, <1>6 DEF KnxTyped, TokensKnown

LEMMA SendPasswordKept ==
    ASSUME KnxInv, SendPassword
    PROVE  KnxInv'
<1> DEFINE call == KnxCall("login", NoToken, Nothing, FALSE)
<1>1. /\ shown.page = "index" /\ knxCalls' = knxCalls \cup {call}
      /\ UNCHANGED <<token, expired, config, cookie, shown, form, nActions, renewed, edited, early>>
  BY DEF SendPassword, Posts
<1>2. CallShaped(call) /\ call.kind = "login" /\ call.token = NoToken /\ call.page = "index" /\ call.answer = Unanswered
  <2>1. NoToken \in Int /\ Nothing \in Values /\ KnxTyped
    BY DEF KnxInv, Values, NoToken, Nothing
  <2>2. MadeAs(call, "login", NoToken, Nothing, FALSE)
    BY <2>1, CallMade
  <2> QED
    BY <1>1, <2>2 DEF MadeAs
<1> HIDE DEF call
<1>3. \A kinds : Waits(kinds)' => Waits(kinds)
  BY <1>1, <1>2 DEF Waits, OnPage
<1>4. KnxTyped'
  BY <1>1, <1>2 DEF KnxInv, KnxTyped
<1>5. CallsKnown'
  BY <1>1, <1>2, <1>3 DEF KnxInv, CallsKnown, OnPage, Refused, Unanswered
<1>6. PostsRefused' /\ TokensKnown' /\ ~AtConfiguration'
  BY <1>1, <1>2 DEF KnxInv, KnxTyped, PostsRefused, TokensKnown, AtConfiguration, Refused, NoToken
<1> QED
  BY <1>4, <1>5, <1>6 DEF KnxInv

LEMMA LoginExecutedKept ==
    ASSUME KnxInv, NEW c \in knxCalls, LoginExecuted(c)
    PROVE  KnxInv'
<1>1. /\ c.kind = "login" /\ c.answer = Unanswered /\ renewed' = (renewed \/ (token' # token /\ cookie # NoCookie))
      /\ UNCHANGED <<config, cookie, shown, form, nActions, edited, early>>
  BY DEF LoginExecuted
<1>2. KnxTyped /\ CallsKnown /\ PostsRefused /\ TokensKnown /\ CallShaped(c)
  BY DEF KnxInv, KnxTyped
<1>3. PICK answer : /\ CallShaped(answer) /\ answer.kind = c.kind /\ answer.page = c.page /\ answer.token = c.token
                    /\ answer.answer # Unanswered /\ Answered(c, answer)
                    /\ \/ /\ token' = token + 1 /\ expired' = FALSE
                          /\ answer.answer = "ok" => answer.value = token'
                       \/ UNCHANGED <<token, expired>> /\ answer.answer = "unauthorized"
  <2>1. CASE token' = token + 1 /\ expired' = FALSE /\ Answered(c, [c EXCEPT !.answer = "ok", !.value = token + 1])
    <3> DEFINE answer == [c EXCEPT !.answer = "ok", !.value = token + 1]
    <3>1. token + 1 \in Values
      BY <1>2 DEF KnxTyped, Values
    <3>2. Replies(answer, c, "ok") /\ answer.value = token + 1
      BY <1>2, <3>1, ValueAnswered
    <3> HIDE DEF answer
    <3>3. Answered(c, answer)
      BY <2>1 DEF answer
    <3>4. answer.answer = "ok" /\ answer.answer # Unanswered /\ answer.value = token'
      BY <2>1, <3>2 DEF Replies, Unanswered
    <3> QED
      BY <2>1, <3>2, <3>3, <3>4, Zenon DEF Replies
  <2>2. CASE UNCHANGED <<token, expired>> /\ Answered(c, [c EXCEPT !.answer = "unauthorized"])
    <3> DEFINE answer == [c EXCEPT !.answer = "unauthorized"]
    <3>1. Nothing \in Values
      BY DEF Values, Nothing
    <3>2. Replies(answer, c, "unauthorized")
      BY <1>2, <3>1, AnswerMade
    <3> HIDE DEF answer
    <3>3. Answered(c, answer)
      BY <2>2 DEF answer
    <3> QED
      BY <2>2, <3>2, <3>3 DEF Replies, Unanswered
  <2> QED
    BY <2>1, <2>2 DEF LoginExecuted
<1>4. token \in Nat /\ token' \in Nat /\ token =< token' /\ (token' = token \/ token' = token + 1)
  BY <1>2, <1>3 DEF KnxTyped
<1>5. \A t \in Int : t =< token /\ Refused(t) => Refused(t)'
  BY <1>3, <1>4 DEF Refused
<1>6. c.page # "configuration"
  BY <1>1, <1>2 DEF CallsKnown
<1>7. answer.answer = "ok" => answer.value \in Int /\ answer.value =< token'
  BY <1>3, <1>4
<1>8. /\ \A d \in knxCalls' : CallShaped(d)
      /\ CallsKnown' /\ PostsRefused'
      /\ \A d \in knxCalls' : d.token =< token'
  BY <1>1, <1>2, <1>3, <1>4, <1>5, <1>6, <1>7, AnsweredKnown
<1>9. KnxTyped'
  BY <1>1, <1>2, <1>3, <1>4, <1>8 DEF KnxTyped
<1>10. TokensKnown'
  <2>1. cookie \in Int /\ form.xToken \in Int /\ renewed \in BOOLEAN
    BY <1>2 DEF KnxTyped
  <2>2. cookie' =< token' /\ form'.xToken =< token'
    BY <1>1, <1>2, <1>4, <2>1 DEF TokensKnown
  <2>3. cookie' # NoCookie /\ ~renewed' => cookie' = token'
    BY <1>1, <1>2, <2>1 DEF TokensKnown
  <2>4. AtConfiguration' => form'.xToken = cookie'
    BY <1>1, <1>2 DEF TokensKnown, AtConfiguration, AtPage
  <2> QED
    BY <1>8, <2>2, <2>3, <2>4 DEF TokensKnown
<1>11. AtConfiguration' /\ ~early' => FormAgrees'
  <2>1. \A d \in knxCalls' : d.page = "configuration" => d \in knxCalls
    BY <1>3, <1>6 DEF Answered
  <2>2. \A d \in knxCalls : d.page = "configuration" => d \in knxCalls'
    BY <1>3, <1>6 DEF Answered
  <2>3. \A kinds : Waits(kinds)' = Waits(kinds)
    BY <2>1, <2>2 DEF Waits, OnPage
  <2>4. PostedGateway' = PostedGateway
    BY <1>1 DEF PostedGateway
  <2>5. AtConfiguration' => AtConfiguration
    BY <1>1 DEF AtConfiguration, AtPage
  <2> QED
    BY <1>1, <2>1, <2>3, <2>4, <2>5 DEF KnxInv, FormAgrees, OnPage
<1> QED
  BY <1>8, <1>9, <1>10, <1>11 DEF KnxInv

\* The page of a call that is on the login page is not the configuration page.
LEMMA LoginHeardKept ==
    ASSUME KnxInv, NEW c \in knxCalls, LoginHeard(c)
    PROVE  KnxInv'
<1>1. /\ c.kind = "login" /\ c.answer # Unanswered /\ knxCalls' = knxCalls \ {c}
      /\ UNCHANGED <<token, expired, config, form, nActions, edited, early>>
      /\ \/ c.answer = "ok" /\ cookie' = c.value /\ shown' = [shown EXCEPT !.going = "configuration"]
            /\ renewed' = (c.value # token)
         \/ UNCHANGED <<cookie, shown, renewed>>
  BY DEF LoginHeard, WriteCookie
<1>2. KnxTyped /\ CallsKnown /\ PostsRefused /\ TokensKnown /\ CallShaped(c)
  BY DEF KnxInv, KnxTyped
<1>3. shown.page = "index" /\ shown'.page = "index" /\ \A d \in knxCalls : d.page # "configuration"
  BY <1>1, <1>2 DEF CallsKnown, CallShaped, KnxTyped
<1>4. c.answer = "ok" => c.value \in Int /\ c.value =< token
  BY <1>1, <1>2 DEF CallsKnown
<1>5. KnxTyped'
  BY <1>1, <1>2, <1>4 DEF KnxTyped
<1>6. CallsKnown' /\ PostsRefused'
  BY <1>1, <1>2, <1>3 DEF CallsKnown, PostsRefused, Waits, OnPage, Refused
<1>7. TokensKnown' /\ ~AtConfiguration'
  BY <1>1, <1>2, <1>3, <1>4 DEF TokensKnown, AtConfiguration
<1> QED
  BY <1>5, <1>6, <1>7 DEF KnxInv

\* The page is left with a post under way only when its token has been refused.
LEMMA LoadPageKept ==
    ASSUME KnxInv, LoadPage
    PROVE  KnxInv'
<1> DEFINE waiting == {c \in knxCalls : c.answer = Unanswered /\ c.kind \in {"login", "post"}}
           fresh(kind) == [KnxCall(kind, cookie, Nothing, FALSE) EXCEPT !.id = 1, !.page = "configuration"]
<1>1. /\ ~AtPage /\ shown' = [page |-> shown.going, going |-> Nowhere]
      /\ form' = [BlankConfigForm EXCEPT !.xToken = cookie, !.overlay = (shown.going = "configuration")]
      /\ edited' = {} /\ early' = FALSE
      /\ UNCHANGED <<token, expired, config, cookie, nActions, renewed>>
      /\ knxCalls' = {[c EXCEPT !.page = "left"] : c \in waiting} \cup
                     (IF shown.going # "configuration" THEN {} ELSE {fresh(kind) : kind \in {"config", "gateways"}})
  BY DEF LoadPage, ReadCookie
<1>2. KnxTyped /\ CallsKnown /\ PostsRefused /\ TokensKnown
  BY DEF KnxInv
<1>3. shown.going \in {"index", "configuration"} /\ shown'.page = shown.going /\ shown'.going = Nowhere
  BY <1>1, <1>2 DEF KnxTyped, AtPage
<1>4. /\ form' = [xToken |-> cookie, manual |-> Nothing, manualOff |-> FALSE, select |-> NoCookie, found |-> {},
                  checked |-> TRUE, databaseOff |-> FALSE, overlay |-> (shown.going = "configuration")]
  BY <1>1 DEF BlankConfigForm
<1>5. \A kind \in {"config", "gateways"} :
          /\ CallShaped(fresh(kind)) /\ fresh(kind).kind = kind /\ fresh(kind).token = cookie
          /\ fresh(kind).page = "configuration" /\ fresh(kind).answer = Unanswered
  <2> SUFFICES ASSUME NEW kind \in {"config", "gateways"}
               PROVE  /\ CallShaped(fresh(kind)) /\ fresh(kind).kind = kind /\ fresh(kind).token = cookie
                      /\ fresh(kind).page = "configuration" /\ fresh(kind).answer = Unanswered
    OBVIOUS
  <2> DEFINE call == KnxCall(kind, cookie, Nothing, FALSE)
  <2>1. cookie \in Int /\ Nothing \in Values
    BY <1>2 DEF KnxTyped, Values, Nothing
  <2>2. MadeAs(call, kind, cookie, Nothing, FALSE)
    BY <1>2, <2>1, CallMade
  <2>3. fresh(kind) = [call EXCEPT !.id = 1, !.page = "configuration"]
    OBVIOUS
  <2> HIDE DEF call
  <2> QED
    BY <2>2, <2>3 DEF MadeAs, CallShaped
<1> HIDE DEF fresh
<1>6. \A d \in knxCalls' :
          \/ /\ d.page = "left" /\ CallShaped(d) /\ d.kind \in {"login", "post"} /\ d.answer = Unanswered
             /\ d.token =< token /\ (d.kind = "post" => Refused(d.token))
          \/ shown.going = "configuration" /\ d \in {fresh("config"), fresh("gateways")}
  <2> SUFFICES ASSUME NEW c \in waiting
               PROVE  LET d == [c EXCEPT !.page = "left"]
                      IN  /\ d.page = "left" /\ CallShaped(d) /\ d.kind \in {"login", "post"} /\ d.answer = Unanswered
                          /\ d.token =< token /\ (d.kind = "post" => Refused(d.token))
    BY <1>1
  <2>1. CallShaped(c) /\ c \in knxCalls /\ c.token =< token
    BY <1>2 DEF KnxTyped, TokensKnown
  <2>2. c.kind = "post" => Refused(c.token)
    <3>1. CASE c.page = "left"
      BY <1>2, <2>1, <3>1 DEF PostsRefused
    <3>2. CASE c.page = "configuration" /\ c.kind = "post"
      <4>1. c.token = form.xToken /\ shown.page = "configuration" /\ Waits({"post"})
        BY <1>2, <2>1, <3>2 DEF CallsKnown, Waits, OnPage
      <4> QED
        BY <1>1, <1>2, <4>1 DEF PostsRefused
    <3>3. CASE c.page = "index"
      BY <1>2, <2>1, <3>3 DEF CallsKnown
    <3> QED
      BY <2>1, <3>1, <3>2, <3>3 DEF CallShaped
  <2> QED
    BY <2>1, <2>2 DEF CallShaped
<1>7. \A kinds : Waits(kinds)' => shown.going = "configuration" /\ ("config" \in kinds \/ "gateways" \in kinds)
  BY <1>5, <1>6 DEF Waits, OnPage
<1>8. KnxTyped'
  <2>1. \A d \in knxCalls' : CallShaped(d)
    BY <1>5, <1>6
  <2>2. form' \in [xToken : Int, manual : Values, manualOff : BOOLEAN, select : Values, found : SUBSET IPs,
                   checked : BOOLEAN, databaseOff : BOOLEAN, overlay : BOOLEAN]
    BY <1>2, <1>4 DEF KnxTyped, Values, Nothing, NoCookie
  <2> QED
    BY <1>1, <1>2, <1>3, <2>1, <2>2 DEF KnxTyped
<1>9. CallsKnown'
  <2>1. \A a, b \in knxCalls' : OnPage(a, {"config"}) /\ OnPage(b, {"config"}) => a = b
    BY <1>5, <1>6 DEF OnPage
  <2>2. \A a, b \in knxCalls' : OnPage(a, {"gateways", "post"}) /\ OnPage(b, {"gateways", "post"}) => a = b
    BY <1>5, <1>6 DEF OnPage
  <2>3. Waits({"gateways", "post"})' => form'.overlay
    BY <1>4, <1>7
  <2>4. \A d \in knxCalls' :
        /\ d.page = "index" => d.kind = "login" /\ shown'.page = "index"
        /\ d.page = "left" => d.answer = Unanswered /\ d.kind \in {"login", "post"}
        /\ d.page = "configuration" => d.kind # "login" /\ shown'.page = "configuration" /\ d.token = form'.xToken
        /\ d.answer = Unanswered
    BY <1>3, <1>4, <1>5, <1>6
  <2> QED
    BY <2>1, <2>2, <2>3, <2>4 DEF CallsKnown, OnPage, Unanswered
<1>10. PostsRefused'
  <2>1. \A d \in knxCalls' : d.kind = "post" /\ d.page = "left" => Refused(d.token)
    BY <1>5, <1>6
  <2> QED
    BY <1>1, <1>3, <2>1 DEF PostsRefused, AtPage, Refused
<1>11. TokensKnown'
  <2>1. \A d \in knxCalls' : d.token =< token
    BY <1>2, <1>5, <1>6 DEF TokensKnown
  <2> QED
    BY <1>1, <1>2, <1>4, <2>1 DEF TokensKnown
<1>12. AtConfiguration' => FormAgrees'
  <2> SUFFICES ASSUME AtConfiguration'
               PROVE  FormAgrees'
    OBVIOUS
  <2>1. shown.going = "configuration"
    BY <1>3 DEF AtConfiguration
  <2>2. fresh("config") \in knxCalls' /\ fresh("gateways") \in knxCalls'
    BY <1>1, <2>1
  <2>3. Waits({"config"})' /\ Waits({"gateways"})'
    BY <1>5, <2>2 DEF Waits, OnPage
  <2>4. \A d \in knxCalls' : d.answer # "ok"
    BY <1>5, <1>6 DEF Unanswered
  <2>5. /\ form'.overlay /\ form'.manual = Nothing /\ form'.checked /\ ~form'.databaseOff /\ edited' = {}
    <3>1. (shown.going = "configuration") = TRUE
      BY <2>1
    <3>2. form' = [xToken |-> cookie, manual |-> Nothing, manualOff |-> FALSE, select |-> NoCookie, found |-> {},
                   checked |-> TRUE, databaseOff |-> FALSE, overlay |-> TRUE]
      BY <1>4, <3>1
    <3>3. form'.overlay /\ form'.manual = Nothing /\ form'.checked /\ ~form'.databaseOff
      BY <3>2
    <3> QED
      BY <1>1, <3>3
  <2> QED
    BY <2>3, <2>4, <2>5 DEF FormAgrees
<1> QED
  BY <1>8, <1>9, <1>10, <1>11, <1>12 DEF KnxInv

LEMMA GetExecutedKept ==
    ASSUME KnxInv, NEW c \in knxCalls, GetExecuted(c)
    PROVE  KnxInv'
<1>1. /\ c.kind \in {"config", "gateways"} /\ c.answer = Unanswered
      /\ UNCHANGED <<token, expired, config, cookie, shown, form, nActions, renewed, edited, early>>
  BY DEF GetExecuted
<1>2. KnxTyped /\ CallsKnown /\ PostsRefused /\ TokensKnown /\ CallShaped(c)
  BY DEF KnxInv, KnxTyped
<1>3. PICK answer : /\ CallShaped(answer) /\ answer.kind = c.kind /\ answer.page = c.page /\ answer.token = c.token
                    /\ answer.answer # Unanswered /\ Answered(c, answer)
                    /\ answer.answer = "unauthorized" => ~CallAccepted(c)
                    /\ c.kind = "config" /\ answer.answer = "ok" =>
                            answer.value = config.gateway /\ answer.storage = config.storage
  <2>1. CASE ~CallAccepted(c) /\ Answered(c, [c EXCEPT !.answer = "unauthorized"])
    <3> DEFINE answer == [c EXCEPT !.answer = "unauthorized"]
    <3>1. Replies(answer, c, "unauthorized")
      BY <1>2, AnswerMade
    <3> HIDE DEF answer
    <3>2. answer.answer # Unanswered /\ answer.answer # "ok" /\ Answered(c, answer)
      BY <2>1, <3>1 DEF answer, Replies, Unanswered
    <3> QED
      BY <2>1, <3>1, <3>2, Zenon DEF Replies
  <2>2. CASE Answered(c, [c EXCEPT !.answer = "ok", !.value = config.gateway, !.storage = config.storage])
    <3> DEFINE answer == ConfigReply(c, config.gateway, config.storage)
    <3>1. config.gateway \in Values /\ config.storage \in BOOLEAN
      BY <1>2 DEF KnxTyped
    <3>2. Replies(answer, c, "ok") /\ answer.value = config.gateway /\ answer.storage = config.storage
      BY <1>2, <3>1, ConfigAnswered
    <3> HIDE DEF answer
    <3>3. answer.answer # Unanswered /\ answer.answer # "unauthorized" /\ Answered(c, answer)
      <4>1. Answered(c, answer)
        BY <2>2 DEF answer, ConfigReply
      <4> QED
        BY <3>2, <4>1 DEF Replies, Unanswered
    <3> QED
      BY <3>2, <3>3, Zenon DEF Replies
  <2>3. ASSUME c.kind = "gateways", NEW found \in SUBSET IPs, Answered(c, [c EXCEPT !.answer = "ok", !.found = found])
        PROVE  \E answer :
                    /\ CallShaped(answer) /\ answer.kind = c.kind /\ answer.page = c.page /\ answer.token = c.token
                    /\ answer.answer # Unanswered /\ Answered(c, answer)
                    /\ answer.answer = "unauthorized" => ~CallAccepted(c)
                    /\ c.kind = "config" /\ answer.answer = "ok" =>
                            answer.value = config.gateway /\ answer.storage = config.storage
    <3> DEFINE answer == [c EXCEPT !.answer = "ok", !.found = found]
    <3>1. Replies(answer, c, "ok")
      BY <1>2, AnswerMade
    <3> HIDE DEF answer
    <3>2. answer.answer # Unanswered /\ answer.answer # "unauthorized" /\ Answered(c, answer) /\ c.kind # "config"
      BY <2>3, <3>1 DEF answer, Replies, Unanswered
    <3> QED
      BY <3>1, <3>2, Zenon DEF Replies
  <2> QED
    BY <2>1, <2>2, <2>3 DEF GetExecuted
<1>4. \A t : Refused(t)' <=> Refused(t)
  BY <1>1 DEF Refused
<1>5. c.page = "configuration" /\ answer.answer = "unauthorized" => Refused(form.xToken)'
  <2>1. c.page = "configuration" => c.token = form.xToken
    BY <1>2 DEF CallsKnown
  <2> QED
    BY <1>1, <1>3, <2>1 DEF CallAccepted, Refused
<1>6. /\ \A d \in knxCalls' : CallShaped(d)
      /\ CallsKnown' /\ PostsRefused'
      /\ \A d \in knxCalls' : d.token =< token'
  <2>1. token \in Nat /\ token' = token /\ c.kind # "login"
    BY <1>1, <1>2 DEF KnxTyped
  <2> QED
    BY <1>1, <1>2, <1>3, <1>4, <1>5, <2>1, AnsweredKnown
<1>7. KnxTyped' /\ TokensKnown'
  BY <1>1, <1>2, <1>6 DEF KnxTyped, TokensKnown, AtConfiguration, AtPage
<1>8. AtConfiguration' /\ ~early' => FormAgrees'
  <2> SUFFICES ASSUME AtConfiguration', ~early'
               PROVE  FormAgrees'
    OBVIOUS
  <2>1. FormAgrees
    BY <1>1 DEF AtConfiguration, AtPage, KnxInv
  <2>2. \A d \in knxCalls' : d \in knxCalls \/ d = answer
    BY <1>3 DEF Answered
  <2>3. c.page # "left" => answer \in knxCalls' /\ \A d \in knxCalls : d # c => d \in knxCalls'
    BY <1>3 DEF Answered
  <2>4. \A kinds : Waits(kinds)' <=> Waits(kinds)
    <3> TAKE kinds
    <3>1. OnPage(answer, kinds) <=> OnPage(c, kinds)
      BY <1>3 DEF OnPage
    <3>2. OnPage(c, kinds) => c.page # "left"
      BY DEF OnPage
    <3>3. c.page = "left" => knxCalls' = knxCalls \ {c}
      BY <1>3 DEF Answered
    <3>4. \A d : OnPage(d, kinds)' <=> OnPage(d, kinds)
      BY DEF OnPage
    <3> QED
      BY <2>2, <2>3, <3>1, <3>2, <3>3, <3>4 DEF Waits
  <2>5. PostedGateway' = PostedGateway
    BY <1>1 DEF PostedGateway
  <2>6. \A d \in knxCalls' : OnPage(d, {"post"}) => d \in knxCalls
    BY <1>1, <1>3, <2>2 DEF OnPage
  <2>7. \A d \in knxCalls' : OnPage(d, {"config"}) /\ d.answer = "ok" /\ d = answer =>
            d.value = config.gateway /\ d.storage = config.storage
    BY <1>3 DEF OnPage
  <2>8. Waits({"config"})' =>
        /\ form'.overlay /\ form'.manual = Nothing /\ form'.checked /\ ~form'.databaseOff /\ edited' = {}
        /\ Waits({"gateways"})'
        /\ \A d \in knxCalls' : OnPage(d, {"config"}) /\ d.answer = "ok" =>
                d.value = config.gateway /\ d.storage = config.storage
    BY <1>1, <2>1, <2>2, <2>4, <2>7 DEF FormAgrees
  <2>9. ~Waits({"config"})' =>
        /\ "gateway" \notin edited' => form'.manual = config'.gateway
        /\ "gateway" \notin edited' /\ ~Waits({"gateways"})' => PostedGateway' = config'.gateway
        /\ "storage" \notin edited' => form'.checked = config'.storage
        /\ form'.databaseOff = ~form'.checked
        /\ \A d \in knxCalls' : OnPage(d, {"post"}) /\ d.answer = Unanswered =>
                d.gateway = PostedGateway' /\ d.storage = form'.checked
    BY <1>1, <2>1, <2>4, <2>5, <2>6 DEF FormAgrees
  <2> QED
    BY <1>1, <2>8, <2>9 DEF FormAgrees, OnPage
<1> QED
  BY <1>6, <1>7, <1>8 DEF KnxInv

\* What a post changes of the configuration is what the page shows, and a post from a page that has been
\* left changes nothing.
LEMMA PostExecutedKept ==
    ASSUME KnxInv, NEW c \in knxCalls, PostExecuted(c)
    PROVE  KnxInv'
<1> DEFINE answer == [c EXCEPT !.answer = IF CallAccepted(c) THEN "ok" ELSE "unauthorized"]
<1>1. /\ c.kind = "post" /\ c.answer = Unanswered /\ Answered(c, answer)
      /\ config' = IF CallAccepted(c) THEN [gateway |-> c.gateway, storage |-> c.storage] ELSE config
      /\ UNCHANGED <<token, expired, cookie, shown, form, nActions, renewed, edited, early>>
  BY DEF PostExecuted
<1>2. KnxTyped /\ CallsKnown /\ PostsRefused /\ TokensKnown /\ CallShaped(c)
  BY DEF KnxInv, KnxTyped
<1>3. Replies(answer, c, IF CallAccepted(c) THEN "ok" ELSE "unauthorized")
  BY <1>2, AnswerMade
<1> HIDE DEF answer
<1>4. \A t : Refused(t)' <=> Refused(t)
  BY <1>1 DEF Refused
<1>5. c.page = "configuration" /\ answer.answer = "unauthorized" => Refused(form.xToken)'
  <2>1. c.page = "configuration" => c.token = form.xToken
    BY <1>2 DEF CallsKnown
  <2> QED
    BY <1>1, <1>3, <2>1 DEF CallAccepted, Refused, Replies
<1>6. /\ \A d \in knxCalls' : CallShaped(d)
      /\ CallsKnown' /\ PostsRefused'
      /\ \A d \in knxCalls' : d.token =< token'
  <2>1. token \in Nat /\ token' = token /\ c.kind # "login"
    BY <1>1, <1>2 DEF KnxTyped
  <2>2. /\ CallShaped(answer) /\ answer.kind = c.kind /\ answer.page = c.page /\ answer.token = c.token
        /\ answer.answer # Unanswered
    BY <1>3 DEF Replies, Unanswered
  <2> QED
    BY <1>1, <1>2, <1>4, <1>5, <2>1, <2>2, AnsweredKnown
<1>7. KnxTyped' /\ TokensKnown'
  <2>1. config' \in [gateway : Values, storage : BOOLEAN]
    BY <1>1, <1>2 DEF KnxTyped, CallShaped
  <2> QED
    BY <1>1, <1>2, <1>6, <2>1 DEF KnxTyped, TokensKnown, AtConfiguration, AtPage
<1>8. AtConfiguration' /\ ~early' => FormAgrees'
  <2> SUFFICES ASSUME AtConfiguration', ~early'
               PROVE  FormAgrees'
    OBVIOUS
  <2>1. FormAgrees
    BY <1>1 DEF AtConfiguration, AtPage, KnxInv
  <2>2. \A d \in knxCalls' : (d \in knxCalls /\ d # c) \/ (d = answer /\ c.page # "left")
    BY <1>1 DEF Answered
  <2>3. /\ c.page # "left" => answer \in knxCalls'
        /\ \A d \in knxCalls : d # c => d \in knxCalls'
    BY <1>1 DEF Answered
  <2>4. answer.page = c.page /\ answer.kind = "post" /\ answer.answer # Unanswered
    BY <1>1, <1>3 DEF Replies, Unanswered
  <2>5. /\ Waits({"config"})' <=> Waits({"config"})
        /\ Waits({"gateways"})' <=> Waits({"gateways"})
    BY <1>1, <2>2, <2>3, <2>4 DEF Waits, OnPage
  <2>6. PostedGateway' = PostedGateway
    BY <1>1 DEF PostedGateway
  <2>7. \A d \in knxCalls' : OnPage(d, {"config"}) => d \in knxCalls
    BY <2>2, <2>4 DEF OnPage
  <2>8. \A d \in knxCalls' : OnPage(d, {"post"}) /\ d.answer = Unanswered => d \in knxCalls
    BY <2>2, <2>4 DEF OnPage
  <2>9. CASE ~CallAccepted(c)
    <3>1. config' = config
      BY <1>1, <2>9
    <3>2. Waits({"config"})' =>
          /\ form'.overlay /\ form'.manual = Nothing /\ form'.checked /\ ~form'.databaseOff /\ edited' = {}
          /\ Waits({"gateways"})'
          /\ \A d \in knxCalls' : OnPage(d, {"config"}) /\ d.answer = "ok" =>
                  d.value = config'.gateway /\ d.storage = config'.storage
      BY <1>1, <2>1, <2>5, <2>7, <3>1 DEF FormAgrees
    <3>3. ~Waits({"config"})' =>
          /\ "gateway" \notin edited' => form'.manual = config'.gateway
          /\ "gateway" \notin edited' /\ ~Waits({"gateways"})' => PostedGateway' = config'.gateway
          /\ "storage" \notin edited' => form'.checked = config'.storage
          /\ form'.databaseOff = ~form'.checked
          /\ \A d \in knxCalls' : OnPage(d, {"post"}) /\ d.answer = Unanswered =>
                  d.gateway = PostedGateway' /\ d.storage = form'.checked
      BY <1>1, <2>1, <2>5, <2>6, <2>8, <3>1 DEF FormAgrees
    <3> QED
      BY <3>2, <3>3 DEF FormAgrees, OnPage
  <2>10. CASE CallAccepted(c)
    <3>1. c.page = "configuration"
      <4>1. c.page # "left"
        BY <1>1, <1>2, <2>10 DEF PostsRefused, CallAccepted, Refused
      <4>2. c.page # "index"
        BY <1>1, <1>2 DEF CallsKnown
      <4> QED
        BY <1>2, <4>1, <4>2 DEF CallShaped
    <3>2. ~Waits({"gateways"})
      BY <1>1, <1>2, <3>1 DEF CallsKnown, Waits, OnPage
    <3>3. ~Waits({"config"})
      BY <2>1, <3>2 DEF FormAgrees
    <3>4. c.gateway = PostedGateway /\ c.storage = form.checked
      BY <1>1, <2>1, <3>1, <3>3 DEF FormAgrees, OnPage
    <3>5. config'.gateway = PostedGateway /\ config'.storage = form.checked
      BY <1>1, <2>10, <3>4
    <3>6. \A d \in knxCalls' : ~(OnPage(d, {"post"}) /\ d.answer = Unanswered)
      BY <1>1, <1>2, <2>2, <2>4, <3>1 DEF CallsKnown, OnPage
    <3>7. "gateway" \notin edited => form.manual = PostedGateway
      BY <2>1, <3>2, <3>3 DEF FormAgrees
    <3>8. form.databaseOff = ~form.checked
      BY <2>1, <3>3 DEF FormAgrees
    <3> QED
      BY <1>1, <2>5, <2>6, <3>3, <3>5, <3>6, <3>7, <3>8 DEF FormAgrees, OnPage
  <2> QED
    BY <2>9, <2>10
<1> QED
  BY <1>6, <1>7, <1>8 DEF KnxInv

LEMMA ConfigHeardKept ==
    ASSUME KnxInv, NEW c \in knxCalls, ConfigHeard(c)
    PROVE  KnxInv'
<1> DEFINE filled == [form EXCEPT !.manual = c.value, !.databaseOff = @ \/ ~c.storage,
                                  !.checked = c.storage /\ (@ \/ "storage" \notin edited)]
<1>1. /\ c.kind = "config" /\ c.answer # Unanswered /\ c.page = "configuration" /\ knxCalls' = knxCalls \ {c}
      /\ UNCHANGED <<token, expired, config, cookie, nActions, renewed, edited, early>>
      /\ \/ c.answer = "unauthorized" /\ shown' = [shown EXCEPT !.going = "index"] /\ form' = form
         \/ c.answer = "ok" /\ form' = filled /\ shown' = shown
  BY DEF ConfigHeard, HeardBy, Redirects
<1>2. KnxTyped /\ CallsKnown /\ PostsRefused /\ TokensKnown /\ CallShaped(c)
  BY DEF KnxInv, KnxTyped
<1>3. /\ filled.xToken = form.xToken /\ filled.overlay = form.overlay /\ filled.select = form.select
      /\ filled.manual = c.value
      /\ filled \in [xToken : Int, manual : Values, manualOff : BOOLEAN, select : Values, found : SUBSET IPs,
                     checked : BOOLEAN, databaseOff : BOOLEAN, overlay : BOOLEAN]
  BY <1>2 DEF KnxTyped, CallShaped
<1>4. /\ filled.databaseOff = (form.databaseOff \/ ~c.storage)
      /\ filled.checked = (c.storage /\ (form.checked \/ "storage" \notin edited))
  BY <1>2 DEF KnxTyped, CallShaped
<1> HIDE DEF filled
<1>5. /\ \A d \in knxCalls' : CallShaped(d)
      /\ CallsKnown' /\ PostsRefused'
      /\ \A d \in knxCalls' : d.token =< token'
      /\ AtConfiguration' => AtConfiguration /\ shown' = shown
  BY <1>1, <1>2, <1>3, HeardKnown
<1>6. KnxTyped'
  BY <1>1, <1>2, <1>3, <1>5 DEF KnxTyped
<1>7. TokensKnown'
  BY <1>1, <1>2, <1>3, <1>5 DEF TokensKnown
<1>8. AtConfiguration' /\ ~early' => FormAgrees'
  <2> SUFFICES ASSUME AtConfiguration', ~early'
               PROVE  FormAgrees'
    OBVIOUS
  <2>1. shown' = shown /\ AtConfiguration /\ FormAgrees
    BY <1>1, <1>5 DEF KnxInv
  <2>2. c.answer = "ok" /\ form' = filled
    BY <1>1, <1>2, <2>1 DEF AtConfiguration, AtPage, KnxTyped, Nowhere
  <2>3. Waits({"config"})
    BY <1>1 DEF Waits, OnPage
  <2>4. /\ form.checked /\ ~form.databaseOff /\ edited = {} /\ Waits({"gateways"})
        /\ c.value = config.gateway /\ c.storage = config.storage
    BY <1>1, <2>1, <2>2, <2>3 DEF FormAgrees, OnPage
  <2>5. ~Waits({"config"})'
    BY <1>1, <1>2 DEF CallsKnown, Waits, OnPage
  <2>6. Waits({"gateways"})'
    BY <1>1, <2>4 DEF Waits, OnPage
  <2>7. \A d \in knxCalls' : ~OnPage(d, {"post"})
    BY <1>1, <1>2, <2>4 DEF CallsKnown, Waits, OnPage
  <2>8. form'.manual = config.gateway /\ form'.checked = config.storage /\ form'.databaseOff = ~form'.checked
    BY <1>2, <1>3, <1>4, <2>2, <2>4 DEF KnxTyped
  <2> QED
    BY <1>1, <2>5, <2>6, <2>7, <2>8 DEF FormAgrees, OnPage
<1> QED
  BY <1>5, <1>6, <1>7, <1>8 DEF KnxInv

LEMMA GatewaysHeardKept ==
    ASSUME KnxInv, NEW c \in knxCalls, GatewaysHeard(c)
    PROVE  KnxInv'
<1>1. /\ c.kind = "gateways" /\ c.answer # Unanswered /\ c.page = "configuration" /\ knxCalls' = knxCalls \ {c}
      /\ UNCHANGED <<token, expired, config, cookie, nActions, renewed, edited>>
  BY DEF GatewaysHeard, HeardBy
<1>2. KnxTyped /\ CallsKnown /\ PostsRefused /\ TokensKnown /\ CallShaped(c)
  BY DEF KnxInv, KnxTyped
<1>3. \/ c.answer = "unauthorized" /\ shown' = [shown EXCEPT !.going = "index"] /\ UNCHANGED <<form, early>>
      \/ /\ c.answer = "ok" /\ shown' = shown /\ early' = (early \/ form.manual = Nothing)
         /\ form'.xToken = form.xToken /\ ~form'.overlay /\ form'.manual = form.manual
         /\ form'.checked = form.checked /\ form'.databaseOff = form.databaseOff
         /\ form.manual # Nothing => form'.select = Manual
         /\ form' \in [xToken : Int, manual : Values, manualOff : BOOLEAN, select : Values, found : SUBSET IPs,
                       checked : BOOLEAN, databaseOff : BOOLEAN, overlay : BOOLEAN]
  <2>1. CASE Redirects(c)
    BY <2>1 DEF Redirects
  <2>2. ASSUME NEW one \in (IF form.manual # Nothing \/ c.found = {} THEN {Manual} ELSE c.found),
               form' = [form EXCEPT !.select = one, !.found = c.found, !.overlay = FALSE]
        PROVE  /\ form'.xToken = form.xToken /\ ~form'.overlay /\ form'.manual = form.manual
               /\ form'.checked = form.checked /\ form'.databaseOff = form.databaseOff
               /\ form.manual # Nothing => form'.select = Manual
               /\ form' \in [xToken : Int, manual : Values, manualOff : BOOLEAN, select : Values, found : SUBSET IPs,
                             checked : BOOLEAN, databaseOff : BOOLEAN, overlay : BOOLEAN]
    <3>1. one \in Values /\ c.found \in SUBSET IPs
      BY <1>2 DEF CallShaped, Values, Manual
    <3> QED
      BY <1>2, <2>2, <3>1 DEF KnxTyped
  <2> QED
    BY <2>1, <2>2 DEF GatewaysHeard
<1>4. /\ \A d \in knxCalls' : CallShaped(d)
      /\ CallsKnown' /\ PostsRefused'
      /\ \A d \in knxCalls' : d.token =< token'
      /\ AtConfiguration' => AtConfiguration /\ shown' = shown
  <2>1. form'.xToken = form.xToken
    BY <1>3
  <2>2. shown' = shown \/ (shown' = [shown EXCEPT !.going = "index"] /\ c.answer = "unauthorized")
    BY <1>3
  <2> QED
    BY <1>1, <1>2, <2>1, <2>2, HeardKnown
<1>5. KnxTyped'
  BY <1>1, <1>2, <1>3, <1>4 DEF KnxTyped
<1>6. TokensKnown'
  BY <1>1, <1>2, <1>3, <1>4 DEF TokensKnown
<1>7. AtConfiguration' /\ ~early' => FormAgrees'
  <2> SUFFICES ASSUME AtConfiguration', ~early'
               PROVE  FormAgrees'
    OBVIOUS
  <2>1. shown' = shown /\ AtConfiguration /\ FormAgrees
    BY <1>3, <1>4 DEF KnxInv
  <2>2. /\ form.manual # Nothing /\ form'.select = Manual /\ form'.manual = form.manual
        /\ form'.checked = form.checked /\ form'.databaseOff = form.databaseOff
    BY <1>2, <1>3, <2>1 DEF AtConfiguration, AtPage, KnxTyped, Nowhere
  <2>3. ~Waits({"config"}) /\ ~Waits({"config"})'
    BY <1>1, <2>1, <2>2 DEF FormAgrees, Waits, OnPage
  <2>4. \A d \in knxCalls' : ~OnPage(d, {"post"})
    BY <1>1, <1>2 DEF CallsKnown, OnPage
  <2>5. PostedGateway' = form.manual
    BY <2>2 DEF PostedGateway
  <2> QED
    BY <1>1, <2>1, <2>2, <2>3, <2>4, <2>5 DEF FormAgrees, OnPage
<1> QED
  BY <1>4, <1>5, <1>6, <1>7 DEF KnxInv

LEMMA PostHeardKept ==
    ASSUME KnxInv, NEW c \in knxCalls, PostHeard(c)
    PROVE  KnxInv'
<1>1. /\ c.kind = "post" /\ c.answer # Unanswered /\ c.page = "configuration" /\ knxCalls' = knxCalls \ {c}
      /\ form' = (IF c.answer = "ok" THEN [form EXCEPT !.overlay = FALSE] ELSE form)
      /\ UNCHANGED <<token, expired, config, cookie, shown, nActions, renewed, edited, early>>
  BY DEF PostHeard, HeardBy
<1>2. KnxTyped /\ CallsKnown /\ PostsRefused /\ TokensKnown /\ CallShaped(c)
  BY DEF KnxInv, KnxTyped
<1>3. /\ form'.xToken = form.xToken /\ form'.manual = form.manual /\ form'.select = form.select
      /\ form'.checked = form.checked /\ form'.databaseOff = form.databaseOff
      /\ form' \in [xToken : Int, manual : Values, manualOff : BOOLEAN, select : Values, found : SUBSET IPs,
                    checked : BOOLEAN, databaseOff : BOOLEAN, overlay : BOOLEAN]
  BY <1>1, <1>2 DEF KnxTyped
<1>4. /\ \A d \in knxCalls' : CallShaped(d)
      /\ CallsKnown' /\ PostsRefused'
      /\ \A d \in knxCalls' : d.token =< token'
      /\ AtConfiguration' => AtConfiguration /\ shown' = shown
  BY <1>1, <1>2, <1>3, HeardKnown
<1>5. KnxTyped'
  BY <1>1, <1>2, <1>3, <1>4 DEF KnxTyped
<1>6. TokensKnown'
  BY <1>1, <1>2, <1>3, <1>4 DEF TokensKnown
<1>7. AtConfiguration' /\ ~early' => FormAgrees'
  <2> SUFFICES ASSUME AtConfiguration', ~early'
               PROVE  FormAgrees'
    OBVIOUS
  <2>1. AtConfiguration /\ FormAgrees
    BY <1>1, <1>4 DEF KnxInv
  <2>2. ~Waits({"gateways"}) /\ ~Waits({"gateways"})'
    BY <1>1, <1>2 DEF CallsKnown, Waits, OnPage
  <2>3. ~Waits({"config"}) /\ ~Waits({"config"})'
    BY <1>1, <2>1, <2>2 DEF FormAgrees, Waits, OnPage
  <2>4. \A d \in knxCalls' : ~OnPage(d, {"post"})
    BY <1>1, <1>2 DEF CallsKnown, OnPage
  <2>5. PostedGateway' = PostedGateway
    BY <1>3 DEF PostedGateway
  <2> QED
    BY <1>1, <1>3, <2>1, <2>2, <2>3, <2>4, <2>5 DEF FormAgrees, OnPage
<1> QED
  BY <1>4, <1>5, <1>6, <1>7 DEF KnxInv

\* The user may act only where nothing is under way that would change the inputs.
LEMMA Idle ==
    ASSUME KnxInv, AtForm
    PROVE  /\ AtConfiguration /\ ~form.overlay
           /\ ~Waits({"gateways"}) /\ ~Waits({"post"})
           /\ ~early => FormAgrees /\ ~Waits({"config"})
<1>1. AtConfiguration /\ ~form.overlay
  BY DEF AtForm, AtConfiguration
<1>2. ~Waits({"gateways"}) /\ ~Waits({"post"})
  BY <1>1 DEF KnxInv, CallsKnown, Waits, OnPage
<1> QED
  BY <1>1, <1>2 DEF KnxInv, FormAgrees

\* An input is changed, and what is said of it with it.
LEMMA EditsKept ==
    ASSUME KnxInv, NEW input, NEW new, EditsInput(input, new),
           new \in [xToken : {form.xToken}, manual : Values, manualOff : BOOLEAN, select : Values, found : SUBSET IPs,
                    checked : BOOLEAN, databaseOff : BOOLEAN, overlay : {form.overlay}],
           \/ input = "gateway" /\ new.checked = form.checked /\ new.databaseOff = form.databaseOff
           \/ /\ input = "storage" /\ new.manual = form.manual /\ new.select = form.select
              /\ new.databaseOff = ~new.checked
    PROVE  KnxInv'
<1>1. /\ AtForm /\ form' = new /\ edited' = edited \cup {input}
      /\ UNCHANGED <<token, expired, config, cookie, shown, knxCalls, renewed, early>>
  BY DEF EditsInput, UserActs
<1>2. /\ KnxTyped /\ CallsKnown /\ PostsRefused /\ TokensKnown
      /\ AtConfiguration /\ ~Waits({"gateways"}) /\ ~Waits({"post"})
      /\ ~early => FormAgrees /\ ~Waits({"config"})
  BY <1>1, Idle DEF KnxInv
<1>3. form'.xToken = form.xToken /\ form'.overlay = form.overlay
  BY <1>1
<1>4. KnxTyped'
  BY <1>1, <1>2 DEF KnxTyped
<1>5. CallsKnown' /\ PostsRefused' /\ TokensKnown'
  BY <1>1, <1>2, <1>3 DEF CallsKnown, PostsRefused, TokensKnown, Waits, OnPage, Refused, AtConfiguration, AtPage
<1>6. ~early' => FormAgrees'
  <2> SUFFICES ASSUME ~early'
               PROVE  FormAgrees'
    OBVIOUS
  <2>1. FormAgrees /\ ~Waits({"config"})' /\ ~Waits({"config"})
    BY <1>1, <1>2 DEF Waits, OnPage
  <2>2. \A d \in knxCalls' : ~OnPage(d, {"post"})
    BY <1>1, <1>2 DEF Waits, OnPage
  <2>3. CASE input = "gateway"
    <3>1. form'.checked = form.checked /\ form'.databaseOff = form.databaseOff
      BY <1>1, <2>3
    <3> QED
      BY <1>1, <2>1, <2>2, <2>3, <3>1 DEF FormAgrees, OnPage
  <2>4. CASE input = "storage"
    <3>1. form'.manual = form.manual /\ form'.select = form.select /\ form'.databaseOff = ~form'.checked
      BY <1>1, <2>4
    <3>2. PostedGateway' = PostedGateway
      BY <3>1 DEF PostedGateway
    <3> QED
      BY <1>1, <1>2, <2>1, <2>2, <2>4, <3>1, <3>2 DEF FormAgrees, OnPage
  <2> QED
    BY <2>3, <2>4
<1> QED
  BY <1>4, <1>5, <1>6 DEF KnxInv

\* A call is made, and the progress bar covers the page until it is answered.
LEMMA CalledKept ==
    ASSUME KnxInv, AtForm, NEW call, NEW kind \in {"gateways", "post"},
           MadeAs(call, kind, form.xToken, call.gateway, call.storage), knxCalls' = knxCalls \cup {call},
           kind = "post" => call.gateway = PostedGateway /\ call.storage = form.checked,
           form' = [form EXCEPT !.overlay = TRUE],
           UNCHANGED <<token, expired, config, cookie, shown, edited, renewed, early>>
    PROVE  KnxInv'
<1>1. /\ KnxTyped /\ CallsKnown /\ PostsRefused /\ TokensKnown
      /\ AtConfiguration /\ ~Waits({"gateways"}) /\ ~Waits({"post"})
      /\ ~early => FormAgrees /\ ~Waits({"config"})
  BY Idle DEF KnxInv
<1>2. /\ CallShaped(call) /\ call.kind = kind /\ call.token = form.xToken /\ call.page = "configuration"
      /\ call.answer = Unanswered
  BY <1>1 DEF MadeAs, AtConfiguration
<1>3. /\ form'.xToken = form.xToken /\ form'.overlay /\ form'.manual = form.manual /\ form'.select = form.select
      /\ form'.checked = form.checked /\ form'.databaseOff = form.databaseOff
      /\ form' \in [xToken : Int, manual : Values, manualOff : BOOLEAN, select : Values, found : SUBSET IPs,
                    checked : BOOLEAN, databaseOff : BOOLEAN, overlay : BOOLEAN]
  BY <1>1 DEF KnxTyped
<1>4. KnxTyped'
  BY <1>1, <1>2, <1>3 DEF KnxTyped
<1>5. CallsKnown'
  <2>1. \A d \in knxCalls' : OnPage(d, {"config"}) => d \in knxCalls
    BY <1>2 DEF OnPage
  <2>2. \A d \in knxCalls' : OnPage(d, {"gateways", "post"}) => d = call
    BY <1>1, <1>2 DEF Waits, OnPage
  <2>3. \A d \in knxCalls' :
        /\ d.page = "index" => d.kind = "login" /\ shown'.page = "index"
        /\ d.page = "left" => d.answer = Unanswered /\ d.kind \in {"login", "post"}
        /\ d.page = "configuration" => d.kind # "login" /\ shown'.page = "configuration" /\ d.token = form'.xToken
        /\ d.page = "configuration" /\ d.answer = "unauthorized" => Refused(form.xToken)
        /\ d.kind = "login" /\ d.answer = "ok" => d.value \in Int /\ d.value =< token'
    BY <1>1, <1>2, <1>3 DEF CallsKnown, Unanswered, AtConfiguration
  <2>4. Refused(form.xToken)' <=> Refused(form.xToken)
    BY <1>3 DEF Refused
  <2> QED
    BY <1>1, <1>3, <2>1, <2>2, <2>3, <2>4 DEF CallsKnown, OnPage
<1>6. PostsRefused'
  <2>1. \A t : Refused(t)' <=> Refused(t)
    BY DEF Refused
  <2> QED
    BY <1>1, <1>2, <2>1 DEF PostsRefused, AtConfiguration, AtPage
<1>7. TokensKnown'
  BY <1>1, <1>2, <1>3 DEF TokensKnown, AtConfiguration, AtPage
<1>8. ~early' => FormAgrees'
  <2> SUFFICES ASSUME ~early'
               PROVE  FormAgrees'
    OBVIOUS
  <2>1. FormAgrees /\ ~Waits({"config"})
    BY <1>1
  <2>2. ~Waits({"config"})'
    BY <1>2, <2>1 DEF Waits, OnPage
  <2>3. PostedGateway' = PostedGateway
    BY <1>3 DEF PostedGateway
  <2>4. \A d \in knxCalls' : OnPage(d, {"post"}) => d = call /\ kind = "post"
    BY <1>1, <1>2 DEF Waits, OnPage
  <2> QED
    BY <1>1, <1>3, <2>1, <2>2, <2>3, <2>4 DEF FormAgrees, OnPage
<1> QED
  BY <1>4, <1>5, <1>6, <1>7, <1>8 DEF KnxInv

LEMMA UserKept ==
    ASSUME KnxInv, \/ TickStorage \/ RefreshGateways \/ SendConfig
                   \/ \E v \in form.found \cup {Manual} : ChooseGateway(v)
                   \/ \E ip \in IPs : TypeGateway(ip)
    PROVE  KnxInv'
<1>1. KnxTyped
  BY DEF KnxInv
<1>2. ASSUME TickStorage
      PROVE  KnxInv'
  <2> DEFINE new == [form EXCEPT !.checked = ~@, !.databaseOff = form.checked]
  <2>1. EditsInput("storage", new)
    BY <1>2 DEF TickStorage
  <2>2. /\ new \in [xToken : {form.xToken}, manual : Values, manualOff : BOOLEAN, select : Values, found : SUBSET IPs,
                    checked : BOOLEAN, databaseOff : BOOLEAN, overlay : {form.overlay}]
        /\ new.manual = form.manual /\ new.select = form.select /\ new.databaseOff = ~new.checked
    BY <1>1 DEF KnxTyped
  <2> HIDE DEF new
  <2> QED
    BY <2>1, <2>2, EditsKept
<1>3. ASSUME NEW v \in form.found \cup {Manual}, ChooseGateway(v)
      PROVE  KnxInv'
  <2> DEFINE new == [form EXCEPT !.select = v, !.manualOff = v # Manual]
  <2>1. EditsInput("gateway", new)
    BY <1>3 DEF ChooseGateway
  <2>2. v \in Values /\ (v # Manual) \in BOOLEAN
    BY <1>1 DEF KnxTyped, Values, Manual
  <2>3. /\ new \in [xToken : {form.xToken}, manual : Values, manualOff : BOOLEAN, select : Values, found : SUBSET IPs,
                    checked : BOOLEAN, databaseOff : BOOLEAN, overlay : {form.overlay}]
        /\ new.checked = form.checked /\ new.databaseOff = form.databaseOff
    BY <1>1, <2>2 DEF KnxTyped
  <2> HIDE DEF new
  <2> QED
    BY <2>1, <2>3, EditsKept
<1>4. ASSUME NEW ip \in IPs, TypeGateway(ip)
      PROVE  KnxInv'
  <2> DEFINE new == [form EXCEPT !.manual = ip]
  <2>1. EditsInput("gateway", new)
    BY <1>4 DEF TypeGateway
  <2>2. ip \in Values
    BY DEF Values
  <2>3. /\ new \in [xToken : {form.xToken}, manual : Values, manualOff : BOOLEAN, select : Values, found : SUBSET IPs,
                    checked : BOOLEAN, databaseOff : BOOLEAN, overlay : {form.overlay}]
        /\ new.checked = form.checked /\ new.databaseOff = form.databaseOff
    BY <1>1, <2>2 DEF KnxTyped
  <2> HIDE DEF new
  <2> QED
    BY <2>1, <2>3, EditsKept
<1>5. ASSUME RefreshGateways
      PROVE  KnxInv'
  <2> DEFINE call == KnxCall("gateways", form.xToken, Nothing, FALSE)
  <2>1. /\ AtForm /\ knxCalls' = knxCalls \cup {call} /\ form' = [form EXCEPT !.overlay = TRUE]
        /\ UNCHANGED <<token, expired, config, cookie, shown, edited, renewed, early>>
    BY <1>5 DEF RefreshGateways, UserActs, Posts
  <2>2. form.xToken \in Int /\ Nothing \in Values
    BY <1>1 DEF KnxTyped, Values, Nothing
  <2>3. MadeAs(call, "gateways", form.xToken, Nothing, FALSE)
    BY <1>1, <2>2, CallMade
  <2> HIDE DEF call
  <2>4. MadeAs(call, "gateways", form.xToken, call.gateway, call.storage)
    BY <2>3 DEF MadeAs
  <2> QED
    BY <2>1, <2>4, CalledKept
<1>6. ASSUME SendConfig
      PROVE  KnxInv'
  <2> DEFINE call == KnxCall("post", form.xToken, PostedGateway, form.checked)
  <2>1. /\ AtForm /\ knxCalls' = knxCalls \cup {call} /\ form' = [form EXCEPT !.overlay = TRUE]
        /\ UNCHANGED <<token, expired, config, cookie, shown, edited, renewed, early>>
    BY <1>6 DEF SendConfig, UserActs, Posts
  <2>2. form.xToken \in Int /\ PostedGateway \in Values /\ form.checked \in BOOLEAN
    BY <1>1 DEF KnxTyped, PostedGateway
  <2>3. MadeAs(call, "post", form.xToken, PostedGateway, form.checked)
    BY <1>1, <2>2, CallMade
  <2> HIDE DEF call
  <2>4. /\ MadeAs(call, "post", form.xToken, call.gateway, call.storage)
        /\ call.gateway = PostedGateway /\ call.storage = form.checked
    BY <2>3 DEF MadeAs
  <2> QED
    BY <2>1, <2>4, CalledKept
<1> QED
  BY <1>2, <1>3, <1>4, <1>5, <1>6

LEMMA LeavingKept ==
    ASSUME KnxInv, LogoutClicked \/ Visit
    PROVE  KnxInv'
<1>1. KnxTyped /\ CallsKnown /\ PostsRefused /\ TokensKnown
  BY DEF KnxInv
<1>2. CASE LogoutClicked
  <2>1. /\ cookie' = NoCookie /\ shown' = [shown EXCEPT !.going = "index"] /\ AtForm
        /\ UNCHANGED <<token, expired, config, form, knxCalls, nActions, renewed, edited, early>>
    BY <1>2 DEF LogoutClicked, RemoveCookie
  <2>2. shown'.page = shown.page /\ shown'.going # Nowhere /\ ~AtConfiguration'
    BY <1>1, <2>1 DEF KnxTyped, AtConfiguration, AtPage, Nowhere
  <2>3. ~Waits({"post"})'
    BY <2>1, Idle DEF Waits, OnPage
  <2>4. KnxTyped'
    BY <1>1, <2>1 DEF KnxTyped, NoCookie
  <2>5. CallsKnown' /\ PostsRefused'
    BY <1>1, <2>1, <2>2, <2>3 DEF CallsKnown, PostsRefused, Waits, OnPage, Refused
  <2>6. TokensKnown'
    BY <1>1, <2>1, <2>2 DEF TokensKnown, KnxTyped, NoCookie
  <2> QED
    BY <2>2, <2>4, <2>5, <2>6 DEF KnxInv
<1>3. CASE Visit
  <2>1. /\ shown.page = "index" /\ shown' = [shown EXCEPT !.going = "configuration"]
        /\ UNCHANGED <<token, expired, config, cookie, form, knxCalls, nActions, renewed, edited, early>>
    BY <1>3 DEF Visit
  <2>2. shown'.page = "index" /\ ~AtConfiguration'
    BY <1>1, <2>1 DEF KnxTyped, AtConfiguration
  <2>3. KnxTyped'
    BY <1>1, <2>1 DEF KnxTyped
  <2>4. CallsKnown' /\ PostsRefused' /\ TokensKnown'
    BY <1>1, <2>1, <2>2 DEF CallsKnown, PostsRefused, TokensKnown, Waits, OnPage, Refused
  <2> QED
    BY <2>2, <2>3, <2>4 DEF KnxInv
<1> QED
  BY <1>2, <1>3

\* A new token, or the end of one, refuses those that were refused before.
LEMMA ElsewhereKept ==
    ASSUME KnxInv, LoginElsewhere \/ TokenExpires
    PROVE  KnxInv'
<1>1. KnxTyped /\ CallsKnown /\ PostsRefused /\ TokensKnown
  BY DEF KnxInv
<1>2. /\ \/ token' = token + 1 /\ renewed' = TRUE /\ expired' = expired
         \/ token' = token /\ renewed' = renewed /\ expired' = TRUE
      /\ UNCHANGED <<config, cookie, shown, form, knxCalls, nActions, edited, early>>
  BY DEF LoginElsewhere, TokenExpires
<1>3. token \in Nat /\ token' \in Nat /\ token =< token'
  BY <1>1, <1>2 DEF KnxTyped
<1>4. \A t \in Int : t =< token /\ Refused(t) => Refused(t)'
  BY <1>2, <1>3 DEF Refused
<1>5. /\ form.xToken \in Int /\ form.xToken =< token /\ cookie \in Int
      /\ \A d \in knxCalls : d.token \in Int /\ d.token =< token
  BY <1>1 DEF KnxTyped, TokensKnown, CallShaped
<1>6. KnxTyped'
  BY <1>1, <1>2, <1>3, ZenonT(40) DEF KnxTyped
<1>7. CallsKnown'
  <2>1. \A d \in knxCalls : d.kind = "login" /\ d.answer = "ok" => d.value \in Int /\ d.value =< token'
    BY <1>1, <1>3 DEF CallsKnown
  <2>2. Refused(form.xToken) => Refused(form.xToken)'
    BY <1>2, <1>4, <1>5
  <2> QED
    BY <1>1, <1>2, <2>1, <2>2 DEF CallsKnown, Waits, OnPage
<1>8. PostsRefused'
  <2>1. Refused(form.xToken) => Refused(form.xToken)'
    BY <1>2, <1>4, <1>5
  <2>2. \A d \in knxCalls' : Refused(d.token) => Refused(d.token)'
    BY <1>2, <1>4, <1>5
  <2> QED
    BY <1>1, <1>2, <2>1, <2>2 DEF PostsRefused, Waits, OnPage, AtPage
<1>9. TokensKnown'
  <2>1. cookie' =< token' /\ form'.xToken =< token' /\ \A c \in knxCalls' : c.token =< token'
    BY <1>1, <1>2, <1>3, <1>5 DEF TokensKnown
  <2>2. cookie' # NoCookie /\ ~renewed' => cookie' = token'
    BY <1>1, <1>2 DEF TokensKnown
  <2>3. AtConfiguration' => form'.xToken = cookie'
    BY <1>1, <1>2 DEF TokensKnown, AtConfiguration, AtPage
  <2> QED
    BY <2>1, <2>2, <2>3 DEF TokensKnown
<1>10. AtConfiguration' /\ ~early' => FormAgrees'
  BY <1>2 DEF KnxInv, FormAgrees, AtConfiguration, AtPage, Waits, OnPage, PostedGateway
<1> QED
  BY <1>6, <1>7, <1>8, <1>9, <1>10 DEF KnxInv

\* For any addresses, logins and clicks: the token that the configuration page sends is the one accepted, unless
\* another login has been executed, and what it shows and would post is the servlet's configuration but for what
\* the user has changed, unless the gateways were answered first.
THEOREM KnxAgrees == Spec => []KnxPageAgrees
<1>1. Init => KnxInv
  <2>1. ASSUME KnxInit
        PROVE  KnxInv
    <3>1. /\ token = 0 /\ expired = FALSE /\ config \in [gateway : {Configured}, storage : BOOLEAN]
          /\ cookie = -1 /\ shown = [page |-> "index", going |-> Nowhere] /\ form = BlankConfigForm /\ knxCalls = {}
          /\ renewed = FALSE /\ edited = {} /\ early = FALSE
      BY <2>1 DEF KnxInit, NoToken, NoCookie
    <3>2. KnxTyped
      <4>1. form \in [xToken : Int, manual : Values, manualOff : BOOLEAN, select : Values, found : SUBSET IPs,
                      checked : BOOLEAN, databaseOff : BOOLEAN, overlay : BOOLEAN]
        BY <3>1 DEF BlankConfigForm, Values, Nothing, NoCookie
      <4>2. config \in [gateway : Values, storage : BOOLEAN]
        BY <3>1 DEF Values
      <4>3. shown \in [page : {"index", "configuration"}, going : {"index", "configuration", Nowhere}]
        BY <3>1
      <4> QED
        <5>1. token \in Nat /\ cookie \in Int
          <6>1. token = 0 /\ cookie = -1
            BY <3>1
          <6> QED
            BY <6>1
        <5>3. expired \in BOOLEAN /\ renewed \in BOOLEAN /\ early \in BOOLEAN
          BY <3>1, Zenon
        <5>2. \A c \in knxCalls : CallShaped(c)
          BY <3>1
        <5> QED
          BY <4>1, <4>2, <4>3, <5>1, <5>2, <5>3 DEF KnxTyped
    <3>3. CallsKnown /\ PostsRefused /\ ~AtConfiguration
      BY <3>1 DEF CallsKnown, PostsRefused, Waits, AtConfiguration
    <3>4. TokensKnown
      BY <3>1, <3>3 DEF TokensKnown, BlankConfigForm, NoCookie
    <3> QED
      BY <3>2, <3>3, <3>4 DEF KnxInv
  <2> QED
    BY <2>1 DEF Init
<1>2. KnxInv /\ [Next]_vars => KnxInv'
  <2>1. [Next]_vars => KnxNext \/ UNCHANGED knxVars
    BY DEF Next, vars
  <2>2. ASSUME KnxInv, UNCHANGED knxVars
        PROVE  KnxInv'
    <3>1. UNCHANGED <<token, expired, config, cookie, shown, form, knxCalls, nActions, renewed, edited, early>>
      BY <2>2 DEF knxVars
    <3>2. KnxTyped'
      BY <2>2, <3>1 DEF KnxInv, KnxTyped
    <3>3. CallsKnown' /\ PostsRefused' /\ TokensKnown'
      BY <2>2, <3>1 DEF KnxInv, CallsKnown, PostsRefused, TokensKnown, Waits, OnPage, Refused, AtConfiguration, AtPage
    <3>4. AtConfiguration' /\ ~early' => FormAgrees'
      BY <2>2, <3>1 DEF KnxInv, FormAgrees, AtConfiguration, AtPage, Waits, OnPage, PostedGateway
    <3> QED
      BY <3>2, <3>3, <3>4 DEF KnxInv
  <2>3. ASSUME KnxInv, KnxNext
        PROVE  KnxInv'
    BY <2>3, SendPasswordKept, LoadPageKept, UserKept, LeavingKept, ElsewhereKept, LoginExecutedKept, LoginHeardKept,
       GetExecutedKept, PostExecutedKept, ConfigHeardKept, GatewaysHeardKept, PostHeardKept DEF KnxNext
  <2> QED
    BY <2>1, <2>2, <2>3
<1>3. KnxInv => KnxPageAgrees
  <2> SUFFICES ASSUME KnxInv, AtConfiguration
               PROVE  /\ cookie # NoCookie /\ ~renewed => form.xToken = token
                      /\ ~form.overlay /\ ~early =>
                            /\ "gateway" \notin edited => PostedGateway = config.gateway
                            /\ "storage" \notin edited => form.checked = config.storage
                            /\ form.databaseOff = ~form.checked
    BY DEF KnxPageAgrees, AtConfiguration
  <2>1. cookie # NoCookie /\ ~renewed => form.xToken = token
    BY DEF KnxInv, TokensKnown
  <2>2. ASSUME ~form.overlay, ~early
        PROVE  /\ "gateway" \notin edited => PostedGateway = config.gateway
               /\ "storage" \notin edited => form.checked = config.storage
               /\ form.databaseOff = ~form.checked
    <3>1. FormAgrees /\ ~Waits({"gateways"}) /\ ~Waits({"config"})
      BY <2>2, Idle DEF AtForm, AtConfiguration
    <3> QED
      BY <3>1 DEF FormAgrees
  <2> QED
    BY <2>1, <2>2
<1> QED
  BY <1>1, <1>2, <1>3, PTL DEF Spec

-----------------------------------------------------------------------------
(* jQuery.ajax. *)

AjaxReplies ==
    [status : Nat, wellFormed : BOOLEAN,
     type : {"json", "html", "none", "canceled", "noTransport", "exception", "abort", "timeout"}]
CallNames == {"success", "error", "statusCode", "complete"}
AjaxEntries ==
    [op : {"before", "done", "end"}, r : Requests, arg : AjaxReplies]
        \cup [op : {"call", "callback"}, r : Requests, arg : CallNames]

AjaxRequests ==
    [state : {NotSent} \cup 0..2, async : BOOLEAN, wanted : {"*", "json"}, transport : {"none", "open"},
     timer : BOOLEAN, installed : BOOLEAN, answer : AjaxReplies]

AjaxTyped ==
    /\ requests \in [Requests -> AjaxRequests]
    /\ active \in Nat /\ busy \in BOOLEAN /\ spoiled \subseteq Requests
    /\ pending \in Seq(AjaxEntries) /\ heard \in [Requests -> Seq(CallNames)]

\* The callbacks of the requests that have ended, and the requests whose done is under way.
DueOf == [r \in Requests |-> IF requests[r].state = 2 THEN CallbacksOf(r, requests[r].answer) ELSE <<>>]
Ending(p) == {p[i].r : i \in {k \in DOMAIN p : p[k].op = "end"}}

\* The callbacks of a request are called in their order, and those that have not been are on the stack, one
\* above the other, on top of what ends the request.
Untold(due, told, r) == Len(due[r]) - Len(told[r])

ToldInOrder(due, told) ==
    \A r \in Requests : Len(told[r]) =< Len(due[r]) /\ \A i \in 1..Len(told[r]) : told[r][i] = due[r][i]

CallsAboveEnds(p, due, told) ==
    \A j \in DOMAIN p : p[j].op = "end" =>
        /\ Untold(due, told, p[j].r) < j
        /\ \A i \in 1..Untold(due, told, p[j].r) :
                p[j - i].op = "call" /\ p[j - i].r = p[j].r /\ p[j - i].arg = due[p[j].r][Len(due[p[j].r]) + 1 - i]

CallsEnd(p, due, told) ==
    \A i \in DOMAIN p : p[i].op = "call" =>
        \E j \in DOMAIN p : p[j].op = "end" /\ p[j].r = p[i].r /\ i < j /\ j - i =< Untold(due, told, p[j].r)

EndsOnce(p) == \A i, j \in DOMAIN p : p[i].op = "end" /\ p[j].op = "end" /\ p[i].r = p[j].r => i = j

Stacked(p, due, told) ==
    ToldInOrder(due, told) /\ CallsAboveEnds(p, due, told) /\ CallsEnd(p, due, told) /\ EndsOnce(p)

UnderWay == {r \in Requests : requests[r].state \in 0..1} \cup spoiled \cup Ending(pending)

\* Nothing has begun for a request before it is sent.
OnStack(p) == {p[i].r : i \in DOMAIN p}
NothingBefore ==
    /\ \A r \in Requests : requests[r].state = NotSent => ~requests[r].timer /\ requests[r].transport = "none"
    /\ \A r \in OnStack(pending) : requests[r].state # NotSent

\* A request has ended when its done is under way or kept from its end, and otherwise has had its callbacks.
EndedTold ==
    /\ \A r \in Ending(pending) : requests[r].state = 2 /\ r \notin spoiled
    /\ \A r \in spoiled : requests[r].state = 2
    /\ \A r \in Requests : requests[r].state = 2 /\ r \notin spoiled /\ r \notin Ending(pending) =>
            Len(heard[r]) = Len(DueOf[r])

AjaxInv ==
    /\ AjaxTyped /\ Stacked(pending, DueOf, heard) /\ NothingBefore /\ EndedTold
    /\ IsFiniteSet(UnderWay) /\ active = Cardinality(UnderWay) /\ busy = (active > 0)

Names == [Requests -> Seq(CallNames)]

LEMMA UntoldTyped ==
    ASSUME NEW due \in Names, NEW told \in Names, ToldInOrder(due, told), NEW r \in Requests
    PROVE  /\ Untold(due, told, r) \in Nat /\ Len(due[r]) \in Nat /\ Len(told[r]) \in Nat
           /\ Untold(due, told, r) = Len(due[r]) - Len(told[r]) /\ Len(told[r]) =< Len(due[r])
BY DEF Names, Untold, ToldInOrder

LEMMA StackTyped ==
    ASSUME NEW p \in Seq(AjaxEntries)
    PROVE  /\ Len(p) \in Nat /\ DOMAIN p = 1..Len(p)
           /\ \A i \in DOMAIN p : p[i] \in AjaxEntries /\ p[i].r \in Requests
<1>1. Len(p) \in Nat /\ DOMAIN p = 1..Len(p) /\ \A i \in DOMAIN p : p[i] \in AjaxEntries
  OBVIOUS
<1>2. \A e \in AjaxEntries : e.r \in Requests
  BY DEF AjaxEntries
<1> QED
  BY <1>1, <1>2

LEMMA EndingMember ==
    \A p, r : r \in Ending(p) <=> \E i \in DOMAIN p : p[i].op = "end" /\ p[i].r = r
BY DEF Ending

LEMMA PushedEntry ==
    ASSUME NEW S, NEW s \in Seq(S), NEW e \in S
    PROVE  /\ <<e>> \o s \in Seq(S) /\ Len(<<e>> \o s) = Len(s) + 1 /\ (<<e>> \o s)[1] = e
           /\ \A i \in 1..Len(s) : (<<e>> \o s)[i + 1] = s[i]
OBVIOUS

LEMMA PoppedEntry ==
    ASSUME NEW S, NEW s \in Seq(S), s # <<>>
    PROVE  /\ Len(s) \in Nat /\ Len(s) >= 1 /\ Head(s) = s[1] /\ s[1] \in S
           /\ Tail(s) \in Seq(S) /\ Len(Tail(s)) = Len(s) - 1
           /\ \A i \in 2..Len(s) : Tail(s)[i - 1] = s[i]
OBVIOUS

\* q is p without its first a entries, no call, and with b others on top, no calls and no ends.
Shifted(p, q, a, b) ==
    /\ a =< Len(p) /\ Len(q) = Len(p) - a + b
    /\ \A i \in 1..Len(p) : i > a => q[i - a + b] = p[i]
    /\ a = 1 => p[1].op # "call"
    /\ b = 1 => q[1].op \notin {"call", "end"}

\* The order stays when what is on top is taken from the stack or changed, unless it is a call, and when
\* something is put on top.
LEMMA StackedShift ==
    ASSUME NEW p \in Seq(AjaxEntries), NEW q \in Seq(AjaxEntries), NEW a \in 0..1, NEW b \in 0..1,
           Shifted(p, q, a, b),
           NEW due \in Names, NEW told \in Names, Stacked(p, due, told)
    PROVE  /\ Stacked(q, due, told)
           /\ a = 0 \/ p[1].op # "end" => Ending(q) = Ending(p)
           /\ a = 1 /\ b = 0 /\ p[1].op = "end" =>
                Ending(q) = Ending(p) \ {p[1].r} /\ Untold(due, told, p[1].r) = 0
<1>1. /\ Len(p) \in Nat /\ DOMAIN p = 1..Len(p) /\ Len(q) \in Nat /\ DOMAIN q = 1..Len(q)
      /\ \A i \in DOMAIN p : p[i].r \in Requests
      /\ \A i \in DOMAIN q : q[i].r \in Requests
      /\ a \in Int /\ b \in Int /\ a =< Len(p)
  BY StackTyped DEF Shifted
<1>2. \A i \in DOMAIN p : i > a \/ p[i].op = "call" => i > a /\ i - a + b \in DOMAIN q /\ q[i - a + b] = p[i]
  BY <1>1 DEF Shifted
<1>3. \A i \in DOMAIN q : q[i].op \in {"call", "end"} =>
            i > b /\ i - b + a \in DOMAIN p /\ i - b + a > a /\ p[i - b + a] = q[i]
  <2> SUFFICES ASSUME NEW i \in DOMAIN q, q[i].op \in {"call", "end"}
               PROVE  i > b /\ i - b + a \in DOMAIN p /\ i - b + a > a /\ p[i - b + a] = q[i]
    OBVIOUS
  <2>1. i \in Int /\ i > b
    BY <1>1 DEF Shifted
  <2>2. i - b + a \in 1..Len(p) /\ i - b + a > a /\ (i - b + a) - a + b = i
    BY <1>1, <2>1 DEF Shifted
  <2>3. q[(i - b + a) - a + b] = p[i - b + a]
    BY <2>2 DEF Shifted
  <2> QED
    BY <1>1, <2>1, <2>2, <2>3
<1>4. ToldInOrder(due, told) /\ \A r \in Requests : Untold(due, told, r) \in Nat
  BY UntoldTyped DEF Stacked
<1>5. CallsAboveEnds(q, due, told)
  <2> SUFFICES ASSUME NEW j \in DOMAIN q, q[j].op = "end"
               PROVE  /\ Untold(due, told, q[j].r) < j
                      /\ \A i \in 1..Untold(due, told, q[j].r) :
                            /\ q[j - i].op = "call" /\ q[j - i].r = q[j].r
                            /\ q[j - i].arg = due[q[j].r][Len(due[q[j].r]) + 1 - i]
    BY DEF CallsAboveEnds
  <2> DEFINE k == j - b + a
             n == Untold(due, told, q[j].r)
  <2>1. /\ j > b /\ k \in DOMAIN p /\ p[k] = q[j] /\ n \in Nat /\ j \in Nat
        /\ k \in Int /\ k =< Len(p) /\ k = j - b + a /\ n = Untold(due, told, q[j].r)
    BY <1>1, <1>3, <1>4
  <2>2. n < k /\ \A i \in 1..n : p[k - i].op = "call" /\ p[k - i].r = q[j].r
                                   /\ p[k - i].arg = due[q[j].r][Len(due[q[j].r]) + 1 - i]
    BY <2>1 DEF Stacked, CallsAboveEnds
  <2> HIDE DEF k, n
  <2>3. \A i \in 1..n : k - i \in DOMAIN p /\ k - i > a /\ q[j - i] = p[k - i]
    <3> TAKE i \in 1..n
    <3>1. k - i \in DOMAIN p /\ i \in Int
      BY <1>1, <2>1, <2>2
    <3>2. p[k - i].op = "call"
      BY <2>2
    <3>3. k - i > a /\ q[k - i - a + b] = p[k - i]
      BY <1>2, <3>1, <3>2
    <3>4. k - i - a + b = j - i
      <4>1. a \in Int /\ b \in Int /\ i \in Int /\ j \in Int /\ k = j - b + a
        BY <1>1, <2>1, <3>1
      <4> QED
        BY <4>1
    <3> QED
      BY <3>1, <3>3, <3>4
  <2>4. n < j
    <3>1. CASE n = 0
      BY <1>1, <2>1, <3>1
    <3>2. CASE n > 0
      <4>1. k - n > a
        BY <2>1, <2>3, <3>2
      <4> QED
        BY <1>1, <2>1, <4>1
    <3> QED
      BY <2>1, <3>1, <3>2
  <2> QED
    BY <2>1, <2>2, <2>3, <2>4
<1>6. CallsEnd(q, due, told)
  <2> SUFFICES ASSUME NEW i \in DOMAIN q, q[i].op = "call"
               PROVE  \E j \in DOMAIN q : /\ q[j].op = "end" /\ q[j].r = q[i].r /\ i < j
                                          /\ j - i =< Untold(due, told, q[j].r)
    BY DEF CallsEnd
  <2>1. i > b /\ i - b + a \in DOMAIN p /\ i - b + a > a /\ p[i - b + a] = q[i]
    BY <1>3
  <2>2. PICK k \in DOMAIN p : /\ p[k].op = "end" /\ p[k].r = q[i].r /\ i - b + a < k
                              /\ k - (i - b + a) =< Untold(due, told, p[k].r)
    <3> DEFINE m == i - b + a
    <3>1. m \in DOMAIN p /\ p[m].op = "call" /\ p[m].r = q[i].r
      BY <2>1
    <3>2. \E k \in DOMAIN p : p[k].op = "end" /\ p[k].r = p[m].r /\ m < k /\ k - m =< Untold(due, told, p[k].r)
      BY <3>1 DEF Stacked, CallsEnd
    <3> QED
      BY <3>1, <3>2
  <2>3. k - a + b \in DOMAIN q /\ q[k - a + b] = p[k]
    <3>1. k \in Int /\ i - b + a \in Int /\ a \in Int
      BY <1>1, <2>1
    <3>2. k > a
      BY <2>1, <2>2, <3>1
    <3> QED
      BY <1>2, <3>2
  <2>4. i < k - a + b /\ (k - a + b) - i = k - (i - b + a)
    <3>1. i \in Int /\ k \in Int
      BY <1>1
    <3> QED
      BY <1>1, <2>2, <3>1
  <2>5. q[k - a + b].op = "end" /\ q[k - a + b].r = q[i].r
    BY <2>2, <2>3
  <2>6. (k - a + b) - i =< Untold(due, told, q[k - a + b].r)
    BY <2>2, <2>3, <2>4
  <2> QED
    BY <2>3, <2>4, <2>5, <2>6
<1>7. EndsOnce(q)
  <2> SUFFICES ASSUME NEW i \in DOMAIN q, NEW j \in DOMAIN q, q[i].op = "end", q[j].op = "end", q[i].r = q[j].r
               PROVE  i = j
    BY DEF EndsOnce
  <2>1. i - b + a \in DOMAIN p /\ p[i - b + a] = q[i] /\ j - b + a \in DOMAIN p /\ p[j - b + a] = q[j]
    BY <1>3
  <2>2. i - b + a = j - b + a
    BY <2>1 DEF Stacked, EndsOnce
  <2> QED
    BY <1>1, <2>2
<1>8. ASSUME NEW r \in Ending(p), a = 0 \/ r # p[1].r \/ p[1].op # "end"
      PROVE  r \in Ending(q)
  <2>1. PICK i \in DOMAIN p : p[i].op = "end" /\ p[i].r = r
    BY EndingMember
  <2>2. i > a
    BY <1>1, <1>8, <2>1
  <2>3. i - a + b \in DOMAIN q /\ q[i - a + b] = p[i]
    BY <1>2, <2>2
  <2> QED
    BY <2>1, <2>3, EndingMember
<1>9. ASSUME NEW r \in Ending(q)
      PROVE  r \in Ending(p) /\ (a = 1 /\ p[1].op = "end" => r # p[1].r)
  <2>1. PICK i \in DOMAIN q : q[i].op = "end" /\ q[i].r = r
    BY EndingMember
  <2>2. i - b + a \in DOMAIN p /\ i - b + a > a /\ p[i - b + a] = q[i]
    BY <1>3, <2>1
  <2>3. r \in Ending(p)
    BY <2>1, <2>2, EndingMember
  <2>4. ASSUME a = 1, p[1].op = "end", r = p[1].r
        PROVE  FALSE
    <3>1. 1 \in DOMAIN p
      BY <1>1, <2>4
    <3>2. i - b + a = 1
      BY <2>1, <2>2, <2>4, <3>1 DEF Stacked, EndsOnce
    <3> QED
      BY <2>2, <2>4, <3>2
  <2> QED
    BY <2>3, <2>4
<1>10. a = 0 \/ p[1].op # "end" => Ending(q) = Ending(p)
  BY <1>8, <1>9
<1>11. ASSUME a = 1, p[1].op = "end"
       PROVE  Ending(q) = Ending(p) \ {p[1].r} /\ Untold(due, told, p[1].r) = 0
  <2>1. Ending(q) = Ending(p) \ {p[1].r}
    BY <1>8, <1>9, <1>11
  <2>2. 1 \in DOMAIN p /\ p[1].r \in Requests
    BY <1>1, <1>11
  <2>3. Untold(due, told, p[1].r) < 1
    BY <1>11, <2>2 DEF Stacked, CallsAboveEnds
  <2> QED
    BY <1>4, <2>1, <2>2, <2>3
<1> QED
  BY <1>4, <1>5, <1>6, <1>7, <1>10, <1>11 DEF Stacked

\* q is p with its call on top made, and told2 is told with that call.
Called(p, q, told, told2) ==
    /\ p # <<>> /\ p[1].op = "call" /\ q[1].op = "callback" /\ Len(q) = Len(p)
    /\ \A i \in 2..Len(p) : q[i] = p[i]
    /\ told2 = [told EXCEPT ![p[1].r] = Append(@, p[1].arg)]

\* The call on top of the stack is the next of its request, and is made.
LEMMA StackedCall ==
    ASSUME NEW p \in Seq(AjaxEntries), NEW q \in Seq(AjaxEntries), NEW due \in Names, NEW told \in Names,
           NEW told2, Stacked(p, due, told), Called(p, q, told, told2)
    PROVE  told2 \in Names /\ Stacked(q, due, told2) /\ Ending(q) = Ending(p) /\ p[1].r \in Ending(p)
<1>1. /\ Len(p) \in Nat /\ DOMAIN p = 1..Len(p) /\ DOMAIN q = 1..Len(p) /\ 1 \in DOMAIN p
      /\ \A i \in DOMAIN p : p[i].r \in Requests
  <2>1. Len(p) # 0
    BY EmptySeq DEF Called
  <2> QED
    BY <2>1, StackTyped DEF Called
<1>2. PICK r0 \in Requests : r0 = p[1].r
  BY <1>1
<1>3. PICK lt \in Nat : lt = Len(told[r0]) /\ told[r0] \in Seq(CallNames)
  BY DEF Names
<1>4. PICK n0 \in Nat : n0 = Untold(due, told, r0) /\ Len(due[r0]) = lt + n0
  <2>1. Untold(due, told, r0) \in Nat /\ Len(due[r0]) \in Nat /\ Untold(due, told, r0) = Len(due[r0]) - lt
    BY <1>3, UntoldTyped DEF Stacked
  <2>2. Len(due[r0]) = lt + Untold(due, told, r0)
    <3>1. \A l, u \in Nat : u = l - lt => l = lt + u
      OBVIOUS
    <3> QED
      BY <2>1, <3>1, Zenon
  <2> QED
    BY <2>1, <2>2
<1>5. PICK j0 \in 1..Len(p) : /\ j0 = n0 + 1 /\ n0 >= 1 /\ p[j0].op = "end" /\ p[j0].r = r0
                              /\ \A i \in 1..n0 : /\ p[j0 - i].op = "call" /\ p[j0 - i].r = r0
                                                  /\ p[j0 - i].arg = due[r0][Len(due[r0]) + 1 - i]
  <2>1. PICK j0 \in DOMAIN p : p[j0].op = "end" /\ p[j0].r = r0 /\ 1 < j0 /\ j0 - 1 =< Untold(due, told, p[j0].r)
    <3>1. p[1].op = "call" /\ 1 \in DOMAIN p
      BY <1>1 DEF Called
    <3> QED
      BY <1>2, <3>1 DEF Stacked, CallsEnd
  <2>2. n0 < j0 /\ \A i \in 1..n0 : /\ p[j0 - i].op = "call" /\ p[j0 - i].r = r0
                                    /\ p[j0 - i].arg = due[r0][Len(due[r0]) + 1 - i]
    BY <1>4, <2>1 DEF Stacked, CallsAboveEnds
  <2>3. j0 \in Int /\ j0 \in 1..Len(p) /\ j0 - 1 =< n0
    BY <1>1, <1>4, <2>1
  <2>4. j0 = n0 + 1 /\ n0 >= 1
    <3>1. 1 < j0 /\ n0 < j0
      BY <2>1, <2>2
    <3> QED
      BY <2>3, <3>1
  <2> QED
    BY <2>1, <2>2, <2>3, <2>4
<1>6. p[1].arg = due[r0][lt + 1]
  <2>1. n0 \in 1..n0 /\ j0 - n0 = 1 /\ Len(due[r0]) + 1 - n0 = lt + 1
    BY <1>4, <1>5, SMTT(30)
  <2> QED
    BY <1>5, <2>1
<1>7. /\ Len(told2[r0]) = lt + 1 /\ told2[r0][lt + 1] = p[1].arg
      /\ \A i \in 1..lt : told2[r0][i] = told[r0][i]
      /\ \A r \in Requests : r # r0 => told2[r] = told[r]
  <2>1. told2[r0] = Append(told[r0], p[1].arg)
    BY <1>2 DEF Names, Called
  <2>2. \A r \in Requests : r # r0 => told2[r] = told[r]
    BY <1>2 DEF Names, Called
  <2> QED
    BY <1>3, <2>1, <2>2
<1>8. Untold(due, told2, r0) = n0 - 1 /\ \A r \in Requests : r # r0 => Untold(due, told2, r) = Untold(due, told, r)
  <2>1. Len(due[r0]) - Len(told2[r0]) = n0 - 1
    BY <1>4, <1>7
  <2> QED
    BY <1>7, <2>1 DEF Untold
<1>9. ToldInOrder(due, told2)
  <2> SUFFICES ASSUME NEW r \in Requests
               PROVE  Len(told2[r]) =< Len(due[r]) /\ \A i \in 1..Len(told2[r]) : told2[r][i] = due[r][i]
    BY DEF ToldInOrder
  <2>1. Len(told[r]) =< Len(due[r]) /\ \A i \in 1..Len(told[r]) : told[r][i] = due[r][i]
    BY DEF Stacked, ToldInOrder
  <2>2. CASE r # r0
    BY <1>7, <2>1, <2>2
  <2>3. CASE r = r0
    <3>1. Len(told2[r0]) =< Len(due[r0])
      BY <1>4, <1>5, <1>7
    <3>2. ASSUME NEW i \in 1..Len(told2[r0])
          PROVE  told2[r0][i] = due[r0][i]
      <4>1. i = lt + 1 \/ i \in 1..lt
        BY <1>7
      <4>2. CASE i = lt + 1
        BY <1>6, <1>7, <4>2
      <4>3. CASE i \in 1..lt
        BY <1>3, <1>7, <2>1, <2>3, <4>3
      <4> QED
        BY <4>1, <4>2, <4>3
    <3> QED
      BY <2>3, <3>1, <3>2
  <2> QED
    BY <2>2, <2>3
<1>10. \A i \in DOMAIN q : q[i].op \in {"call", "end"} => i \in 2..Len(p) /\ i \in DOMAIN p /\ q[i] = p[i]
  BY <1>1 DEF Called
<1>11. \A i \in 2..Len(p) : q[i] = p[i]
  BY DEF Called
<1>12. CallsAboveEnds(q, due, told2)
  <2> SUFFICES ASSUME NEW j \in DOMAIN q, q[j].op = "end"
               PROVE  /\ Untold(due, told2, q[j].r) < j
                      /\ \A i \in 1..Untold(due, told2, q[j].r) :
                            /\ q[j - i].op = "call" /\ q[j - i].r = q[j].r
                            /\ q[j - i].arg = due[q[j].r][Len(due[q[j].r]) + 1 - i]
    BY DEF CallsAboveEnds
  <2>1. j \in 2..Len(p) /\ j \in DOMAIN p /\ q[j] = p[j] /\ p[j].r \in Requests
    BY <1>1, <1>10
  <2>2. CASE p[j].r = r0
    <3>1. j = j0
      BY <1>1, <1>5, <2>1, <2>2 DEF Stacked, EndsOnce
    <3>2. Untold(due, told2, q[j].r) = n0 - 1
      BY <1>8, <2>1, <2>2
    <3>3. ASSUME NEW i \in 1..(n0 - 1)
          PROVE  i \in 1..n0 /\ j - i \in 2..Len(p) /\ q[j - i] = p[j - i]
      <4>1. i \in 1..n0 /\ j - i \in 2..Len(p)
        BY <1>1, <1>5, <3>1
      <4> QED
        BY <1>11, <4>1
    <3>4. \A i \in 1..(n0 - 1) : /\ q[j - i].op = "call" /\ q[j - i].r = r0
                                 /\ q[j - i].arg = due[r0][Len(due[r0]) + 1 - i]
      BY <1>5, <3>1, <3>3
    <3>5. n0 - 1 < j
      BY <1>5, <3>1
    <3> QED
      BY <2>1, <2>2, <3>2, <3>4, <3>5
  <2>3. CASE p[j].r # r0
    <3> DEFINE n == Untold(due, told, p[j].r)
    <3>1. Untold(due, told2, q[j].r) = n /\ n \in Nat
      BY <1>8, <2>1, <2>3, UntoldTyped DEF Stacked
    <3>2. n < j /\ \A i \in 1..n : /\ p[j - i].op = "call" /\ p[j - i].r = p[j].r
                                   /\ p[j - i].arg = due[p[j].r][Len(due[p[j].r]) + 1 - i]
      BY <2>1 DEF Stacked, CallsAboveEnds
    <3> HIDE DEF n
    <3>3. \A i \in 1..n : q[j - i] = p[j - i]
      <4> TAKE i \in 1..n
      <4>1. j - i \in 1..Len(p)
        BY <2>1, <3>1, <3>2
      <4>2. p[j - i].r # r0
        BY <2>3, <3>2
      <4>3. j - i # 1
        BY <1>2, <4>2
      <4>4. j - i \in 2..Len(p)
        BY <1>1, <4>1, <4>3
      <4> QED
        BY <1>11, <4>4
    <3> QED
      BY <2>1, <3>1, <3>2, <3>3
  <2> QED
    BY <2>2, <2>3
<1>13. CallsEnd(q, due, told2)
  <2> SUFFICES ASSUME NEW i \in DOMAIN q, q[i].op = "call"
               PROVE  \E j \in DOMAIN q : /\ q[j].op = "end" /\ q[j].r = q[i].r /\ i < j
                                          /\ j - i =< Untold(due, told2, q[j].r)
    BY DEF CallsEnd
  <2>1. i \in 2..Len(p) /\ i \in DOMAIN p /\ q[i] = p[i] /\ p[i].op = "call"
    BY <1>10
  <2>2. PICK j \in DOMAIN p : /\ p[j].op = "end" /\ p[j].r = p[i].r /\ i < j
                              /\ j - i =< Untold(due, told, p[j].r)
    BY <2>1 DEF Stacked, CallsEnd
  <2>3. j \in 2..Len(p) /\ j \in DOMAIN q /\ q[j] = p[j] /\ p[j].r \in Requests
    <3>1. j \in 2..Len(p) /\ j \in DOMAIN q
      BY <1>1, <2>1, <2>2
    <3> QED
      BY <1>1, <1>11, <3>1
  <2>4. j - i =< Untold(due, told2, q[j].r)
    <3>1. CASE p[j].r = r0
      <4>1. j = j0
        BY <1>1, <1>5, <2>2, <3>1 DEF Stacked, EndsOnce
      <4>2. Untold(due, told2, q[j].r) = j0 - 2
        BY <1>5, <1>8, <2>3, <3>1
      <4> QED
        BY <1>5, <2>1, <4>1, <4>2
    <3>2. CASE p[j].r # r0
      BY <1>8, <2>2, <2>3, <3>2
    <3> QED
      BY <3>1, <3>2
  <2> QED
    BY <2>1, <2>2, <2>3, <2>4
<1>14. EndsOnce(q)
  BY <1>10 DEF EndsOnce, Stacked
<1>15. Ending(q) = Ending(p)
  <2>1. ASSUME NEW r \in Ending(q)
        PROVE  r \in Ending(p)
    <3>1. PICK i \in DOMAIN q : q[i].op = "end" /\ q[i].r = r
      BY EndingMember
    <3> QED
      BY <1>10, <3>1, EndingMember
  <2>2. ASSUME NEW r \in Ending(p)
        PROVE  r \in Ending(q)
    <3>1. PICK i \in DOMAIN p : p[i].op = "end" /\ p[i].r = r
      BY EndingMember
    <3>2. i \in 2..Len(p) /\ i \in DOMAIN q
      BY <1>1, <3>1 DEF Called
    <3>3. q[i] = p[i]
      BY <1>11, <3>2
    <3> QED
      BY <3>1, <3>2, <3>3, EndingMember
  <2> QED
    BY <2>1, <2>2
<1>16. told2 \in Names
  <2>1. p[1].arg \in CallNames
    <3>1. due[r0] \in Seq(CallNames) /\ lt + 1 \in 1..Len(due[r0])
      <4>1. lt + 1 =< lt + n0
        BY <1>5
      <4> QED
        BY <1>4, <4>1 DEF Names
    <3> QED
      BY <1>6, <3>1
  <2>2. Append(told[r0], p[1].arg) \in Seq(CallNames)
    BY <1>3, <2>1
  <2> QED
    BY <1>2, <2>2 DEF Names, Called
<1>17. r0 \in Ending(p)
  BY <1>1, <1>5, EndingMember
<1> QED
  BY <1>2, <1>9, <1>12, <1>13, <1>14, <1>15, <1>16, <1>17 DEF Stacked

\* q is p with the calls of names for r0, and its end below them, put on top.
Begun(p, q, r0, names) ==
    /\ Len(q) = Len(p) + Len(names) + 1
    /\ \A i \in 1..Len(names) : q[i].op = "call" /\ q[i].r = r0 /\ q[i].arg = names[i]
    /\ q[Len(names) + 1].op = "end" /\ q[Len(names) + 1].r = r0
    /\ \A i \in 1..Len(p) : q[i + Len(names) + 1] = p[i]

Begins(p, q, due, told, r0, names, due2) ==
    /\ due2 = [due EXCEPT ![r0] = names] /\ Stacked(p, due, told) /\ Begun(p, q, r0, names)
    /\ told[r0] = <<>> /\ r0 \notin Ending(p)

\* done puts the calls of a request in their order, above the end that it has only once.
LEMMA StackedDone ==
    ASSUME NEW p \in Seq(AjaxEntries), NEW q \in Seq(AjaxEntries), NEW due \in Names, NEW told \in Names,
           NEW r0 \in Requests, NEW names \in Seq(CallNames), NEW due2 \in Names,
           Begins(p, q, due, told, r0, names, due2)
    PROVE  Stacked(q, due2, told) /\ Ending(q) = Ending(p) \cup {r0}
<1>0. /\ due2 = [due EXCEPT ![r0] = names] /\ Stacked(p, due, told) /\ Begun(p, q, r0, names)
      /\ told[r0] = <<>> /\ r0 \notin Ending(p)
  BY DEF Begins
<1> USE <1>0
<1>1. PICK n \in Nat : n = Len(names)
  OBVIOUS
<1>2. /\ Len(p) \in Nat /\ DOMAIN p = 1..Len(p) /\ DOMAIN q = 1..(Len(p) + n + 1)
      /\ \A i \in DOMAIN p : p[i].r \in Requests
  BY <1>1, StackTyped DEF Begun
<1>3. /\ \A i \in 1..n : q[i].op = "call" /\ q[i].r = r0 /\ q[i].arg = names[i]
      /\ q[n + 1].op = "end" /\ q[n + 1].r = r0
      /\ \A i \in 1..Len(p) : q[i + n + 1] = p[i]
  BY <1>1 DEF Begun
<1>4. due2[r0] = names /\ Len(told[r0]) = 0 /\ \A r \in Requests : r # r0 => due2[r] = due[r]
  BY DEF Names
<1>5. Untold(due2, told, r0) = n /\ \A r \in Requests : r # r0 => Untold(due2, told, r) = Untold(due, told, r)
  BY <1>1, <1>4 DEF Untold
<1>6. ToldInOrder(due2, told)
  <2> SUFFICES ASSUME NEW r \in Requests
               PROVE  Len(told[r]) =< Len(due2[r]) /\ \A i \in 1..Len(told[r]) : told[r][i] = due2[r][i]
    BY DEF ToldInOrder
  <2>1. CASE r = r0
    BY <1>1, <1>4, <2>1
  <2>2. CASE r # r0
    BY <1>4, <2>2 DEF Stacked, ToldInOrder
  <2> QED
    BY <2>1, <2>2
<1>7. ASSUME NEW i \in DOMAIN p
      PROVE  i + n + 1 \in DOMAIN q /\ q[i + n + 1] = p[i] /\ i \in Int
  BY <1>2, <1>3
<1>8. ASSUME NEW i \in DOMAIN q
      PROVE  \/ i \in 1..n /\ q[i].op = "call" /\ q[i].r = r0
             \/ i = n + 1 /\ q[i].op = "end" /\ q[i].r = r0
             \/ i - n - 1 \in DOMAIN p /\ q[i] = p[i - n - 1] /\ i \in Int /\ i > n + 1
  <2>1. i \in 1..n \/ i = n + 1 \/ (i - n - 1 \in DOMAIN p /\ i > n + 1)
    BY <1>2
  <2>2. ASSUME i - n - 1 \in DOMAIN p
        PROVE  q[i] = p[i - n - 1]
    <3>1. i = (i - n - 1) + n + 1
      BY <1>2
    <3> QED
      BY <1>7, <2>2, <3>1
  <2>3. i \in Int
    BY <1>2
  <2> QED
    BY <1>3, <2>1, <2>2, <2>3
<1>9. \A i \in DOMAIN p : p[i].op = "end" => p[i].r # r0
  BY EndingMember
<1>10. CallsAboveEnds(q, due2, told)
  <2> SUFFICES ASSUME NEW j \in DOMAIN q, q[j].op = "end"
               PROVE  /\ Untold(due2, told, q[j].r) < j
                      /\ \A i \in 1..Untold(due2, told, q[j].r) :
                            /\ q[j - i].op = "call" /\ q[j - i].r = q[j].r
                            /\ q[j - i].arg = due2[q[j].r][Len(due2[q[j].r]) + 1 - i]
    BY DEF CallsAboveEnds
  <2>1. ASSUME j = n + 1
        PROVE  /\ Untold(due2, told, q[j].r) < j
               /\ \A i \in 1..Untold(due2, told, q[j].r) :
                     /\ q[j - i].op = "call" /\ q[j - i].r = q[j].r
                     /\ q[j - i].arg = due2[q[j].r][Len(due2[q[j].r]) + 1 - i]
    <3>1. Untold(due2, told, q[j].r) = n /\ q[j].r = r0 /\ due2[q[j].r] = names /\ n < j
      BY <1>3, <1>4, <1>5, <2>1
    <3>2. ASSUME NEW i \in 1..n
          PROVE  j - i \in 1..n /\ Len(names) + 1 - i = j - i
      <4>1. (n + 1) - i \in 1..n
        OBVIOUS
      <4> QED
        BY <1>1, <2>1, <4>1
    <3>3. \A i \in 1..n : q[j - i].op = "call" /\ q[j - i].r = r0 /\ q[j - i].arg = names[Len(names) + 1 - i]
      BY <1>3, <3>2
    <3> QED
      BY <3>1, <3>3
  <2>2. ASSUME j - n - 1 \in DOMAIN p, q[j] = p[j - n - 1], j \in Int, j > n + 1
        PROVE  /\ Untold(due2, told, q[j].r) < j
               /\ \A i \in 1..Untold(due2, told, q[j].r) :
                     /\ q[j - i].op = "call" /\ q[j - i].r = q[j].r
                     /\ q[j - i].arg = due2[q[j].r][Len(due2[q[j].r]) + 1 - i]
    <3>1. PICK k \in 1..Len(p) : k = j - n - 1 /\ j = k + n + 1 /\ p[k] = q[j] /\ k \in DOMAIN p
      <4>1. j = (j - n - 1) + n + 1
        BY <2>2
      <4> QED
        BY <1>2, <2>2, <4>1
    <3>2. PICK r \in Requests : r = q[j].r /\ r = p[k].r /\ r # r0
      BY <1>2, <1>9, <3>1
    <3>3. PICK u \in Nat : u = Untold(due, told, r)
      BY UntoldTyped DEF Stacked
    <3>4. Untold(due2, told, q[j].r) = u /\ due2[r] = due[r]
      BY <1>4, <1>5, <3>2, <3>3
    <3>5. u < k /\ \A i \in 1..u : /\ p[k - i].op = "call" /\ p[k - i].r = r
                                   /\ p[k - i].arg = due[r][Len(due[r]) + 1 - i]
      <4>1. p[k].op = "end"
        BY <3>1
      <4>2. Untold(due, told, p[k].r) < k /\ \A i \in 1..Untold(due, told, p[k].r) :
                /\ p[k - i].op = "call" /\ p[k - i].r = p[k].r
                /\ p[k - i].arg = due[p[k].r][Len(due[p[k].r]) + 1 - i]
        BY <3>1, <4>1 DEF Stacked, CallsAboveEnds
      <4> QED
        BY <3>2, <3>3, <4>2
    <3>6. ASSUME NEW i \in 1..u
          PROVE  q[j - i] = p[k - i]
      <4>1. k - i \in DOMAIN p /\ j - i = (k - i) + n + 1
        <5>1. i \in Nat /\ i >= 1 /\ i =< u /\ u < k /\ k \in 1..Len(p) /\ j = k + n + 1
          BY <3>1, <3>5
        <5>2. k - i \in 1..Len(p) /\ j - i = (k - i) + n + 1
          BY <1>2, <5>1
        <5> QED
          BY <1>2, <5>2
      <4> QED
        BY <1>7, <4>1
    <3>7. u < j
      BY <3>1, <3>5
    <3>8. \A i \in 1..u : q[j - i].op = "call" /\ q[j - i].r = r /\ q[j - i].arg = due2[r][Len(due2[r]) + 1 - i]
      BY <3>4, <3>5, <3>6
    <3> QED
      BY <3>2, <3>4, <3>7, <3>8
  <2> QED
    BY <1>8, <2>1, <2>2
<1>11. CallsEnd(q, due2, told)
  <2> SUFFICES ASSUME NEW i \in DOMAIN q, q[i].op = "call"
               PROVE  \E j \in DOMAIN q : /\ q[j].op = "end" /\ q[j].r = q[i].r /\ i < j
                                          /\ j - i =< Untold(due2, told, q[j].r)
    BY DEF CallsEnd
  <2>1. ASSUME i \in 1..n, q[i].r = r0
        PROVE  \E j \in DOMAIN q : /\ q[j].op = "end" /\ q[j].r = q[i].r /\ i < j
                                   /\ j - i =< Untold(due2, told, q[j].r)
    <3>1. n + 1 \in DOMAIN q /\ i < n + 1 /\ (n + 1) - i =< n
      BY <1>2, <2>1
    <3> QED
      BY <1>3, <1>5, <2>1, <3>1
  <2>2. ASSUME i - n - 1 \in DOMAIN p, q[i] = p[i - n - 1], i \in Int
        PROVE  \E j \in DOMAIN q : /\ q[j].op = "end" /\ q[j].r = q[i].r /\ i < j
                                   /\ j - i =< Untold(due2, told, q[j].r)
    <3>1. PICK k \in 1..Len(p) : k = i - n - 1 /\ i = k + n + 1 /\ p[k] = q[i] /\ k \in DOMAIN p
      BY <1>2, <2>2
    <3>2. PICK l \in DOMAIN p : p[l].op = "end" /\ p[l].r = p[k].r /\ k < l /\ l - k =< Untold(due, told, p[l].r)
      BY <3>1 DEF Stacked, CallsEnd
    <3>3. l + n + 1 \in DOMAIN q /\ q[l + n + 1] = p[l] /\ l \in Int
      BY <1>7
    <3>4. i < l + n + 1 /\ (l + n + 1) - i = l - k
      <4>1. i = k + n + 1 /\ k < l
        BY <3>1, <3>2
      <4>2. l \in Int /\ k \in Int
        BY <3>3
      <4>3. k + n + 1 < l + n + 1 /\ (l + n + 1) - (k + n + 1) = l - k
        BY <4>1, <4>2
      <4> QED
        BY <4>1, <4>3
    <3>5. Untold(due2, told, q[l + n + 1].r) = Untold(due, told, p[l].r)
      BY <1>2, <1>5, <1>9, <3>2, <3>3
    <3> QED
      BY <3>1, <3>2, <3>3, <3>4, <3>5
  <2> QED
    BY <1>8, <2>1, <2>2
<1>12. EndsOnce(q)
  <2> SUFFICES ASSUME NEW i \in DOMAIN q, NEW j \in DOMAIN q, q[i].op = "end", q[j].op = "end", q[i].r = q[j].r
               PROVE  i = j
    BY DEF EndsOnce
  <2>1. CASE q[i].r = r0
    BY <1>8, <1>9, <2>1
  <2>2. CASE q[i].r # r0
    <3>1. /\ i - n - 1 \in DOMAIN p /\ q[i] = p[i - n - 1] /\ i \in Int
          /\ j - n - 1 \in DOMAIN p /\ q[j] = p[j - n - 1] /\ j \in Int
      BY <1>8, <2>2
    <3>2. i - n - 1 = j - n - 1
      BY <3>1 DEF Stacked, EndsOnce
    <3> QED
      BY <3>1, <3>2
  <2> QED
    BY <2>1, <2>2
<1>13. Ending(q) = Ending(p) \cup {r0}
  <2>1. ASSUME NEW r \in Ending(q)
        PROVE  r \in Ending(p) \cup {r0}
    <3>1. PICK i \in DOMAIN q : q[i].op = "end" /\ q[i].r = r
      BY EndingMember
    <3> QED
      BY <1>8, <3>1, EndingMember
  <2>2. ASSUME NEW r \in Ending(p)
        PROVE  r \in Ending(q)
    <3>1. PICK i \in DOMAIN p : p[i].op = "end" /\ p[i].r = r
      BY EndingMember
    <3> QED
      BY <1>7, <3>1, EndingMember, SMTT(30)
  <2>3. r0 \in Ending(q)
    <3>1. n + 1 \in DOMAIN q
      BY <1>2
    <3> QED
      BY <1>3, <3>1, EndingMember
  <2> QED
    BY <2>1, <2>2, <2>3
<1> QED
  BY <1>6, <1>10, <1>11, <1>12, <1>13 DEF Stacked

LEMMA OnStackMember ==
    \A p, r : r \in OnStack(p) <=> \E i \in DOMAIN p : p[i].r = r
BY DEF OnStack

LEMMA ShiftPush ==
    ASSUME NEW p \in Seq(AjaxEntries), NEW e \in AjaxEntries, e.op \notin {"call", "end"}
    PROVE  /\ <<e>> \o p \in Seq(AjaxEntries) /\ Shifted(p, <<e>> \o p, 0, 1)
           /\ \A r \in OnStack(<<e>> \o p) : r = e.r \/ r \in OnStack(p)
<1> DEFINE q == <<e>> \o p
<1>1. /\ q \in Seq(AjaxEntries) /\ Len(q) = Len(p) + 1 /\ q[1] = e /\ Len(p) \in Nat
      /\ \A i \in 1..Len(p) : q[i + 1] = p[i]
  BY PushedEntry
<1>2. DOMAIN q = 1..(Len(p) + 1) /\ DOMAIN p = 1..Len(p)
  BY <1>1
<1> HIDE DEF q
<1>3. Shifted(p, q, 0, 1)
  BY <1>1 DEF Shifted
<1>4. ASSUME NEW r \in OnStack(q)
      PROVE  r = e.r \/ r \in OnStack(p)
  <2>1. PICK i \in DOMAIN q : q[i].r = r
    BY OnStackMember
  <2>2. CASE i = 1
    BY <1>1, <2>1, <2>2
  <2>3. CASE i # 1
    <3>1. i - 1 \in 1..Len(p) /\ (i - 1) + 1 = i
      BY <1>1, <1>2, <2>3
    <3>2. p[i - 1] = q[i]
      BY <1>1, <3>1
    <3> QED
      BY <1>2, <2>1, <3>1, <3>2, OnStackMember
  <2> QED
    BY <2>2, <2>3
<1> QED
  BY <1>1, <1>3, <1>4 DEF q

LEMMA ShiftPop ==
    ASSUME NEW p \in Seq(AjaxEntries), p # <<>>
    PROVE  /\ Tail(p) \in Seq(AjaxEntries) /\ OnStack(Tail(p)) \subseteq OnStack(p)
           /\ p[1].op # "call" => Shifted(p, Tail(p), 1, 0)
<1> DEFINE q == Tail(p)
<1>1. /\ Len(p) \in Nat /\ Len(p) >= 1 /\ q \in Seq(AjaxEntries) /\ Len(q) = Len(p) - 1
      /\ \A i \in 2..Len(p) : q[i - 1] = p[i]
  BY PoppedEntry
<1>2. DOMAIN q = 1..(Len(p) - 1) /\ DOMAIN p = 1..Len(p)
  BY <1>1
<1> HIDE DEF q
<1>3. p[1].op # "call" => Shifted(p, q, 1, 0)
  <2>1. ASSUME NEW i \in 1..Len(p), i > 1
        PROVE  q[i - 1 + 0] = p[i]
    <3>1. i \in 2..Len(p) /\ i - 1 + 0 = i - 1
      BY <1>1, <2>1
    <3> QED
      BY <1>1, <3>1
  <2> QED
    BY <1>1, <2>1 DEF Shifted
<1>4. ASSUME NEW r \in OnStack(q)
      PROVE  r \in OnStack(p)
  <2>1. PICK i \in DOMAIN q : q[i].r = r
    BY OnStackMember
  <2>2. i + 1 \in 2..Len(p) /\ (i + 1) - 1 = i
    BY <1>1, <1>2
  <2>3. p[i + 1] = q[i] /\ i + 1 \in DOMAIN p
    BY <1>1, <1>2, <2>2
  <2> QED
    BY <2>1, <2>3, OnStackMember
<1> QED
  BY <1>1, <1>3, <1>4 DEF q

LEMMA ShiftSwap ==
    ASSUME NEW p \in Seq(AjaxEntries), NEW e \in AjaxEntries, p # <<>>, p[1].op # "call",
           e.op \notin {"call", "end"}
    PROVE  /\ <<e>> \o Tail(p) \in Seq(AjaxEntries) /\ Shifted(p, <<e>> \o Tail(p), 1, 1)
           /\ \A r \in OnStack(<<e>> \o Tail(p)) : r = e.r \/ r \in OnStack(p)
<1> DEFINE t == Tail(p)
           q == <<e>> \o t
<1>1. /\ Len(p) \in Nat /\ Len(p) >= 1 /\ t \in Seq(AjaxEntries) /\ Len(t) = Len(p) - 1
      /\ \A i \in 2..Len(p) : t[i - 1] = p[i]
  BY PoppedEntry
<1>2. q \in Seq(AjaxEntries) /\ \A r \in OnStack(q) : r = e.r \/ r \in OnStack(p)
  BY <1>1, ShiftPop, ShiftPush
<1> HIDE DEF t
<1>3. Len(q) = Len(t) + 1 /\ q[1] = e /\ \A i \in 1..Len(t) : q[i + 1] = t[i]
  BY <1>1, PushedEntry
<1> HIDE DEF q
<1>4. ASSUME NEW i \in 1..Len(p), i > 1
      PROVE  q[i - 1 + 1] = p[i]
  <2>1. i \in 2..Len(p) /\ i - 1 \in 1..Len(t) /\ i - 1 + 1 = i
    BY <1>1, <1>4
  <2> QED
    BY <1>1, <1>3, <2>1
<1>5. Shifted(p, q, 1, 1)
  <2>1. Len(q) = Len(p) - 1 + 1
    BY <1>1, <1>3
  <2> QED
    BY <1>1, <1>3, <1>4, <2>1 DEF Shifted
<1> QED
  BY <1>2, <1>5 DEF q, t

\* What a request has due is the same, and with it whether it has ended.
SameEnd(r) ==
    /\ requests'[r].state = 2 <=> requests[r].state = 2
    /\ requests[r].state = 2 =>
        /\ requests'[r].installed = requests[r].installed /\ requests'[r].wanted = requests[r].wanted
        /\ requests'[r].answer = requests[r].answer
SameStage(r) == SameEnd(r) /\ (requests'[r].state \in 0..1 <=> requests[r].state \in 0..1)

LEMMA CallbacksNames ==
    ASSUME NEW r, NEW answer
    PROVE  CallbacksOf(r, answer) \in Seq(CallNames)
<1>1. \A a, b, c \in Seq(CallNames) : (a \o b) \o c \in Seq(CallNames)
  OBVIOUS
<1>2. <<>> \in Seq(CallNames) /\ \A x \in CallNames : <<x>> \in Seq(CallNames)
  <2>1. \A S : <<>> \in Seq(S) /\ \A x \in S : <<x>> \in Seq(S)
    OBVIOUS
  <2> QED
    BY <2>1, Zenon
<1>3. "success" \in CallNames /\ "error" \in CallNames /\ "statusCode" \in CallNames /\ "complete" \in CallNames
  BY DEF CallNames
<1>4. (IF Succeeds(requests[r].wanted, answer) THEN "success" ELSE "error") \in CallNames
  BY <1>3
<1>5. <<IF Succeeds(requests[r].wanted, answer) THEN "success" ELSE "error">> \in Seq(CallNames)
  BY <1>2, <1>4, Zenon
<1>6. (IF answer.status \in StatusTable THEN <<"statusCode">> ELSE <<>>) \in Seq(CallNames)
  BY <1>2, <1>3, Zenon
<1>7. <<"complete">> \in Seq(CallNames)
  BY <1>2, <1>3, Zenon
<1> QED
  BY <1>1, <1>2, <1>5, <1>6, <1>7, Zenon DEF CallbacksOf

LEMMA DueNames == DueOf \in Names
<1>1. <<>> \in Seq(CallNames)
  OBVIOUS
<1> QED
  BY <1>1, CallbacksNames DEF DueOf, Names

LEMMA SameDue ==
    ASSUME \A r \in Requests : SameEnd(r)
    PROVE  DueOf' = DueOf
<1> SUFFICES ASSUME NEW r \in Requests
             PROVE  (IF requests'[r].state = 2 THEN CallbacksOf(r, requests[r].answer)' ELSE <<>>)
                      = (IF requests[r].state = 2 THEN CallbacksOf(r, requests[r].answer) ELSE <<>>)
  BY DEF DueOf
<1>1. ASSUME requests[r].state = 2
      PROVE  CallbacksOf(r, requests[r].answer)' = CallbacksOf(r, requests[r].answer)
  BY <1>1 DEF SameEnd, CallbacksOf
<1> QED
  BY <1>1 DEF SameEnd

LEMMA EndedSame ==
    ASSUME AjaxInv, \A r \in Requests : SameEnd(r), Ending(pending') = Ending(pending), UNCHANGED <<heard, spoiled>>
    PROVE  EndedTold'
<1>1. DueOf' = DueOf
  BY SameDue
<1>2. Ending(pending)' = Ending(pending)
  BY DEF Ending
<1>3. \A r \in Requests : requests'[r].state = 2 <=> requests[r].state = 2
  BY DEF SameEnd
<1>4. spoiled \subseteq Requests
  BY DEF AjaxInv, AjaxTyped
<1>5. Ending(pending) \subseteq Requests
  <2>1. pending \in Seq(AjaxEntries)
    BY DEF AjaxInv, AjaxTyped
  <2> QED
    BY <2>1, StackTyped DEF Ending
<1> QED
  BY <1>1, <1>2, <1>3, <1>4, <1>5 DEF AjaxInv, EndedTold

\* A step that ends no request keeps the invariant when it keeps the types and what has not begun.
LEMMA AjaxQuiet ==
    ASSUME AjaxInv, requests' \in [Requests -> AjaxRequests], pending' \in Seq(AjaxEntries),
           UNCHANGED <<active, busy, heard, spoiled>>, \A r \in Requests : SameStage(r), NothingBefore',
           NEW a \in 0..1, NEW b \in 0..1, Shifted(pending, pending', a, b), a = 0 \/ pending[1].op # "end"
    PROVE  AjaxInv'
<1>1. AjaxTyped'
  BY DEF AjaxInv, AjaxTyped
<1>2. DueOf' = DueOf /\ DueOf \in Names
  BY SameDue, DueNames DEF SameStage
<1>3. heard \in Names /\ pending \in Seq(AjaxEntries) /\ Stacked(pending, DueOf, heard)
  BY DEF AjaxInv, AjaxTyped, Names
<1>4. Stacked(pending', DueOf, heard) /\ Ending(pending') = Ending(pending)
  BY <1>2, <1>3, StackedShift
<1>5. Stacked(pending, DueOf, heard)'
  BY <1>2, <1>4
<1>6. Ending(pending)' = Ending(pending)
  BY <1>4 DEF Ending
<1>7. \A r \in Requests : /\ requests'[r].state = 2 <=> requests[r].state = 2
                          /\ requests'[r].state \in 0..1 <=> requests[r].state \in 0..1
  BY DEF SameStage, SameEnd
<1>8. EndedTold'
  BY <1>4, EndedSame DEF SameStage
<1>9. UnderWay' = UnderWay
  BY <1>6, <1>7 DEF UnderWay
<1> QED
  BY <1>1, <1>5, <1>8, <1>9 DEF AjaxInv

\* What is on top of the stack.
LEMMA TopEntry ==
    ASSUME AjaxInv, NEW op, Top(op)
    PROVE  /\ pending \in Seq(AjaxEntries) /\ pending # <<>> /\ Head(pending) = pending[1] /\ pending[1].op = op
           /\ pending[1] \in AjaxEntries /\ pending[1].r \in Requests /\ pending[1].r \in OnStack(pending)
           /\ requests[pending[1].r].state # NotSent /\ requests[pending[1].r] \in AjaxRequests
<1>1. pending \in Seq(AjaxEntries) /\ pending # <<>> /\ Head(pending).op = op
  BY DEF AjaxInv, AjaxTyped, Top
<1>2. Head(pending) = pending[1] /\ 1 \in DOMAIN pending
  BY <1>1, PoppedEntry
<1>3. pending[1].r \in Requests /\ pending[1] \in AjaxEntries
  BY <1>1, <1>2, StackTyped
<1>4. pending[1].r \in OnStack(pending)
  BY <1>2, OnStackMember
<1> QED
  BY <1>1, <1>2, <1>3, <1>4 DEF AjaxInv, AjaxTyped, NothingBefore

\* Without a change of the requests.
LEMMA NothingChanged ==
    ASSUME AjaxInv, UNCHANGED requests, \A r \in OnStack(pending') : r \in OnStack(pending)
    PROVE  /\ requests' \in [Requests -> AjaxRequests] /\ \A r \in Requests : SameStage(r)
           /\ NothingBefore'
<1>1. OnStack(pending)' = OnStack(pending')
  BY DEF OnStack
<1> QED
  BY <1>1 DEF AjaxInv, AjaxTyped, NothingBefore, SameStage, SameEnd

LEMMA EntryShaped ==
    ASSUME NEW r \in Requests, NEW answer \in AjaxReplies
    PROVE  /\ Entry("before", r, answer) \in AjaxEntries /\ Entry("done", r, answer) \in AjaxEntries
           /\ Entry("end", r, answer) \in AjaxEntries
           /\ Entry("before", r, answer).op = "before" /\ Entry("done", r, answer).op = "done"
           /\ Entry("before", r, answer).r = r /\ Entry("done", r, answer).r = r
BY DEF Entry, AjaxEntries

LEMMA WithoutShaped ==
    /\ Answers \subseteq AjaxReplies /\ Fresh.answer \in AjaxReplies
    /\ \A reason \in {"none", "canceled", "noTransport", "exception", "abort", "timeout"} :
            Without(reason) \in AjaxReplies
<1>1. Data \in AjaxReplies /\ Data = [status |-> 200, type |-> "json", wellFormed |-> TRUE]
  BY DEF Data, AjaxReplies
<1>2. Answers \subseteq AjaxReplies
  <2>1. ASSUME NEW d \in AjaxReplies
        PROVE  /\ [d EXCEPT !.wellFormed = FALSE] \in AjaxReplies
               /\ \A n \in Nat : [d EXCEPT !.status = n] \in AjaxReplies
               /\ [d EXCEPT !.type = "html"] \in AjaxReplies
    BY DEF AjaxReplies
  <2> DEFINE malformed == [Data EXCEPT !.wellFormed = FALSE]
             html == [Data EXCEPT !.type = "html"]
             markup == [html EXCEPT !.wellFormed = FALSE]
             with(n) == [Data EXCEPT !.status = n]
  <2>2. Answers = {Data, malformed, markup, with(204), with(401), with(404)}
    BY DEF Answers
  <2>3. malformed \in AjaxReplies /\ html \in AjaxReplies
    BY <1>1, <2>1
  <2>4. \A n \in Nat : with(n) \in AjaxReplies
    BY <1>1, <2>1
  <2> HIDE DEF html, malformed, with
  <2>5. markup \in AjaxReplies
    BY <2>1, <2>3
  <2> HIDE DEF markup
  <2>6. 204 \in Nat /\ 401 \in Nat /\ 404 \in Nat
    OBVIOUS
  <2> QED
    BY <1>1, <2>2, <2>3, <2>4, <2>5, <2>6
<1>3. \A reason \in {"none", "canceled", "noTransport", "exception", "abort", "timeout"} :
            Without(reason) \in AjaxReplies
  BY DEF Without, AjaxReplies
<1>4. Fresh.answer = Without("none")
  BY DEF Fresh
<1> QED
  BY <1>2, <1>3, <1>4

LEMMA CancelKept ==
    ASSUME AjaxInv, Cancel
    PROVE  AjaxInv'
<1> DEFINE e == Entry("done", pending[1].r, Without("canceled"))
<1>1. Top("before") /\ UNCHANGED <<requests, active, busy, heard, spoiled>>
  BY DEF Cancel
<1>2. /\ pending \in Seq(AjaxEntries) /\ pending # <<>> /\ Head(pending) = pending[1] /\ pending[1].op = "before"
      /\ pending[1].r \in Requests /\ pending[1].r \in OnStack(pending)
  BY <1>1, TopEntry
<1>3. e \in AjaxEntries /\ e.op = "done" /\ e.r = pending[1].r
  <2>1. Without("canceled") \in AjaxReplies
    BY WithoutShaped
  <2> QED
    BY <1>2, <2>1, EntryShaped
<1>4. pending' = <<e>> \o Tail(pending)
  BY <1>2 DEF Cancel
<1> HIDE DEF e
<1>5. /\ pending' \in Seq(AjaxEntries) /\ Shifted(pending, pending', 1, 1)
      /\ \A r \in OnStack(pending') : r \in OnStack(pending)
  BY <1>2, <1>3, <1>4, ShiftSwap
<1> QED
  BY <1>1, <1>2, <1>5, NothingChanged, AjaxQuiet

LEMMA TakenKept ==
    ASSUME AjaxInv, NEW op \in {"before", "callback", "done"}, Top(op), pending' = Tail(pending),
           UNCHANGED <<requests, active, busy, heard, spoiled>>
    PROVE  AjaxInv'
<1>1. pending \in Seq(AjaxEntries) /\ pending # <<>> /\ pending[1].op = op
  BY TopEntry
<1>2. /\ pending' \in Seq(AjaxEntries) /\ Shifted(pending, pending', 1, 0)
      /\ \A r \in OnStack(pending') : r \in OnStack(pending)
  BY <1>1, ShiftPop
<1> QED
  BY <1>1, <1>2, NothingChanged, AjaxQuiet

\* With a change of one request, at the same stage.
StaysAs(r, q) ==
    /\ q \in AjaxRequests /\ q.state # NotSent
    /\ q.state = 2 <=> requests[r].state = 2
    /\ q.state \in 0..1 <=> requests[r].state \in 0..1
    /\ requests[r].state = 2 =>
        q.installed = requests[r].installed /\ q.wanted = requests[r].wanted /\ q.answer = requests[r].answer

OneMore(p, s, r) == \A t \in OnStack(s) : t = r \/ t \in OnStack(p)

LEMMA OneChanged ==
    ASSUME AjaxInv, NEW r \in Requests, NEW q, requests' = [requests EXCEPT ![r] = q], StaysAs(r, q),
           OneMore(pending, pending', r)
    PROVE  /\ requests' \in [Requests -> AjaxRequests] /\ \A s \in Requests : SameStage(s)
           /\ NothingBefore'
<1>1. requests \in [Requests -> AjaxRequests] /\ NothingBefore
  BY DEF AjaxInv, AjaxTyped
<1>2. requests'[r] = q /\ \A s \in Requests : s # r => requests'[s] = requests[s]
  BY <1>1
<1>3. requests' \in [Requests -> AjaxRequests]
  BY <1>1 DEF StaysAs
<1>4. ASSUME NEW s \in Requests
      PROVE  SameStage(s)
  <2>1. CASE s = r
    BY <1>2, <2>1 DEF SameStage, SameEnd, StaysAs
  <2>2. CASE s # r
    <3>1. requests'[s] = requests[s]
      BY <1>2, <2>2
    <3> QED
      BY <3>1 DEF SameStage, SameEnd
  <2> QED
    BY <2>1, <2>2
<1>5. NothingBefore'
  <2>1. ASSUME NEW s \in Requests, requests'[s].state = NotSent
        PROVE  ~requests'[s].timer /\ requests'[s].transport = "none"
    <3>1. s # r
      BY <1>2, <2>1 DEF StaysAs
    <3>2. requests'[s] = requests[s]
      BY <1>2, <3>1
    <3> QED
      BY <1>1, <2>1, <3>2 DEF NothingBefore
  <2>2. ASSUME NEW s \in OnStack(pending)'
        PROVE  requests'[s].state # NotSent
    <3>1. s = r \/ s \in OnStack(pending)
      BY <2>2 DEF OnStack, OneMore
    <3>2. CASE s = r
      BY <1>2, <3>2 DEF StaysAs
    <3>3. CASE s # r
      <4>1. s \in OnStack(pending) /\ s \in Requests
        <5>1. s \in OnStack(pending)
          BY <3>1, <3>3
        <5>2. pending \in Seq(AjaxEntries)
          BY DEF AjaxInv, AjaxTyped
        <5> QED
          BY <5>1, <5>2, OnStackMember, StackTyped
      <4>2. requests'[s] = requests[s]
        BY <1>2, <3>3, <4>1
      <4> QED
        BY <1>1, <4>1, <4>2 DEF NothingBefore
    <3> QED
      BY <3>2, <3>3
  <2> QED
    BY <2>1, <2>2 DEF NothingBefore
<1> QED
  BY <1>3, <1>4, <1>5

LEMMA SendNothingKept ==
    ASSUME AjaxInv, NEW reason \in {"noTransport", "exception"}, SendNothing(reason)
    PROVE  AjaxInv'
<1> DEFINE r == pending[1].r
           q == [requests[r] EXCEPT !.installed = TRUE]
           e == Entry("done", r, Without(reason))
<1>1. Top("before") /\ UNCHANGED <<active, busy, heard, spoiled>>
  BY DEF SendNothing
<1>2. /\ pending \in Seq(AjaxEntries) /\ pending # <<>> /\ Head(pending) = pending[1] /\ pending[1].op = "before"
      /\ r \in Requests /\ r \in OnStack(pending) /\ requests[r] \in AjaxRequests
  BY <1>1, TopEntry
<1>3. /\ requests[r].state = 0 /\ requests' = [requests EXCEPT ![r] = q] /\ pending' = <<e>> \o Tail(pending)
  BY <1>2 DEF SendNothing
<1>4. q \in AjaxRequests /\ q.state = 0
  BY <1>2, <1>3 DEF AjaxRequests
<1>5. e \in AjaxEntries /\ e.op = "done" /\ e.r = r
  <2>1. Without(reason) \in AjaxReplies
    BY WithoutShaped
  <2> QED
    BY <1>2, <2>1, EntryShaped
<1> HIDE DEF q, e
<1>6. /\ pending' \in Seq(AjaxEntries) /\ Shifted(pending, pending', 1, 1)
      /\ OneMore(pending, pending', r)
  BY <1>2, <1>3, <1>5, ShiftSwap DEF OneMore
<1> HIDE DEF r
<1>7. requests' \in [Requests -> AjaxRequests] /\ (\A s \in Requests : SameStage(s)) /\ NothingBefore'
  <2>1. StaysAs(r, q)
    BY <1>3, <1>4, NotSentAssumption DEF StaysAs
  <2> QED
    BY <1>2, <1>3, <1>6, <2>1, OneChanged
<1> QED
  BY <1>1, <1>2, <1>6, <1>7, AjaxQuiet

\* The request q once it is sent.
Sent(q) == [q EXCEPT !.installed = TRUE, !.state = 1]
SentOpen(q, timeout) == [q EXCEPT !.installed = TRUE, !.state = 1, !.transport = "open", !.timer = timeout]

LEMMA SentShape ==
    ASSUME NEW q \in AjaxRequests
    PROVE  Sent(q) \in AjaxRequests /\ Sent(q).state = 1
<1>1. 1 \in {NotSent} \cup 0..2
  OBVIOUS
<1> QED
  BY <1>1 DEF Sent, AjaxRequests

LEMMA SentOpenShape ==
    ASSUME NEW q \in AjaxRequests, NEW timeout \in BOOLEAN
    PROVE  SentOpen(q, timeout) \in AjaxRequests /\ SentOpen(q, timeout).state = 1
<1>1. 1 \in {NotSent} \cup 0..2
  OBVIOUS
<1> QED
  BY <1>1 DEF SentOpen, AjaxRequests

LEMMA SendKept ==
    ASSUME AjaxInv, NEW timeout \in BOOLEAN, Send(timeout)
    PROVE  AjaxInv'
<1> DEFINE r == pending[1].r
           q == SentOpen(requests[r], timeout)
<1>1. Top("before") /\ UNCHANGED <<active, busy, heard, spoiled>>
  BY DEF Send
<1>2. /\ pending \in Seq(AjaxEntries) /\ pending # <<>> /\ Head(pending) = pending[1] /\ pending[1].op = "before"
      /\ r \in Requests /\ r \in OnStack(pending) /\ requests[r] \in AjaxRequests
  BY <1>1, TopEntry
<1>3. /\ requests[r].state = 0 /\ requests' = [requests EXCEPT ![r] = q] /\ pending' = Tail(pending)
  BY <1>2 DEF Send, SentOpen
<1>4. q \in AjaxRequests /\ q.state = 1
  BY <1>2, SentOpenShape
<1> HIDE DEF q
<1>5. /\ pending' \in Seq(AjaxEntries) /\ Shifted(pending, pending', 1, 0)
      /\ OneMore(pending, pending', r)
  BY <1>2, <1>3, ShiftPop DEF OneMore
<1> HIDE DEF r
<1>6. requests' \in [Requests -> AjaxRequests] /\ (\A s \in Requests : SameStage(s)) /\ NothingBefore'
  <2>1. StaysAs(r, q)
    BY <1>3, <1>4, NotSentAssumption DEF StaysAs
  <2> QED
    BY <1>2, <1>3, <1>5, <2>1, OneChanged
<1> QED
  BY <1>1, <1>2, <1>5, <1>6, AjaxQuiet

LEMMA SendAndWaitKept ==
    ASSUME AjaxInv, NEW answer \in Answers, SendAndWait(answer)
    PROVE  AjaxInv'
<1> DEFINE r == pending[1].r
           q == Sent(requests[r])
           e == Entry("done", r, answer)
<1>1. Top("before") /\ UNCHANGED <<active, busy, heard, spoiled>>
  BY DEF SendAndWait
<1>2. /\ pending \in Seq(AjaxEntries) /\ pending # <<>> /\ Head(pending) = pending[1] /\ pending[1].op = "before"
      /\ r \in Requests /\ r \in OnStack(pending) /\ requests[r] \in AjaxRequests
  BY <1>1, TopEntry
<1>3. /\ requests[r].state = 0 /\ requests' = [requests EXCEPT ![r] = q] /\ pending' = <<e>> \o Tail(pending)
  BY <1>2 DEF SendAndWait, Sent
<1>4. q \in AjaxRequests /\ q.state = 1
  BY <1>2, SentShape
<1>5. e \in AjaxEntries /\ e.op = "done" /\ e.r = r
  <2>1. answer \in AjaxReplies
    BY WithoutShaped
  <2> QED
    BY <1>2, <2>1, EntryShaped
<1> HIDE DEF q, e
<1>6. /\ pending' \in Seq(AjaxEntries) /\ Shifted(pending, pending', 1, 1)
      /\ OneMore(pending, pending', r)
  BY <1>2, <1>3, <1>5, ShiftSwap DEF OneMore
<1> HIDE DEF r
<1>7. requests' \in [Requests -> AjaxRequests] /\ (\A s \in Requests : SameStage(s)) /\ NothingBefore'
  <2>1. StaysAs(r, q)
    BY <1>3, <1>4, NotSentAssumption DEF StaysAs
  <2> QED
    BY <1>2, <1>3, <1>6, <2>1, OneChanged
<1> QED
  BY <1>1, <1>2, <1>6, <1>7, AjaxQuiet

\* done is called with no change of the stage of its request.
LEMMA CallsDoneKept ==
    ASSUME AjaxInv, NEW r \in Requests, requests[r].state # NotSent, NEW q, StaysAs(r, q),
           requests' = [requests EXCEPT ![r] = q], NEW answer \in AjaxReplies,
           pending' = <<Entry("done", r, answer)>> \o pending, UNCHANGED <<active, busy, heard, spoiled>>
    PROVE  AjaxInv'
<1> DEFINE e == Entry("done", r, answer)
<1>1. e \in AjaxEntries /\ e.op = "done" /\ e.r = r /\ pending' = <<e>> \o pending
  BY EntryShaped
<1>2. pending \in Seq(AjaxEntries)
  BY DEF AjaxInv, AjaxTyped
<1> HIDE DEF e
<1>3. /\ pending' \in Seq(AjaxEntries) /\ Shifted(pending, pending', 0, 1)
      /\ OneMore(pending, pending', r)
  BY <1>1, <1>2, ShiftPush DEF OneMore
<1>4. requests' \in [Requests -> AjaxRequests] /\ (\A s \in Requests : SameStage(s)) /\ NothingBefore'
  BY <1>3, OneChanged
<1> QED
  BY <1>3, <1>4, AjaxQuiet

LEMMA AbortedKept ==
    ASSUME AjaxInv, NEW r \in Requests, NEW reason \in {"abort", "timeout"}, Aborted(r, reason),
           requests[r].state # NotSent
    PROVE  AjaxInv'
<1> DEFINE b == requests[r].timer /\ reason # "timeout"
           q == [requests[r] EXCEPT !.transport = "none", !.timer = b]
<1>1. requests \in [Requests -> AjaxRequests] /\ requests[r] \in AjaxRequests
  BY DEF AjaxInv, AjaxTyped
<1>2. requests' = [requests EXCEPT ![r] = q]
  BY <1>1 DEF Aborted
<1>3. b \in BOOLEAN
  BY Zenon
<1> HIDE DEF b
<1>4. StaysAs(r, q)
  BY <1>1, <1>3 DEF StaysAs, AjaxRequests
<1>5. Without(reason) \in AjaxReplies
  BY WithoutShaped
<1> HIDE DEF q
<1> QED
  BY <1>2, <1>4, <1>5, CallsDoneKept DEF Aborted

LEMMA AnswerComesKept ==
    ASSUME AjaxInv, NEW r \in Requests, NEW answer \in Answers, AnswerComes(r, answer)
    PROVE  AjaxInv'
<1> DEFINE q == [requests[r] EXCEPT !.transport = "none"]
<1>1. requests \in [Requests -> AjaxRequests] /\ requests[r] \in AjaxRequests
  BY DEF AjaxInv, AjaxTyped
<1>2. requests[r].state # NotSent
  BY DEF AnswerComes, AjaxInv, NothingBefore
<1>3. requests' = [requests EXCEPT ![r] = q]
  BY <1>1 DEF AnswerComes
<1>4. StaysAs(r, q)
  BY <1>1, <1>2 DEF StaysAs, AjaxRequests
<1>5. answer \in AjaxReplies
  BY WithoutShaped
<1>6. pending' = <<Entry("done", r, answer)>> \o pending
  <2>1. Entry("done", r, answer) \in AjaxEntries
    BY <1>5, EntryShaped
  <2>2. \A S : \A x \in S : <<x>> \o <<>> = <<x>>
    OBVIOUS
  <2> QED
    BY <2>1, <2>2 DEF AnswerComes
<1> HIDE DEF q
<1> QED
  BY <1>2, <1>3, <1>4, <1>5, <1>6, CallsDoneKept DEF AnswerComes

\* The request f once $.ajax has it.
Asked(f, async, wanted) == [f EXCEPT !.state = 0, !.async = async, !.wanted = wanted]

LEMMA AskedShape ==
    ASSUME NEW f \in AjaxRequests, NEW async \in BOOLEAN, NEW wanted \in {"*", "json"}
    PROVE  /\ Asked(f, async, wanted) \in AjaxRequests /\ Asked(f, async, wanted).state = 0
           /\ Asked(f, async, wanted).timer = f.timer /\ Asked(f, async, wanted).transport = f.transport
<1>1. 0 \in {NotSent} \cup 0..2
  OBVIOUS
<1> QED
  BY <1>1 DEF Asked, AjaxRequests

LEMMA FreshShape == Fresh \in AjaxRequests /\ ~Fresh.timer /\ Fresh.transport = "none" /\ Fresh.state = NotSent
<1>1. Without("none") \in AjaxReplies
  BY WithoutShaped
<1> QED
  BY <1>1 DEF Fresh, AjaxRequests

LEMMA AjaxKept ==
    ASSUME AjaxInv, NEW r \in Requests, NEW async \in BOOLEAN, NEW wanted \in {"*", "json"}, Ajax(r, async, wanted)
    PROVE  AjaxInv'
<1> DEFINE q == Asked(Fresh, async, wanted)
           e == Entry("before", r, Fresh.answer)
<1>1. /\ requests[r].state = NotSent /\ requests' = [requests EXCEPT ![r] = q] /\ pending' = <<e>> \o pending
      /\ active' = active + 1 /\ busy' = (busy \/ active = 0) /\ heard' = heard /\ spoiled' = spoiled
  BY DEF Ajax, Asked
<1>2. /\ requests \in [Requests -> AjaxRequests] /\ pending \in Seq(AjaxEntries) /\ heard \in Names
      /\ Stacked(pending, DueOf, heard)
  BY DEF AjaxInv, AjaxTyped, Names
<1>3. q \in AjaxRequests /\ q.state = 0 /\ ~q.timer /\ q.transport = "none"
  BY AskedShape, FreshShape
<1>4. e \in AjaxEntries /\ e.op = "before" /\ e.r = r
  BY EntryShaped, WithoutShaped
<1> HIDE DEF q, e
<1>5. requests' \in [Requests -> AjaxRequests] /\ requests'[r] = q /\ \A s \in Requests : s # r => requests'[s] = requests[s]
  BY <1>1, <1>2, <1>3
<1>6. \A s \in Requests : SameEnd(s)
  <2> TAKE s \in Requests
  <2>1. CASE s = r
    BY <1>1, <1>3, <1>5, <2>1, NotSentAssumption DEF SameEnd
  <2>2. CASE s # r
    <3>1. requests'[s] = requests[s]
      BY <1>5, <2>2
    <3> QED
      BY <3>1 DEF SameEnd
  <2> QED
    BY <2>1, <2>2
<1>7. pending' \in Seq(AjaxEntries) /\ Shifted(pending, pending', 0, 1) /\ OneMore(pending, pending', r)
  BY <1>1, <1>2, <1>4, ShiftPush DEF OneMore
<1>8. DueOf' = DueOf /\ DueOf \in Names
  BY <1>6, SameDue, DueNames
<1>9. Stacked(pending', DueOf, heard) /\ Ending(pending') = Ending(pending)
  BY <1>2, <1>7, <1>8, StackedShift
<1>10. Stacked(pending, DueOf, heard)' /\ Ending(pending)' = Ending(pending)
  <2>1. Stacked(pending, DueOf, heard)'
    BY <1>1, <1>8, <1>9
  <2>2. Ending(pending)' = Ending(pending)
    BY <1>9 DEF Ending
  <2> QED
    BY <2>1, <2>2
<1>11. EndedTold'
  BY <1>1, <1>6, <1>9, EndedSame
<1>12. NothingBefore'
  <2>1. ASSUME NEW s \in Requests, requests'[s].state = NotSent
        PROVE  ~requests'[s].timer /\ requests'[s].transport = "none"
    BY <1>3, <1>5, <2>1 DEF AjaxInv, NothingBefore
  <2>2. ASSUME NEW s \in OnStack(pending)'
        PROVE  requests'[s].state # NotSent
    <3>1. s = r \/ s \in OnStack(pending)
      BY <1>7, <2>2 DEF OnStack, OneMore
    <3>2. CASE s = r
      BY <1>3, <1>5, <3>2, NotSentAssumption
    <3>3. CASE s # r
      <4>1. s \in OnStack(pending) /\ s \in Requests
        BY <1>2, <3>1, <3>3, OnStackMember, StackTyped
      <4>2. requests'[s] = requests[s]
        BY <1>5, <3>3, <4>1
      <4> QED
        BY <4>1, <4>2 DEF AjaxInv, NothingBefore
    <3> QED
      BY <3>2, <3>3
  <2> QED
    BY <2>1, <2>2 DEF NothingBefore
<1>13. UnderWay' = UnderWay \cup {r} /\ r \notin UnderWay
  <2>1. \A s \in Requests : s # r => (requests'[s].state \in 0..1 <=> requests[s].state \in 0..1)
    BY <1>5
  <2>2. requests'[r].state \in 0..1 /\ requests[r].state \notin 0..2
    BY <1>1, <1>3, <1>5, NotSentAssumption
  <2>3. r \notin spoiled /\ r \notin Ending(pending)
    BY <2>2 DEF AjaxInv, EndedTold
  <2> QED
    BY <1>1, <1>10, <2>1, <2>2, <2>3 DEF UnderWay
<1>14. IsFiniteSet(UnderWay)' /\ active' = Cardinality(UnderWay)'
  <2>1. IsFiniteSet(UnderWay) /\ active = Cardinality(UnderWay)
    BY DEF AjaxInv
  <2>2. IsFiniteSet(UnderWay \cup {r}) /\ Cardinality(UnderWay \cup {r}) = Cardinality(UnderWay) + 1
    BY <1>13, <2>1, FS_AddElement
  <2> QED
    BY <1>1, <1>13, <2>1, <2>2
<1>15. active \in Nat /\ busy = (active > 0)
  BY DEF AjaxInv, AjaxTyped
<1>16. busy' = TRUE /\ active' \in Nat /\ active' > 0
  <2>1. active > 0 \/ active = 0
    BY <1>15
  <2>2. busy' = TRUE
    BY <1>1, <1>15, <2>1, Zenon
  <2>3. active + 1 \in Nat /\ active + 1 > 0
    BY <1>15
  <2> QED
    BY <1>1, <2>2, <2>3
<1>17. AjaxTyped'
  <2>1. spoiled' \subseteq Requests /\ heard' \in [Requests -> Seq(CallNames)]
    BY <1>1 DEF AjaxInv, AjaxTyped
  <2>2. busy' \in BOOLEAN
    BY <1>16, Zenon
  <2> QED
    BY <1>5, <1>7, <1>16, <2>1, <2>2 DEF AjaxTyped
<1>18. (busy = (active > 0))'
  BY <1>16
<1> QED
  BY <1>10, <1>11, <1>12, <1>14, <1>17, <1>18 DEF AjaxInv

\* What the stack holds of the requests, as it is after a step.
LEMMA StackPrimed ==
    Ending(pending)' = Ending(pending') /\ OnStack(pending)' = OnStack(pending')
BY DEF Ending, OnStack

LEMMA EmptyStack ==
    ASSUME NEW due, NEW told, ToldInOrder(due, told)
    PROVE  Stacked(<<>>, due, told) /\ Ending(<<>>) = {} /\ OnStack(<<>>) = {}
<1>1. \A i \in DOMAIN <<>> : FALSE
  OBVIOUS
<1>2. Ending(<<>>) = {} /\ OnStack(<<>>) = {}
  BY <1>1, Zenon DEF Ending, OnStack
<1> QED
  BY <1>1, <1>2, Zenon DEF Stacked, CallsAboveEnds, CallsEnd, EndsOnce

LEMMA AjaxThrowKept ==
    ASSUME AjaxInv, AjaxThrow
    PROVE  AjaxInv'
<1>1. /\ pending' = <<>> /\ spoiled' = spoiled \cup Ending(pending)
      /\ requests' = requests /\ active' = active /\ busy' = busy /\ heard' = heard
  BY DEF AjaxThrow, Ending
<1>2. /\ requests \in [Requests -> AjaxRequests] /\ pending \in Seq(AjaxEntries)
      /\ heard \in [Requests -> Seq(CallNames)] /\ ToldInOrder(DueOf, heard)
  BY DEF AjaxInv, AjaxTyped, Stacked
<1>3. DueOf' = DueOf
  BY <1>1 DEF DueOf, CallbacksOf
<1>4. Stacked(pending', DueOf, heard) /\ Ending(pending') = {} /\ OnStack(pending') = {}
  BY <1>1, <1>2, EmptyStack
<1>5. Stacked(pending, DueOf, heard)'
  BY <1>1, <1>3, <1>4
<1>6. Ending(pending)' = {} /\ OnStack(pending)' = {}
  BY <1>4, StackPrimed
<1>7. AjaxTyped'
  <2>1. spoiled' \subseteq Requests
    <3>1. spoiled \subseteq Requests
      BY DEF AjaxInv, AjaxTyped
    <3>2. Ending(pending) \subseteq Requests
      BY <1>2, StackTyped DEF Ending
    <3> QED
      BY <1>1, <3>1, <3>2
  <2>2. pending' \in Seq(AjaxEntries)
    BY <1>1
  <2>3. active' \in Nat /\ busy' \in BOOLEAN
    BY <1>1, Zenon DEF AjaxInv, AjaxTyped
  <2>4. requests' \in [Requests -> AjaxRequests] /\ heard' \in [Requests -> Seq(CallNames)]
    BY <1>1, <1>2
  <2> QED
    BY <2>1, <2>2, <2>3, <2>4 DEF AjaxTyped
<1>8. NothingBefore'
  BY <1>1, <1>6 DEF AjaxInv, NothingBefore
<1>9. EndedTold'
  BY <1>1, <1>3, <1>6 DEF AjaxInv, EndedTold
<1>10. UnderWay' = UnderWay
  BY <1>1, <1>6 DEF UnderWay
<1> QED
  BY <1>1, <1>5, <1>7, <1>8, <1>9, <1>10 DEF AjaxInv

LEMMA DoneCallsKept ==
    ASSUME AjaxInv, DoneCalls
    PROVE  AjaxInv'
<1> DEFINE t == pending[1]
           e == Entry("callback", t.r, t.arg)
<1>1. Top("call") /\ requests' = requests /\ active' = active /\ busy' = busy /\ spoiled' = spoiled
  BY DEF DoneCalls
<1>2. /\ pending \in Seq(AjaxEntries) /\ pending # <<>> /\ Head(pending) = t /\ t.op = "call"
      /\ t \in AjaxEntries /\ t.r \in Requests /\ t.r \in OnStack(pending)
  BY <1>1, TopEntry
<1>3. heard' = [heard EXCEPT ![t.r] = Append(@, t.arg)] /\ pending' = <<e>> \o Tail(pending)
  BY <1>2 DEF DoneCalls
<1>4. e \in AjaxEntries /\ e.op = "callback" /\ e.r = t.r
  BY <1>2 DEF Entry, AjaxEntries
<1>5. heard \in Names /\ Stacked(pending, DueOf, heard)
  BY DEF AjaxInv, AjaxTyped, Names
<1> HIDE DEF e
<1>6. pending' \in Seq(AjaxEntries) /\ Called(pending, pending', heard, heard')
  <2>1. /\ Len(pending) \in Nat /\ Len(pending) >= 1 /\ Tail(pending) \in Seq(AjaxEntries)
        /\ Len(Tail(pending)) = Len(pending) - 1
        /\ \A i \in 2..Len(pending) : Tail(pending)[i - 1] = pending[i]
    BY <1>2, PoppedEntry
  <2>2. /\ pending' \in Seq(AjaxEntries) /\ Len(pending') = Len(Tail(pending)) + 1 /\ pending'[1] = e
        /\ \A i \in 1..Len(Tail(pending)) : pending'[i + 1] = Tail(pending)[i]
    BY <1>3, <1>4, <2>1, PushedEntry
  <2>3. ASSUME NEW i \in 2..Len(pending)
        PROVE  pending'[i] = pending[i]
    <3>1. i - 1 \in 1..Len(Tail(pending)) /\ (i - 1) + 1 = i
      BY <2>1
    <3> QED
      BY <2>1, <2>2, <3>1
  <2>4. Len(pending') = Len(pending)
    BY <2>1, <2>2
  <2> QED
    BY <1>2, <1>3, <1>4, <2>2, <2>3, <2>4 DEF Called
<1>7. DueOf' = DueOf /\ DueOf \in Names
  BY <1>1, DueNames DEF DueOf, CallbacksOf
<1>8. /\ heard' \in Names /\ Stacked(pending', DueOf, heard') /\ Ending(pending') = Ending(pending)
      /\ t.r \in Ending(pending)
  BY <1>2, <1>5, <1>6, <1>7, StackedCall
<1>9. Stacked(pending, DueOf, heard)' /\ Ending(pending)' = Ending(pending)
  BY <1>7, <1>8, StackPrimed
<1>10. OnStack(pending') \subseteq OnStack(pending)
  <2>1. ASSUME NEW r \in OnStack(<<e>> \o Tail(pending))
        PROVE  r \in OnStack(pending)
    <3>1. Tail(pending) \in Seq(AjaxEntries) /\ OnStack(Tail(pending)) \subseteq OnStack(pending)
      BY <1>2, ShiftPop
    <3>2. r = e.r \/ r \in OnStack(Tail(pending))
      BY <1>4, <3>1, ShiftPush
    <3> QED
      BY <1>2, <1>4, <3>1, <3>2
  <2> QED
    BY <1>3, <2>1
<1>11. AjaxTyped'
  <2>1. requests' \in [Requests -> AjaxRequests] /\ spoiled' \subseteq Requests /\ active' \in Nat
    BY <1>1 DEF AjaxInv, AjaxTyped
  <2>2. busy' \in BOOLEAN
    BY <1>1, Zenon DEF AjaxInv, AjaxTyped
  <2> QED
    BY <1>6, <1>8, <2>1, <2>2 DEF AjaxTyped, Names
<1>12. NothingBefore'
  BY <1>1, <1>10, StackPrimed DEF AjaxInv, NothingBefore
<1>13. EndedTold'
  <2>1. ASSUME NEW r \in Requests, r # t.r
        PROVE  heard'[r] = heard[r]
    BY <1>3, <1>5, <2>1 DEF Names
  <2> QED
    BY <1>1, <1>7, <1>8, <1>9, <2>1 DEF AjaxInv, EndedTold
<1>14. UnderWay' = UnderWay
  BY <1>1, <1>9 DEF UnderWay
<1> QED
  BY <1>1, <1>9, <1>11, <1>12, <1>13, <1>14 DEF AjaxInv

LEMMA DoneEndsKept ==
    ASSUME AjaxInv, DoneEnds
    PROVE  AjaxInv'
<1> DEFINE r == pending[1].r
<1>1. /\ Top("end") /\ requests' = requests /\ heard' = heard /\ spoiled' = spoiled /\ pending' = Tail(pending)
      /\ active' = active - 1 /\ busy' = (busy /\ active # 1)
  BY DEF DoneEnds
<1>2. /\ pending \in Seq(AjaxEntries) /\ pending # <<>> /\ pending[1].op = "end" /\ r \in Requests
  BY <1>1, TopEntry
<1>3. /\ requests \in [Requests -> AjaxRequests] /\ heard \in Names /\ spoiled \subseteq Requests /\ active \in Nat
      /\ Stacked(pending, DueOf, heard) /\ busy = (active > 0)
  BY DEF AjaxInv, AjaxTyped, Names
<1>4. DueOf' = DueOf /\ DueOf \in Names
  BY <1>1, DueNames DEF DueOf, CallbacksOf
<1>5. /\ pending' \in Seq(AjaxEntries) /\ OnStack(pending') \subseteq OnStack(pending)
      /\ Shifted(pending, pending', 1, 0)
  BY <1>1, <1>2, ShiftPop
<1>6. /\ Stacked(pending', DueOf, heard) /\ Ending(pending') = Ending(pending) \ {r}
      /\ Untold(DueOf, heard, r) = 0
  BY <1>2, <1>3, <1>4, <1>5, StackedShift
<1>7. Stacked(pending, DueOf, heard)' /\ Ending(pending)' = Ending(pending) \ {r}
  BY <1>1, <1>4, <1>6, StackPrimed
<1>8. r \in Ending(pending)
  <2>1. 1 \in DOMAIN pending
    BY <1>2, PoppedEntry
  <2> QED
    BY <1>2, <2>1, EndingMember
<1>9. requests[r].state = 2 /\ r \notin spoiled
  BY <1>8 DEF AjaxInv, EndedTold
<1>10. Len(heard[r]) = Len(DueOf[r])
  <2>1. /\ Untold(DueOf, heard, r) = Len(DueOf[r]) - Len(heard[r]) /\ Len(DueOf[r]) \in Nat
        /\ Len(heard[r]) \in Nat
    BY <1>2, <1>3, <1>4, UntoldTyped DEF Stacked
  <2>2. \A l, n \in Nat : l - n = 0 => n = l
    OBVIOUS
  <2> QED
    BY <1>6, <2>1, <2>2
<1> HIDE DEF r
<1>11. NothingBefore'
  BY <1>1, <1>5, StackPrimed DEF AjaxInv, NothingBefore
<1>12. EndedTold'
  BY <1>1, <1>4, <1>7, <1>10 DEF AjaxInv, EndedTold
<1>13. UnderWay' = UnderWay \ {r} /\ r \in UnderWay
  <2>1. requests[r].state \notin 0..1
    BY <1>9
  <2> QED
    BY <1>1, <1>7, <1>8, <1>9, <2>1 DEF UnderWay
<1>14. IsFiniteSet(UnderWay)' /\ active' = Cardinality(UnderWay)' /\ active' \in Nat
  <2>1. IsFiniteSet(UnderWay) /\ active = Cardinality(UnderWay)
    BY DEF AjaxInv
  <2>2. IsFiniteSet(UnderWay \ {r}) /\ Cardinality(UnderWay \ {r}) = Cardinality(UnderWay) - 1
    BY <1>13, <2>1, FS_RemoveElement
  <2>3. Cardinality(UnderWay \ {r}) \in Nat
    BY <2>2, FS_CardinalityType
  <2> QED
    BY <1>1, <1>13, <2>1, <2>2, <2>3
<1>15. (busy = (active > 0))' /\ busy' \in BOOLEAN
  <2>1. active \in Nat /\ active - 1 \in Nat /\ active > 0
    BY <1>1, <1>3, <1>14
  <2>2. busy = TRUE
    BY <1>3, <2>1, Zenon
  <2>3. CASE active = 1
    <3>1. busy' = FALSE
      BY <1>1, <2>3, Zenon
    <3>2. active' = 0
      BY <1>1, <2>3
    <3>3. (0 > 0) = FALSE
      OBVIOUS
    <3> QED
      BY <3>1, <3>2, <3>3, Zenon
  <2>4. CASE active # 1
    <3>1. busy' = TRUE
      BY <1>1, <2>2, <2>4, Zenon
    <3>2. active' > 0
      BY <1>1, <2>1, <2>4
    <3> QED
      BY <3>1, <3>2
  <2> QED
    BY <2>3, <2>4
<1>16. AjaxTyped'
  BY <1>1, <1>3, <1>5, <1>14, <1>15 DEF AjaxTyped, Names
<1> QED
  BY <1>7, <1>11, <1>12, <1>14, <1>15, <1>16 DEF AjaxInv

LEMMA EndedShape ==
    ASSUME NEW f \in AjaxRequests, NEW answer \in AjaxReplies
    PROVE  LET q == [f EXCEPT !.state = 2, !.timer = FALSE, !.transport = "none", !.answer = answer]
           IN  /\ q \in AjaxRequests /\ q.state = 2 /\ ~q.timer /\ q.transport = "none" /\ q.answer = answer
               /\ q.installed = f.installed /\ q.wanted = f.wanted
<1>1. 2 \in {NotSent} \cup 0..2
  OBVIOUS
<1> QED
  BY <1>1 DEF AjaxRequests

\* What done puts on the stack.
LEMMA BegunStack ==
    ASSUME NEW p \in Seq(AjaxEntries), NEW r \in Requests, NEW names \in Seq(CallNames),
           NEW e \in AjaxEntries, e.op = "end", e.r = r, NEW q, q = Entries(r, names) \o <<e>> \o p
    PROVE  /\ q \in Seq(AjaxEntries) /\ Begun(p, q, r, names)
           /\ \A s \in OnStack(q) : s = r \/ s \in OnStack(p)
<1> DEFINE c == Entries(r, names)
           ce == c \o <<e>>
<1>1. PICK n \in Nat : n = Len(names) /\ DOMAIN names = 1..n /\ \A i \in 1..n : names[i] \in CallNames
  OBVIOUS
<1>2. c \in Seq(AjaxEntries) /\ Len(c) = n /\ \A i \in 1..n : c[i].op = "call" /\ c[i].r = r /\ c[i].arg = names[i]
  <2>1. \A i \in 1..n : Entry("call", r, names[i]) \in AjaxEntries
    BY <1>1 DEF Entry, AjaxEntries
  <2>2. c = [i \in 1..n |-> Entry("call", r, names[i])]
    BY <1>1 DEF Entries
  <2>3. c \in [1..n -> AjaxEntries]
    BY <2>1, <2>2
  <2>4. c \in Seq(AjaxEntries) /\ Len(c) = n
    BY <2>3, LenProperties, IsASeq
  <2> QED
    BY <2>2, <2>4 DEF Entry
<1> HIDE DEF c
<1>3. /\ ce \in Seq(AjaxEntries) /\ Len(ce) = n + 1 /\ ce[n + 1] = e
      /\ \A i \in 1..n : ce[i] = c[i]
  BY <1>2
<1> HIDE DEF ce
<1>4. PICK m \in Nat : m = Len(p)
  OBVIOUS
<1>5. /\ q \in Seq(AjaxEntries) /\ Len(q) = m + n + 1
      /\ \A i \in 1..(n + 1) : q[i] = ce[i]
      /\ \A i \in 1..m : q[i + n + 1] = p[i]
  <2>1. q = ce \o p
    BY DEF ce, c
  <2>2. /\ q \in Seq(AjaxEntries) /\ Len(q) = Len(ce) + Len(p)
        /\ \A i \in 1..Len(ce) + Len(p) : q[i] = IF i =< Len(ce) THEN ce[i] ELSE p[i - Len(ce)]
    <3>1. /\ ce \o p \in Seq(AjaxEntries) /\ Len(ce \o p) = Len(ce) + Len(p)
          /\ \A i \in 1..Len(ce) + Len(p) : (ce \o p)[i] = IF i =< Len(ce) THEN ce[i] ELSE p[i - Len(ce)]
      BY <1>3, ConcatProperties, Zenon
    <3> QED
      BY <2>1, <3>1
  <2>3. ASSUME NEW i \in 1..m
        PROVE  q[i + n + 1] = p[i]
    <3>1. i + n + 1 \in 1..Len(ce) + Len(p) /\ ~(i + n + 1 =< Len(ce)) /\ (i + n + 1) - Len(ce) = i
      BY <1>3, <1>4
    <3> QED
      BY <2>2, <3>1
  <2>4. ASSUME NEW i \in 1..(n + 1)
        PROVE  q[i] = ce[i]
    <3>1. i \in 1..Len(ce) + Len(p) /\ i =< Len(ce)
      BY <1>3, <1>4
    <3> QED
      BY <2>2, <3>1
  <2>5. Len(q) = m + n + 1
    BY <1>3, <1>4, <2>2
  <2> QED
    BY <2>2, <2>3, <2>4, <2>5
<1>6. \A i \in 1..n : i \in 1..(n + 1) /\ q[i] = c[i]
  BY <1>3, <1>5
<1>7. q[n + 1] = e
  BY <1>3, <1>5
<1>8. Begun(p, q, r, names)
  BY <1>1, <1>2, <1>4, <1>5, <1>6, <1>7, ZenonT(40) DEF Begun
<1>9. ASSUME NEW s \in OnStack(q)
      PROVE  s = r \/ s \in OnStack(p)
  <2>1. PICK i \in DOMAIN q : q[i].r = s
    BY OnStackMember
  <2>2. i \in 1..n \/ i = n + 1 \/ (i - n - 1 \in 1..m /\ i = (i - n - 1) + n + 1)
    BY <1>5, SMTT(30)
  <2>3. CASE i \in 1..n
    BY <1>2, <1>6, <2>1, <2>3
  <2>4. CASE i = n + 1
    BY <1>7, <2>1, <2>4
  <2>5. ASSUME i - n - 1 \in 1..m, i = (i - n - 1) + n + 1
        PROVE  s \in OnStack(p)
    <3>1. q[i] = p[i - n - 1]
      BY <1>5, <2>5
    <3>2. i - n - 1 \in DOMAIN p
      BY <1>4, <2>5
    <3> QED
      BY <2>1, <3>1, <3>2, OnStackMember
  <2> QED
    BY <2>2, <2>3, <2>4, <2>5
<1> QED
  BY <1>5, <1>8, <1>9

\* done, for a request that has not ended.
LEMMA DoneKept ==
    ASSUME AjaxInv, Done, requests[Head(pending).r].state # 2
    PROVE  AjaxInv'
<1>1. Top("done") /\ active' = active /\ busy' = busy /\ heard' = heard /\ spoiled' = spoiled
  BY DEF Done
<1> PICK t \in AjaxEntries : t = pending[1]
  BY <1>1, TopEntry
<1> DEFINE r == t.r
           names == CallbacksOf(r, t.arg)
           q == [requests[r] EXCEPT !.state = 2, !.timer = FALSE, !.transport = "none", !.answer = t.arg]
           p == Tail(pending)
           e == Entry("end", r, t.arg)
<1>2. /\ pending \in Seq(AjaxEntries) /\ pending # <<>> /\ Head(pending) = t /\ t.op = "done" /\ t = pending[1]
      /\ t \in AjaxEntries /\ r \in Requests /\ r \in OnStack(pending) /\ requests[r].state # NotSent
      /\ requests[r] \in AjaxRequests /\ requests[r].state # 2
  BY <1>1, TopEntry, Zenon
<1>3. requests' = [requests EXCEPT ![r] = q] /\ pending' = Entries(r, names) \o <<e>> \o p
  BY <1>2, ZenonT(40) DEF Done
<1>4. t.arg \in AjaxReplies
  BY <1>2 DEF AjaxEntries, CallNames
<1>5. /\ names \in Seq(CallNames) /\ e \in AjaxEntries /\ e.op = "end" /\ e.r = r
  BY <1>2, <1>4, CallbacksNames, EntryShaped DEF Entry
<1>6. q \in AjaxRequests /\ q.state = 2 /\ ~q.timer /\ q.transport = "none" /\ q.answer = t.arg
      /\ q.installed = requests[r].installed /\ q.wanted = requests[r].wanted
  BY <1>2, <1>4, EndedShape, ZenonT(40)
<1>7. p \in Seq(AjaxEntries) /\ Shifted(pending, p, 1, 0) /\ OnStack(p) \subseteq OnStack(pending)
  BY <1>2, ShiftPop
<1> HIDE DEF q, e, p, names, r
<1>8. /\ requests \in [Requests -> AjaxRequests] /\ heard \in Names /\ spoiled \subseteq Requests
      /\ active \in Nat /\ Stacked(pending, DueOf, heard) /\ busy = (active > 0) /\ ToldInOrder(DueOf, heard)
  BY DEF AjaxInv, AjaxTyped, Names, Stacked
<1>9. /\ requests' \in [Requests -> AjaxRequests] /\ requests'[r] = q
      /\ \A s \in Requests : s # r => requests'[s] = requests[s]
  BY <1>2, <1>3, <1>6, <1>8
<1>10. Stacked(p, DueOf, heard) /\ Ending(p) = Ending(pending) /\ DueOf \in Names
  BY <1>2, <1>7, <1>8, DueNames, StackedShift
<1>11. r \notin Ending(pending) /\ r \notin spoiled
  BY <1>2 DEF AjaxInv, EndedTold
<1>12. heard[r] = <<>>
  <2>1. DueOf[r] = <<>>
    BY <1>2 DEF DueOf
  <2>2. Len(heard[r]) =< 0
    BY <1>2, <1>8, <2>1 DEF ToldInOrder
  <2>3. heard[r] \in Seq(CallNames)
    BY <1>2, <1>8 DEF Names
  <2> QED
    BY <2>2, <2>3
<1>13. \A s \in Requests : DueOf'[s] = IF s = r THEN names ELSE DueOf[s]
  <2> TAKE s \in Requests
  <2>1. DueOf'[s] = IF requests'[s].state = 2 THEN CallbacksOf(s, requests[s].answer)' ELSE <<>>
    BY DEF DueOf
  <2>2. DueOf[s] = IF requests[s].state = 2 THEN CallbacksOf(s, requests[s].answer) ELSE <<>>
    BY DEF DueOf
  <2>3. CASE s = r
    <3>1. CallbacksOf(r, requests[r].answer)' = names
      <4>1. /\ requests'[r].answer = t.arg /\ requests'[r].installed = requests[r].installed
            /\ requests'[r].wanted = requests[r].wanted
        BY <1>6, <1>9
      <4> QED
        BY <4>1 DEF CallbacksOf, Succeeds, Converts, ResponseType, names
    <3>2. requests'[r].state = 2
      BY <1>6, <1>9
    <3> QED
      BY <2>1, <2>3, <3>1, <3>2
  <2>4. CASE s # r
    <3>1. requests'[s] = requests[s]
      BY <1>9, <2>4
    <3>2. CallbacksOf(s, requests[s].answer)' = CallbacksOf(s, requests[s].answer)
      BY <3>1 DEF CallbacksOf
    <3> QED
      BY <2>1, <2>2, <2>4, <3>1, <3>2
  <2> QED
    BY <2>3, <2>4
<1>14. DueOf' = [DueOf EXCEPT ![r] = names] /\ DueOf' \in Names
  <2>1. DueOf' = [s \in Requests |-> IF s = r THEN names ELSE DueOf[s]]
    BY <1>13 DEF DueOf
  <2> QED
    BY <1>5, <1>10, <2>1 DEF Names
<1>15. /\ pending' \in Seq(AjaxEntries) /\ Begun(p, pending', r, names)
       /\ \A s \in OnStack(pending') : s = r \/ s \in OnStack(p)
  <2>1. r \in Requests
    BY <1>2
  <2>2. pending' = Entries(r, names) \o <<e>> \o p
    BY <1>3
  <2>3. \A q2 : q2 = Entries(r, names) \o <<e>> \o p =>
            /\ q2 \in Seq(AjaxEntries) /\ Begun(p, q2, r, names)
            /\ \A s \in OnStack(q2) : s = r \/ s \in OnStack(p)
    BY <1>5, <1>7, <2>1, BegunStack
  <2> QED
    BY <2>2, <2>3, Zenon
<1>16. Stacked(pending', DueOf', heard) /\ Ending(pending') = Ending(pending) \cup {r}
  <2>1. /\ p \in Seq(AjaxEntries) /\ pending' \in Seq(AjaxEntries) /\ DueOf \in Names /\ heard \in Names
        /\ r \in Requests /\ names \in Seq(CallNames) /\ DueOf' \in Names
    BY <1>2, <1>5, <1>7, <1>8, <1>10, <1>14, <1>15
  <2>2. /\ DueOf' = [DueOf EXCEPT ![r] = names] /\ Stacked(p, DueOf, heard) /\ Begun(p, pending', r, names)
        /\ heard[r] = <<>> /\ r \notin Ending(p) /\ Ending(p) = Ending(pending)
    BY <1>10, <1>11, <1>12, <1>14, <1>15
  <2>3. Stacked(pending', DueOf', heard) /\ Ending(pending') = Ending(p) \cup {r}
    <3>1. Begins(p, pending', DueOf, heard, r, names, DueOf')
      BY <2>2 DEF Begins
    <3> QED
      BY <2>1, <3>1, StackedDone
  <2> QED
    BY <2>2, <2>3, Zenon
<1>17. Stacked(pending, DueOf, heard)' /\ Ending(pending)' = Ending(pending) \cup {r}
  BY <1>1, <1>16, StackPrimed
<1>18. AjaxTyped'
  <2>1. active' \in Nat /\ spoiled' \subseteq Requests /\ heard' \in [Requests -> Seq(CallNames)]
    BY <1>1, <1>8 DEF Names
  <2>2. busy' \in BOOLEAN
    BY <1>1, Zenon DEF AjaxInv, AjaxTyped
  <2> QED
    BY <1>9, <1>15, <2>1, <2>2 DEF AjaxTyped
<1>19. NothingBefore'
  <2>1. ASSUME NEW s \in Requests, requests'[s].state = NotSent
        PROVE  ~requests'[s].timer /\ requests'[s].transport = "none"
    BY <1>6, <1>9, <2>1 DEF AjaxInv, NothingBefore
  <2>2. ASSUME NEW s \in OnStack(pending)'
        PROVE  requests'[s].state # NotSent
    <3>1. s = r \/ s \in OnStack(pending)
      BY <1>7, <1>15, <2>2, StackPrimed
    <3>2. CASE s = r
      BY <1>6, <1>9, <3>2, NotSentAssumption
    <3>3. CASE s # r
      <4>1. s \in OnStack(pending) /\ s \in Requests
        BY <1>2, <3>1, <3>3, OnStackMember, StackTyped
      <4>2. requests'[s] = requests[s]
        BY <1>9, <3>3, <4>1
      <4> QED
        BY <4>1, <4>2 DEF AjaxInv, NothingBefore
    <3> QED
      BY <3>2, <3>3
  <2> QED
    BY <2>1, <2>2 DEF NothingBefore
<1>20. EndedTold'
  <2>1. Ending(pending) \subseteq Requests
    BY <1>2, StackTyped DEF Ending
  <2>2. requests'[r].state = 2
    BY <1>6, <1>9
  <2>3. \A s \in Requests : s # r => requests'[s] = requests[s] /\ DueOf'[s] = DueOf[s]
    BY <1>9, <1>13
  <2>4. \A s \in Ending(pending)' : requests'[s].state = 2 /\ s \notin spoiled'
    BY <1>1, <1>11, <1>17, <2>1, <2>2, <2>3 DEF AjaxInv, EndedTold
  <2>5. \A s \in spoiled' : requests'[s].state = 2
    BY <1>1, <1>8, <1>11, <2>3 DEF AjaxInv, EndedTold
  <2>6. \A s \in Requests : requests'[s].state = 2 /\ s \notin spoiled' /\ s \notin Ending(pending)' =>
            Len(heard'[s]) = Len(DueOf'[s])
    BY <1>1, <1>17, <2>3 DEF AjaxInv, EndedTold
  <2> QED
    BY <2>4, <2>5, <2>6 DEF EndedTold
<1>21. UnderWay' = UnderWay
  <2>1. requests[r].state \in 0..1 /\ requests'[r].state \notin 0..1
    BY <1>2, <1>6, <1>9 DEF AjaxRequests
  <2>2. \A s \in Requests : s # r => requests'[s] = requests[s]
    BY <1>9
  <2> QED
    BY <1>1, <1>2, <1>17, <2>1, <2>2 DEF UnderWay
<1> QED
  BY <1>1, <1>17, <1>18, <1>19, <1>20, <1>21, Zenon DEF AjaxInv

\* What follows of the callbacks that have been called.
LEMMA ToldPrefix ==
    ASSUME NEW s \in Seq(CallNames), NEW t \in Seq(CallNames), Len(s) =< Len(t), \A i \in 1..Len(s) : s[i] = t[i]
    PROVE  IsPrefix(s, t) /\ (Len(s) = Len(t) => s = t)
<1>1. SubSeq(s, 1, Len(s)) = SubSeq(t, 1, Len(s))
  OBVIOUS
<1>2. Len(s) = Len(t) => s = t
  BY SeqEqual
<1> QED
  BY <1>1, <1>2 DEF IsPrefix

LEMMA AjaxFollows ==
    ASSUME AjaxInv
    PROVE  RequestsEndOnce
<1>1. /\ heard \in Names /\ DueOf \in Names /\ ToldInOrder(DueOf, heard) /\ pending \in Seq(AjaxEntries)
      /\ spoiled \subseteq Requests /\ requests \in [Requests -> AjaxRequests]
  BY DueNames DEF AjaxInv, AjaxTyped, Stacked, Names
<1>2. ASSUME NEW r \in Requests
      PROVE  /\ heard[r] \in Seq(CallNames) /\ DueOf[r] \in Seq(CallNames)
             /\ IsPrefix(heard[r], DueOf[r]) /\ (Len(heard[r]) = Len(DueOf[r]) => heard[r] = DueOf[r])
  <2>1. heard[r] \in Seq(CallNames) /\ DueOf[r] \in Seq(CallNames)
    BY <1>1 DEF Names
  <2>2. Len(heard[r]) =< Len(DueOf[r]) /\ \A i \in 1..Len(heard[r]) : heard[r][i] = DueOf[r][i]
    BY <1>1 DEF ToldInOrder
  <2> QED
    BY <2>1, <2>2, ToldPrefix
<1>3. ASSUME pending = <<>>
      PROVE  Ending(pending) = {}
  BY <1>1, <1>3, EmptyStack
<1>4. ASSUME NEW r \in Requests
      PROVE  /\ IsPrefix(heard[r], CallbacksOf(r, requests[r].answer))
             /\ pending = <<>> /\ requests[r].state = 2 /\ r \notin spoiled =>
                    heard[r] = CallbacksOf(r, requests[r].answer)
             /\ requests[r].state # 2 => heard[r] = <<>>
  <2>1. DueOf[r] = IF requests[r].state = 2 THEN CallbacksOf(r, requests[r].answer) ELSE <<>>
    BY DEF DueOf
  <2>2. CASE requests[r].state = 2
    <3>1. DueOf[r] = CallbacksOf(r, requests[r].answer)
      BY <2>1, <2>2
    <3>2. IsPrefix(heard[r], CallbacksOf(r, requests[r].answer))
      BY <1>2, <3>1
    <3>3. ASSUME pending = <<>>, r \notin spoiled
          PROVE  heard[r] = CallbacksOf(r, requests[r].answer)
      <4>1. Len(heard[r]) = Len(DueOf[r])
        BY <1>3, <2>2, <3>3 DEF AjaxInv, EndedTold
      <4> QED
        BY <1>2, <3>1, <4>1
    <3> QED
      BY <2>2, <3>2, <3>3
  <2>3. CASE requests[r].state # 2
    <3>1. DueOf[r] = <<>>
      BY <2>1, <2>3
    <3>2. heard[r] \in Seq(CallNames) /\ Len(heard[r]) =< 0
      BY <1>1, <1>2, <3>1 DEF ToldInOrder
    <3>3. heard[r] = <<>>
      BY <3>2
    <3>4. CallbacksOf(r, requests[r].answer) \in Seq(CallNames)
      BY CallbacksNames
    <3>5. IsPrefix(heard[r], CallbacksOf(r, requests[r].answer))
      <4>1. Len(heard[r]) =< Len(CallbacksOf(r, requests[r].answer)) /\ \A i \in 1..Len(heard[r]) : FALSE
        BY <3>2, <3>4
      <4> QED
        BY <3>2, <3>4, <4>1, ToldPrefix
    <3> QED
      BY <2>3, <3>3, <3>5
  <2> QED
    BY <2>2, <2>3
<1>5. ASSUME pending = <<>>
      PROVE  /\ active = Cardinality({r \in Requests : requests[r].state \in 0..1} \cup spoiled)
             /\ busy = (active > 0)
  <2>1. UnderWay = {r \in Requests : requests[r].state \in 0..1} \cup spoiled
    BY <1>3, <1>5 DEF UnderWay
  <2> QED
    BY <2>1 DEF AjaxInv
<1> QED
  BY <1>4, <1>5 DEF RequestsEndOnce

\* An answer, a timeout and an abort may come in any order and from within callbacks, for any requests: each
\* has the callbacks of one outcome, called once and in their order, and jQuery.active and ajaxStop agree with
\* the requests under way.
THEOREM RequestsEnd == Spec => []RequestsEndOnce
<1>1. Init => AjaxInv
  <2> SUFFICES ASSUME AjaxInit
               PROVE  AjaxInv
    BY DEF Init
  <2>1. /\ requests = [r \in Requests |-> Fresh] /\ active = 0 /\ busy = FALSE /\ pending = <<>>
        /\ heard = [r \in Requests |-> <<>>] /\ spoiled = {}
    BY DEF AjaxInit
  <2>2. AjaxTyped
    <3>1. requests \in [Requests -> AjaxRequests]
      BY <2>1, FreshShape
    <3>2. pending \in Seq(AjaxEntries) /\ heard \in [Requests -> Seq(CallNames)]
      BY <2>1
    <3>3. busy \in BOOLEAN /\ spoiled \subseteq Requests
      BY <2>1, Zenon
    <3> QED
      BY <2>1, <3>1, <3>2, <3>3 DEF AjaxTyped
  <2>3. \A r \in Requests : requests[r] = Fresh /\ requests[r].state = NotSent /\ requests[r].state \notin 0..2
    BY <2>1, FreshShape, NotSentAssumption
  <2>4. ToldInOrder(DueOf, heard)
    <3>1. \A r \in Requests : DueOf[r] = <<>> /\ heard[r] = <<>>
      BY <2>1, <2>3 DEF DueOf
    <3> QED
      BY <3>1 DEF ToldInOrder
  <2>5. Stacked(pending, DueOf, heard) /\ Ending(pending) = {} /\ OnStack(pending) = {}
    BY <2>1, <2>4, EmptyStack
  <2>6. NothingBefore
    BY <2>3, <2>5, FreshShape DEF NothingBefore
  <2>7. EndedTold
    BY <2>1, <2>3, <2>5 DEF EndedTold
  <2>8. UnderWay = {}
    BY <2>1, <2>3, <2>5 DEF UnderWay
  <2>9. IsFiniteSet(UnderWay) /\ active = Cardinality(UnderWay)
    BY <2>1, <2>8, FS_EmptySet
  <2>10. busy = (active > 0)
    <3>1. (0 > 0) = FALSE
      OBVIOUS
    <3> QED
      BY <2>1, <3>1, Zenon
  <2> QED
    BY <2>2, <2>5, <2>6, <2>7, <2>9, <2>10 DEF AjaxInv
<1>2. AjaxInv /\ [Next]_vars => AjaxInv'
  <2>1. [Next]_vars => AjaxNext \/ UNCHANGED ajaxVars
    BY DEF Next, vars, toolVars
  <2>2. ASSUME AjaxInv, UNCHANGED ajaxVars
        PROVE  AjaxInv'
    <3>1. UNCHANGED <<requests, active, busy, pending, heard, spoiled>>
      BY <2>2 DEF ajaxVars
    <3> QED
      BY <2>2, <3>1 DEF AjaxInv, AjaxTyped, NothingBefore, EndedTold, UnderWay, DueOf, CallbacksOf, Ending, OnStack
  <2>3. ASSUME AjaxInv, AjaxNext
        PROVE  AjaxInv'
    <3>1. CASE \E r \in Requests, async \in BOOLEAN, wanted \in {"*", "json"} : Ajax(r, async, wanted)
      BY <2>3, <3>1, AjaxKept
    <3>2. CASE Cancel
      BY <2>3, <3>2, CancelKept
    <3>3. CASE SendAborted
      BY <2>3, <3>3, TakenKept DEF SendAborted
    <3>4. CASE \E reason \in {"noTransport", "exception"} : SendNothing(reason)
      BY <2>3, <3>4, SendNothingKept
    <3>5. CASE \E timeout \in BOOLEAN : Send(timeout)
      BY <2>3, <3>5, SendKept
    <3>6. CASE \E answer \in Answers : SendAndWait(answer) \/ \E r \in Requests : AnswerComes(r, answer)
      BY <2>3, <3>6, SendAndWaitKept, AnswerComesKept
    <3>7. CASE \E r \in Requests : Abort(r) \/ TimesOut(r)
      <4>1. ASSUME NEW r \in Requests, Abort(r)
            PROVE  AjaxInv'
        BY <2>3, <4>1, AbortedKept DEF Abort
      <4>2. ASSUME NEW r \in Requests, TimesOut(r)
            PROVE  AjaxInv'
        <5>1. requests[r].state # NotSent
          BY <2>3, <4>2 DEF TimesOut, AjaxInv, NothingBefore
        <5> QED
          BY <2>3, <4>2, <5>1, AbortedKept DEF TimesOut
      <4> QED
        BY <3>7, <4>1, <4>2
    <3>8. CASE AjaxReturn
      BY <2>3, <3>8, TakenKept DEF AjaxReturn
    <3>9. CASE AjaxThrow
      BY <2>3, <3>9, AjaxThrowKept
    <3>10. CASE Done
      <4>1. CASE requests[Head(pending).r].state = 2
        BY <2>3, <3>10, <4>1, TakenKept DEF Done
      <4>2. CASE requests[Head(pending).r].state # 2
        BY <2>3, <3>10, <4>2, DoneKept
      <4> QED
        BY <4>1, <4>2
    <3>11. CASE DoneCalls
      BY <2>3, <3>11, DoneCallsKept
    <3>12. CASE DoneEnds
      BY <2>3, <3>12, DoneEndsKept
    <3> QED
      BY <2>3, <3>1, <3>2, <3>3, <3>4, <3>5, <3>6, <3>7, <3>8, <3>9, <3>10, <3>11, <3>12 DEF AjaxNext
  <2> QED
    BY <2>1, <2>2, <2>3
<1>3. AjaxInv => RequestsEndOnce
  BY AjaxFollows
<1> QED
  BY <1>1, <1>2, <1>3, PTL DEF Spec

-----------------------------------------------------------------------------
(* jQuery's deferreds implement the abstract promises. *)

CallbackLists ==
    [list : Seq(Functions) \cup {None}, stack : Nat \cup {None}, firing : BOOLEAN, index : Nat,
     memory : BOOLEAN, fired : BOOLEAN]

Tasks ==
    [op : {"add"}, d : Deferreds, l : Lists, arg : Handlers] \cup [op : {"fire", "loop"}, d : Deferreds, l : Lists, arg : {None}]
        \cup [op : {"user"}, d : {None}, l : {None}, arg : Handlers] \cup [op : {"when"}, d : Derived, l : {None}, arg : {None}]

OfProgress(c) == c.list \in Seq(Handlers) \cup {None} /\ (c.firing => c.fired)

DeferredTyped ==
    /\ lists \in [Deferreds -> [Lists -> CallbackLists]] /\ \A d \in Deferreds : OfProgress(lists[d]["progress"])
    /\ state \in [Deferreds -> Outcomes \cup {None}] /\ todo \in Seq(Tasks)

\* A list is fired by one loop at a time.
LoopsApart(p, ls) ==
    /\ \A i \in DOMAIN p : p[i].op = "loop" => ls[p[i].d][p[i].l].firing
    /\ \A i, j \in DOMAIN p :
        p[i].op = "loop" /\ p[j].op = "loop" /\ p[i].d = p[j].d /\ p[i].l = p[j].l => i = j

\* The life of the lists of a deferred's outcomes.  Each has the functions of the deferred in front until it
\* has been fired, and then is fired for each handler added.
OwnThenHandlers(list) ==
    /\ Len(list) >= 3
    /\ list[1] = Function("settle", None, None) /\ list[2] = Function("disable", None, None)
    /\ list[3] = Function("lock", None, None)
    /\ \A i \in 4..Len(list) : list[i] \in Handlers

Unfired(c) ==
    c.list \in Seq(Functions) /\ OwnThenHandlers(c.list) /\ c.stack = None /\ ~c.firing /\ ~c.fired /\ ~c.memory
Fires(c) == c.list \in Seq(Functions) /\ c.stack = None /\ c.firing /\ c.fired /\ c.memory /\ c.index =< Len(c.list)
Rests(c) == c.list = <<>> /\ c.stack = None /\ ~c.firing /\ c.fired /\ c.memory
Off(c) == c.list = None /\ ~c.firing

FiresOwn(c, index) == Fires(c) /\ OwnThenHandlers(c.list) /\ c.index = index

Pending(ls, s) == s = None /\ \A o \in Outcomes : Unfired(ls[o])
Starting(ls, s, o) == s = None /\ FiresOwn(ls[o], 0) /\ Unfired(ls[Other(o)])
Settling(ls, s, o) == s = o /\ FiresOwn(ls[o], 1) /\ Unfired(ls[Other(o)])
Settled(ls, s, o) ==
    /\ s = o /\ Off(ls[Other(o)])
    /\ \/ Rests(ls[o])
       \/ Fires(ls[o]) /\ (ls[o].list \in Seq(Handlers) \/ (OwnThenHandlers(ls[o].list) /\ ls[o].index >= 2))

InLoopOf(d, o) == Running("loop") /\ Head(todo).d = d /\ Head(todo).l = o
Phase(d) ==
    \/ Pending(lists[d], state[d])
    \/ \E o \in Outcomes : InLoopOf(d, o) /\ (Starting(lists[d], state[d], o) \/ Settling(lists[d], state[d], o))
    \/ \E o \in Outcomes : Settled(lists[d], state[d], o)

DeferredInv == DeferredTyped /\ LoopsApart(todo, lists) /\ \A d \in Deferreds : Phase(d)

LEMMA OtherOutcome == Other("done") = "fail" /\ Other("fail") = "done"
<1>1. \E p \in Outcomes : p # "done"
  BY DEF Outcomes
<1>2. \E p \in Outcomes : p # "fail"
  BY DEF Outcomes
<1> QED
  BY <1>1, <1>2 DEF Other, Outcomes

LEMMA HandlerShape ==
    /\ \A f \in Handlers : f.do \in {"user", "pipe", "fire", "count"}
    /\ \A f \in Handlers : f.do \in {"pipe", "fire"} => f.to \in Derived /\ f.on \in Lists
    /\ \A f \in Handlers : f.do = "count" => f.to \in Derived
    /\ \A h \in UserHandlers : Function("user", h, None) \in Handlers
    /\ \A e \in Derived : Function("count", e, None) \in Handlers
    /\ \A e \in Derived, l \in Lists, do \in {"pipe", "fire"} : Function(do, e, l) \in Handlers
    /\ Handlers \subseteq Functions
<1>1. /\ \A f \in Handlers : f.do \in {"user", "pipe", "fire", "count"}
      /\ \A f \in Handlers : f.do \in {"pipe", "fire"} => f.to \in Derived /\ f.on \in Lists
      /\ \A f \in Handlers : f.do = "count" => f.to \in Derived
  BY DEF Handlers, Function
<1>2. /\ \A h \in UserHandlers : Function("user", h, None) \in Handlers
      /\ \A e \in Derived : Function("count", e, None) \in Handlers
      /\ \A e \in Derived, l \in Lists, do \in {"pipe", "fire"} : Function(do, e, l) \in Handlers
  BY DEF Handlers
<1> QED
  BY <1>1, <1>2 DEF Functions

LEMMA OwnShape ==
    \A do \in {"settle", "disable", "lock"} : Function(do, None, None) \in Functions /\ Function(do, None, None).do = do
BY DEF Functions, Function

LEMMA NotNone ==
    /\ \A s \in Seq(Functions) : s # None
    /\ \A s \in Seq(Handlers) : s \in Seq(Functions) /\ s # None
    /\ "done" # None /\ "fail" # None /\ \A n \in Nat : n # None
<1>1. \A s \in Seq(Handlers) : s \in Seq(Functions)
  BY HandlerShape
<1> QED
  BY <1>1, NoneAssumption DEF Outcomes

\* The stack of loops.
LEMMA LoopsPopped ==
    ASSUME NEW p \in Seq(Tasks), p # <<>>, NEW ls, LoopsApart(p, ls)
    PROVE  /\ LoopsApart(Tail(p), ls)
           /\ p[1].op = "loop" => ls[p[1].d][p[1].l].firing
           /\ p[1].op = "loop" =>
                \A i \in DOMAIN Tail(p) : Tail(p)[i].op = "loop" => ~(Tail(p)[i].d = p[1].d /\ Tail(p)[i].l = p[1].l)
<1>1. /\ Len(p) \in Nat /\ Len(p) >= 1 /\ DOMAIN p = 1..Len(p) /\ DOMAIN Tail(p) = 1..(Len(p) - 1)
      /\ \A i \in DOMAIN Tail(p) : i + 1 \in DOMAIN p /\ Tail(p)[i] = p[i + 1] /\ i # 0
  OBVIOUS
<1>2. \A i, j \in DOMAIN Tail(p) : i \in Int /\ j \in Int /\ (i + 1 = j + 1 => i = j) /\ i + 1 # 1
  BY <1>1
<1> QED
  BY <1>1, <1>2, SMTT(30) DEF LoopsApart

LEMMA LoopsPushed ==
    ASSUME NEW p \in Seq(Tasks), NEW q \in Seq(Tasks), \A i \in DOMAIN q : q[i].op # "loop", NEW ls, LoopsApart(p, ls)
    PROVE  q \o p \in Seq(Tasks) /\ LoopsApart(q \o p, ls)
<1>1. /\ Len(p) \in Nat /\ DOMAIN p = 1..Len(p) /\ Len(q) \in Nat /\ DOMAIN q = 1..Len(q)
      /\ q \o p \in Seq(Tasks) /\ DOMAIN (q \o p) = 1..(Len(q) + Len(p))
      /\ \A i \in 1..Len(q) : (q \o p)[i] = q[i]
      /\ \A i \in (Len(q) + 1)..(Len(q) + Len(p)) : (q \o p)[i] = p[i - Len(q)]
  OBVIOUS
<1>2. \A i \in DOMAIN (q \o p) : (q \o p)[i].op = "loop" =>
            i - Len(q) \in DOMAIN p /\ (q \o p)[i] = p[i - Len(q)] /\ i \in Int
  BY <1>1
<1>3. \A i, j \in DOMAIN (q \o p) : i - Len(q) = j - Len(q) => i = j
  BY <1>1
<1> QED
  BY <1>1, <1>2, <1>3, SMTT(30) DEF LoopsApart

LEMMA LoopsFire ==
    ASSUME NEW p \in Seq(Tasks), NEW ls, NEW ms, LoopsApart(p, ls),
           \A i \in DOMAIN p : p[i].op = "loop" /\ ls[p[i].d][p[i].l].firing => ms[p[i].d][p[i].l].firing
    PROVE  LoopsApart(p, ms)
BY DEF LoopsApart

LEMMA LoopBegun ==
    ASSUME NEW p \in Seq(Tasks), NEW ls, LoopsApart(p, ls), NEW d \in Deferreds, NEW l \in Lists, ~ls[d][l].firing
    PROVE  /\ <<Task("loop", d, l, None)>> \o p \in Seq(Tasks)
           /\ \A ms : ms[d][l].firing /\ LoopsApart(p, ms) => LoopsApart(<<Task("loop", d, l, None)>> \o p, ms)
<1> DEFINE t == Task("loop", d, l, None)
           q == <<t>> \o p
<1>1. t \in Tasks /\ t.op = "loop" /\ t.d = d /\ t.l = l
  BY DEF Task, Tasks
<1> HIDE DEF t
<1>2. /\ Len(p) \in Nat /\ DOMAIN p = 1..Len(p) /\ q \in Seq(Tasks) /\ DOMAIN q = 1..(Len(p) + 1) /\ q[1] = t
      /\ \A i \in DOMAIN q : i = 1 \/ (i - 1 \in DOMAIN p /\ q[i] = p[i - 1])
  BY <1>1
<1>3. \A i, j \in DOMAIN q : i \in Int /\ j \in Int /\ (i - 1 = j - 1 => i = j)
  BY <1>2
<1>4. \A i \in DOMAIN p : p[i].op = "loop" => ~(p[i].d = d /\ p[i].l = l)
  BY DEF LoopsApart
<1> HIDE DEF q
<1>5. ASSUME NEW ms, ms[d][l].firing, LoopsApart(p, ms)
      PROVE  LoopsApart(q, ms)
  <2>1. ASSUME NEW i \in DOMAIN q, q[i].op = "loop"
        PROVE  ms[q[i].d][q[i].l].firing
    BY <1>1, <1>2, <1>5, <2>1 DEF LoopsApart
  <2>2. ASSUME NEW i \in DOMAIN q, NEW j \in DOMAIN q, q[i].op = "loop", q[j].op = "loop",
               q[i].d = q[j].d, q[i].l = q[j].l
        PROVE  i = j
    BY <1>1, <1>2, <1>3, <1>4, <1>5, <2>2 DEF LoopsApart
  <2> QED
    BY <2>1, <2>2 DEF LoopsApart
<1> QED
  BY <1>2, <1>5 DEF q, t

\* What a list has yet to call.
LEMMA SuffixAppended ==
    ASSUME NEW S, NEW s \in Seq(S), NEW x \in S, NEW n \in 1..(Len(s) + 1)
    PROVE  SubSeq(Append(s, x), n, Len(Append(s, x))) = Append(SubSeq(s, n, Len(s)), x)
<1> DEFINE t == SubSeq(Append(s, x), n, Len(Append(s, x)))
           u == Append(SubSeq(s, n, Len(s)), x)
<1>1. /\ Append(s, x) \in Seq(S) /\ Len(Append(s, x)) = Len(s) + 1 /\ Len(s) \in Nat
      /\ \A i \in 1..Len(s) : Append(s, x)[i] = s[i]
      /\ Append(s, x)[Len(s) + 1] = x
  OBVIOUS
<1>2. /\ t \in Seq(S) /\ Len(t) = Len(s) + 1 - n + 1
      /\ \A i \in 1..Len(t) : t[i] = Append(s, x)[n + i - 1]
  BY <1>1, SubSeqProperties
<1>3. /\ SubSeq(s, n, Len(s)) \in Seq(S) /\ Len(SubSeq(s, n, Len(s))) = Len(s) - n + 1
      /\ \A i \in 1..Len(SubSeq(s, n, Len(s))) : SubSeq(s, n, Len(s))[i] = s[n + i - 1]
  BY <1>1, SubSeqProperties
<1>4. u \in Seq(S) /\ Len(u) = Len(s) - n + 2 /\ u[Len(s) - n + 2] = x
      /\ \A i \in 1..(Len(s) - n + 1) : u[i] = s[n + i - 1]
  BY <1>1, <1>3
<1>5. Len(t) = Len(u) /\ \A i \in 1..Len(t) : t[i] = u[i]
  BY <1>1, <1>2, <1>4
<1> HIDE DEF t, u
<1>6. t = u
  BY <1>2, <1>4, <1>5, SeqEqual
<1> QED
  BY <1>6 DEF t, u

LEMMA SuffixTaken ==
    ASSUME NEW S, NEW s \in Seq(S), NEW n \in 1..Len(s)
    PROVE  /\ SubSeq(s, n, Len(s)) # <<>> /\ Head(SubSeq(s, n, Len(s))) = s[n]
           /\ Tail(SubSeq(s, n, Len(s))) = SubSeq(s, n + 1, Len(s))
<1> DEFINE t == SubSeq(s, n, Len(s))
           u == SubSeq(s, n + 1, Len(s))
<1>1. Len(s) \in Nat /\ n \in Nat
  OBVIOUS
<1>2. t \in Seq(S) /\ Len(t) = Len(s) - n + 1 /\ \A i \in 1..Len(t) : t[i] = s[n + i - 1]
  BY <1>1, SubSeqProperties
<1>3. u \in Seq(S) /\ Len(u) = Len(s) - n /\ \A i \in 1..Len(u) : u[i] = s[n + 1 + i - 1]
  BY <1>1, SubSeqProperties
<1> HIDE DEF t, u
<1>4. t # <<>> /\ Head(t) = t[1] /\ Tail(t) \in Seq(S) /\ Len(Tail(t)) = Len(t) - 1
      /\ \A i \in 2..Len(t) : Tail(t)[i - 1] = t[i]
  <2>1. t # <<>>
    BY <1>1, <1>2
  <2> QED
    BY <1>2, <2>1, PoppedEntry
<1>5. \A i \in 1..Len(u) : i + 1 \in 2..Len(t) /\ Tail(t)[(i + 1) - 1] = t[i + 1] /\ (i + 1) - 1 = i
  BY <1>1, <1>2, <1>3, <1>4
<1>6. \A i \in 1..Len(u) : t[i + 1] = s[n + (i + 1) - 1] /\ n + (i + 1) - 1 = n + 1 + i - 1
  BY <1>1, <1>2, <1>3
<1>7. \A i \in 1..Len(u) : Tail(t)[i] = u[i]
  BY <1>3, <1>5, <1>6
<1>8. Tail(t) = u
  <2>1. Len(Tail(t)) = Len(u)
    <3>1. Len(t) = Len(s) - n + 1 /\ Len(u) = Len(s) - n
      BY <1>2, <1>3
    <3>2. Len(t) - 1 = Len(u)
      BY <1>1, <3>1
    <3> QED
      BY <1>4, <3>2, Zenon
  <2>2. \A i \in 1..Len(Tail(t)) : Tail(t)[i] = u[i]
    BY <1>7, <2>1
  <2> QED
    BY <1>3, <1>4, <2>1, <2>2, SeqEqual
<1>9. Head(t) = s[n]
  BY <1>1, <1>2, <1>4
<1> QED
  BY <1>4, <1>8, <1>9 DEF t, u

LEMMA SuffixEmpty ==
    ASSUME NEW S, NEW s \in Seq(S), NEW n \in Nat, n > Len(s)
    PROVE  SubSeq(s, n, Len(s)) = <<>>
BY SubSeqProperties

WaitingIn(c, s, o) ==
    IF s \notin {None, o} \/ c.list = None THEN <<>> ELSE SubSeq(c.list, HandlersFrom(c), Len(c.list))

LEMMA WaitingAs == \A d, o : Waiting(d, o) = WaitingIn(lists[d][o], state[d], o)
BY DEF Waiting, WaitingIn

LEMMA HandlersBegin ==
    /\ \A s \in Seq(Functions) : OwnThenHandlers(s) => OwnInFront(s)
    /\ \A s \in Seq(Handlers) : ~OwnInFront(s)
<1>1. \A s \in Seq(Handlers) : s # <<>> => s[1] \in Handlers
  OBVIOUS
<1>2. \A f \in Handlers : f.do # "settle"
  BY HandlerShape
<1>3. \A s \in Seq(Functions) : OwnThenHandlers(s) => s # <<>> /\ s[1].do = "settle"
  BY OwnShape DEF OwnThenHandlers
<1> QED
  BY <1>1, <1>2, <1>3 DEF OwnInFront

\* Deferreds that a step does not touch, and steps that touch none.
LEMMA OthersKept ==
    ASSUME NEW e \in Deferreds, Phase(e), \A o \in Outcomes : lists'[e][o] = lists[e][o], state'[e] = state[e],
           \A o \in Outcomes : ~InLoopOf(e, o)
    PROVE  Phase(e)' /\ \A o \in Outcomes : Waiting(e, o)' = Waiting(e, o)
<1>1. \A o \in Outcomes : Waiting(e, o)' = Waiting(e, o)
  BY DEF Waiting, HandlersFrom, OwnInFront
<1>2. \A o \in Outcomes : Other(o) \in Outcomes
  BY OtherOutcome DEF Outcomes
<1>3. CASE Pending(lists[e], state[e])
  <2>1. Pending(lists'[e], state'[e])
    BY <1>3 DEF Pending
  <2> QED
    BY <1>1, <2>1 DEF Phase
<1>4. CASE \E o \in Outcomes : Settled(lists[e], state[e], o)
  <2>1. \E o \in Outcomes : Settled(lists'[e], state'[e], o)
    BY <1>2, <1>4 DEF Settled
  <2> QED
    BY <1>1, <2>1 DEF Phase
<1> QED
  BY <1>3, <1>4 DEF Phase

LEMMA NotNoticed ==
    ASSUME UNCHANGED <<state, called>>, \A e \in Deferreds, o \in Outcomes : Waiting(e, o)' = Waiting(e, o)
    PROVE  Unnoticed
<1>1. UNCHANGED [d \in Deferreds |-> [o \in Outcomes |-> Waiting(d, o)]]
  OBVIOUS
<1> QED
  BY <1>1 DEF Unnoticed, Promise!vars

LEMMA QuietKept ==
    ASSUME DeferredInv, UNCHANGED <<lists, state, called>>, todo = <<>> \/ Head(todo).op # "loop",
           todo' \in Seq(Tasks), LoopsApart(todo', lists)
    PROVE  DeferredInv' /\ Unnoticed
<1>1. \A e \in Deferreds : Phase(e)' /\ \A o \in Outcomes : Waiting(e, o)' = Waiting(e, o)
  <2> TAKE e \in Deferreds
  <2>1. \A o \in Outcomes : ~InLoopOf(e, o)
    BY DEF InLoopOf, Running
  <2>2. Phase(e)
    BY DEF DeferredInv
  <2> QED
    BY <2>1, <2>2, OthersKept
<1>2. DeferredTyped'
  BY DEF DeferredTyped, DeferredInv
<1> QED
  BY <1>1, <1>2, NotNoticed DEF DeferredInv

\* What a step means for the users of a deferred.
LEMMA RegisterStep ==
    ASSUME NEW d \in Deferreds, NEW o \in Outcomes, NEW h \in Handlers, UNCHANGED <<state, called>>,
           state[d] \in {None, o}, Waiting(d, o)' = Append(Waiting(d, o), h),
           \A e \in Deferreds, p \in Outcomes : ~(e = d /\ p = o) => Waiting(e, p)' = Waiting(e, p)
    PROVE  Promise!Next
<1> DEFINE W == [e \in Deferreds |-> [p \in Outcomes |-> Waiting(e, p)]]
<1>1. W' = [W EXCEPT ![d][o] = Append(@, h)]
  OBVIOUS
<1>2. Promise!Register(d, o, h)
  BY <1>1 DEF Promise!Register
<1> QED
  BY <1>2 DEF Promise!Next, Promise!Outcomes, Outcomes

LEMMA SettleStep ==
    ASSUME NEW d \in Deferreds, NEW o \in Outcomes, UNCHANGED called, state[d] = None, state' = [state EXCEPT ![d] = o],
           \A p \in Outcomes : Waiting(d, p)' = (IF p = o THEN Waiting(d, p) ELSE <<>>),
           \A e \in Deferreds \ {d}, p \in Outcomes : Waiting(e, p)' = Waiting(e, p)
    PROVE  Promise!Next
<1> DEFINE W == [e \in Deferreds |-> [p \in Outcomes |-> Waiting(e, p)]]
<1>1. W' = [W EXCEPT ![d] = [p \in Outcomes |-> IF p = o THEN @[p] ELSE <<>>]]
  OBVIOUS
<1>2. Promise!Settle(d, o)
  BY <1>1 DEF Promise!Settle, Promise!Outcomes, Outcomes
<1> QED
  BY <1>2 DEF Promise!Next, Promise!Outcomes, Outcomes

LEMMA CallStep ==
    ASSUME NEW d \in Deferreds, NEW o \in Outcomes, NEW f, UNCHANGED state, state[d] = o, o # None,
           called' = [called EXCEPT ![d] = Append(@, f)],
           Waiting(d, o) # <<>>, Head(Waiting(d, o)) = f, Waiting(d, o)' = Tail(Waiting(d, o)),
           \A e \in Deferreds, p \in Outcomes : ~(e = d /\ p = o) => Waiting(e, p)' = Waiting(e, p)
    PROVE  Promise!Next
<1> DEFINE W == [e \in Deferreds |-> [p \in Outcomes |-> Waiting(e, p)]]
<1>1. W' = [W EXCEPT ![d][o] = Tail(@)]
  BY ZenonT(40)
<1>2. W[d][o] = Waiting(d, o)
  OBVIOUS
<1>3. Promise!CallNext(d)
  BY <1>1, <1>2 DEF Promise!CallNext
<1> QED
  BY <1>3 DEF Promise!Next

LEMMA WaitingLonger ==
    ASSUME NEW c \in CallbackLists, NEW b \in CallbackLists, NEW h \in Handlers, NEW o, NEW s \in {None, o},
           c.list \in Seq(Functions), b.list = Append(c.list, h), b.firing = c.firing, b.index = c.index,
           c.firing => c.index =< Len(c.list), OwnThenHandlers(c.list) \/ c.list \in Seq(Handlers)
    PROVE  /\ WaitingIn(b, s, o) = Append(WaitingIn(c, s, o), h)
           /\ OwnThenHandlers(c.list) => OwnThenHandlers(b.list)
           /\ c.list \in Seq(Handlers) => b.list \in Seq(Handlers)
           /\ b.list \in Seq(Functions) /\ Len(b.list) = Len(c.list) + 1
<1>1. h \in Functions
  BY HandlerShape
<1>2. /\ b.list \in Seq(Functions) /\ Len(b.list) = Len(c.list) + 1 /\ Len(c.list) \in Nat
      /\ \A i \in 1..Len(c.list) : b.list[i] = c.list[i]
      /\ b.list[Len(c.list) + 1] = h
  BY <1>1
<1>3. OwnThenHandlers(c.list) => OwnThenHandlers(b.list)
  BY <1>2 DEF OwnThenHandlers
<1>4. c.list \in Seq(Handlers) => b.list \in Seq(Handlers)
  OBVIOUS
<1>5. HandlersFrom(b) = HandlersFrom(c) /\ HandlersFrom(c) \in 1..(Len(c.list) + 1)
  <2> DEFINE next == IF c.firing THEN c.index + 1 ELSE 1
  <2>1. next \in Nat /\ next >= 1 /\ next =< Len(c.list) + 1
    <3>1. c.index \in Nat /\ Len(c.list) \in Nat
      BY <1>2 DEF CallbackLists
    <3>2. CASE c.firing
      BY <3>1, <3>2
    <3>3. CASE ~c.firing
      BY <3>1, <3>3
    <3> QED
      BY <3>2, <3>3
  <2>2. /\ HandlersFrom(c) = (IF OwnInFront(c.list) /\ next < 4 THEN 4 ELSE next)
        /\ HandlersFrom(b) = (IF OwnInFront(b.list) /\ next < 4 THEN 4 ELSE next)
    BY Zenon DEF HandlersFrom
  <2> HIDE DEF next
  <2>3. CASE OwnThenHandlers(c.list)
    <3>1. OwnInFront(c.list) /\ OwnInFront(b.list) /\ Len(c.list) >= 3
      BY <1>2, <1>3, <2>3, HandlersBegin DEF OwnThenHandlers
    <3> QED
      BY <1>2, <2>1, <2>2, <3>1
  <2>4. CASE c.list \in Seq(Handlers)
    <3>1. ~OwnInFront(c.list) /\ ~OwnInFront(b.list)
      BY <1>4, <2>4, HandlersBegin
    <3> QED
      BY <1>2, <2>1, <2>2, <3>1
  <2> QED
    BY <2>3, <2>4
<1>6. SubSeq(b.list, HandlersFrom(b), Len(b.list)) = Append(SubSeq(c.list, HandlersFrom(c), Len(c.list)), h)
  BY <1>1, <1>5, SuffixAppended
<1> QED
  BY <1>2, <1>3, <1>4, <1>6, NotNone DEF WaitingIn

LEMMA TopTask ==
    ASSUME DeferredInv, todo # <<>>
    PROVE  /\ Head(todo) = todo[1] /\ Head(todo) \in Tasks /\ Tail(todo) \in Seq(Tasks) /\ LoopsApart(Tail(todo), lists)
           /\ Head(todo).op = "add" => Head(todo).d \in Deferreds /\ Head(todo).l \in Lists /\ Head(todo).arg \in Handlers
           /\ Head(todo).op \in {"fire", "loop"} => Head(todo).d \in Deferreds /\ Head(todo).l \in Lists
           /\ Head(todo).op = "when" => Head(todo).d \in Derived
           /\ Head(todo).op \in {"fire", "loop", "add"} =>
                lists[Head(todo).d] \in [Lists -> CallbackLists] /\ lists[Head(todo).d][Head(todo).l] \in CallbackLists
<1>1. todo \in Seq(Tasks) /\ LoopsApart(todo, lists) /\ lists \in [Deferreds -> [Lists -> CallbackLists]]
  BY DEF DeferredInv, DeferredTyped
<1>2. Head(todo) = todo[1] /\ Head(todo) \in Tasks /\ Tail(todo) \in Seq(Tasks)
  BY <1>1
<1>3. LoopsApart(Tail(todo), lists)
  BY <1>1, LoopsPopped
<1>4. \A t \in Tasks :
        /\ t.op = "add" => t.d \in Deferreds /\ t.l \in Lists /\ t.arg \in Handlers
        /\ t.op \in {"fire", "loop"} => t.d \in Deferreds /\ t.l \in Lists
        /\ t.op = "when" => t.d \in Derived
  BY DEF Tasks
<1> QED
  BY <1>1, <1>2, <1>3, <1>4

\* The fields of a list as its operations leave them.
Same(b, c, fields) ==
    /\ "list" \in fields => b.list = c.list
    /\ "stack" \in fields => b.stack = c.stack
    /\ "firing" \in fields => b.firing = c.firing
    /\ "index" \in fields => b.index = c.index
    /\ "memory" \in fields => b.memory = c.memory /\ b.fired = c.fired

LEMMA ListTyped ==
    ASSUME NEW c \in CallbackLists
    PROVE  /\ c.list \in Seq(Functions) \cup {None} /\ c.stack \in Nat \cup {None} /\ c.index \in Nat
           /\ c.firing \in BOOLEAN /\ c.memory \in BOOLEAN /\ c.fired \in BOOLEAN
BY DEF CallbackLists

LEMMA ListReplaced ==
    ASSUME NEW c \in CallbackLists, NEW s \in Seq(Functions) \cup {None}
    PROVE  /\ [c EXCEPT !.list = s] \in CallbackLists /\ [c EXCEPT !.list = s].list = s
           /\ Same([c EXCEPT !.list = s], c, {"stack", "firing", "index", "memory"})
BY DEF CallbackLists, Same

LEMMA ListFired ==
    ASSUME NEW c \in CallbackLists, NEW n \in Nat
    PROVE  /\ Fire(c, n) \in CallbackLists /\ Same(Fire(c, n), c, {"list", "stack"})
           /\ Fire(c, n).firing = TRUE /\ Fire(c, n).index = n /\ Fire(c, n).memory = TRUE /\ Fire(c, n).fired = TRUE
BY DEF CallbackLists, Fire, Same

\* One list changes.
LEMMA OneList ==
    ASSUME DeferredInv, NEW d \in Deferreds, NEW l \in Lists, NEW b \in CallbackLists,
           lists' = [lists EXCEPT ![d][l] = b], l = "progress" => OfProgress(b)
    PROVE  /\ lists'[d][l] = b /\ lists' \in [Deferreds -> [Lists -> CallbackLists]]
           /\ \A e \in Deferreds, m \in Lists : ~(e = d /\ m = l) => lists'[e][m] = lists[e][m]
           /\ \A e \in Deferreds : OfProgress(lists'[e]["progress"])
           /\ \A e \in Deferreds :
                (\A o \in Outcomes : ~(e = d /\ o = l) /\ ~InLoopOf(e, o)) /\ state'[e] = state[e] =>
                    Phase(e)' /\ \A o \in Outcomes : Waiting(e, o)' = Waiting(e, o)
<1>1. lists \in [Deferreds -> [Lists -> CallbackLists]]
      /\ \A e \in Deferreds : OfProgress(lists[e]["progress"])
  BY DEF DeferredInv, DeferredTyped
<1>2. lists'[d][l] = b /\ lists' \in [Deferreds -> [Lists -> CallbackLists]]
  BY <1>1
<1>3. \A e \in Deferreds, m \in Lists : ~(e = d /\ m = l) => lists'[e][m] = lists[e][m]
  BY <1>1
<1>4. \A e \in Deferreds : OfProgress(lists'[e]["progress"])
  <2> TAKE e \in Deferreds
  <2>1. CASE e = d /\ l = "progress"
    BY <1>2, <2>1
  <2>2. CASE ~(e = d /\ l = "progress")
    <3>1. "progress" \in Lists
      BY DEF Lists
    <3>2. lists'[e]["progress"] = lists[e]["progress"]
      BY <1>3, <2>2, <3>1
    <3> QED
      BY <1>1, <3>2
  <2> QED
    BY <2>1, <2>2
<1>5. ASSUME NEW e \in Deferreds, \A o \in Outcomes : ~(e = d /\ o = l) /\ ~InLoopOf(e, o), state'[e] = state[e]
      PROVE  Phase(e)' /\ \A o \in Outcomes : Waiting(e, o)' = Waiting(e, o)
  <2>1. \A o \in Outcomes : o \in Lists
    BY DEF Outcomes, Lists
  <2>2. \A o \in Outcomes : lists'[e][o] = lists[e][o]
    BY <1>3, <1>5, <2>1
  <2>3. Phase(e)
    BY DEF DeferredInv
  <2> QED
    BY <1>5, <2>2, <2>3, OthersKept
<1> QED
  BY <1>2, <1>3, <1>4, <1>5

LEMMA OneListLoops ==
    ASSUME DeferredInv, NEW d \in Deferreds, NEW l \in Lists, NEW b \in CallbackLists,
           lists' = [lists EXCEPT ![d][l] = b], lists[d][l].firing => b.firing
    PROVE  \A p \in Seq(Tasks) : LoopsApart(p, lists) => LoopsApart(p, lists')
<1> SUFFICES ASSUME NEW p \in Seq(Tasks), LoopsApart(p, lists)
             PROVE  LoopsApart(p, lists')
  OBVIOUS
<1>1. lists \in [Deferreds -> [Lists -> CallbackLists]]
  BY DEF DeferredInv, DeferredTyped
<1>2. lists'[d][l] = b
  BY <1>1
<1>3. \A e \in Deferreds, m \in Lists : ~(e = d /\ m = l) => lists'[e][m] = lists[e][m]
  BY <1>1
<1>4. \A e \in Deferreds, m \in Lists : lists[e][m].firing => lists'[e][m].firing
  <2> TAKE e \in Deferreds, m \in Lists
  <2>1. CASE e = d /\ m = l
    BY <1>2, <2>1
  <2>2. CASE ~(e = d /\ m = l)
    BY <1>3, <2>2
  <2> QED
    BY <2>1, <2>2
<1>5. \A k \in Tasks : k.op = "loop" => k.d \in Deferreds /\ k.l \in Lists
  BY DEF Tasks
<1>6. \A i \in DOMAIN p : p[i] \in Tasks
  OBVIOUS
<1> QED
  BY <1>4, <1>5, <1>6, LoopsFire

LEMMA OutcomesTwo ==
    /\ \A o \in Outcomes : o \in Lists /\ o # "progress" /\ Other(o) \in Outcomes /\ Other(o) # o /\ o # None
    /\ \A o, p \in Outcomes : p = o \/ p = Other(o)
    /\ \A l \in Lists : l = "progress" \/ l \in Outcomes
    /\ "progress" \in Lists /\ "progress" \notin Outcomes
BY OtherOutcome, NotNone DEF Outcomes, Lists

LEMMA AddKept ==
    ASSUME DeferredInv, RunAdd
    PROVE  DeferredInv' /\ (Unnoticed \/ Promise!Next)
<1>1. PICK d \in Deferreds, l \in Lists, h \in Handlers, c \in CallbackLists :
        /\ todo # <<>> /\ Head(todo).op = "add" /\ d = Head(todo).d /\ l = Head(todo).l /\ h = Head(todo).arg
        /\ c = lists[d][l]
        /\ Tail(todo) \in Seq(Tasks) /\ LoopsApart(Tail(todo), lists)
  <2>1. todo # <<>> /\ Head(todo).op = "add"
    BY Zenon DEF RunAdd, Running
  <2> QED
    BY <2>1, TopTask, Zenon
<1> DEFINE longer == [c EXCEPT !.list = Append(c.list, h)]
           starts == c.list # None /\ ~c.firing /\ c.memory
           b == IF c.list = None THEN c ELSE IF starts THEN Fire(longer, Len(c.list)) ELSE longer
<1>2. /\ lists' = [lists EXCEPT ![d][l] = b] /\ UNCHANGED <<state, called>>
      /\ todo' = (IF starts THEN <<Task("loop", d, l, None)>> ELSE <<>>) \o Tail(todo)
  <2>1. lists' = [lists EXCEPT ![d][l] = IF c.list = None THEN c
                    ELSE IF ~c.firing /\ c.memory THEN Fire(longer, Len(c.list)) ELSE longer]
    BY <1>1, Zenon DEF RunAdd
  <2>2. b = IF c.list = None THEN c ELSE IF ~c.firing /\ c.memory THEN Fire(longer, Len(c.list)) ELSE longer
    BY Zenon
  <2>3. todo' = (IF starts THEN <<Task("loop", d, l, None)>> ELSE <<>>) \o Tail(todo)
    BY <1>1, ZenonT(40) DEF RunAdd
  <2>4. UNCHANGED <<state, called>>
    BY Zenon DEF RunAdd
  <2> HIDE DEF b
  <2> QED
    BY <2>1, <2>2, <2>3, <2>4, Zenon
<1>3. c.list # None =>
        /\ c.list \in Seq(Functions) /\ Len(c.list) \in Nat /\ longer \in CallbackLists /\ longer.list = Append(c.list, h)
        /\ Same(longer, c, {"stack", "firing", "index", "memory"})
  <2> SUFFICES ASSUME c.list # None
               PROVE  /\ c.list \in Seq(Functions) /\ Len(c.list) \in Nat /\ longer \in CallbackLists
                      /\ longer.list = Append(c.list, h) /\ Same(longer, c, {"stack", "firing", "index", "memory"})
    OBVIOUS
  <2>1. c.list \in Seq(Functions)
    BY ListTyped
  <2>2. Append(c.list, h) \in Seq(Functions) /\ Len(c.list) \in Nat
    BY <2>1, HandlerShape
  <2> QED
    BY <2>1, <2>2, ListReplaced
<1> HIDE DEF longer
<1>4. /\ c.list = None => b = c
      /\ starts => b = Fire(longer, Len(c.list))
      /\ c.list # None /\ ~starts => b = longer
  BY Zenon
<1>5. /\ starts => b \in CallbackLists /\ b.firing = TRUE /\ b.index = Len(c.list) /\ b.memory = TRUE /\ b.fired = TRUE
                   /\ b.list = Append(c.list, h) /\ b.stack = c.stack
      /\ c.list # None /\ ~starts => b \in CallbackLists /\ b.list = Append(c.list, h)
                                     /\ Same(b, c, {"stack", "firing", "index", "memory"})
  <2>1. ASSUME starts
        PROVE  b \in CallbackLists /\ b.firing = TRUE /\ b.index = Len(c.list) /\ b.memory = TRUE /\ b.fired = TRUE
               /\ b.list = Append(c.list, h) /\ b.stack = c.stack
    BY <1>3, <1>4, <2>1, ListFired DEF Same
  <2> QED
    BY <1>3, <1>4, <2>1
<1> HIDE DEF b
<1>6. b \in CallbackLists /\ (c.firing => b.firing) /\ (starts => b.firing)
  BY <1>4, <1>5 DEF Same
<1>7. l = "progress" => OfProgress(b)
  <2> SUFFICES ASSUME l = "progress"
               PROVE  OfProgress(b)
    OBVIOUS
  <2>1. OfProgress(c)
    BY <1>1 DEF DeferredInv, DeferredTyped
  <2>2. CASE c.list = None
    BY <1>4, <2>1, <2>2
  <2>3. CASE c.list # None
    <3>1. Append(c.list, h) \in Seq(Handlers)
      BY <2>1, <2>3 DEF OfProgress
    <3>2. b.list \in Seq(Handlers) /\ (b.firing => b.fired)
      BY <1>5, <2>1, <2>3, <3>1 DEF Same, OfProgress
    <3> QED
      BY <3>2 DEF OfProgress
  <2> QED
    BY <2>2, <2>3
<1>8. lists' = [lists EXCEPT ![d][l] = b] /\ UNCHANGED <<state, called>>
  BY <1>2
<1>9. /\ lists'[d][l] = b /\ lists' \in [Deferreds -> [Lists -> CallbackLists]]
      /\ \A e \in Deferreds, m \in Lists : ~(e = d /\ m = l) => lists'[e][m] = lists[e][m]
      /\ \A e \in Deferreds : OfProgress(lists'[e]["progress"])
      /\ \A e \in Deferreds :
            (\A o \in Outcomes : ~(e = d /\ o = l) /\ ~InLoopOf(e, o)) /\ state'[e] = state[e] =>
                Phase(e)' /\ \A o \in Outcomes : Waiting(e, o)' = Waiting(e, o)
  <2>1. b \in CallbackLists
    BY <1>6
  <2> QED
    BY <1>7, <1>8, <2>1, OneList
<1>10. LoopsApart(Tail(todo), lists')
  <2>1. \A p \in Seq(Tasks) : LoopsApart(p, lists) => LoopsApart(p, lists')
    <3>1. lists[d][l].firing => b.firing
      BY <1>1, <1>6
    <3>2. b \in CallbackLists
      BY <1>6
    <3> QED
      BY <1>8, <3>1, <3>2, OneListLoops
  <2> QED
    BY <1>1, <2>1
<1>11. \A e \in Deferreds, o \in Outcomes : ~InLoopOf(e, o)
  BY <1>1 DEF InLoopOf, Running
<1>12. \A e \in Deferreds : e # d \/ l = "progress" => Phase(e)' /\ \A o \in Outcomes : Waiting(e, o)' = Waiting(e, o)
  <2> TAKE e \in Deferreds
  <2>1. e # d \/ l = "progress" => \A o \in Outcomes : ~(e = d /\ o = l)
    BY OutcomesTwo
  <2> QED
    BY <1>8, <1>9, <1>11, <2>1
<1>13. todo' \in Seq(Tasks) /\ LoopsApart(todo', lists')
  <2>1. CASE starts
    <3>1. ~lists[d][l].firing /\ lists'[d][l].firing
      BY <1>1, <1>6, <1>9, <2>1
    <3>2. todo' = <<Task("loop", d, l, None)>> \o Tail(todo)
      BY <1>2, <2>1
    <3> QED
      BY <1>1, <1>10, <3>1, <3>2, LoopBegun
  <2>2. CASE ~starts
    <3>1. todo' = <<>> \o Tail(todo)
      BY <1>2, <2>2
    <3>2. todo' = Tail(todo)
      BY <1>1, <3>1
    <3> QED
      BY <1>1, <1>10, <3>2
  <2> QED
    BY <2>1, <2>2
<1>14. DeferredTyped'
  BY <1>8, <1>9, <1>13 DEF DeferredInv, DeferredTyped
<1>15. CASE l = "progress"
  <2>1. Unnoticed
    BY <1>8, <1>12, <1>15, NotNoticed
  <2> QED
    BY <1>12, <1>13, <1>14, <1>15, <2>1 DEF DeferredInv
<1>16. CASE l \in Outcomes
  <2>1. Phase(d) /\ state'[d] = state[d]
    BY <1>8 DEF DeferredInv
  <2>2. ASSUME Phase(d)', \A o \in Outcomes : Waiting(d, o)' = Waiting(d, o)
        PROVE  DeferredInv' /\ Unnoticed
    <3>1. \A e \in Deferreds : Phase(e)' /\ \A o \in Outcomes : Waiting(e, o)' = Waiting(e, o)
      BY <1>12, <2>2
    <3> QED
      BY <1>8, <1>13, <1>14, <3>1, NotNoticed DEF DeferredInv
  <2>3. \A o \in Outcomes \ {l} : lists'[d][o] = lists[d][o]
    BY <1>9, OutcomesTwo
  <2>4. ASSUME Phase(d)', state[d] \in {None, l}, WaitingIn(b, state[d], l) = Append(WaitingIn(c, state[d], l), h)
        PROVE  DeferredInv' /\ Promise!Next
    <3>1. \A e \in Deferreds : Phase(e)'
      BY <1>12, <2>4
    <3>2. \A o \in Outcomes \ {l} : Waiting(d, o)' = Waiting(d, o)
      BY <1>8, <2>3 DEF Waiting, HandlersFrom, OwnInFront
    <3>3. Waiting(d, l) = WaitingIn(c, state[d], l) /\ Waiting(d, l)' = WaitingIn(b, state'[d], l)
      BY <1>1, <1>9 DEF Waiting, WaitingIn
    <3>4. Waiting(d, l)' = Append(Waiting(d, l), h)
      BY <2>1, <2>4, <3>3
    <3>5. \A e \in Deferreds, p \in Outcomes : ~(e = d /\ p = l) => Waiting(e, p)' = Waiting(e, p)
      BY <1>12, <3>2
    <3>6. Promise!Next
      BY <1>8, <1>16, <2>4, <3>4, <3>5, RegisterStep
    <3> QED
      BY <1>13, <1>14, <3>1, <3>6 DEF DeferredInv
  <2>5. CASE Pending(lists[d], state[d])
    <3>1. Unfired(c) /\ state[d] = None
      BY <1>1, <1>16, <2>5 DEF Pending
    <3>2. c.list # None /\ ~starts /\ ~c.firing /\ c.list \in Seq(Functions) /\ OwnThenHandlers(c.list)
      BY <3>1, NotNone DEF Unfired
    <3>3. b.list = Append(c.list, h) /\ b.firing = c.firing /\ b.index = c.index /\ b.memory = c.memory /\ b.fired = c.fired
          /\ b.stack = c.stack
      BY <1>5, <3>2 DEF Same
    <3>4. WaitingIn(b, None, l) = Append(WaitingIn(c, None, l), h) /\ OwnThenHandlers(b.list) /\ b.list \in Seq(Functions)
      BY <1>6, <3>2, <3>3, WaitingLonger
    <3>5. Unfired(b)
      BY <3>1, <3>3, <3>4 DEF Unfired
    <3>6. Pending(lists'[d], state'[d])
      BY <1>9, <2>1, <2>3, <2>5, <3>5 DEF Pending
    <3> QED
      BY <2>4, <3>1, <3>4, <3>6 DEF Phase
  <2>6. ASSUME NEW o \in Outcomes, Settled(lists[d], state[d], o)
        PROVE  DeferredInv' /\ (Unnoticed \/ Promise!Next)
    <3>1. CASE l # o
      <4>1. c.list = None
        BY <1>1, <1>16, <2>6, <3>1, OutcomesTwo DEF Settled, Off
      <4>2. \A p \in Outcomes : lists'[d][p] = lists[d][p]
        BY <1>1, <1>4, <1>9, <2>3, <4>1
      <4> QED
        BY <1>11, <2>1, <2>2, <4>2, OthersKept
    <3>2. CASE l = o
      <4>1. state[d] = l /\ state'[d] = l /\ Off(lists'[d][Other(l)])
        BY <1>16, <2>1, <2>3, <2>6, <3>2, OutcomesTwo DEF Settled
      <4>2. CASE Rests(c)
        <5>1. c.list = <<>> /\ c.list # None /\ ~c.firing /\ starts /\ c.stack = None /\ Len(c.list) = 0
          <6>1. <<>> \in Seq(Functions) /\ Len(<<>>) = 0
            OBVIOUS
          <6> QED
            BY <4>2, <6>1, NotNone DEF Rests
        <5>2. b.list = <<h>>
          <6>1. Append(<<>>, h) = <<h>>
            OBVIOUS
          <6> QED
            BY <1>5, <5>1, <6>1
        <5>3. b.stack = None /\ b.firing /\ b.index = 0 /\ b.memory /\ b.fired
          BY <1>5, <5>1
        <5>4. b.list \in Seq(Handlers) /\ b.list \in Seq(Functions) /\ Len(b.list) = 1
          BY <5>2, HandlerShape
        <5>5. Settled(lists'[d], state'[d], l)
          BY <1>9, <4>1, <5>3, <5>4 DEF Settled, Fires
        <5>6. WaitingIn(c, l, l) = <<>>
          <6>1. HandlersFrom(c) = 1
            BY <5>1 DEF HandlersFrom, OwnInFront
          <6>2. SubSeq(<<>>, 1, 0) = <<>>
            OBVIOUS
          <6> QED
            BY <5>1, <6>1, <6>2 DEF WaitingIn
        <5>7. WaitingIn(b, l, l) = <<h>>
          <6>1. ~OwnInFront(b.list)
            BY <5>4, HandlersBegin
          <6>2. HandlersFrom(b) = 1
            BY <5>3, <6>1 DEF HandlersFrom
          <6>3. SubSeq(<<h>>, 1, 1) = <<h>>
            <7>1. <<h>> \in Seq(Handlers) /\ Len(<<h>>) = 1 /\ <<h>>[1] = h
              OBVIOUS
            <7>2. SubSeq(<<h>>, 1, 1) \in Seq(Handlers) /\ Len(SubSeq(<<h>>, 1, 1)) = 1 /\ SubSeq(<<h>>, 1, 1)[1] = h
              BY <7>1
            <7>3. \A i \in 1..Len(SubSeq(<<h>>, 1, 1)) : SubSeq(<<h>>, 1, 1)[i] = <<h>>[i]
              BY <7>1, <7>2
            <7> QED
              BY <7>1, <7>2, <7>3, SeqEqual
          <6> QED
            BY <5>2, <5>4, <6>2, <6>3, NotNone DEF WaitingIn
        <5>8. Append(<<>>, h) = <<h>>
          OBVIOUS
        <5> QED
          BY <1>16, <2>4, <4>1, <5>5, <5>6, <5>7, <5>8 DEF Phase
      <4>3. CASE Fires(c) /\ (c.list \in Seq(Handlers) \/ (OwnThenHandlers(c.list) /\ c.index >= 2))
        <5>1. c.list # None /\ ~starts /\ c.list \in Seq(Functions) /\ c.index =< Len(c.list) /\ c.index \in Nat
          BY <4>3, NotNone, ListTyped DEF Fires
        <5>2. /\ b.list = Append(c.list, h) /\ b.firing = c.firing /\ b.index = c.index
              /\ b.memory = c.memory /\ b.fired = c.fired /\ b.stack = c.stack
          BY <1>5, <5>1 DEF Same
        <5>3. /\ WaitingIn(b, l, l) = Append(WaitingIn(c, l, l), h) /\ b.list \in Seq(Functions)
              /\ OwnThenHandlers(c.list) => OwnThenHandlers(b.list)
              /\ c.list \in Seq(Handlers) => b.list \in Seq(Handlers)
              /\ Len(b.list) = Len(c.list) + 1
          <6>1. b \in CallbackLists /\ l \in {None, l} /\ (c.firing => c.index =< Len(c.list))
            BY <1>6, <5>1
          <6>2. OwnThenHandlers(c.list) \/ c.list \in Seq(Handlers)
            BY <4>3
          <6>3. b.list = Append(c.list, h) /\ b.firing = c.firing /\ b.index = c.index /\ c.list \in Seq(Functions)
            BY <5>1, <5>2
          <6> HIDE DEF starts
          <6> QED
            BY <6>1, <6>2, <6>3, WaitingLonger
        <5>4. Len(c.list) \in Nat /\ b.index =< Len(b.list)
          BY <5>1, <5>2, <5>3
        <5>5. Fires(b)
          BY <4>3, <5>2, <5>3, <5>4 DEF Fires
        <5>6. b.list \in Seq(Handlers) \/ (OwnThenHandlers(b.list) /\ b.index >= 2)
          BY <4>3, <5>2, <5>3
        <5>7. Settled(lists'[d], state'[d], l)
          BY <1>9, <4>1, <5>5, <5>6 DEF Settled
        <5> QED
          BY <1>16, <2>4, <4>1, <5>3, <5>7 DEF Phase
      <4> QED
        BY <1>1, <2>6, <3>2, <4>2, <4>3 DEF Settled
    <3> QED
      BY <3>1, <3>2
  <2>7. Pending(lists[d], state[d]) \/ \E o \in Outcomes : Settled(lists[d], state[d], o)
    BY <1>11, <2>1 DEF Phase
  <2> QED
    BY <2>5, <2>6, <2>7
<1> QED
  BY <1>15, <1>16, OutcomesTwo

LEMMA FireKept ==
    ASSUME DeferredInv, RunFire
    PROVE  DeferredInv' /\ (Unnoticed \/ Promise!Next)
<1>1. PICK d \in Deferreds, l \in Lists, c \in CallbackLists :
        /\ todo # <<>> /\ Head(todo).op = "fire" /\ d = Head(todo).d /\ l = Head(todo).l /\ c = lists[d][l]
        /\ Tail(todo) \in Seq(Tasks) /\ LoopsApart(Tail(todo), lists)
  <2>1. todo # <<>> /\ Head(todo).op = "fire"
    BY Zenon DEF RunFire, Running
  <2> QED
    BY <2>1, TopTask, Zenon
<1> DEFINE waits == [c EXCEPT !.stack = c.stack + 1]
           starts == CanFire(c) /\ ~c.firing
           b == IF starts THEN Fire(c, 0) ELSE IF CanFire(c) THEN waits ELSE c
<1>2. /\ lists' = [lists EXCEPT ![d][l] = b] /\ UNCHANGED <<state, called>>
      /\ todo' = (IF starts THEN <<Task("loop", d, l, None)>> ELSE <<>>) \o Tail(todo)
  <2>1. lists' = [lists EXCEPT ![d][l] = IF ~CanFire(c) THEN c ELSE IF c.firing THEN waits ELSE Fire(c, 0)]
    BY <1>1, Zenon DEF RunFire
  <2>2. b = IF ~CanFire(c) THEN c ELSE IF c.firing THEN waits ELSE Fire(c, 0)
    BY Zenon
  <2>3. todo' = (IF starts THEN <<Task("loop", d, l, None)>> ELSE <<>>) \o Tail(todo)
    BY <1>1, ZenonT(40) DEF RunFire
  <2>4. UNCHANGED <<state, called>>
    BY Zenon DEF RunFire
  <2> HIDE DEF b
  <2> QED
    BY <2>1, <2>2, <2>3, <2>4, Zenon
<1>3. /\ starts => b = Fire(c, 0)
      /\ CanFire(c) /\ ~starts => b = waits /\ c.firing
      /\ ~CanFire(c) => b = c
  BY Zenon
<1> HIDE DEF b
<1>4. l = "progress" => OfProgress(c)
  BY <1>1 DEF DeferredInv, DeferredTyped
<1>5. Phase(d)
  BY DEF DeferredInv
<1>6. \A e \in Deferreds, o \in Outcomes : ~InLoopOf(e, o)
  BY <1>1 DEF InLoopOf, Running
<1>7. l \in Outcomes => \/ Pending(lists[d], state[d]) /\ starts
                        \/ (\E o \in Outcomes : Settled(lists[d], state[d], o)) /\ ~CanFire(c)
  <2> SUFFICES ASSUME l \in Outcomes
               PROVE  \/ Pending(lists[d], state[d]) /\ starts
                      \/ (\E o \in Outcomes : Settled(lists[d], state[d], o)) /\ ~CanFire(c)
    OBVIOUS
  <2>1. CASE Pending(lists[d], state[d])
    BY <1>1, <2>1, NotNone DEF Pending, Unfired, CanFire
  <2>2. ASSUME NEW o \in Outcomes, Settled(lists[d], state[d], o)
        PROVE  ~CanFire(c)
    <3>1. CASE l = o
      BY <1>1, <2>2, <3>1 DEF Settled, Rests, Fires, CanFire
    <3>2. CASE l # o
      BY <1>1, <2>2, <3>2, OutcomesTwo DEF Settled, Off, CanFire
    <3> QED
      BY <3>1, <3>2
  <2> QED
    BY <1>5, <1>6, <2>1, <2>2 DEF Phase
<1>8. /\ b \in CallbackLists /\ (c.firing => b.firing) /\ (l = "progress" => OfProgress(b))
      /\ starts => b.firing = TRUE /\ b.index = 0 /\ b.memory = TRUE /\ b.fired = TRUE /\ b.list = c.list /\ b.stack = c.stack
  <2>1. CASE starts
    <3>1. b \in CallbackLists /\ b.firing = TRUE /\ b.index = 0 /\ b.memory = TRUE /\ b.fired = TRUE /\ b.list = c.list
          /\ b.stack = c.stack
      <4>1. b = Fire(c, 0)
        BY <1>3, <2>1
      <4>2. Fire(c, 0) \in CallbackLists /\ Same(Fire(c, 0), c, {"list", "stack"})
            /\ Fire(c, 0).firing = TRUE /\ Fire(c, 0).index = 0 /\ Fire(c, 0).memory = TRUE /\ Fire(c, 0).fired = TRUE
        BY ListFired
      <4> QED
        BY <4>1, <4>2 DEF Same
    <3> QED
      BY <1>4, <2>1, <3>1 DEF OfProgress
  <2>2. CASE CanFire(c) /\ ~starts
    <3>1. l = "progress" /\ c.firing
      BY <1>3, <1>7, <2>2, OutcomesTwo
    <3>2. c.stack \in Nat
      BY <1>4, <2>2, <3>1, ListTyped DEF OfProgress, CanFire
    <3>3. waits \in CallbackLists /\ waits.list = c.list /\ waits.firing = c.firing /\ waits.fired = c.fired
      BY <3>2 DEF CallbackLists
    <3> HIDE DEF waits
    <3> QED
      BY <1>3, <1>4, <2>2, <3>1, <3>3 DEF OfProgress
  <2>3. CASE ~CanFire(c)
    BY <1>3, <1>4, <2>3
  <2> QED
    BY <2>1, <2>2, <2>3
<1> HIDE DEF waits
<1>9. lists' = [lists EXCEPT ![d][l] = b] /\ UNCHANGED <<state, called>>
  BY <1>2
<1>10. /\ lists'[d][l] = b /\ lists' \in [Deferreds -> [Lists -> CallbackLists]]
       /\ \A e \in Deferreds, m \in Lists : ~(e = d /\ m = l) => lists'[e][m] = lists[e][m]
       /\ \A e \in Deferreds : OfProgress(lists'[e]["progress"])
       /\ \A e \in Deferreds :
            (\A o \in Outcomes : ~(e = d /\ o = l) /\ ~InLoopOf(e, o)) /\ state'[e] = state[e] =>
                Phase(e)' /\ \A o \in Outcomes : Waiting(e, o)' = Waiting(e, o)
  <2>1. b \in CallbackLists /\ (l = "progress" => OfProgress(b))
    BY <1>8
  <2> QED
    BY <1>9, <2>1, OneList
<1>11. LoopsApart(Tail(todo), lists')
  <2>1. b \in CallbackLists /\ (lists[d][l].firing => b.firing)
    BY <1>1, <1>8
  <2>2. \A p \in Seq(Tasks) : LoopsApart(p, lists) => LoopsApart(p, lists')
    BY <1>9, <2>1, OneListLoops
  <2> QED
    BY <1>1, <2>2
<1>12. \A e \in Deferreds : e # d \/ l = "progress" => Phase(e)' /\ \A o \in Outcomes : Waiting(e, o)' = Waiting(e, o)
  <2> TAKE e \in Deferreds
  <2>1. e # d \/ l = "progress" => \A o \in Outcomes : ~(e = d /\ o = l)
    BY OutcomesTwo
  <2> QED
    BY <1>6, <1>9, <1>10, <2>1
<1>13. todo' \in Seq(Tasks) /\ LoopsApart(todo', lists')
       /\ (starts => todo' # <<>> /\ Head(todo').op = "loop" /\ Head(todo').d = d /\ Head(todo').l = l)
  <2>1. CASE starts
    <3>1. ~lists[d][l].firing /\ lists'[d][l].firing
      BY <1>1, <1>8, <1>10, <2>1
    <3>2. todo' = <<Task("loop", d, l, None)>> \o Tail(todo)
      BY <1>2, <2>1
    <3>3. todo' \in Seq(Tasks) /\ LoopsApart(todo', lists')
      BY <1>1, <1>11, <3>1, <3>2, LoopBegun
    <3>4. todo' # <<>> /\ Head(todo') = Task("loop", d, l, None)
      BY <1>1, <3>2, <3>3
    <3> QED
      BY <3>3, <3>4, SMTT(30) DEF Task
  <2>2. CASE ~starts
    <3>1. todo' = <<>> \o Tail(todo)
      BY <1>2, <2>2
    <3>2. todo' = Tail(todo)
      BY <1>1, <3>1
    <3> QED
      BY <1>1, <1>11, <2>2, <3>2
  <2> QED
    BY <2>1, <2>2
<1>14. DeferredTyped'
  BY <1>9, <1>10, <1>13 DEF DeferredInv, DeferredTyped
<1>15. Phase(d)' /\ \A o \in Outcomes : Waiting(d, o)' = Waiting(d, o)
  <2>1. CASE l = "progress"
    BY <1>12, <2>1
  <2>2. CASE l \in Outcomes /\ ~CanFire(c)
    <3>1. \A o \in Outcomes : lists'[d][o] = lists[d][o]
      BY <1>1, <1>3, <1>10, <2>2, OutcomesTwo
    <3> QED
      BY <1>5, <1>6, <1>9, <3>1, OthersKept
  <2>3. CASE l \in Outcomes /\ starts /\ Pending(lists[d], state[d])
    <3>1. Unfired(c) /\ state[d] = None /\ state'[d] = None /\ Unfired(lists[d][Other(l)])
      BY <1>1, <1>9, <2>3, OutcomesTwo DEF Pending
    <3>2. \A o \in Outcomes \ {l} : lists'[d][o] = lists[d][o]
      BY <1>10, OutcomesTwo
    <3>3. FiresOwn(lists'[d][l], 0)
      <4>1. c.list \in Seq(Functions) /\ Len(c.list) \in Nat /\ OwnThenHandlers(c.list) /\ c.stack = None
        BY <3>1 DEF Unfired
      <4>2. 0 =< Len(c.list)
        BY <4>1
      <4> QED
        BY <1>8, <1>10, <2>3, <4>1, <4>2 DEF FiresOwn, Fires
    <3>4. Starting(lists'[d], state'[d], l)
      BY <2>3, <3>1, <3>2, <3>3, OutcomesTwo DEF Starting
    <3>5. InLoopOf(d, l)'
      BY <1>13, <2>3 DEF InLoopOf, Running
    <3>6. Phase(d)'
      BY <2>3, <3>4, <3>5, Zenon DEF Phase
    <3>7. Waiting(d, l)' = Waiting(d, l)
      <4>1. ~c.firing /\ b.firing = TRUE /\ b.index + 1 = 1 /\ b.list = c.list
        BY <1>8, <2>3
      <4>2. HandlersFrom(b) = HandlersFrom(c)
        BY <4>1 DEF HandlersFrom
      <4> QED
        BY <1>1, <1>9, <1>10, <4>1, <4>2, ZenonT(40) DEF Waiting
    <3>8. \A o \in Outcomes \ {l} : Waiting(d, o)' = Waiting(d, o)
      BY <1>9, <3>2 DEF Waiting, HandlersFrom, OwnInFront
    <3> QED
      BY <3>6, <3>7, <3>8
  <2> QED
    BY <1>7, <2>1, <2>2, <2>3, OutcomesTwo
<1>16. \A e \in Deferreds : Phase(e)' /\ \A o \in Outcomes : Waiting(e, o)' = Waiting(e, o)
  BY <1>12, <1>15
<1> QED
  BY <1>9, <1>13, <1>14, <1>16, NotNoticed DEF DeferredInv

LEMMA LoopOnTop ==
    ASSUME DeferredInv, NEW d \in Deferreds, NEW l \in Lists, Running("loop"), d = Head(todo).d, l = Head(todo).l
    PROVE  /\ lists[d] \in [Lists -> CallbackLists] /\ lists[d][l] \in CallbackLists /\ lists[d][l].firing
           /\ l = "progress" => OfProgress(lists[d][l])
           /\ l \in Outcomes => \/ Starting(lists[d], state[d], l) \/ Settling(lists[d], state[d], l)
                                \/ Settled(lists[d], state[d], l) /\ Fires(lists[d][l])
           /\ \A e \in Deferreds, o \in Outcomes : ~(e = d /\ o = l) => ~InLoopOf(e, o)
           /\ todo \in Seq(Tasks) /\ LoopsApart(todo, lists) /\ Tail(todo) \in Seq(Tasks) /\ LoopsApart(Tail(todo), lists)
           /\ \A i \in DOMAIN Tail(todo) : Tail(todo)[i].op = "loop" => ~(Tail(todo)[i].d = d /\ Tail(todo)[i].l = l)
<1>1. /\ todo # <<>> /\ Head(todo).op = "loop" /\ Head(todo) = todo[1] /\ Tail(todo) \in Seq(Tasks)
      /\ lists[d] \in [Lists -> CallbackLists] /\ lists[d][l] \in CallbackLists
  BY TopTask DEF Running
<1>2. todo \in Seq(Tasks) /\ LoopsApart(todo, lists)
  BY DEF DeferredInv, DeferredTyped
<1>3. /\ LoopsApart(Tail(todo), lists) /\ lists[d][l].firing
      /\ \A i \in DOMAIN Tail(todo) : Tail(todo)[i].op = "loop" => ~(Tail(todo)[i].d = d /\ Tail(todo)[i].l = l)
  BY <1>1, <1>2, LoopsPopped
<1>4. \A e \in Deferreds, o \in Outcomes : ~(e = d /\ o = l) => ~InLoopOf(e, o)
  BY DEF InLoopOf
<1>5. ASSUME l \in Outcomes
      PROVE  \/ Starting(lists[d], state[d], l) \/ Settling(lists[d], state[d], l)
             \/ Settled(lists[d], state[d], l) /\ Fires(lists[d][l])
  <2>1. Phase(d)
    BY DEF DeferredInv
  <2>2. ~Pending(lists[d], state[d])
    BY <1>3, <1>5 DEF Pending, Unfired
  <2>3. CASE \E o \in Outcomes : InLoopOf(d, o) /\ (Starting(lists[d], state[d], o) \/ Settling(lists[d], state[d], o))
    BY <1>4, <2>3
  <2>4. ASSUME NEW o \in Outcomes, Settled(lists[d], state[d], o)
        PROVE  Settled(lists[d], state[d], l) /\ Fires(lists[d][l])
    <3>1. l = o
      BY <1>3, <1>5, <2>4, OutcomesTwo DEF Settled, Off
    <3>2. ~Rests(lists[d][l])
      BY <1>3 DEF Rests
    <3> QED
      BY <2>4, <3>1, <3>2 DEF Settled
  <2> QED
    BY <2>1, <2>2, <2>3, <2>4 DEF Phase
<1>6. l = "progress" => OfProgress(lists[d][l])
  BY DEF DeferredInv, DeferredTyped
<1> QED
  BY <1>1, <1>2, <1>3, <1>4, <1>5, <1>6

\* A list whose loop has come to its end.
LEMMA ListEnds ==
    ASSUME NEW c \in CallbackLists
    PROVE  /\ Ended(c) \in CallbackLists /\ Ended(c).firing = FALSE
           /\ OfProgress(c) => OfProgress(Ended(c))
           /\ c.list # None /\ c.stack = None /\ c.memory /\ c.fired => Rests(Ended(c))
<1>1. /\ [c EXCEPT !.firing = FALSE] \in CallbackLists
      /\ [c EXCEPT !.firing = FALSE].firing = FALSE /\ [c EXCEPT !.firing = FALSE].list = c.list
  BY DEF CallbackLists
<1>2. LET b == [c EXCEPT !.firing = FALSE, !.list = <<>>]
      IN  /\ b \in CallbackLists /\ b.firing = FALSE /\ b.list = <<>> /\ b.stack = c.stack /\ b.memory = c.memory
          /\ b.fired = c.fired
  <2>1. <<>> \in Seq(Functions)
    OBVIOUS
  <2> QED
    BY <2>1 DEF CallbackLists
<1>3. LET b == [Disabled(c) EXCEPT !.firing = FALSE] IN b \in CallbackLists /\ b.firing = FALSE /\ b.list = None
  BY DEF CallbackLists, Disabled
<1>4. <<>> \in Seq(Handlers)
  OBVIOUS
<1>5. CASE c.list = None \/ c.stack # None
  BY <1>1, <1>5 DEF Ended, OfProgress
<1>6. CASE ~(c.list = None \/ c.stack # None) /\ c.memory
  <2>1. Ended(c) = [c EXCEPT !.firing = FALSE, !.list = <<>>]
    BY <1>6 DEF Ended
  <2> QED
    BY <1>2, <1>4, <1>6, <2>1 DEF OfProgress, Rests
<1>7. CASE ~(c.list = None \/ c.stack # None) /\ ~c.memory
  <2>1. Ended(c) = [Disabled(c) EXCEPT !.firing = FALSE]
    BY <1>7 DEF Ended
  <2> QED
    BY <1>3, <1>7, <2>1 DEF OfProgress
<1> QED
  BY <1>5, <1>6, <1>7

LEMMA EndKept ==
    ASSUME DeferredInv, RunEnd
    PROVE  DeferredInv' /\ (Unnoticed \/ Promise!Next)
<1>1. PICK d \in Deferreds, l \in Lists, c \in CallbackLists :
        Running("loop") /\ d = Head(todo).d /\ l = Head(todo).l /\ c = lists[d][l]
  BY TopTask, ZenonT(40) DEF RunEnd, Running
<1> DEFINE again == c.list # None /\ c.stack # None /\ c.stack > 0
           waited == [c EXCEPT !.stack = c.stack - 1]
           b == IF again THEN Fire(waited, 0) ELSE Ended(c)
<1>2. /\ ~InLoop(d, l) /\ lists' = [lists EXCEPT ![d][l] = b] /\ UNCHANGED <<state, called>>
      /\ todo' = IF again THEN todo ELSE Tail(todo)
  BY <1>1 DEF RunEnd
<1>3. (again => b = Fire(waited, 0)) /\ (~again => b = Ended(c))
  BY Zenon
<1> HIDE DEF b
<1>4. /\ c.firing /\ (l = "progress" => OfProgress(c))
      /\ l \in Outcomes => \/ Starting(lists[d], state[d], l) \/ Settling(lists[d], state[d], l)
                           \/ Settled(lists[d], state[d], l) /\ Fires(c)
      /\ \A e \in Deferreds, o \in Outcomes : ~(e = d /\ o = l) => ~InLoopOf(e, o)
      /\ todo \in Seq(Tasks) /\ LoopsApart(todo, lists) /\ Tail(todo) \in Seq(Tasks) /\ LoopsApart(Tail(todo), lists)
      /\ \A i \in DOMAIN Tail(todo) : Tail(todo)[i].op = "loop" => ~(Tail(todo)[i].d = d /\ Tail(todo)[i].l = l)
  BY <1>1, LoopOnTop
<1>5. l \in Outcomes => Settled(lists[d], state[d], l) /\ Fires(c) /\ c.index >= Len(c.list) /\ c.list \in Seq(Functions)
  <2> SUFFICES ASSUME l \in Outcomes
               PROVE  Settled(lists[d], state[d], l) /\ Fires(c) /\ c.index >= Len(c.list) /\ c.list \in Seq(Functions)
    OBVIOUS
  <2>1. Fires(c)
    BY <1>1, <1>4 DEF Starting, Settling, FiresOwn
  <2>2. c.list \in Seq(Functions) /\ c.list # None /\ Len(c.list) \in Nat /\ c.index \in Nat
    BY <2>1, NotNone, ListTyped, SMTT(30) DEF Fires
  <2>3. c.index >= Len(c.list)
    BY <1>1, <1>2, <2>2 DEF InLoop
  <2>4. ~Starting(lists[d], state[d], l) /\ ~Settling(lists[d], state[d], l)
    <3>1. ~(c.index = 0 /\ OwnThenHandlers(c.list)) /\ ~(c.index = 1 /\ OwnThenHandlers(c.list))
      BY <2>2, <2>3 DEF OwnThenHandlers
    <3> QED
      BY <1>1, <3>1 DEF Starting, Settling, FiresOwn
  <2> QED
    BY <1>4, <2>1, <2>2, <2>3, <2>4
<1>6. again => l = "progress" /\ c.stack \in Nat /\ c.stack > 0
  BY <1>5, ListTyped, OutcomesTwo DEF Fires
<1>7. /\ b \in CallbackLists /\ (l = "progress" => OfProgress(b))
      /\ (again => b.firing) /\ (~again => ~b.firing)
  <2>1. CASE again
    <3>1. c.stack \in Nat /\ c.stack > 0
      BY <1>6, <2>1
    <3>2. c.stack - 1 \in Nat
      BY <3>1
    <3>3. waited \in CallbackLists /\ waited.list = c.list
      BY <3>2 DEF CallbackLists
    <3> HIDE DEF waited
    <3>4. Fire(waited, 0) \in CallbackLists /\ Same(Fire(waited, 0), waited, {"list", "stack"})
          /\ Fire(waited, 0).firing = TRUE /\ Fire(waited, 0).fired = TRUE
      BY <3>3, ListFired
    <3>5. b \in CallbackLists /\ b.list = c.list /\ b.firing = TRUE /\ b.fired = TRUE
      BY <1>3, <2>1, <3>3, <3>4 DEF Same
    <3> QED
      BY <1>4, <2>1, <3>5 DEF OfProgress
  <2>2. CASE ~again
    BY <1>3, <1>4, <2>2, ListEnds
  <2> QED
    BY <2>1, <2>2
<1> HIDE DEF waited
<1>8. lists' = [lists EXCEPT ![d][l] = b] /\ UNCHANGED <<state, called>>
  BY <1>2
<1>9. /\ lists'[d][l] = b /\ lists' \in [Deferreds -> [Lists -> CallbackLists]]
      /\ \A e \in Deferreds, m \in Lists : ~(e = d /\ m = l) => lists'[e][m] = lists[e][m]
      /\ \A e \in Deferreds : OfProgress(lists'[e]["progress"])
      /\ \A e \in Deferreds :
            (\A o \in Outcomes : ~(e = d /\ o = l) /\ ~InLoopOf(e, o)) /\ state'[e] = state[e] =>
                Phase(e)' /\ \A o \in Outcomes : Waiting(e, o)' = Waiting(e, o)
  <2>1. b \in CallbackLists /\ (l = "progress" => OfProgress(b))
    BY <1>7
  <2> QED
    BY <1>8, <2>1, OneList
<1>10. todo' \in Seq(Tasks) /\ LoopsApart(todo', lists')
  <2>1. CASE again
    <3>1. b \in CallbackLists /\ (lists[d][l].firing => b.firing)
      BY <1>7, <2>1
    <3>2. \A p \in Seq(Tasks) : LoopsApart(p, lists) => LoopsApart(p, lists')
      BY <1>8, <3>1, OneListLoops
    <3> QED
      BY <1>2, <1>4, <2>1, <3>2
  <2>2. CASE ~again
    <3>1. todo' = Tail(todo)
      BY <1>2, <2>2
    <3>2. \A i \in DOMAIN Tail(todo) : Tail(todo)[i].op = "loop" =>
            Tail(todo)[i].d \in Deferreds /\ Tail(todo)[i].l \in Lists
      <4>1. \A k \in Tasks : k.op = "loop" => k.d \in Deferreds /\ k.l \in Lists
        BY DEF Tasks
      <4>2. \A i \in DOMAIN Tail(todo) : Tail(todo)[i] \in Tasks
        BY <1>4
      <4> QED
        BY <4>1, <4>2
    <3>3. \A i \in DOMAIN Tail(todo) : Tail(todo)[i].op = "loop" =>
            lists'[Tail(todo)[i].d][Tail(todo)[i].l] = lists[Tail(todo)[i].d][Tail(todo)[i].l]
      BY <1>4, <1>9, <3>2
    <3>4. \A i \in DOMAIN Tail(todo) : Tail(todo)[i].op = "loop" /\ lists[Tail(todo)[i].d][Tail(todo)[i].l].firing =>
            lists'[Tail(todo)[i].d][Tail(todo)[i].l].firing
      BY <3>3
    <3>5. LoopsApart(Tail(todo), lists')
      BY <1>4, <3>4, LoopsFire
    <3> QED
      BY <1>4, <3>1, <3>5
  <2> QED
    BY <2>1, <2>2
<1>11. DeferredTyped'
  BY <1>8, <1>9, <1>10 DEF DeferredInv, DeferredTyped
<1>12. \A e \in Deferreds : e # d \/ l = "progress" => Phase(e)' /\ \A o \in Outcomes : Waiting(e, o)' = Waiting(e, o)
  <2> TAKE e \in Deferreds
  <2>1. e # d \/ l = "progress" => \A o \in Outcomes : ~(e = d /\ o = l)
    BY OutcomesTwo
  <2> QED
    BY <1>4, <1>8, <1>9, <2>1
<1>13. ASSUME l \in Outcomes
       PROVE  Phase(d)' /\ \A o \in Outcomes : Waiting(d, o)' = Waiting(d, o)
  <2>1. b = Ended(c)
    <3>1. l # "progress"
      BY <1>13, OutcomesTwo
    <3> HIDE DEF again
    <3> QED
      BY <1>3, <1>6, <3>1
  <2>2. c.list # None /\ c.stack = None /\ c.memory /\ c.fired
    BY <1>5, <1>13, NotNone DEF Fires
  <2>3. Rests(b)
    BY <2>1, <2>2, ListEnds
  <2>4. \A o \in Outcomes \ {l} : lists'[d][o] = lists[d][o]
    BY <1>9, OutcomesTwo
  <2>5. Settled(lists'[d], state'[d], l)
    BY <1>5, <1>8, <1>9, <1>13, <2>3, <2>4, OutcomesTwo DEF Settled
  <2>6. Waiting(d, l)' = <<>>
    <3>1. b.list = <<>> /\ ~b.firing
      BY <2>3 DEF Rests
    <3>2. HandlersFrom(b) = 1
      BY <3>1 DEF HandlersFrom, OwnInFront
    <3>3. SubSeq(<<>>, 1, Len(<<>>)) = <<>>
      OBVIOUS
    <3> QED
      BY <1>9, <3>1, <3>2, <3>3 DEF Waiting
  <2>7. Waiting(d, l) = <<>>
    <3>1. /\ c.list \in Seq(Functions) /\ c.index >= Len(c.list) /\ c.index \in Nat /\ Len(c.list) \in Nat
          /\ c.list \in Seq(Handlers) \/ OwnThenHandlers(c.list)
      BY <1>1, <1>4, <1>5, <1>13, ListTyped DEF Settled, Rests
    <3>2. HandlersFrom(c) > Len(c.list) /\ HandlersFrom(c) \in Nat
      <4>1. CASE c.list \in Seq(Handlers)
        <5>1. ~OwnInFront(c.list)
          BY <4>1, HandlersBegin
        <5>2. HandlersFrom(c) = c.index + 1
          BY <1>4, <5>1 DEF HandlersFrom
        <5> QED
          BY <3>1, <5>2
      <4>2. CASE OwnThenHandlers(c.list)
        <5>1. Len(c.list) >= 3
          BY <4>2 DEF OwnThenHandlers
        <5>2. ~(c.index + 1 < 4)
          BY <3>1, <5>1
        <5>3. HandlersFrom(c) = c.index + 1
          BY <1>4, <5>2 DEF HandlersFrom
        <5> QED
          BY <3>1, <5>3
      <4> QED
        BY <3>1, <4>1, <4>2
    <3>3. SubSeq(c.list, HandlersFrom(c), Len(c.list)) = <<>>
      BY <3>1, <3>2, SuffixEmpty
    <3> QED
      BY <1>1, <3>3, Zenon DEF Waiting
  <2>8. \A o \in Outcomes \ {l} : Waiting(d, o)' = Waiting(d, o)
    BY <1>8, <2>4 DEF Waiting, HandlersFrom, OwnInFront
  <2> QED
    BY <1>13, <2>5, <2>6, <2>7, <2>8 DEF Phase
<1>14. \A e \in Deferreds : Phase(e)' /\ \A o \in Outcomes : Waiting(e, o)' = Waiting(e, o)
  BY <1>12, <1>13, OutcomesTwo
<1> QED
  BY <1>8, <1>10, <1>11, <1>14, NotNoticed, Zenon DEF DeferredInv

\* The loop calls its next function.
LEMMA ListAdvanced ==
    ASSUME NEW c \in CallbackLists
    PROVE  /\ [c EXCEPT !.index = c.index + 1] \in CallbackLists
           /\ [c EXCEPT !.index = c.index + 1].index = c.index + 1
           /\ Same([c EXCEPT !.index = c.index + 1], c, {"list", "stack", "firing", "memory"})
<1>1. c.index + 1 \in Nat
  BY SMTT(30) DEF CallbackLists
<1> QED
  BY <1>1 DEF CallbackLists, Same

LEMMA NextFunction ==
    ASSUME DeferredInv, NEW d \in Deferreds, NEW l \in Lists, Running("loop"), d = Head(todo).d, l = Head(todo).l,
           NEW c \in CallbackLists, c = lists[d][l], InLoop(d, l)
    PROVE  /\ c.list \in Seq(Functions) /\ c.index + 1 \in 1..Len(c.list) /\ c.list[c.index + 1] = ItsFunction
           /\ ItsFunction.do = "settle" => l \in Outcomes /\ Starting(lists[d], state[d], l)
           /\ ItsFunction.do = "disable" => l \in Outcomes /\ Settling(lists[d], state[d], l)
           /\ ItsFunction.do = "lock" =>
                l \in Outcomes /\ Settled(lists[d], state[d], l) /\ FiresOwn(c, 2)
           /\ ItsFunction.do \notin {"settle", "disable", "lock"} =>
                /\ ItsFunction \in Handlers
                /\ l \in Outcomes => /\ Settled(lists[d], state[d], l) /\ Fires(c)
                                     /\ c.list \in Seq(Handlers) \/ (OwnThenHandlers(c.list) /\ c.index >= 3)
<1> DEFINE f == c.list[c.index + 1]
<1>1. ItsFunction = f
  BY DEF ItsFunction
<1>2. c.list \in Seq(Functions) /\ Len(c.list) \in Nat /\ c.index \in Nat /\ c.index + 1 \in 1..Len(c.list)
  <2>1. c.list # None /\ c.index < Len(c.list)
    BY DEF InLoop
  <2>2. c.list \in Seq(Functions) /\ c.index \in Nat
    BY <2>1, ListTyped
  <2>3. Len(c.list) \in Nat
    BY <2>2, SMTT(30)
  <2> QED
    BY <2>1, <2>2, <2>3
<1> HIDE DEF f
<1>3. c.list \in Seq(Handlers) => f \in Handlers
  BY <1>2, SMTT(30) DEF f
<1>4. \A h \in Handlers : h.do \notin {"settle", "disable", "lock"}
  BY HandlerShape
<1>5. OwnThenHandlers(c.list) =>
        /\ c.index = 0 => f.do = "settle"
        /\ c.index = 1 => f.do = "disable"
        /\ c.index = 2 => f.do = "lock"
        /\ c.index >= 3 => f \in Handlers
  <2> SUFFICES ASSUME OwnThenHandlers(c.list)
               PROVE  /\ c.index = 0 => f.do = "settle"
                      /\ c.index = 1 => f.do = "disable"
                      /\ c.index = 2 => f.do = "lock"
                      /\ c.index >= 3 => f \in Handlers
    OBVIOUS
  <2>1. c.list[1].do = "settle" /\ c.list[2].do = "disable" /\ c.list[3].do = "lock"
    BY OwnShape DEF OwnThenHandlers
  <2>2. \A i \in 4..Len(c.list) : c.list[i] \in Handlers
    BY ZenonT(40) DEF OwnThenHandlers
  <2>3. c.index >= 3 => c.index + 1 \in 4..Len(c.list)
    BY <1>2
  <2>4. (c.index = 0 => c.index + 1 = 1) /\ (c.index = 1 => c.index + 1 = 2) /\ (c.index = 2 => c.index + 1 = 3)
    OBVIOUS
  <2>5. f = c.list[c.index + 1]
    BY Zenon DEF f
  <2> QED
    BY <2>1, <2>2, <2>3, <2>4, <2>5, ZenonT(40)
<1>6. CASE l = "progress"
  <2>1. c.list \in Seq(Handlers)
    BY <1>2, <1>6, NotNone, LoopOnTop, Zenon DEF OfProgress
  <2> QED
    BY <1>1, <1>2, <1>3, <1>4, <1>6, <2>1, OutcomesTwo, ZenonT(40) DEF f
<1>7. CASE l \in Outcomes
  <2>1. \/ Starting(lists[d], state[d], l) \/ Settling(lists[d], state[d], l)
        \/ Settled(lists[d], state[d], l) /\ Fires(c)
    BY <1>7, LoopOnTop, Zenon
  <2>2. CASE Starting(lists[d], state[d], l)
    <3>1. f.do = "settle"
      BY <1>5, <2>2, Zenon DEF Starting, FiresOwn
    <3> QED
      BY <1>1, <1>2, <1>7, <2>2, <3>1, ZenonT(40) DEF f
  <2>3. CASE Settling(lists[d], state[d], l)
    <3>1. f.do = "disable"
      BY <1>5, <2>3, Zenon DEF Settling, FiresOwn
    <3> QED
      BY <1>1, <1>2, <1>7, <2>3, <3>1, ZenonT(40) DEF f
  <2>4. CASE Settled(lists[d], state[d], l) /\ Fires(c)
    <3>1. c.list \in Seq(Handlers) \/ (OwnThenHandlers(c.list) /\ c.index >= 2)
      BY <2>4, Zenon DEF Settled, Rests, Fires
    <3>2. CASE c.list \in Seq(Handlers)
      BY <1>1, <1>2, <1>3, <1>4, <1>7, <2>4, <3>2, ZenonT(40) DEF f
    <3>3. CASE OwnThenHandlers(c.list) /\ c.index = 2
      <4>1. f.do = "lock" /\ FiresOwn(c, 2)
        BY <1>5, <2>4, <3>3, Zenon DEF FiresOwn
      <4> QED
        BY <1>1, <1>2, <1>7, <2>4, <4>1, ZenonT(40) DEF f
    <3>4. CASE OwnThenHandlers(c.list) /\ c.index >= 3
      <4>1. f \in Handlers
        BY <1>5, <3>4
      <4> QED
        BY <1>1, <1>2, <1>4, <1>7, <2>4, <3>4, <4>1, ZenonT(40) DEF f
    <3>5. c.index >= 2 => c.index = 2 \/ c.index >= 3
      BY <1>2
    <3> QED
      BY <3>1, <3>2, <3>3, <3>4, <3>5, ZenonT(40)
  <2> QED
    BY <2>1, <2>2, <2>3, <2>4, Zenon
<1> QED
  BY <1>6, <1>7, OutcomesTwo, Zenon

\* A function of the user, of another deferred or of then or $.when is called.
LEMMA HandlerCalled ==
    ASSUME DeferredInv, Running("loop"), InLoop(Head(todo).d, Head(todo).l),
           ItsFunction.do \notin {"settle", "disable", "lock"}, Remember, lists' = Advanced, UNCHANGED state,
           NEW q \in Seq(Tasks), \A i \in DOMAIN q : q[i].op # "loop", todo' = q \o todo
    PROVE  DeferredInv' /\ (Unnoticed \/ Promise!Next)
<1>1. PICK d \in Deferreds, l \in Lists, c \in CallbackLists : d = Head(todo).d /\ l = Head(todo).l /\ c = lists[d][l]
  BY TopTask DEF Running
<1>2. PICK f : f = ItsFunction
  OBVIOUS
<1> DEFINE b == [c EXCEPT !.index = c.index + 1]
<1>3. /\ lists' = [lists EXCEPT ![d][l] = b]
      /\ called' = IF l = "progress" THEN called ELSE [called EXCEPT ![d] = Append(called[d], f)]
  <2>1. lists' = [lists EXCEPT ![d][l].index = @ + 1]
    BY <1>1 DEF Advanced
  <2>2. lists' = [lists EXCEPT ![d][l] = b]
    BY <1>1, <2>1
  <2> QED
    BY <1>1, <1>2, <2>2 DEF Remember
<1>4. b \in CallbackLists /\ b.index = c.index + 1 /\ b.list = c.list /\ b.stack = c.stack /\ b.firing = c.firing
      /\ b.memory = c.memory /\ b.fired = c.fired
  BY ListAdvanced DEF Same
<1> HIDE DEF b
<1>5. /\ c.firing /\ (l = "progress" => OfProgress(c))
      /\ \A e \in Deferreds, o \in Outcomes : ~(e = d /\ o = l) => ~InLoopOf(e, o)
      /\ todo \in Seq(Tasks) /\ LoopsApart(todo, lists)
  BY <1>1, LoopOnTop, Zenon
<1>6. /\ c.list \in Seq(Functions) /\ c.index + 1 \in 1..Len(c.list) /\ c.list[c.index + 1] = f
      /\ f \in Handlers
      /\ l \in Outcomes => /\ Settled(lists[d], state[d], l) /\ Fires(c)
                           /\ c.list \in Seq(Handlers) \/ (OwnThenHandlers(c.list) /\ c.index >= 3)
  <2>1. InLoop(d, l)
    BY <1>1
  <2> QED
    BY <1>1, <1>2, <2>1, NextFunction, Zenon
<1>7. l = "progress" => OfProgress(b)
  BY <1>4, <1>5 DEF OfProgress
<1>8. /\ lists'[d][l] = b /\ lists' \in [Deferreds -> [Lists -> CallbackLists]]
      /\ \A e \in Deferreds, m \in Lists : ~(e = d /\ m = l) => lists'[e][m] = lists[e][m]
      /\ \A e \in Deferreds : OfProgress(lists'[e]["progress"])
      /\ \A e \in Deferreds :
            (\A o \in Outcomes : ~(e = d /\ o = l) /\ ~InLoopOf(e, o)) /\ state'[e] = state[e] =>
                Phase(e)' /\ \A o \in Outcomes : Waiting(e, o)' = Waiting(e, o)
  <2>1. b \in CallbackLists
    BY <1>4
  <2>2. lists' = [lists EXCEPT ![d][l] = b]
    BY <1>3
  <2> QED
    BY <1>7, <2>1, <2>2, OneList
<1>9. todo' \in Seq(Tasks) /\ LoopsApart(todo', lists')
  <2>1. \A p \in Seq(Tasks) : LoopsApart(p, lists) => LoopsApart(p, lists')
    <3>1. b \in CallbackLists /\ (lists[d][l].firing => b.firing)
      BY <1>1, <1>4
    <3>2. lists' = [lists EXCEPT ![d][l] = b]
      BY <1>3
    <3> QED
      BY <3>1, <3>2, OneListLoops
  <2> QED
    BY <1>5, <2>1, LoopsPushed
<1>10. DeferredTyped'
  BY <1>8, <1>9 DEF DeferredInv, DeferredTyped
<1>11. \A e \in Deferreds : e # d \/ l = "progress" => Phase(e)' /\ \A o \in Outcomes : Waiting(e, o)' = Waiting(e, o)
  <2> TAKE e \in Deferreds
  <2>1. e # d \/ l = "progress" => \A o \in Outcomes : ~(e = d /\ o = l)
    BY OutcomesTwo
  <2> QED
    BY <1>5, <1>8, <2>1
<1>12. CASE l = "progress"
  <2>1. called' = called
    BY <1>3, <1>12
  <2> QED
    BY <1>9, <1>10, <1>11, <1>12, <2>1, NotNoticed DEF DeferredInv
<1>13. CASE l \in Outcomes
  <2>1. \A o \in Outcomes \ {l} : lists'[d][o] = lists[d][o]
    BY <1>8, OutcomesTwo
  <2>2. Len(c.list) \in Nat /\ c.index \in Nat
    BY <1>6, ListTyped
  <2>3. Settled(lists'[d], state'[d], l)
    <3>1. Fires(b) /\ (b.list \in Seq(Handlers) \/ (OwnThenHandlers(b.list) /\ b.index >= 2))
      BY <1>4, <1>6, <1>13, <2>2 DEF Fires
    <3> QED
      BY <1>6, <1>8, <1>13, <2>1, <3>1, OutcomesTwo DEF Settled
  <2>4. \A e \in Deferreds : Phase(e)'
    BY <1>11, <1>13, <2>3 DEF Phase
  <2>5. HandlersFrom(c) = c.index + 1 /\ HandlersFrom(b) = c.index + 2
    <3>1. c.index + 1 + 1 = c.index + 2
      BY <2>2
    <3>2. CASE c.list \in Seq(Handlers)
      <4>1. ~OwnInFront(c.list) /\ ~OwnInFront(b.list)
        BY <1>4, <3>2, HandlersBegin
      <4> QED
        BY <1>4, <1>5, <3>1, <4>1 DEF HandlersFrom
    <3>3. CASE c.index >= 3
      <4>1. ~(c.index + 1 < 4) /\ ~(c.index + 2 < 4)
        BY <2>2, <3>3
      <4> QED
        BY <1>4, <1>5, <3>1, <4>1 DEF HandlersFrom
    <3> QED
      BY <1>6, <1>13, <3>2, <3>3
  <2>6. state[d] = l /\ state'[d] = l /\ l # None
    BY <1>6, <1>13, OutcomesTwo, Zenon DEF Settled
  <2>7. /\ Waiting(d, l) = SubSeq(c.list, c.index + 1, Len(c.list))
        /\ Waiting(d, l)' = SubSeq(c.list, c.index + 2, Len(c.list))
    <3>1. c.list # None
      BY <1>6, NotNone
    <3> QED
      BY <1>1, <1>4, <1>8, <2>5, <2>6, <3>1, Zenon DEF Waiting
  <2>8. Waiting(d, l) # <<>> /\ Head(Waiting(d, l)) = f /\ Waiting(d, l)' = Tail(Waiting(d, l))
    <3>1. c.index + 1 + 1 = c.index + 2
      BY <2>2
    <3> QED
      BY <1>6, <2>7, <3>1, SuffixTaken, ZenonT(40)
  <2>9. \A e \in Deferreds, p \in Outcomes : ~(e = d /\ p = l) => Waiting(e, p)' = Waiting(e, p)
    <3>1. state'[d] = state[d]
      OBVIOUS
    <3>2. \A o \in Outcomes \ {l} : Waiting(d, o)' = Waiting(d, o)
      <4> TAKE o \in Outcomes \ {l}
      <4>1. lists'[d][o] = lists[d][o]
        BY <2>1
      <4> QED
        BY <3>1, <4>1 DEF Waiting, HandlersFrom, OwnInFront
    <3> QED
      BY <1>11, <3>2
  <2>10. called' = [called EXCEPT ![d] = Append(@, f)]
    BY <1>3, <1>13, OutcomesTwo
  <2>11. Promise!Next
    BY <1>13, <2>6, <2>8, <2>9, <2>10, CallStep
  <2> QED
    BY <1>9, <1>10, <2>4, <2>11 DEF DeferredInv
<1> QED
  BY <1>12, <1>13, OutcomesTwo

\* The three functions of a deferred itself, each of which may change another of its lists.
LEMMA SettleKept ==
    ASSUME DeferredInv, CallSettle
    PROVE  DeferredInv' /\ (Unnoticed \/ Promise!Next)
<1>1. PICK d \in Deferreds, l \in Lists, c \in CallbackLists :
        Running("loop") /\ d = Head(todo).d /\ l = Head(todo).l /\ c = lists[d][l]
  BY TopTask, Zenon DEF CallSettle, NextIs, Running
<1> DEFINE b == [c EXCEPT !.index = c.index + 1]
<1>2. lists' = [lists EXCEPT ![d][l] = b] /\ state' = [state EXCEPT ![d] = l] /\ UNCHANGED <<todo, called>>
  BY <1>1 DEF CallSettle, Advanced
<1>3. b \in CallbackLists /\ b.index = c.index + 1 /\ b.list = c.list /\ b.stack = c.stack /\ b.firing = c.firing
      /\ b.memory = c.memory /\ b.fired = c.fired
  BY ListAdvanced DEF Same
<1> HIDE DEF b
<1>4. /\ c.firing
      /\ \A e \in Deferreds, o \in Outcomes : ~(e = d /\ o = l) => ~InLoopOf(e, o)
      /\ todo \in Seq(Tasks) /\ LoopsApart(todo, lists)
  BY <1>1, LoopOnTop
<1>5. l \in Outcomes /\ Starting(lists[d], state[d], l)
  <2>1. InLoop(d, l) /\ ItsFunction.do = "settle"
    BY <1>1, Zenon DEF CallSettle, NextIs, ItsFunction
  <2> QED
    BY <1>1, <2>1, NextFunction, Zenon
<1>6. /\ lists'[d][l] = b /\ lists' \in [Deferreds -> [Lists -> CallbackLists]]
      /\ \A e \in Deferreds, m \in Lists : ~(e = d /\ m = l) => lists'[e][m] = lists[e][m]
      /\ \A e \in Deferreds : OfProgress(lists'[e]["progress"])
      /\ \A e \in Deferreds :
            (\A o \in Outcomes : ~(e = d /\ o = l) /\ ~InLoopOf(e, o)) /\ state'[e] = state[e] =>
                Phase(e)' /\ \A o \in Outcomes : Waiting(e, o)' = Waiting(e, o)
  <2>1. b \in CallbackLists /\ (l = "progress" => OfProgress(b)) /\ lists' = [lists EXCEPT ![d][l] = b]
    BY <1>2, <1>3, <1>5, OutcomesTwo
  <2> QED
    BY <2>1, OneList
<1>7. LoopsApart(todo', lists')
  <2>1. b \in CallbackLists /\ (lists[d][l].firing => b.firing) /\ lists' = [lists EXCEPT ![d][l] = b]
    BY <1>1, <1>2, <1>3
  <2>2. \A p \in Seq(Tasks) : LoopsApart(p, lists) => LoopsApart(p, lists')
    BY <2>1, OneListLoops
  <2> QED
    BY <1>2, <1>4, <2>2
<1>8. state \in [Deferreds -> Outcomes \cup {None}]
  BY DEF DeferredInv, DeferredTyped
<1>9. DeferredTyped'
  BY <1>2, <1>4, <1>5, <1>6, <1>8 DEF DeferredTyped
<1>10. \A e \in Deferreds \ {d} : Phase(e)' /\ \A o \in Outcomes : Waiting(e, o)' = Waiting(e, o)
  <2> TAKE e \in Deferreds \ {d}
  <2>1. state'[e] = state[e] /\ \A o \in Outcomes : ~(e = d /\ o = l) /\ ~InLoopOf(e, o)
    BY <1>2, <1>4, <1>8
  <2> QED
    BY <1>6, <2>1
<1>11. /\ state[d] = None /\ state'[d] = l /\ c.list \in Seq(Functions) /\ OwnThenHandlers(c.list) /\ c.index = 0
       /\ Fires(c) /\ Unfired(lists[d][Other(l)]) /\ lists'[d][Other(l)] = lists[d][Other(l)]
  <2>1. state[d] = None /\ FiresOwn(c, 0) /\ Unfired(lists[d][Other(l)])
    BY <1>1, <1>5 DEF Starting
  <2>2. lists'[d][Other(l)] = lists[d][Other(l)]
    BY <1>5, <1>6, OutcomesTwo
  <2>3. state'[d] = l
    BY <1>2, <1>8
  <2>4. c.list \in Seq(Functions) /\ OwnThenHandlers(c.list) /\ c.index = 0 /\ Fires(c)
    BY <2>1 DEF FiresOwn, Fires
  <2> QED
    BY <2>1, <2>2, <2>3, <2>4
<1>12. Phase(d)'
  <2>1. b.index = 1 /\ 1 =< Len(b.list) /\ OwnThenHandlers(b.list)
    <3>1. Len(c.list) \in Nat /\ Len(c.list) >= 3
      BY <1>11 DEF OwnThenHandlers
    <3> QED
      BY <1>3, <1>11, <3>1
  <2>2. FiresOwn(b, 1)
    BY <1>3, <1>11, <2>1 DEF FiresOwn, Fires
  <2>3. Settling(lists'[d], state'[d], l)
    BY <1>6, <1>11, <2>2 DEF Settling
  <2>4. InLoopOf(d, l)'
    BY <1>1, <1>2 DEF InLoopOf, Running
  <2> QED
    BY <1>5, <2>3, <2>4 DEF Phase
<1>13. Promise!Next
  <2>1. Waiting(d, l)' = Waiting(d, l)
    <3>1. OwnInFront(c.list) /\ OwnInFront(b.list) /\ c.list # None
      BY <1>3, <1>11, HandlersBegin, NotNone
    <3>2. c.index + 1 < 4 /\ b.index + 1 < 4
      BY <1>3, <1>11
    <3>3. HandlersFrom(c) = 4 /\ HandlersFrom(b) = 4
      BY <1>3, <1>4, <3>1, <3>2 DEF HandlersFrom
    <3> QED
      BY <1>1, <1>3, <1>6, <1>11, <3>1, <3>3, Zenon DEF Waiting
  <2>2. \A p \in Outcomes \ {l} : Waiting(d, p)' = <<>>
    BY <1>5, <1>11, OutcomesTwo DEF Waiting
  <2>3. \A p \in Outcomes : Waiting(d, p)' = (IF p = l THEN Waiting(d, p) ELSE <<>>)
    BY <2>1, <2>2
  <2> QED
    BY <1>2, <1>5, <1>10, <1>11, <2>3, SettleStep, Zenon
<1> QED
  BY <1>2, <1>4, <1>7, <1>9, <1>10, <1>12, <1>13, Zenon DEF DeferredInv

\* Disabling and locking.
LEMMA ListOff ==
    ASSUME NEW c \in CallbackLists
    PROVE  /\ Disabled(c) \in CallbackLists /\ Disabled(c).list = None
           /\ Disabled(c).firing = c.firing /\ Disabled(c).fired = c.fired
           /\ Locked(c) \in CallbackLists /\ Locked(c).firing = c.firing /\ Locked(c).fired = c.fired
           /\ Locked(c).list \in {c.list, None}
<1>1. Disabled(c) \in CallbackLists /\ Disabled(c).list = None /\ Disabled(c).firing = c.firing /\ Disabled(c).fired = c.fired
  BY DEF CallbackLists, Disabled
<1>2. LET b == [c EXCEPT !.stack = None]
      IN  b \in CallbackLists /\ b.list = c.list /\ b.firing = c.firing /\ b.fired = c.fired
  BY DEF CallbackLists
<1> QED
  BY <1>1, <1>2 DEF Locked

TwoChanged(d, l, b, m, a) ==
    /\ lists' \in [Deferreds -> [Lists -> CallbackLists]]
    /\ lists'[d][l] = b /\ lists'[d][m] = a
    /\ \A k \in Lists \ {l, m} : lists'[d][k] = lists[d][k]
    /\ \A e \in Deferreds \ {d} : lists'[e] = lists[e]

IsAdvanced(b, c) == /\ b \in CallbackLists /\ b.index = c.index + 1 /\ b.list = c.list /\ b.stack = c.stack
               /\ b.firing = c.firing /\ b.memory = c.memory /\ b.fired = c.fired

LEMMA TwoListsChange ==
    ASSUME DeferredInv, NEW d \in Deferreds, NEW l \in Lists, NEW m \in Lists, m # l,
           NEW c \in CallbackLists, c = lists[d][l], NEW a \in CallbackLists,
           lists' = [[lists EXCEPT ![d][l].index = @ + 1] EXCEPT ![d][m] = a]
    PROVE  \E b \in CallbackLists : IsAdvanced(b, c) /\ TwoChanged(d, l, b, m, a)
<1>1. PICK b : b = [c EXCEPT !.index = c.index + 1]
  OBVIOUS
<1>2. IsAdvanced(b, c)
  BY <1>1, ListAdvanced DEF IsAdvanced, Same
<1>3. lists \in [Deferreds -> [Lists -> CallbackLists]]
  BY DEF DeferredInv, DeferredTyped
<1>4. PICK between : between = [lists EXCEPT ![d][l] = b]
  OBVIOUS
<1>5. between = [lists EXCEPT ![d][l].index = @ + 1]
  BY <1>1, <1>4
<1>6. /\ between \in [Deferreds -> [Lists -> CallbackLists]] /\ between[d][l] = b
      /\ \A k \in Lists \ {l} : between[d][k] = lists[d][k]
      /\ \A e \in Deferreds \ {d} : between[e] = lists[e]
  BY <1>2, <1>3, <1>4 DEF IsAdvanced
<1>7. lists' = [between EXCEPT ![d][m] = a]
  BY <1>5
<1>8. /\ lists' \in [Deferreds -> [Lists -> CallbackLists]] /\ lists'[d][m] = a
      /\ \A k \in Lists \ {m} : lists'[d][k] = between[d][k]
      /\ \A e \in Deferreds \ {d} : lists'[e] = between[e]
  BY <1>6, <1>7
<1>9. TwoChanged(d, l, b, m, a)
  BY <1>6, <1>8 DEF TwoChanged
<1> QED
  BY <1>2, <1>9 DEF IsAdvanced

LEMMA OwnCalled ==
    ASSUME NEW b \in CallbackLists, NEW c \in CallbackLists, NEW n \in {1, 2}, IsAdvanced(b, c), FiresOwn(c, n)
    PROVE  /\ Fires(b) /\ OwnThenHandlers(b.list) /\ b.index >= 2
           /\ b.list = c.list /\ c.list # None /\ HandlersFrom(b) = HandlersFrom(c)
<1>1. /\ c.list \in Seq(Functions) /\ c.stack = None /\ c.firing /\ c.fired /\ c.memory /\ OwnThenHandlers(c.list)
      /\ c.index = n
  BY DEF FiresOwn, Fires
<1>2. b.list = c.list /\ b.stack = c.stack /\ b.firing = c.firing /\ b.memory = c.memory /\ b.fired = c.fired
      /\ b.index = n + 1
  BY <1>1 DEF IsAdvanced
<1>3. Len(c.list) \in Nat /\ Len(c.list) >= 3 /\ c.list # None
  <2>1. Len(c.list) \in Nat
    BY <1>1
  <2> QED
    BY <1>1, <2>1, NotNone DEF OwnThenHandlers
<1>4. n + 1 =< Len(c.list) /\ n + 1 >= 2 /\ n + 1 < 4 /\ (n + 1) + 1 =< 4
  BY <1>3
<1>5. Fires(b)
  BY <1>1, <1>2, <1>4 DEF Fires
<1>6. HandlersFrom(b) = 4 /\ HandlersFrom(c) = 4
  <2>1. OwnInFront(c.list) /\ OwnInFront(b.list)
    BY <1>1, <1>2, HandlersBegin
  <2>2. HandlersFrom(c) = 4
    BY <1>1, <1>4, <2>1 DEF HandlersFrom
  <2>3. HandlersFrom(b) = IF (n + 1) + 1 < 4 THEN 4 ELSE (n + 1) + 1
    BY <1>1, <1>2, <2>1 DEF HandlersFrom
  <2>4. (n + 1) + 1 < 4 \/ (n + 1) + 1 = 4
    OBVIOUS
  <2> QED
    BY <2>2, <2>3, <2>4
<1> QED
  BY <1>1, <1>2, <1>3, <1>4, <1>5, <1>6

LEMMA TwoListsKept ==
    ASSUME DeferredInv, NEW d \in Deferreds, NEW l \in Outcomes, NEW m \in Lists, m # l,
           Running("loop"), d = Head(todo).d, l = Head(todo).l,
           NEW c \in CallbackLists, c = lists[d][l], NEW a \in CallbackLists, a.firing = lists[d][m].firing,
           m = "progress" => OfProgress(a),
           NEW b \in CallbackLists, IsAdvanced(b, c), TwoChanged(d, l, b, m, a),
           UNCHANGED <<state, todo, called>>, state[d] = l, NEW n \in {1, 2}, FiresOwn(c, n),
           m = Other(l) => Off(a), m # Other(l) => Off(lists[d][Other(l)])
    PROVE  DeferredInv' /\ Unnoticed
<1>1. b \in CallbackLists /\ b.index = c.index + 1 /\ b.list = c.list /\ b.stack = c.stack /\ b.firing = c.firing
      /\ b.memory = c.memory /\ b.fired = c.fired
  BY DEF IsAdvanced
<1>3. \A e \in Deferreds : OfProgress(lists[e]["progress"])
  BY DEF DeferredInv, DeferredTyped
<1>4. /\ lists' \in [Deferreds -> [Lists -> CallbackLists]]
      /\ lists'[d][l] = b /\ lists'[d][m] = a
      /\ \A k \in Lists \ {l, m} : lists'[d][k] = lists[d][k]
      /\ \A e \in Deferreds \ {d} : lists'[e] = lists[e]
  BY DEF TwoChanged
<1>5. \A e \in Deferreds : OfProgress(lists'[e]["progress"])
  <2> TAKE e \in Deferreds
  <2>1. CASE e = d /\ m = "progress"
    BY <1>4, <2>1
  <2>2. CASE e = d /\ m # "progress"
    BY <1>3, <1>4, <2>2, OutcomesTwo
  <2>3. CASE e # d
    BY <1>3, <1>4, <2>3
  <2> QED
    BY <2>1, <2>2, <2>3
<1>6. /\ \A e \in Deferreds, o \in Outcomes : ~(e = d /\ o = l) => ~InLoopOf(e, o)
      /\ todo \in Seq(Tasks) /\ LoopsApart(todo, lists)
  BY OutcomesTwo, LoopOnTop
<1>7. LoopsApart(todo', lists')
  <2>1. \A e \in Deferreds, k \in Lists : lists[e][k].firing => lists'[e][k].firing
    <3> TAKE e \in Deferreds, k \in Lists
    <3>1. CASE e = d /\ k = l
      BY <1>1, <1>4, <3>1, ZenonT(40)
    <3>2. CASE e = d /\ k = m
      BY <1>4, <3>2
    <3>3. CASE ~(e = d /\ k \in {l, m})
      BY <1>4, <3>3
    <3> QED
      BY <3>1, <3>2, <3>3
  <2>2. \A i \in DOMAIN todo : todo[i].op = "loop" => todo[i].d \in Deferreds /\ todo[i].l \in Lists
    <3>1. \A k \in Tasks : k.op = "loop" => k.d \in Deferreds /\ k.l \in Lists
      BY DEF Tasks
    <3>2. \A i \in DOMAIN todo : todo[i] \in Tasks
      BY <1>6
    <3> QED
      BY <3>1, <3>2
  <2> QED
    BY <1>6, <2>1, <2>2, LoopsFire
<1>8. DeferredTyped'
  BY <1>4, <1>5, <1>6 DEF DeferredInv, DeferredTyped
<1>9. \A e \in Deferreds \ {d} : Phase(e)' /\ \A o \in Outcomes : Waiting(e, o)' = Waiting(e, o)
  <2> TAKE e \in Deferreds \ {d}
  <2>1. (\A o \in Outcomes : lists'[e][o] = lists[e][o]) /\ state'[e] = state[e] /\ Phase(e)
    BY <1>4 DEF DeferredInv
  <2>2. \A o \in Outcomes : ~InLoopOf(e, o)
    BY <1>6
  <2> QED
    BY <2>1, <2>2, OthersKept
<1>10. /\ Fires(b) /\ OwnThenHandlers(b.list) /\ b.index >= 2
       /\ b.list = c.list /\ c.list # None /\ HandlersFrom(b) = HandlersFrom(c)
  BY OwnCalled
<1>11. Phase(d)'
  <2>3. Off(lists'[d][Other(l)])
    <3>1. CASE m = Other(l)
      BY <1>4, <3>1, Zenon
    <3>2. CASE m # Other(l)
      BY <1>4, <3>2, OutcomesTwo, Zenon
    <3> QED
      BY <3>1, <3>2
  <2>4. Settled(lists'[d], state'[d], l)
    BY <1>4, <1>10, <2>3, Zenon DEF Settled
  <2> QED
    BY <2>4 DEF Phase
<1>12. \A o \in Outcomes : Waiting(d, o)' = Waiting(d, o)
  <2>1. Waiting(d, l)' = Waiting(d, l)
    BY <1>4, <1>10, ZenonT(40) DEF Waiting
  <2>2. \A o \in Outcomes \ {l} : Waiting(d, o)' = <<>> /\ Waiting(d, o) = <<>>
    BY OutcomesTwo DEF Waiting
  <2> QED
    BY <2>1, <2>2, Zenon
<1>13. \A e \in Deferreds : Phase(e)' /\ \A o \in Outcomes : Waiting(e, o)' = Waiting(e, o)
  BY <1>9, <1>11, <1>12, Zenon
<1> QED
  BY <1>7, <1>8, <1>13, NotNoticed DEF DeferredInv

LEMMA DisableKept ==
    ASSUME DeferredInv, CallDisable
    PROVE  DeferredInv' /\ (Unnoticed \/ Promise!Next)
<1>1. PICK d \in Deferreds, l \in Lists, c \in CallbackLists :
        /\ Running("loop") /\ d = Head(todo).d /\ l = Head(todo).l /\ c = lists[d][l]
        /\ lists[d] \in [Lists -> CallbackLists]
  BY TopTask, ZenonT(40) DEF CallDisable, NextIs, Running
<1>2. InLoop(d, l) /\ ItsFunction.do = "disable"
  BY <1>1, Zenon DEF CallDisable, NextIs, ItsFunction
<1>3. l \in Outcomes /\ Settling(lists[d], state[d], l)
  BY <1>1, <1>2, NextFunction
<1>4. PICK m \in Lists : m = Other(l) /\ m # l /\ m # "progress"
  BY <1>3, OutcomesTwo
<1>5. lists[d][m] \in CallbackLists /\ Unfired(lists[d][m]) /\ state[d] = l /\ FiresOwn(c, 1)
  BY <1>1, <1>3, <1>4 DEF Settling
<1>6. PICK a \in CallbackLists : a = Disabled(lists[d][m]) /\ a.list = None /\ a.firing = lists[d][m].firing
  BY <1>5, ListOff
<1>7. Off(a)
  BY <1>5, <1>6, Zenon DEF Off, Unfired
<1>8. PICK b \in CallbackLists : IsAdvanced(b, c) /\ TwoChanged(d, l, b, m, a)
  <2>1. lists' = [Advanced EXCEPT ![d][m] = Disabled(Advanced[d][m])]
    BY <1>1, <1>4 DEF CallDisable
  <2>2. lists \in [Deferreds -> [Lists -> CallbackLists]]
    BY DEF DeferredInv, DeferredTyped
  <2>3. Advanced = [lists EXCEPT ![d][l].index = @ + 1]
    BY <1>1 DEF Advanced
  <2>4. Advanced[d][m] = lists[d][m]
    BY <1>4, <2>2, <2>3
  <2>5. lists' = [[lists EXCEPT ![d][l].index = @ + 1] EXCEPT ![d][m] = a]
    BY <1>6, <2>1, <2>3, <2>4
  <2> QED
    BY <1>1, <1>4, <2>5, TwoListsChange, Zenon
<1>9. UNCHANGED <<state, todo, called>>
  BY DEF CallDisable
<1> QED
  BY <1>1, <1>3, <1>4, <1>5, <1>6, <1>7, <1>8, <1>9, TwoListsKept, ZenonT(40)

LEMMA LockKept ==
    ASSUME DeferredInv, CallLock
    PROVE  DeferredInv' /\ (Unnoticed \/ Promise!Next)
<1>1. PICK d \in Deferreds, l \in Lists, c \in CallbackLists :
        /\ Running("loop") /\ d = Head(todo).d /\ l = Head(todo).l /\ c = lists[d][l]
        /\ lists[d] \in [Lists -> CallbackLists]
  BY TopTask, ZenonT(40) DEF CallLock, NextIs, Running
<1>2. InLoop(d, l) /\ ItsFunction.do = "lock"
  BY <1>1, Zenon DEF CallLock, NextIs, ItsFunction
<1>3. l \in Outcomes /\ Settled(lists[d], state[d], l) /\ FiresOwn(c, 2)
  BY <1>1, <1>2, NextFunction
<1>4. PICK m \in Lists : m = "progress" /\ m # l /\ m # Other(l)
  BY <1>3, OutcomesTwo
<1>5. lists[d][m] \in CallbackLists /\ OfProgress(lists[d][m]) /\ state[d] = l /\ Off(lists[d][Other(l)])
  BY <1>1, <1>3, <1>4 DEF Settled, DeferredInv, DeferredTyped
<1>6. PICK a \in CallbackLists : a = Locked(lists[d][m]) /\ a.firing = lists[d][m].firing /\ OfProgress(a)
  BY <1>5, ListOff, SMTT(30) DEF OfProgress
<1>7. PICK b \in CallbackLists : IsAdvanced(b, c) /\ TwoChanged(d, l, b, m, a)
  <2>1. lists' = [Advanced EXCEPT ![d][m] = Locked(Advanced[d][m])]
    BY <1>1, <1>4 DEF CallLock
  <2>2. lists \in [Deferreds -> [Lists -> CallbackLists]]
    BY DEF DeferredInv, DeferredTyped
  <2>3. Advanced = [lists EXCEPT ![d][l].index = @ + 1]
    BY <1>1 DEF Advanced
  <2>4. Advanced[d][m] = lists[d][m]
    BY <1>4, <2>2, <2>3
  <2>5. lists' = [[lists EXCEPT ![d][l].index = @ + 1] EXCEPT ![d][m] = a]
    BY <1>6, <2>1, <2>3, <2>4
  <2> QED
    BY <1>1, <1>4, <2>5, TwoListsChange, Zenon
<1>8. UNCHANGED <<state, todo, called>>
  BY DEF CallLock
<1> QED
  BY <1>1, <1>3, <1>4, <1>5, <1>6, <1>7, <1>8, TwoListsKept, Zenon

\* Tasks that begin.
LEMMA TaskShape ==
    /\ \A d \in Deferreds, l \in Lists, h \in Handlers :
        Task("add", d, l, h) \in Tasks /\ Task("add", d, l, h).op = "add"
    /\ \A d \in Deferreds, l \in Lists : Task("fire", d, l, None) \in Tasks /\ Task("fire", d, l, None).op = "fire"
    /\ \A h \in Handlers : Task("user", None, None, h) \in Tasks /\ Task("user", None, None, h).op = "user"
    /\ \A d \in Derived : Task("when", d, None, None) \in Tasks /\ Task("when", d, None, None).op = "when"
    /\ Derived \subseteq Deferreds /\ "done" \in Lists /\ "fail" \in Lists /\ "progress" \in Lists
BY DEF Task, Tasks, Deferreds, Lists, Outcomes

NoLoops == {q \in Seq(Tasks) : \A i \in DOMAIN q : q[i].op # "loop"}

LEMMA TasksBegun ==
    /\ <<>> \in NoLoops
    /\ \A t \in Tasks : t.op # "loop" => <<t>> \in NoLoops
    /\ \A s, t \in Tasks : s.op # "loop" /\ t.op # "loop" => <<s, t>> \in NoLoops
    /\ \A r, s, t \in Tasks : r.op # "loop" /\ s.op # "loop" /\ t.op # "loop" => <<r, s, t>> \in NoLoops
    /\ \A p, q \in NoLoops : p \o q \in NoLoops
<1>1. /\ <<>> \in NoLoops
      /\ \A t \in Tasks : t.op # "loop" => <<t>> \in NoLoops
  BY DEF NoLoops
<1>2. \A s, t \in Tasks : s.op # "loop" /\ t.op # "loop" => <<s, t>> \in NoLoops
  BY DEF NoLoops
<1>3. \A r, s, t \in Tasks : r.op # "loop" /\ s.op # "loop" /\ t.op # "loop" => <<r, s, t>> \in NoLoops
  BY DEF NoLoops
<1>4. ASSUME NEW p \in NoLoops, NEW q \in NoLoops
      PROVE  p \o q \in NoLoops
  <2>1. p \in Seq(Tasks) /\ q \in Seq(Tasks) /\ p \o q \in Seq(Tasks)
    BY DEF NoLoops
  <2>2. \A i \in DOMAIN (p \o q) : (i \in DOMAIN p /\ (p \o q)[i] = p[i])
            \/ (i - Len(p) \in DOMAIN q /\ (p \o q)[i] = q[i - Len(p)])
    BY <2>1
  <2> QED
    BY <2>1, <2>2 DEF NoLoops
<1> QED
  BY <1>1, <1>2, <1>3, <1>4

LEMMA FunctionCalled ==
    ASSUME DeferredInv, NEW do \in {"user", "pipe", "fire", "count"}, NextIs(do), Remember, lists' = Advanced,
           UNCHANGED state, NEW q \in NoLoops, Begin(q)
    PROVE  DeferredInv' /\ (Unnoticed \/ Promise!Next)
<1>1. Running("loop") /\ InLoop(Head(todo).d, Head(todo).l) /\ ItsFunction.do = do
  BY Zenon DEF NextIs, ItsFunction
<1>2. q \in Seq(Tasks) /\ (\A i \in DOMAIN q : q[i].op # "loop") /\ todo' = q \o todo
  BY DEF NoLoops, Begin
<1> QED
  BY <1>1, <1>2, HandlerCalled, Zenon

\* What is called is a handler.
LEMMA CalledHandler ==
    ASSUME DeferredInv, NEW do \in {"user", "pipe", "fire", "count"}, NextIs(do)
    PROVE  ItsFunction \in Handlers /\ ItsFunction.do = do
<1>1. Running("loop") /\ InLoop(Head(todo).d, Head(todo).l) /\ ItsFunction.do = do
  BY DEF NextIs, ItsFunction
<1>2. PICK d \in Deferreds, l \in Lists, c \in CallbackLists : d = Head(todo).d /\ l = Head(todo).l /\ c = lists[d][l]
  BY <1>1, TopTask DEF Running
<1> QED
  BY <1>1, <1>2, NextFunction, ZenonT(40)

LEMMA CallsKept ==
    ASSUME DeferredInv, CallUser \/ CallFire \/ CallPipe \/ CallCount \/ \E f \in Deferreds : CallPipeToPromise(f)
    PROVE  DeferredInv' /\ (Unnoticed \/ Promise!Next)
<1>1. CASE CallUser
  <2>1. NextIs("user")
    BY <1>1 DEF CallUser
  <2>2. <<Task("user", None, None, ItsFunction)>> \in NoLoops
    BY <2>1, CalledHandler, TaskShape, TasksBegun
  <2> QED
    BY <1>1, <2>1, <2>2, FunctionCalled DEF CallUser
<1>2. CASE CallFire
  <2>1. NextIs("fire")
    BY <1>2 DEF CallFire
  <2>2. ItsFunction.to \in Deferreds /\ ItsFunction.on \in Lists
    BY <2>1, CalledHandler, HandlerShape, TaskShape
  <2>3. <<Task("fire", ItsFunction.to, ItsFunction.on, None)>> \in NoLoops
    BY <2>2, TaskShape, TasksBegun
  <2> QED
    BY <1>2, <2>1, <2>3, FunctionCalled DEF CallFire
<1>3. CASE CallPipe
  <2>1. NextIs("pipe")
    BY <1>3 DEF CallPipe
  <2>2. ItsFunction.to \in Deferreds /\ ItsFunction.on \in Lists
    BY <2>1, CalledHandler, HandlerShape, TaskShape
  <2>3. <<Task("fire", ItsFunction.to, ItsFunction.on, None)>> \in NoLoops
    BY <2>2, TaskShape, TasksBegun
  <2> QED
    BY <1>3, <2>1, <2>3, FunctionCalled DEF CallPipe
<1>4. CASE CallCount
  <2>1. NextIs("count")
    BY <1>4 DEF CallCount
  <2>2. ItsFunction.to \in Deferreds
    BY <2>1, CalledHandler, HandlerShape, TaskShape
  <2>3. <<Task("fire", ItsFunction.to, "done", None)>> \in NoLoops
    BY <2>2, TaskShape, TasksBegun
  <2>4. PICK q \in NoLoops : Begin(q)
    <3>1. (IF remaining[ItsFunction.to] = 1 THEN <<Task("fire", ItsFunction.to, "done", None)>> ELSE <<>>) \in NoLoops
      BY <2>3, TasksBegun
    <3> QED
      BY <1>4, <3>1 DEF CallCount
  <2> QED
    BY <1>4, <2>1, <2>4, FunctionCalled DEF CallCount
<1>5. ASSUME NEW f \in Deferreds, CallPipeToPromise(f)
      PROVE  DeferredInv' /\ (Unnoticed \/ Promise!Next)
  <2>1. NextIs("pipe")
    BY <1>5 DEF CallPipeToPromise
  <2>2. ItsFunction.to \in Derived
    BY <2>1, CalledHandler, HandlerShape
  <2>3. \A l \in Lists : Function("fire", ItsFunction.to, l) \in Handlers
    BY <2>2, HandlerShape
  <2>4. Following(f, ItsFunction.to) \in NoLoops
    BY <2>3, TaskShape, TasksBegun DEF Following
  <2> QED
    BY <1>5, <2>1, <2>4, FunctionCalled DEF CallPipeToPromise
<1> QED
  BY <1>1, <1>2, <1>3, <1>4, <1>5

\* Outside of the loops: the user's calls, the end of a function and of $.when.
LEMMA TasksPushed ==
    ASSUME DeferredInv, UNCHANGED <<lists, state, called>>, todo = <<>> \/ Head(todo).op # "loop",
           NEW q \in NoLoops, todo' = q \o todo \/ (todo # <<>> /\ todo' = q \o Tail(todo))
    PROVE  DeferredInv' /\ Unnoticed
<1>1. PICK p \in Seq(Tasks) : LoopsApart(p, lists) /\ todo' = q \o p
  <2>1. todo \in Seq(Tasks) /\ LoopsApart(todo, lists)
    BY DEF DeferredInv, DeferredTyped
  <2> QED
    BY <2>1, TopTask
<1>2. q \in Seq(Tasks) /\ \A i \in DOMAIN q : q[i].op # "loop"
  BY DEF NoLoops
<1>3. todo' \in Seq(Tasks) /\ LoopsApart(todo', lists)
  BY <1>1, <1>2, LoopsPushed
<1> QED
  BY <1>3, QuietKept

LEMMA UserCalls ==
    ASSUME DeferredInv, NEW q \in NoLoops, Calls(q)
    PROVE  DeferredInv' /\ Unnoticed
<1>1. UNCHANGED <<lists, state, called>> /\ todo' = q \o todo /\ (todo = <<>> \/ Head(todo).op # "loop")
  BY DEF Calls, Running
<1> QED
  BY <1>1, TasksPushed

LEMMA UserCallsKept ==
    ASSUME DeferredInv,
           \/ \E d \in Deferreds, h \in UserHandlers : Always(d, h) \/ \E l \in Lists : Register(d, l, h)
           \/ \E d \in Deferreds, l \in Lists : Trigger(d, l)
           \/ \E d \in Deferreds, e \in Derived : Then(d, e)
           \/ \E a, b \in Deferreds, m \in Derived : When(a, b, m)
    PROVE  DeferredInv' /\ Unnoticed
<1>1. ASSUME NEW d \in Deferreds, NEW h \in UserHandlers, Always(d, h) \/ \E l \in Lists : Register(d, l, h)
      PROVE  DeferredInv' /\ Unnoticed
  <2>1. \A l \in Lists : Adding(d, l, h) \in Tasks /\ Adding(d, l, h).op # "loop"
    BY TaskShape, HandlerShape DEF Adding
  <2>2. /\ \A l \in Lists : <<Adding(d, l, h)>> \in NoLoops
        /\ <<Adding(d, "done", h), Adding(d, "fail", h)>> \in NoLoops
    BY <2>1, TaskShape, TasksBegun
  <2> QED
    BY <1>1, <2>2, UserCalls DEF Always, Register
<1>2. ASSUME NEW d \in Deferreds, NEW l \in Lists, Trigger(d, l)
      PROVE  DeferredInv' /\ Unnoticed
  <2>1. <<Task("fire", d, l, None)>> \in NoLoops
    BY TaskShape, TasksBegun
  <2> QED
    BY <1>2, <2>1, UserCalls DEF Trigger
<1>3. ASSUME NEW d \in Deferreds, NEW e \in Derived, Then(d, e)
      PROVE  DeferredInv' /\ Unnoticed
  <2>1. \A l \in Lists : Function("pipe", e, l) \in Handlers
    BY HandlerShape
  <2>2. <<Task("add", d, "done", Function("pipe", e, "done")), Task("add", d, "fail", Function("pipe", e, "fail")),
          Task("add", d, "progress", Function("pipe", e, "progress"))>> \in NoLoops
    BY <2>1, TaskShape, TasksBegun
  <2> QED
    BY <1>3, <2>2, UserCalls DEF Then
<1>4. ASSUME NEW a \in Deferreds, NEW b \in Deferreds, NEW m \in Derived, When(a, b, m)
      PROVE  DeferredInv' /\ Unnoticed
  <2>1. Function("count", m, None) \in Handlers /\ \A l \in Lists : Function("fire", m, l) \in Handlers
    BY HandlerShape
  <2>2. \A d \in Deferreds : Subordinate(d, m) \in NoLoops
    BY <2>1, TaskShape, TasksBegun DEF Subordinate
  <2>3. Subordinate(a, m) \o Subordinate(b, m) \in NoLoops /\ <<Task("when", m, None, None)>> \in NoLoops
    BY <2>2, TaskShape, TasksBegun
  <2>4. Subordinate(a, m) \o Subordinate(b, m) \o <<Task("when", m, None, None)>> \in NoLoops
    BY <2>3, TasksBegun
  <2> QED
    BY <1>4, <2>4, UserCalls DEF When
<1> QED
  BY <1>1, <1>2, <1>3, <1>4

LEMMA RestKept ==
    ASSUME DeferredInv, RunWhen \/ Return \/ Throw
    PROVE  DeferredInv' /\ Unnoticed
<1>1. todo # <<>> /\ Head(todo).op # "loop" /\ UNCHANGED <<lists, state, called>>
  BY DEF RunWhen, Return, Throw, Running
<1>2. CASE RunWhen
  <2>1. Head(todo).d \in Deferreds
    BY <1>1, <1>2, TopTask, TaskShape DEF RunWhen, Running
  <2>2. PICK q \in NoLoops : todo' = q \o Tail(todo)
    <3>1. <<Task("fire", Head(todo).d, "done", None)>> \in NoLoops /\ <<>> \in NoLoops
      BY <2>1, TaskShape, TasksBegun
    <3>2. (IF remaining[Head(todo).d] = 0 THEN <<Task("fire", Head(todo).d, "done", None)>> ELSE <<>>) \in NoLoops
      BY <3>1
    <3> QED
      BY <1>2, <3>2 DEF RunWhen
  <2> QED
    BY <1>1, <2>2, TasksPushed
<1>3. CASE Return
  <2>1. todo' = Tail(todo) /\ Tail(todo) \in Seq(Tasks) /\ LoopsApart(Tail(todo), lists)
    BY <1>1, <1>3, TopTask DEF Return
  <2> QED
    BY <1>1, <2>1, QuietKept
<1>4. CASE Throw
  <2>1. todo' = <<>>
    BY <1>4 DEF Throw
  <2>2. todo' \in Seq(Tasks) /\ LoopsApart(todo', lists)
    BY <2>1 DEF LoopsApart
  <2> QED
    BY <1>1, <2>2, QuietKept
<1> QED
  BY <1>2, <1>3, <1>4

\* At first every deferred is pending, and has only its own functions in front of its outcomes.
LEMMA DeferredStarts ==
    ASSUME DeferredInit
    PROVE  DeferredInv /\ Promise!Init
<1> DEFINE own == <<Function("settle", None, None), Function("disable", None, None), Function("lock", None, None)>>
<1>1. /\ own \in Seq(Functions) /\ Len(own) = 3
      /\ own[1] = Function("settle", None, None) /\ own[2] = Function("disable", None, None)
      /\ own[3] = Function("lock", None, None)
  BY OwnShape
<1>2. OwnThenHandlers(own)
  BY <1>1 DEF OwnThenHandlers
<1>3. PICK n : n = NewList(own, None)
  OBVIOUS
<1>4. PICK p : p = NewList(<<>>, 0)
  OBVIOUS
<1>5. /\ lists = [d \in Deferreds |-> [l \in Lists |-> IF l = "progress" THEN p ELSE n]]
      /\ state = [d \in Deferreds |-> None] /\ todo = <<>> /\ called = [d \in Deferreds |-> <<>>]
  BY <1>3, <1>4 DEF DeferredInit
<1> HIDE DEF own
<1>6. n \in CallbackLists /\ Unfired(n) /\ n.list = own /\ ~n.firing
  BY <1>1, <1>2, <1>3 DEF NewList, CallbackLists, Unfired
<1>7. p \in CallbackLists /\ OfProgress(p)
  BY <1>4 DEF NewList, CallbackLists, OfProgress
<1>8. DeferredTyped
  <2>1. lists \in [Deferreds -> [Lists -> CallbackLists]]
    BY <1>5, <1>6, <1>7
  <2>2. \A d \in Deferreds : lists[d]["progress"] = p
    BY <1>5, OutcomesTwo
  <2> QED
    BY <1>5, <1>7, <2>1, <2>2 DEF DeferredTyped
<1>9. \A d \in Deferreds, o \in Outcomes : lists[d][o] = n /\ state[d] = None
  BY <1>5, OutcomesTwo
<1>10. \A d \in Deferreds : Phase(d)
  <2> TAKE d \in Deferreds
  <2>1. Pending(lists[d], state[d])
    BY <1>5, <1>6, <1>9 DEF Pending
  <2> QED
    BY <2>1 DEF Phase
<1>11. LoopsApart(todo, lists)
  BY <1>5 DEF LoopsApart
<1>12. \A d \in Deferreds, o \in Outcomes : Waiting(d, o) = <<>>
  <2>1. HandlersFrom(n) = 4
    <3>1. OwnInFront(n.list)
      BY <1>1, <1>2, <1>6, HandlersBegin
    <3> QED
      BY <1>6, <3>1 DEF HandlersFrom
  <2>2. SubSeq(own, 4, Len(own)) = <<>>
    <3>1. 4 \in Nat /\ 4 > Len(own)
      BY <1>1
    <3> QED
      BY <1>1, <3>1, SuffixEmpty
  <2> QED
    BY <1>6, <1>9, <2>1, <2>2 DEF Waiting
<1>13. Promise!Init
  BY <1>5, <1>12 DEF Promise!Init, Promise!Outcomes, Outcomes
<1> QED
  BY <1>8, <1>10, <1>11, <1>13 DEF DeferredInv

LEMMA DeferredStep ==
    ASSUME DeferredInv, DeferredNext
    PROVE  DeferredInv' /\ (Unnoticed \/ Promise!Next)
BY AddKept, FireKept, EndKept, SettleKept, DisableKept, LockKept, CallsKept, UserCallsKept, RestKept DEF DeferredNext

\* Whatever the handlers do while they are called, and even if one throws, each deferred is settled at most once and
\* calls the handlers of its outcome in the order of their registration, each as often as it was registered: with
\* what their lists have yet to call as the handlers that wait, jQuery's deferreds implement the abstract promises.
THEOREM PromisesImplemented == Spec => ImplementsPromises
<1>1. Init => DeferredInv /\ Promise!Init
  BY DeferredStarts DEF Init
<1>2. DeferredInv /\ [Next]_vars => DeferredInv' /\ [Unnoticed \/ Promise!Next]_deferredVars
  <2>1. [Next]_vars => DeferredNext \/ UNCHANGED deferredVars
    BY DEF Next, vars, toolVars
  <2>2. ASSUME DeferredInv, UNCHANGED deferredVars
        PROVE  DeferredInv'
    BY <2>2 DEF deferredVars, DeferredInv, DeferredTyped, LoopsApart, Phase, Pending, Starting, Settling, Settled,
                InLoopOf, Running
  <2> QED
    BY <2>1, <2>2, DeferredStep
<1> QED
  BY <1>1, <1>2, PTL DEF Spec, ImplementsPromises

=============================================================================
