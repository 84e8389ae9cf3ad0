---------------------- MODULE CallbackRegistersProofs ----------------------
(***************************************************************************)
(* Proofs about CallbackRegisters, for any number of threads, URLs and     *)
(* callbacks: what can end the reading thread, and that one request at a   *)
(* time keeps the lists and the listeners in step.                         *)
(***************************************************************************)
EXTENDS CallbackRegisters, SequenceTheorems, WellFoundedInduction, TLAPS

-----------------------------------------------------------------------------
(* Sequences. *)

\* What ArrayList.remove(Object) leaves of a list: one element less, and none twice if none was.
LEMMA RemoveFirstProperties ==
    ASSUME NEW S, NEW s \in Seq(S), NEW e \in ToSet(s)
    PROVE  /\ RemoveFirst(s, e) \in Seq(S)
           /\ IsInjective(s) => IsInjective(RemoveFirst(s, e))
<1> DEFINE I == {i \in 1..Len(s) : s[i] = e}
<1>1. PICK first \in I : \A j \in I : first =< j
  <2>1. I \subseteq Nat /\ I # {}
    BY DEF ToSet
  <2>2. \E i \in I : \A j \in I : ~(<<j, i>> \in OpToRel(<, Nat))
    BY <2>1, WFMin, NatLessThanWellFounded
  <2>3. PICK i \in I : \A j \in I : ~(<<j, i>> \in OpToRel(<, Nat))
    BY <2>2
  <2>4. \A j \in I : ~(j < i)
    BY <2>1, <2>3 DEF OpToRel
  <2> QED
    BY <2>1, <2>4
<1> DEFINE k == CHOOSE x \in I : \A y \in I : x =< y
<1>2. k \in I
  BY <1>1
<1>3. RemoveFirst(s, e) = SubSeq(s, 1, k - 1) \o SubSeq(s, k + 1, Len(s))
  <2>1. \E i \in 1..Len(s) : s[i] = e
    BY <1>2
  <2> QED
    BY <1>2, <2>1 DEF RemoveFirst, RemoveAt, SelectInSeq, Min
<1> DEFINE front == SubSeq(s, 1, k - 1)
           back == SubSeq(s, k + 1, Len(s))
<1> HIDE DEF k
<1>4. k \in 1..Len(s) /\ Len(s) \in Nat
  BY <1>2
<1>5. front \in Seq(S) /\ Len(front) = k - 1 /\ \A i \in 1..(k - 1) : front[i] = s[i]
  BY <1>4, SubSeqProperties
<1>6. back \in Seq(S) /\ Len(back) = Len(s) - k /\ \A i \in 1..(Len(s) - k) : back[i] = s[k + i]
  BY <1>4, SubSeqProperties
<1> HIDE DEF front, back
<1>7. /\ front \o back \in Seq(S) /\ Len(front \o back) = Len(s) - 1
      /\ \A i \in 1..(Len(s) - 1) : (front \o back)[i] = IF i < k THEN s[i] ELSE s[i + 1]
  <2>1. front \in Seq(S) /\ back \in Seq(S)
    BY <1>5, <1>6
  <2>2. /\ front \o back \in Seq(S) /\ Len(front \o back) = Len(front) + Len(back)
        /\ \A i \in 1..Len(front) + Len(back) :
            (front \o back)[i] = IF i <= Len(front) THEN front[i] ELSE back[i - Len(front)]
    BY <2>1, ConcatProperties
  <2>3. ASSUME NEW i \in 1..(Len(s) - 1)
        PROVE  (front \o back)[i] = IF i < k THEN s[i] ELSE s[i + 1]
    <3>1. (front \o back)[i] = IF i =< k - 1 THEN front[i] ELSE back[i - (k - 1)]
      <4>1. Len(front) = k - 1 /\ i \in 1..Len(front) + Len(back)
        BY <1>4, <1>5, <1>6
      <4> QED
        BY <1>4, <2>2, <4>1
    <3>2. i >= k => back[i - (k - 1)] = s[k + (i - (k - 1))] /\ k + (i - (k - 1)) = i + 1
      BY <1>4, <1>6
    <3> QED
      BY <1>4, <1>5, <3>1, <3>2
  <2>4. Len(front \o back) = Len(s) - 1
    BY <1>4, <1>5, <1>6, <2>2
  <2> QED
    BY <2>2, <2>3, <2>4
<1>8. RemoveFirst(s, e) = front \o back
  BY <1>3 DEF front, back
<1>9. ASSUME IsInjective(s) PROVE IsInjective(front \o back)
  <2>1. DOMAIN (front \o back) = 1..(Len(s) - 1)
    BY <1>7
  <2>2. \A a, b \in 1..Len(s) : s[a] = s[b] => a = b
    BY <1>9 DEF IsInjective
  <2> SUFFICES ASSUME NEW a \in 1..(Len(s) - 1), NEW b \in 1..(Len(s) - 1),
                      (front \o back)[a] = (front \o back)[b]
               PROVE  a = b
    BY <2>1 DEF IsInjective
  <2>3. (IF a < k THEN s[a] ELSE s[a + 1]) = (IF b < k THEN s[b] ELSE s[b + 1])
    BY <1>7
  <2> QED
    BY <2>2, <2>3, <1>4
<1> QED
  BY <1>7, <1>8, <1>9

LEMMA AppendInjectiveToSet ==
    ASSUME NEW S, NEW s \in Seq(S), NEW e \in S, e \notin ToSet(s), IsInjective(s)
    PROVE  IsInjective(Append(s, e))
<1>1. /\ Len(Append(s, e)) = Len(s) + 1 /\ Append(s, e)[Len(s) + 1] = e
      /\ \A i \in 1..Len(s) : Append(s, e)[i] = s[i]
      /\ DOMAIN Append(s, e) = 1..(Len(s) + 1) /\ Len(s) \in Nat
  OBVIOUS
<1>2. \A a, b \in 1..Len(s) : s[a] = s[b] => a = b
  BY DEF IsInjective
<1>3. \A a \in 1..Len(s) : s[a] # e
  BY DEF ToSet
<1> QED
  BY <1>1, <1>2, <1>3 DEF IsInjective
-----------------------------------------------------------------------------
(* Types.  They are kept in three parts: what the requests work on, the reading thread's variables, and *)
(* flags and histories.                                                                                  *)

WebTypes ==
    /\ lists \in Seq(Seq(Callbacks))
    /\ registers \in [Urls -> 0..Len(lists)]
    /\ m_Listening \subseteq Urls
    /\ pc \in [Threads -> Steps]
    /\ request \in [Threads -> Request \cup {NoRequest}]
    /\ list \in [Threads -> 0..Len(lists)]

\* A request that is under way has its list, and so has what it may make listen.
HaveLists ==
    /\ \A u \in m_Listening : registers[u] # 0
    /\ \A t \in Threads :
        /\ pc[t] = "idle" <=> request[t] = NoRequest
        /\ pc[t] \notin {"idle", "create", "listenNew"} => list[t] # 0
        /\ pc[t] \notin {"idle", "create"} => registers[request[t].url] # 0

BusTypes ==
    /\ bus \in {"idle", "next", "get", "list", "notify", "post", "dead"}
    /\ measure \in Measures \cup {NoMeasure} /\ unvisited \subseteq Urls
    /\ url \in Urls \cup {NoUrl} /\ callback \in Callbacks \cup {NoCallback}
    /\ iterated \in 0..Len(lists) /\ cursor \in Nat

\* The reading thread iterates over a list, and has left its range only if it has changed.
Iterating ==
    /\ \A u \in unvisited : registers[u] # 0
    /\ bus \in {"get", "list"} => url \in Urls /\ registers[url] # 0
    /\ bus \in {"notify", "post"} => url \in Urls /\ iterated # 0
    /\ bus = "notify" /\ ~listChanged => cursor =< Len(lists[iterated])
    /\ bus = "post" => callback \in Callbacks /\ (~listChanged => cursor =< Len(lists[iterated]))

HistoryTypes ==
    /\ tableChanged \in BOOLEAN /\ listChanged \in BOOLEAN
    /\ posted \subseteq Urls \X Callbacks /\ steady \subseteq Urls \X Callbacks
    /\ disturbed \in BOOLEAN /\ overlapped \subseteq Urls

Types == WebTypes /\ HaveLists /\ BusTypes /\ Iterating /\ HistoryTypes

LEMMA TypesAreTypes == Types => TypeOK
  BY DEF Types, WebTypes, HaveLists, BusTypes, HistoryTypes, TypeOK

FindStep(t) == \E r \in Requests[t] : FindCallbacks(t, r) \/ FindList(t, r)
BusStep == (\E m \in Measures : Dispatch(m)) \/ Bus \/ Post

\* The steps of the reading thread do not touch what the requests work on, and the other way round.
LEMMA BusLeavesWeb == ASSUME BusStep PROVE UNCHANGED webVars
  BY DEF BusStep, Dispatch, Bus, NextUrl, GetMeasure, GetCallbacks, NextCallback, Post

LEMMA WebLeavesBus == ASSUME NEW t \in Threads, FindStep(t) \/ Web(t) PROVE UNCHANGED busVars
<1>1. CASE FindStep(t)
  BY <1>1 DEF FindStep, FindCallbacks, FindList, Begin
<1>2. CASE Web(t)
  BY <1>2 DEF Web, CreateCallbacks, TestEmpty, CompareCallbacks, AddMeasureListener, AddCallback,
              SearchCallback, RemoveCallback, CheckEmpty, RemoveMeasureListener
<1> QED
  BY <1>1, <1>2

\* A thread goes on, returns or begins.
LEMMA Moves ==
    ASSUME NEW t \in Threads, FindStep(t) \/ Web(t), WebTypes, HaveLists
    PROVE  /\ \A s \in Threads : s # t => pc'[s] = pc[s] /\ request'[s] = request[s] /\ list'[s] = list[s]
           /\ pc' \in [Threads -> Steps] /\ request' \in [Threads -> Request \cup {NoRequest}]
           /\ pc'[t] = "idle" <=> request'[t] = NoRequest
           /\ pc[t] # "idle" => request[t] \in Request
           /\ pc'[t] # "idle" => request'[t] \in Request
           /\ pc[t] # "idle" /\ pc'[t] # "idle" => request'[t] = request[t] /\ list'[t] = list[t]
           /\ pc'[t] = "idle" => list'[t] = 0
           /\ list'[t] = list[t] \/ list'[t] = 0
                \/ (pc[t] = "idle" /\ pc'[t] # "idle" /\ list'[t] = registers[request'[t].url])
<1> USE DEF WebTypes
<1>1. ASSUME NEW p \in Steps \ {"idle"}, pc[t] # "idle", Continue(t, p)
      PROVE  /\ \A s \in Threads : s # t => pc'[s] = pc[s] /\ request'[s] = request[s] /\ list'[s] = list[s]
             /\ pc' \in [Threads -> Steps] /\ request' \in [Threads -> Request \cup {NoRequest}]
             /\ pc'[t] = "idle" <=> request'[t] = NoRequest
             /\ request'[t] = request[t] /\ list'[t] = list[t] /\ request[t] \in Request
  BY <1>1 DEF Continue, Goto, HaveLists
<1>2. ASSUME pc[t] # "idle", Return(t)
      PROVE  /\ \A s \in Threads : s # t => pc'[s] = pc[s] /\ request'[s] = request[s] /\ list'[s] = list[s]
             /\ pc' \in [Threads -> Steps] /\ request' \in [Threads -> Request \cup {NoRequest}]
             /\ pc'[t] = "idle" /\ request'[t] = NoRequest /\ list'[t] = 0 /\ request[t] \in Request
  BY <1>2 DEF Return, Goto, HaveLists, Steps
<1>3. CASE FindStep(t)
  <2>1. PICK r \in Request, p \in {"create", "test", "search"} :
            /\ pc[t] = "idle" /\ pc' = [pc EXCEPT ![t] = p] /\ request' = [request EXCEPT ![t] = r]
            /\ list' = [list EXCEPT ![t] = registers[r.url]]
    BY <1>3, RegistersAssumption DEF FindStep, FindCallbacks, FindList, Begin, Goto
  <2> QED
    BY <2>1, RegistersAssumption DEF Steps
<1>4. CASE Web(t)
  <2>1. pc[t] # "idle"
    BY <1>4 DEF Web, CreateCallbacks, TestEmpty, CompareCallbacks, AddMeasureListener, AddCallback,
              SearchCallback, RemoveCallback, CheckEmpty, RemoveMeasureListener
  <2>2. Return(t) \/ \E p \in Steps \ {"idle"} : Continue(t, p)
    BY <1>4 DEF Web, CreateCallbacks, TestEmpty, CompareCallbacks, AddMeasureListener, AddCallback,
              SearchCallback, RemoveCallback, CheckEmpty, RemoveMeasureListener, Steps
  <2>3. CASE Return(t)
    BY <2>1, <2>3, <1>2
  <2>4. CASE \E p \in Steps \ {"idle"} : Continue(t, p)
    <3>1. PICK p \in Steps \ {"idle"} : Continue(t, p)
      BY <2>4
    <3>2. pc'[t] = p
      BY <3>1 DEF Continue, Goto
    <3> QED
      BY <2>1, <3>1, <3>2, <1>1
  <2> QED
    BY <2>2, <2>3, <2>4
<1> QED
  BY <1>3, <1>4
\* What a request does to the collections, if anything: a new list, one more callback, one less, a key put
\* or taken out.
Grows(t) ==
    /\ pc[t] = "create" /\ pc'[t] = "listenNew"
    /\ lists' = Append(lists, <<request[t].callback>>)
    /\ registers' = [registers EXCEPT ![request[t].url] = Len(lists) + 1]
    /\ m_Listening' = m_Listening
Appends(t) ==
    /\ pc[t] = "append" /\ pc'[t] = "idle"
    /\ lists' = [lists EXCEPT ![list[t]] = Append(@, request[t].callback)]
    /\ UNCHANGED <<registers, m_Listening>>
Shrinks(t) ==
    /\ pc[t] = "drop" /\ pc'[t] = "removed"
    /\ lists' = IF request[t].callback \in ToSet(lists[list[t]])
                THEN [lists EXCEPT ![list[t]] = RemoveFirst(@, request[t].callback)] ELSE lists
    /\ UNCHANGED <<registers, m_Listening>>
Listens(t) ==
    /\ pc[t] \in {"listen", "listenNew"} /\ pc'[t] = IF pc[t] = "listen" THEN "append" ELSE "idle"
    /\ m_Listening' = m_Listening \cup {request[t].url}
    /\ UNCHANGED <<lists, registers>>
Unlistens(t) ==
    /\ pc[t] = "unlisten" /\ pc'[t] = "idle"
    /\ m_Listening' = m_Listening \ {request[t].url}
    /\ UNCHANGED <<lists, registers>>
Looks(t) == pc[t] \in {"test", "compare", "search", "removed"} /\ UNCHANGED <<lists, registers, m_Listening>>

LEMMA WebKinds ==
    ASSUME NEW t \in Threads, Web(t), WebTypes
    PROVE  Grows(t) \/ Appends(t) \/ Shrinks(t) \/ Listens(t) \/ Unlistens(t) \/ Looks(t)
<1> USE DEF WebTypes
<1>1. CASE CreateCallbacks(t)
  <2>1. Len(lists') = Len(lists) + 1
    BY <1>1 DEF CreateCallbacks
  <2> QED
    BY <1>1, <2>1 DEF CreateCallbacks, Continue, Goto, Grows
<1>2. CASE AddMeasureListener(t)
  BY <1>2 DEF AddMeasureListener, Continue, Return, Goto, Listens
<1>3. CASE AddCallback(t)
  BY <1>3 DEF AddCallback, Return, Goto, Appends
<1>4. CASE RemoveCallback(t)
  BY <1>4 DEF RemoveCallback, Continue, Goto, Shrinks
<1>5. CASE RemoveMeasureListener(t)
  BY <1>5 DEF RemoveMeasureListener, Return, Goto, Unlistens
<1>6. CASE TestEmpty(t) \/ CompareCallbacks(t) \/ SearchCallback(t) \/ CheckEmpty(t)
  BY <1>6 DEF TestEmpty, CompareCallbacks, SearchCallback, CheckEmpty, Looks
<1> QED
  BY <1>1, <1>2, <1>3, <1>4, <1>5, <1>6 DEF Web

\* The lists stay lists of callbacks, none goes, and a URL keeps its list.
LEMMA ListsStay ==
    ASSUME NEW t \in Threads, Web(t), WebTypes, HaveLists
    PROVE  /\ lists' \in Seq(Seq(Callbacks)) /\ Len(lists') >= Len(lists) /\ Len(lists) \in Nat
           /\ registers' \in [Urls -> 0..Len(lists')] /\ m_Listening' \subseteq Urls
           /\ \A u \in Urls : registers[u] # 0 => registers'[u] = registers[u] \/ pc[t] = "create"
           /\ \A u \in Urls : registers[u] # 0 => registers'[u] # 0
           /\ \A u \in m_Listening' : u \in m_Listening \/ (u = request[t].url /\ pc[t] \in {"listen", "listenNew"})
           /\ pc'[t] \notin {"idle", "create"} => registers'[request'[t].url] # 0
<1> USE DEF WebTypes
<1>1. pc[t] # "idle" /\ request[t] \in Request /\ (pc'[t] # "idle" => request'[t] = request[t])
  <2>1. pc[t] # "idle"
    BY WebKinds DEF Grows, Appends, Shrinks, Listens, Unlistens, Looks
  <2> QED
    BY <2>1, Moves
<1>2. request[t].url \in Urls /\ request[t].callback \in Callbacks
  BY <1>1 DEF Request
<1>3. CASE Grows(t)
  <2>1. <<request[t].callback>> \in Seq(Callbacks)
    BY <1>2
  <2>2. lists' \in Seq(Seq(Callbacks)) /\ Len(lists') = Len(lists) + 1
    BY <1>3, <2>1, AppendProperties DEF Grows
  <2> QED
    BY <1>1, <1>2, <1>3, <2>2 DEF Grows
<1>4. ASSUME NEW l \in Seq(Callbacks), list[t] # 0, lists' = [lists EXCEPT ![list[t]] = l]
      PROVE  lists' \in Seq(Seq(Callbacks)) /\ Len(lists') = Len(lists)
  BY <1>4, ExceptSeq
<1>5. list[t] # 0 => lists[list[t]] \in Seq(Callbacks)
  OBVIOUS
<1>6. CASE Appends(t)
  <2>1. list[t] # 0
    BY <1>6 DEF Appends, HaveLists
  <2>2. Append(lists[list[t]], request[t].callback) \in Seq(Callbacks)
    BY <1>2, <1>5, <2>1, AppendProperties
  <2>3. lists' \in Seq(Seq(Callbacks)) /\ Len(lists') = Len(lists)
    BY <1>4, <1>6, <2>1, <2>2 DEF Appends
  <2> QED
    BY <1>1, <1>6, <2>3 DEF Appends
<1>7. CASE Shrinks(t)
  <2>1. list[t] # 0 /\ registers[request[t].url] # 0
    BY <1>7 DEF Shrinks, HaveLists
  <2>2. request[t].callback \in ToSet(lists[list[t]]) =>
            RemoveFirst(lists[list[t]], request[t].callback) \in Seq(Callbacks)
    BY <1>5, <2>1, RemoveFirstProperties
  <2>3. lists' \in Seq(Seq(Callbacks)) /\ Len(lists') = Len(lists)
    BY <1>4, <1>7, <2>1, <2>2 DEF Shrinks
  <2> QED
    BY <1>1, <1>2, <1>7, <2>1, <2>3 DEF Shrinks
<1>8. CASE Listens(t) \/ Unlistens(t) \/ Looks(t)
  <2>1. UNCHANGED <<lists, registers>> /\ pc[t] \notin {"idle", "create"}
    BY <1>8 DEF Listens, Unlistens, Looks
  <2>2. registers[request[t].url] # 0
    BY <2>1 DEF HaveLists
  <2>3. /\ m_Listening' \subseteq Urls
        /\ \A u \in m_Listening' : u \in m_Listening \/ (u = request[t].url /\ pc[t] \in {"listen", "listenNew"})
    BY <1>2, <1>8 DEF Listens, Unlistens, Looks
  <2> QED
    BY <1>1, <2>1, <2>2, <2>3
<1> QED
  BY WebKinds, <1>3, <1>6, <1>7, <1>8

LEMMA WebTypesKept ==
    ASSUME WebTypes, HaveLists, NEW t \in Threads, FindStep(t) \/ Web(t)
    PROVE  (WebTypes /\ HaveLists)'
<1>1. list'[t] \in 0..Len(lists')
  <2>1. CASE FindStep(t)
    <3>1. UNCHANGED <<lists, registers>>
      BY <2>1 DEF FindStep, FindCallbacks, FindList, Begin
    <3>2. pc'[t] # "idle" => request'[t].url \in Urls
      BY Moves DEF Request
    <3>3. list'[t] = list[t] \/ list'[t] = 0 \/ (pc'[t] # "idle" /\ list'[t] = registers[request'[t].url])
      BY Moves
    <3>4. list[t] \in 0..Len(lists) /\ Len(lists) \in Nat /\ registers \in [Urls -> 0..Len(lists)]
      BY DEF WebTypes
    <3> QED
      BY <3>1, <3>2, <3>3, <3>4
  <2>2. CASE Web(t)
    <3>1. pc[t] # "idle"
      BY <2>2, WebKinds DEF Grows, Appends, Shrinks, Listens, Unlistens, Looks
    <3>2. list'[t] \in {0, list[t]}
      BY <3>1, Moves
    <3>3. Len(lists') >= Len(lists) /\ Len(lists) \in Nat /\ Len(lists') \in Nat
      BY <2>2, ListsStay
    <3>4. list[t] \in 0..Len(lists)
      BY DEF WebTypes
    <3> QED
      BY <3>2, <3>3, <3>4
  <2> QED
    BY <2>1, <2>2
<1>2. /\ lists' \in Seq(Seq(Callbacks)) /\ Len(lists') >= Len(lists) /\ Len(lists) \in Nat
      /\ registers' \in [Urls -> 0..Len(lists')] /\ m_Listening' \subseteq Urls
      /\ \A u \in Urls : registers[u] # 0 => registers'[u] # 0
      /\ \A u \in m_Listening' : u \in m_Listening \/ (u = request[t].url /\ pc[t] \in {"listen", "listenNew"})
      /\ pc'[t] \notin {"idle", "create"} => registers'[request'[t].url] # 0
  <2>1. CASE FindStep(t)
    <3>1. UNCHANGED <<lists, registers, m_Listening>>
      BY <2>1 DEF FindStep, FindCallbacks, FindList, Begin
    <3>2. pc'[t] # "create" => registers[request'[t].url] # 0
      <4>1. PICK r \in Requests[t] : FindCallbacks(t, r) \/ FindList(t, r)
        BY <2>1 DEF FindStep
      <4>2. pc'[t] # "create" => registers[r.url] # 0 
        BY <4>1 DEF FindCallbacks, FindList, Begin, Goto, WebTypes
      <4>3. request'[t] = r
        BY <4>1 DEF FindCallbacks, FindList, Begin, WebTypes
      <4> QED
        BY <4>2, <4>3
    <3>3. Len(lists) \in Nat
      BY DEF WebTypes
    <3> QED
      BY <3>1, <3>2, <3>3 DEF WebTypes
  <2>2. CASE Web(t)
    BY <2>2, ListsStay
  <2> QED
    BY <2>1, <2>2
<1>3. \A s \in Threads : s # t => pc'[s] = pc[s] /\ request'[s] = request[s] /\ list'[s] = list[s]
  BY Moves
<1>4. WebTypes'
  <2>1. list' \in [Threads -> 0..Len(lists')]
    <3>1. \E f : list' = [s \in Threads |-> f[s]]
      BY DEF WebTypes, FindStep, FindCallbacks, FindList, Begin, Web, CreateCallbacks, TestEmpty, CompareCallbacks,
             AddMeasureListener, AddCallback, SearchCallback, RemoveCallback, CheckEmpty, RemoveMeasureListener,
             Continue, Return
    <3>2. \A s \in Threads : list'[s] \in 0..Len(lists')
      <4> SUFFICES ASSUME NEW s \in Threads PROVE list'[s] \in 0..Len(lists')
        OBVIOUS
      <4>1. list[s] \in 0..Len(lists) /\ Len(lists') \in Nat
        BY <1>2 DEF WebTypes
      <4>2. s # t => list'[s] = list[s]
        BY <1>3
      <4> QED
        BY <1>1, <1>2, <4>1, <4>2
    <3> QED
      BY <3>1, <3>2
  <2>2. pc' \in [Threads -> Steps] /\ request' \in [Threads -> Request \cup {NoRequest}]
    BY Moves
  <2> QED
    BY <1>2, <2>1, <2>2 DEF WebTypes
<1>5. HaveLists'
  <2>1. \A u \in m_Listening' : registers'[u] # 0
    <3> SUFFICES ASSUME NEW u \in m_Listening' PROVE registers'[u] # 0
      OBVIOUS
    <3>1. u \in Urls
      BY <1>2
    <3>2. CASE u \in m_Listening
      BY <1>2, <3>1, <3>2 DEF HaveLists
    <3>3. CASE u = request[t].url /\ pc[t] \in {"listen", "listenNew"}
      BY <1>2, <3>1, <3>3 DEF HaveLists
    <3> QED
      BY <1>2, <3>2, <3>3
  <2>2. ASSUME NEW s \in Threads, s # t
        PROVE  /\ pc'[s] = "idle" <=> request'[s] = NoRequest
               /\ pc'[s] \notin {"idle", "create", "listenNew"} => list'[s] # 0
               /\ pc'[s] \notin {"idle", "create"} => registers'[request'[s].url] # 0
    <3>1. pc[s] # "idle" => request[s].url \in Urls
      BY DEF HaveLists, WebTypes, Request
    <3> QED
      BY <1>2, <1>3, <2>2, <3>1 DEF HaveLists
  <2>3. pc'[t] \notin {"idle", "create", "listenNew"} => list'[t] # 0
    <3>1. CASE FindStep(t)
      <4>1. pc'[t] # "create" => registers[request'[t].url] # 0 /\ list'[t] = registers[request'[t].url]
        <5>1. PICK r \in Requests[t] : FindCallbacks(t, r) \/ FindList(t, r)
          BY <3>1 DEF FindStep
        <5>2. request'[t] = r /\ list'[t] = registers[r.url]
          BY <5>1 DEF FindCallbacks, FindList, Begin, WebTypes
        <5>3. pc'[t] # "create" => registers[r.url] # 0
          BY <5>1 DEF FindCallbacks, FindList, Begin, Goto, WebTypes
        <5> QED
          BY <5>2, <5>3
      <4> QED
        BY <4>1
    <3>2. CASE Web(t)
      <4>1. pc[t] # "idle" /\ (pc[t] \in {"create", "listenNew"} => pc'[t] \in {"listenNew", "idle"})
        BY <3>2, WebKinds DEF Grows, Appends, Shrinks, Listens, Unlistens, Looks
      <4>2. pc'[t] # "idle" => list'[t] = list[t]
        BY <4>1, Moves
      <4> QED
        BY <4>1, <4>2 DEF HaveLists
    <3> QED
      BY <3>1, <3>2
  <2>4. pc'[t] = "idle" <=> request'[t] = NoRequest
    BY Moves
  <2> QED
    BY <1>2, <2>1, <2>2, <2>3, <2>4 DEF HaveLists
<1> QED
  BY <1>4, <1>5
\* A change of the list that is iterated over is noticed.
LEMMA ChangeNoticed ==
    ASSUME NEW t \in Threads, FindStep(t) \/ Web(t), WebTypes, HaveLists, iterated \in 0..Len(lists), iterated # 0
    PROVE  /\ ~listChanged' => ~listChanged /\ lists'[iterated] = lists[iterated]
           /\ listChanged \in BOOLEAN => listChanged' \in BOOLEAN
<1>1. CASE FindStep(t)
  <2>1. UNCHANGED <<lists, listChanged>>
    BY <1>1 DEF FindStep, FindCallbacks, FindList, Begin, NothingDisturbed
  <2> QED
    BY <2>1
<1>2. CASE CreateCallbacks(t)
  <2>1. listChanged' = listChanged
    BY <1>2 DEF CreateCallbacks
  <2>2. lists' = Append(lists, <<request[t].callback>>)
    BY <1>2 DEF CreateCallbacks
  <2>3. lists'[iterated] = lists[iterated]
    BY <2>2 DEF WebTypes
  <2> QED
    BY <2>1, <2>3
<1>3. CASE AddCallback(t)
  <2>1. listChanged' = (listChanged \/ list[t] = iterated)
    BY <1>3 DEF AddCallback
  <2>2. list[t] # iterated => lists'[iterated] = lists[iterated]
    BY <1>3 DEF AddCallback, WebTypes
  <2> QED
    BY <2>1, <2>2
<1>4. CASE RemoveCallback(t)
  <2> DEFINE found == request[t].callback \in ToSet(lists[list[t]])
  <2>1. listChanged' = (listChanged \/ (found /\ list[t] = iterated))
    BY <1>4 DEF RemoveCallback
  <2>2. ~(found /\ list[t] = iterated) => lists'[iterated] = lists[iterated]
    BY <1>4 DEF RemoveCallback, WebTypes
  <2> QED
    BY <2>1, <2>2
<1>5. CASE \/ TestEmpty(t) \/ CompareCallbacks(t) \/ AddMeasureListener(t) \/ SearchCallback(t) \/ CheckEmpty(t)
           \/ RemoveMeasureListener(t)
  <2>1. UNCHANGED <<lists, listChanged>>
    BY <1>5 DEF TestEmpty, CompareCallbacks, AddMeasureListener, SearchCallback, CheckEmpty,
                RemoveMeasureListener, NothingDisturbed
  <2> QED
    BY <2>1
<1> QED
  BY <1>1, <1>2, <1>3, <1>4, <1>5 DEF Web

\* The flags and the histories of a step of a request.
LEMMA WebHistory ==
    ASSUME NEW t \in Threads, FindStep(t) \/ Web(t), WebTypes, HaveLists, HistoryTypes
    PROVE  /\ tableChanged' \in BOOLEAN /\ listChanged' \in BOOLEAN /\ disturbed' \in BOOLEAN
           /\ steady' \subseteq steady /\ overlapped' \subseteq Urls
<1> USE DEF NothingDisturbed, Disturb
<1>1. tableChanged' \in BOOLEAN
  BY DEF HistoryTypes, FindStep, FindCallbacks, FindList, Begin, Web, CreateCallbacks, TestEmpty,
         CompareCallbacks, AddMeasureListener, AddCallback, SearchCallback, RemoveCallback, CheckEmpty,
         RemoveMeasureListener
<1>2. listChanged' \in BOOLEAN
  BY DEF HistoryTypes, FindStep, FindCallbacks, FindList, Begin, Web, CreateCallbacks, TestEmpty,
         CompareCallbacks, AddMeasureListener, AddCallback, SearchCallback, RemoveCallback, CheckEmpty,
         RemoveMeasureListener
<1>3. disturbed' \in BOOLEAN
  BY DEF HistoryTypes, FindStep, FindCallbacks, FindList, Begin, Web, CreateCallbacks, TestEmpty,
         CompareCallbacks, AddMeasureListener, AddCallback, SearchCallback, RemoveCallback, CheckEmpty,
         RemoveMeasureListener
<1>4. steady' \subseteq steady
  BY DEF FindStep, FindCallbacks, FindList, Begin, Web, CreateCallbacks, TestEmpty, CompareCallbacks,
         AddMeasureListener, AddCallback, SearchCallback, RemoveCallback, CheckEmpty, RemoveMeasureListener
<1>5. overlapped' \subseteq Urls
  <2>1. CASE FindStep(t)
    <3>1. PICK r \in Request : overlapped' \subseteq overlapped \cup {r.url}
      BY <2>1, RegistersAssumption DEF FindStep, FindCallbacks, FindList, Begin
    <3> QED
      BY <3>1 DEF HistoryTypes, Request
  <2>2. CASE Web(t)
    BY <2>2 DEF HistoryTypes, Web, CreateCallbacks, TestEmpty, CompareCallbacks,
                AddMeasureListener, AddCallback, SearchCallback, RemoveCallback, CheckEmpty,
                RemoveMeasureListener
  <2> QED
    BY <2>1, <2>2
<1> QED
  BY <1>1, <1>2, <1>3, <1>4, <1>5

LEMMA WebKeepsBusTypes ==
    ASSUME NEW t \in Threads, FindStep(t) \/ Web(t), Types
    PROVE  (BusTypes /\ Iterating /\ HistoryTypes)'
<1> USE DEF Types
<1>1. UNCHANGED <<bus, measure, unvisited, url, iterated, cursor, callback, posted>>
  BY WebLeavesBus DEF busVars
<1>2. /\ Len(lists') >= Len(lists) /\ Len(lists) \in Nat /\ Len(lists') \in Nat
      /\ \A u \in Urls : registers[u] # 0 => registers'[u] # 0
  <2>1. CASE FindStep(t)
    BY <2>1 DEF FindStep, FindCallbacks, FindList, Begin, WebTypes
  <2>2. CASE Web(t)
    BY <2>2, ListsStay
  <2> QED
    BY <2>1, <2>2
<1>3. BusTypes'
  BY <1>1, <1>2 DEF BusTypes
<1>4. HistoryTypes'
  <2>1. /\ tableChanged' \in BOOLEAN /\ listChanged' \in BOOLEAN /\ disturbed' \in BOOLEAN
        /\ steady' \subseteq steady /\ overlapped' \subseteq Urls
    BY WebHistory
  <2> QED
    BY <1>1, <2>1 DEF HistoryTypes
<1>5. Iterating'
  <2>1. \A u \in unvisited' : registers'[u] # 0
    BY <1>1, <1>2 DEF Iterating, BusTypes
  <2>2. bus' \in {"get", "list"} => url' \in Urls /\ registers'[url'] # 0
    BY <1>1, <1>2 DEF Iterating
  <2>3. bus' \in {"notify", "post"} => url' \in Urls /\ iterated' # 0
    BY <1>1 DEF Iterating
  <2>4. bus \in {"notify", "post"} /\ ~listChanged' => ~listChanged /\ lists'[iterated] = lists[iterated]
    <3>1. bus \in {"notify", "post"} => iterated \in 0..Len(lists) /\ iterated # 0
      BY DEF Iterating, BusTypes
    <3> QED
      BY <3>1, ChangeNoticed
  <2>5. bus' = "notify" /\ ~listChanged' => cursor' =< Len(lists'[iterated'])
    BY <1>1, <2>4 DEF Iterating
  <2>6. bus' = "post" => callback' \in Callbacks /\ (~listChanged' => cursor' =< Len(lists'[iterated']))
    BY <1>1, <2>4 DEF Iterating
  <2> QED
    BY <2>1, <2>2, <2>3, <2>5, <2>6 DEF Iterating
<1> QED
  BY <1>3, <1>4, <1>5

LEMMA BusKeepsTypes == ASSUME BusStep, Types PROVE Types'
<1> USE DEF Types
<1>1. UNCHANGED <<lists, registers, m_Listening, pc, request, list, overlapped>>
  BY BusLeavesWeb DEF webVars
<1>2. (WebTypes /\ HaveLists)'
  <2>1. WebTypes'
    BY <1>1 DEF WebTypes
  <2>2. HaveLists'
    BY <1>1 DEF HaveLists
  <2> QED
    BY <2>1, <2>2
<1>a. ASSUME Finish \/ Die PROVE (BusTypes /\ Iterating /\ HistoryTypes)'
  <2>1. /\ bus' \in {"idle", "dead"} /\ measure' = NoMeasure /\ unvisited' = {} /\ url' = NoUrl
        /\ iterated' = 0 /\ cursor' = 0 /\ callback' = NoCallback
    BY <1>a DEF Finish, Die
  <2>2. /\ posted' = {} /\ steady' = {}
        /\ tableChanged' \in BOOLEAN /\ listChanged' \in BOOLEAN /\ disturbed' \in BOOLEAN
    BY <1>a DEF Finish, Die, HistoryTypes
  <2>3. BusTypes'
    BY <1>1, <2>1 DEF BusTypes, WebTypes
  <2>4. Iterating'
    BY <2>1 DEF Iterating
  <2>5. HistoryTypes'
    BY <1>1, <2>2 DEF HistoryTypes
  <2> QED
    BY <2>3, <2>4, <2>5
<1>3. CASE \E m \in Measures : Dispatch(m)
  <2>1. PICK m \in Measures : Dispatch(m)
    BY <1>3
  <2>2. BusTypes'
    BY <1>1, <2>1 DEF Dispatch, BusTypes, WebTypes
  <2>3. Iterating'
    BY <1>1, <2>1 DEF Dispatch, Iterating, HaveLists
  <2>4. HistoryTypes'
    <3>1. steady' \subseteq m_Listening \X Callbacks /\ posted' = {}
      BY <2>1 DEF Dispatch
    <3>2. tableChanged' \in BOOLEAN /\ listChanged' \in BOOLEAN /\ disturbed' \in BOOLEAN
      BY <2>1 DEF Dispatch, HistoryTypes
    <3> QED
      BY <1>1, <3>1, <3>2 DEF HistoryTypes, WebTypes
  <2> QED
    BY <1>2, <2>2, <2>3, <2>4
<1>4. CASE NextUrl
  <2>1. ASSUME NEW u \in unvisited, url' = u, unvisited' = unvisited \ {u}, bus' = "get",
               UNCHANGED <<measure, iterated, cursor, callback, posted>>, NothingDisturbed
        PROVE  (BusTypes /\ Iterating /\ HistoryTypes)'
    <3>1. BusTypes'
      BY <1>1, <2>1 DEF BusTypes
    <3>2. Iterating'
      BY <1>1, <2>1 DEF Iterating, BusTypes
    <3>3. HistoryTypes'
      BY <1>1, <2>1 DEF HistoryTypes, NothingDisturbed
    <3> QED
      BY <3>1, <3>2, <3>3
  <2> QED
    BY <1>2, <1>4, <1>a, <2>1 DEF NextUrl
<1>5. CASE GetMeasure
  <2>1. ASSUME bus = "get", url \in m_Listening, bus' = IF MeasureOf[url] = measure THEN "list" ELSE "next",
               UNCHANGED <<measure, unvisited, url, iterated, cursor, callback, posted>>, NothingDisturbed
        PROVE  (BusTypes /\ Iterating /\ HistoryTypes)'
    <3>1. BusTypes'
      BY <1>1, <2>1 DEF BusTypes
    <3>2. Iterating'
      BY <1>1, <2>1 DEF Iterating
    <3>3. HistoryTypes'
      BY <1>1, <2>1 DEF HistoryTypes, NothingDisturbed
    <3> QED
      BY <3>1, <3>2, <3>3
  <2> QED
    BY <1>2, <1>5, <1>a, <2>1 DEF GetMeasure
<1>6. CASE GetCallbacks
  <2>1. registers[url] \in 0..Len(lists) /\ registers[url] # 0 /\ url \in Urls
    BY <1>6 DEF GetCallbacks, Iterating, WebTypes
  <2>2. BusTypes'
    BY <1>1, <1>6, <2>1 DEF GetCallbacks, BusTypes
  <2>3. Iterating'
    <3>1. lists[registers[url]] \in Seq(Callbacks)
      BY <2>1 DEF WebTypes
    <3>2. Len(lists[registers[url]]) >= 0
      BY <3>1
    <3> QED
      BY <1>1, <1>6, <2>1, <3>2 DEF GetCallbacks, Iterating
  <2>4. HistoryTypes'
    BY <1>1, <1>6 DEF GetCallbacks, HistoryTypes
  <2> QED
    BY <1>2, <2>2, <2>3, <2>4
<1>7. CASE NextCallback
  <2>1. ASSUME bus = "notify", cursor # Len(lists[iterated]), ~listChanged, TakeCallback
        PROVE  (BusTypes /\ Iterating /\ HistoryTypes)'
    <3>1. lists[iterated] \in Seq(Callbacks) /\ cursor =< Len(lists[iterated]) /\ cursor \in Nat
      BY <2>1 DEF Iterating, BusTypes, WebTypes
    <3>2. cursor + 1 \in 1..Len(lists[iterated]) /\ lists[iterated][cursor + 1] \in Callbacks
      BY <2>1, <3>1
    <3>3. BusTypes'
      BY <1>1, <2>1, <3>2 DEF TakeCallback, BusTypes
    <3>4. Iterating'
      BY <1>1, <2>1, <3>2 DEF TakeCallback, Iterating, NothingDisturbed
    <3>5. HistoryTypes'
      BY <1>1, <2>1 DEF TakeCallback, HistoryTypes, NothingDisturbed
    <3> QED
      BY <3>3, <3>4, <3>5
  <2> QED
    BY <1>2, <1>7, <1>a, <2>1 DEF NextCallback
<1>8. CASE Post
  <2>1. BusTypes'
    BY <1>1, <1>8 DEF Post, BusTypes
  <2>2. Iterating'
    BY <1>1, <1>8 DEF Post, Iterating
  <2>3. HistoryTypes'
    <3>1. <<url, callback>> \in Urls \X Callbacks
      BY <1>8 DEF Post, Iterating
    <3>2. posted' \subseteq Urls \X Callbacks /\ UNCHANGED <<steady, tableChanged, listChanged, disturbed>>
      BY <1>8, <3>1 DEF Post, HistoryTypes
    <3> QED
      BY <1>1, <3>2 DEF HistoryTypes
  <2> QED
    BY <1>2, <2>1, <2>2, <2>3
<1> QED
  BY <1>2, <1>3, <1>4, <1>5, <1>6, <1>7, <1>8 DEF BusStep, Bus
LEMMA TypesKept == ASSUME Types, [Next]_vars PROVE Types'
<1>1. CASE \E t \in Threads : FindStep(t) \/ Web(t)
  BY <1>1, WebTypesKept, WebKeepsBusTypes DEF Types
<1>2. CASE BusStep
  BY <1>2, BusKeepsTypes
<1>3. CASE UNCHANGED vars
  BY <1>3 DEF vars, webVars, busVars, Types, WebTypes, HaveLists, BusTypes, Iterating, HistoryTypes
<1> QED
  BY <1>1, <1>2, <1>3 DEF Next, FindStep, BusStep

LEMMA TypesFirst == Init => Types
<1> SUFFICES ASSUME Init PROVE Types
  OBVIOUS
<1>1. lists = <<>> /\ lists \in Seq(Seq(Callbacks)) /\ Len(lists) = 0
  BY DEF Init
<1>2. WebTypes
  BY <1>1 DEF Init, WebTypes, Steps
<1>3. HaveLists
  BY DEF Init, HaveLists
<1>4. BusTypes /\ Iterating
  BY <1>1 DEF Init, BusTypes, Iterating
<1>5. HistoryTypes
  <2>1. tableChanged \in BOOLEAN /\ listChanged \in BOOLEAN /\ disturbed \in BOOLEAN
    BY DEF Init
  <2> QED
    BY <2>1 DEF Init, HistoryTypes
<1> QED
  BY <1>2, <1>3, <1>4, <1>5 DEF Types

-----------------------------------------------------------------------------
(* What the reading thread relies on. *)

\* As long as no registration has fallen into a dispatch, the iterators have nothing to complain of, and
\* what they return is still listened to.
Survives ==
    ~disturbed =>
        /\ bus # "dead"
        /\ Dispatching => ~tableChanged /\ unvisited \subseteq m_Listening
        /\ bus = "get" => url \in m_Listening
        /\ bus \in {"notify", "post"} => ~listChanged

\* A step of a request that changes anything disturbs the dispatch.
LEMMA ChangesDisturb ==
    ASSUME NEW t \in Threads, FindStep(t) \/ Web(t)
    PROVE  /\ disturbed => disturbed'
           /\ \/ UNCHANGED <<tableChanged, listChanged, m_Listening>>
              \/ Dispatching => disturbed'
<1> USE DEF Disturb, NothingDisturbed
<1>1. disturbed' = disturbed \/ disturbed' = (disturbed \/ Dispatching)
  BY DEF FindStep, FindCallbacks, FindList, Begin, Web, CreateCallbacks, TestEmpty, CompareCallbacks,
         AddMeasureListener, AddCallback, SearchCallback, RemoveCallback, CheckEmpty, RemoveMeasureListener
<1>2. UNCHANGED <<tableChanged, listChanged, m_Listening>> \/ disturbed' = (disturbed \/ Dispatching)
  BY DEF FindStep, FindCallbacks, FindList, Begin, Web, CreateCallbacks, TestEmpty, CompareCallbacks,
         AddMeasureListener, AddCallback, SearchCallback, RemoveCallback, CheckEmpty, RemoveMeasureListener
<1>3. CASE disturbed' = disturbed
  BY <1>2, <1>3
<1>4. CASE disturbed' = (disturbed \/ Dispatching)
  <2>1. disturbed => disturbed'
    BY <1>4
  <2>2. Dispatching => disturbed'
    BY <1>4
  <2> QED
    BY <2>1, <2>2
<1> QED
  BY <1>1, <1>3, <1>4

LEMMA SurvivesKept == ASSUME Types, Survives, [Next]_vars PROVE Survives'
<1>0. bus \in {"idle", "next", "get", "list", "notify", "post", "dead"}
  BY DEF Types, BusTypes
<1>1. ASSUME NEW t \in Threads, FindStep(t) \/ Web(t) PROVE Survives'
  <2>1. UNCHANGED <<bus, unvisited, url>>
    BY <1>1, WebLeavesBus DEF busVars
  <2>2. CASE Dispatching /\ disturbed'
    BY <2>2 DEF Survives
  <2>3. CASE UNCHANGED <<tableChanged, listChanged, m_Listening>>
    <3>1. disturbed => disturbed'
      BY <1>1, ChangesDisturb
    <3> QED
      BY <2>1, <2>3, <3>1 DEF Survives, Dispatching
  <2>4. CASE ~Dispatching
    <3>1. disturbed => disturbed'
      BY <1>1, ChangesDisturb
    <3> QED
      BY <2>1, <2>4, <3>1 DEF Survives, Dispatching
  <2> QED
    BY <1>1, <2>2, <2>3, <2>4, ChangesDisturb
<1>2. ASSUME NEW m \in Measures, Dispatch(m) PROVE Survives'
  BY <1>2 DEF Dispatch, Survives, webVars
<1>3. ASSUME Finish PROVE Survives'
  BY <1>3 DEF Finish, Survives, Dispatching
<1>4. CASE NextUrl
  <2>1. CASE bus = "next" /\ unvisited # {} /\ tableChanged /\ Die
    <3>1. disturbed
      BY <2>1 DEF Survives, Dispatching
    <3>2. disturbed' = disturbed
      BY <2>1 DEF Die
    <3> QED
      BY <3>1, <3>2 DEF Survives
  <2>2. ASSUME NEW u \in unvisited, bus = "next", url' = u, unvisited' = unvisited \ {u}, bus' = "get",
               NothingDisturbed, UNCHANGED webVars
        PROVE  Survives'
    BY <2>2 DEF Survives, Dispatching, NothingDisturbed, webVars
  <2> QED
    BY <1>3, <1>4, <2>1, <2>2 DEF NextUrl
<1>5. CASE GetMeasure
  <2>1. CASE bus = "get" /\ url \notin m_Listening /\ Die
    <3>1. disturbed
      BY <2>1 DEF Survives
    <3>2. disturbed' = disturbed
      BY <2>1 DEF Die
    <3> QED
      BY <3>1, <3>2 DEF Survives
  <2>2. CASE /\ bus = "get" /\ bus' = IF MeasureOf[url] = measure THEN "list" ELSE "next"
             /\ UNCHANGED unvisited /\ NothingDisturbed /\ UNCHANGED webVars
    BY <2>2 DEF Survives, Dispatching, NothingDisturbed, webVars
  <2> QED
    BY <1>5, <2>1, <2>2 DEF GetMeasure
<1>6. CASE GetCallbacks
  BY <1>6 DEF GetCallbacks, Survives, Dispatching, webVars
<1>7. CASE NextCallback
  <2>1. CASE bus = "notify" /\ listChanged /\ Die
    <3>1. disturbed
      BY <2>1 DEF Survives
    <3>2. disturbed' = disturbed
      BY <2>1 DEF Die
    <3> QED
      BY <3>1, <3>2 DEF Survives
  <2>2. CASE bus = "notify" /\ TakeCallback /\ UNCHANGED webVars
    BY <2>2 DEF TakeCallback, Survives, Dispatching, NothingDisturbed, webVars
  <2> QED
    BY <1>3, <1>7, <2>1, <2>2 DEF NextCallback
<1>8. CASE Post
  BY <1>8 DEF Post, Survives, Dispatching, webVars
<1>9. CASE UNCHANGED vars
  BY <1>9 DEF vars, webVars, busVars, Survives, Dispatching
<1> QED
  BY <1>1, <1>2, <1>4, <1>5, <1>6, <1>7, <1>8, <1>9 DEF Next, FindStep, Bus
-----------------------------------------------------------------------------
(* Lists and listeners. *)

\* Two requests at work on one URL have been noticed.
OneAtATime ==
    \A s, t \in Threads :
        s # t /\ pc[s] # "idle" /\ pc[t] # "idle" /\ request[s].url = request[t].url =>
            request[t].url \in overlapped

\* A list belongs to one URL, and a request holds none of another.
ListsApart ==
    /\ \A u, v \in Urls : registers[u] # 0 /\ registers[u] = registers[v] => u = v
    /\ \A t \in Threads, v \in Urls :
        list[t] # 0 /\ registers[v] = list[t] => pc[t] # "idle" /\ request[t].url = v
    /\ \A t \in Threads : pc[t] = "idle" => list[t] = 0

InStep(u) == u \in m_Listening <=> Registered(u) # <<>>

\* How far the request t, the only one at work on u, has come.
Stage(t, u) ==
    /\ pc[t] = "create" => registers[u] = 0 /\ u \notin m_Listening
    /\ pc[t] \notin {"create", "listenNew"} => list[t] = registers[u]
    /\ IsInjective(Registered(u))
    /\ pc[t] \in {"test", "compare", "search", "drop"} => InStep(u)
    /\ pc[t] \in {"compare", "listenNew"} => Registered(u) # <<>>
    /\ pc[t] \in {"listen", "unlisten"} => Registered(u) = <<>>
    /\ pc[t] = "append" => request[t].callback \notin ToSet(Registered(u))
    /\ pc[t] = "drop" => request[t].callback \in ToSet(Registered(u))
    /\ pc[t] \in {"append", "removed"} => u \in m_Listening

Stages ==
    \A u \in Urls \ overlapped :
        /\ (\A t \in Threads : pc[t] # "idle" => request[t].url # u) => InStep(u) /\ IsInjective(Registered(u))
        /\ \A t \in Threads : pc[t] # "idle" /\ request[t].url = u => Stage(t, u)

Apart == OneAtATime /\ ListsApart

\* A request that is under way touches nothing of another URL.
LEMMA Elsewhere ==
    ASSUME Types, ListsApart, NEW t \in Threads, Web(t), NEW u \in Urls, u # request[t].url
    PROVE  /\ registers'[u] = registers[u] /\ Registered(u)' = Registered(u)
           /\ u \in m_Listening' <=> u \in m_Listening
<1> USE DEF Types, WebTypes
<1>1. pc[t] # "idle" /\ request[t].url \in Urls
  <2>1. pc[t] # "idle"
    BY WebKinds DEF Grows, Appends, Shrinks, Listens, Unlistens, Looks
  <2> QED
    BY <2>1, Moves DEF Request
<1>2. registers[u] \in 0..Len(lists) /\ Len(lists) \in Nat
  OBVIOUS
<1>3. CASE Grows(t)
  <2>1. registers'[u] = registers[u] /\ m_Listening' = m_Listening
    BY <1>1, <1>3 DEF Grows
  <2>2. registers[u] # 0 => lists'[registers[u]] = lists[registers[u]]
    BY <1>2, <1>3 DEF Grows
  <2> QED
    BY <2>1, <2>2 DEF Registered
<1>4. CASE Appends(t) \/ Shrinks(t)
  <2>1. UNCHANGED <<registers, m_Listening>>
    BY <1>4 DEF Appends, Shrinks
  <2>2. list[t] # 0
    BY <1>4 DEF Appends, Shrinks, HaveLists
  <2>3. registers[u] # list[t]
    BY <2>2 DEF ListsApart
  <2>4. registers[u] # 0 => lists'[registers[u]] = lists[registers[u]]
    BY <1>2, <1>4, <2>3 DEF Appends, Shrinks
  <2> QED
    BY <2>1, <2>4 DEF Registered
<1>5. CASE Listens(t) \/ Unlistens(t) \/ Looks(t)
  <2>1. UNCHANGED <<registers, lists>>
    BY <1>5 DEF Listens, Unlistens, Looks
  <2>2. u \in m_Listening' <=> u \in m_Listening
    BY <1>5 DEF Listens, Unlistens, Looks
  <2> QED
    BY <2>1, <2>2 DEF Registered
<1> QED
  BY WebKinds, <1>3, <1>4, <1>5

\* What a step of the only request at work on a URL makes of it.
LEMMA OwnStage ==
    ASSUME Types, NEW t \in Threads, Web(t), NEW u \in Urls, u = request[t].url, Stage(t, u)
    PROVE  /\ pc'[t] = "idle" => InStep(u)' /\ IsInjective(Registered(u)')
           /\ pc'[t] # "idle" => Stage(t, u)'
<1> USE DEF Types, WebTypes
<1>0. /\ pc[t] # "idle" /\ request[t] \in Request /\ request[t].callback \in Callbacks
      /\ (pc'[t] # "idle" => request'[t] = request[t] /\ list'[t] = list[t])
  <2>1. pc[t] # "idle"
    BY WebKinds DEF Grows, Appends, Shrinks, Listens, Unlistens, Looks
  <2> QED
    BY <2>1, Moves DEF Request
<1>1. registers[u] \in 0..Len(lists) /\ Len(lists) \in Nat
  OBVIOUS
<1>2. Registered(u) \in Seq(Callbacks)
  BY <1>1 DEF Registered
<1>3. pc[t] \notin {"idle", "create", "listenNew"} =>
        list[t] = registers[u] /\ list[t] # 0 /\ Registered(u) = lists[list[t]]
  BY DEF HaveLists, Stage, Registered
<1>4. CASE CreateCallbacks(t)
  <2>1. pc[t] = "create" /\ pc'[t] = "listenNew"
    BY <1>4 DEF CreateCallbacks, Continue, Goto
  <2>2. lists' = Append(lists, <<request[t].callback>>) /\ registers' = [registers EXCEPT ![u] = Len(lists')]
    BY <1>4 DEF CreateCallbacks
  <2>3. registers'[u] # 0 /\ Registered(u)' = <<request[t].callback>>
    BY <1>1, <2>2 DEF Registered
  <2>4. IsInjective(Registered(u)') /\ Registered(u)' # <<>>
    BY <2>3 DEF IsInjective
  <2> QED
    BY <2>1, <2>4 DEF Stage
<1>5. CASE AddMeasureListener(t)
  <2>1. /\ pc[t] \in {"listen", "listenNew"} /\ pc'[t] = IF pc[t] = "listen" THEN "append" ELSE "idle"
        /\ m_Listening' = m_Listening \cup {u} /\ UNCHANGED <<lists, registers>>
    BY <1>5 DEF AddMeasureListener, Continue, Return, Goto
  <2>2. Registered(u)' = Registered(u)
    BY <2>1 DEF Registered
  <2>3. CASE pc[t] = "listen"
    <3>1. Registered(u) = <<>> /\ request[t].callback \notin ToSet(<<>>)
      BY <2>3 DEF Stage, ToSet
    <3> QED
      BY <1>0, <1>3, <2>1, <2>2, <2>3, <3>1 DEF Stage
  <2>4. CASE pc[t] = "listenNew"
    BY <2>1, <2>2, <2>4 DEF Stage, InStep
  <2> QED
    BY <2>1, <2>3, <2>4
<1>6. CASE AddCallback(t)
  <2>1. /\ pc[t] = "append" /\ pc'[t] = "idle" /\ UNCHANGED <<registers, m_Listening>>
        /\ lists' = [lists EXCEPT ![list[t]] = Append(@, request[t].callback)]
    BY <1>6 DEF AddCallback, Return, Goto
  <2>2. Registered(u)' = Append(Registered(u), request[t].callback)
    BY <1>1, <1>3, <2>1 DEF Registered
  <2>3. IsInjective(Registered(u)')
    BY <1>0, <1>2, <2>1, <2>2, AppendInjectiveToSet DEF Stage
  <2>4. Registered(u)' # <<>>
    BY <1>0, <1>2, <2>2
  <2> QED
    BY <2>1, <2>3, <2>4 DEF Stage, InStep
<1>7. CASE RemoveCallback(t)
  <2>1. /\ pc[t] = "drop" /\ pc'[t] = "removed" /\ UNCHANGED <<registers, m_Listening>>
        /\ (request[t].callback \in ToSet(lists[list[t]]) =>
                lists' = [lists EXCEPT ![list[t]] = RemoveFirst(@, request[t].callback)])
    BY <1>7 DEF RemoveCallback, Continue, Goto
  <2>2. Registered(u)' = RemoveFirst(Registered(u), request[t].callback)
    BY <1>1, <1>3, <2>1 DEF Registered, Stage
  <2>3. IsInjective(Registered(u)')
    BY <1>2, <2>1, <2>2, RemoveFirstProperties DEF Stage
  <2>4. Registered(u) # <<>>
    BY <2>1 DEF Stage, ToSet
  <2>5. u \in m_Listening
    BY <2>1, <2>4 DEF Stage, InStep
  <2> QED
    BY <1>0, <1>3, <2>1, <2>3, <2>5 DEF Stage
<1>8. CASE RemoveMeasureListener(t)
  <2>1. /\ pc[t] = "unlisten" /\ pc'[t] = "idle" /\ UNCHANGED <<lists, registers>>
        /\ m_Listening' = m_Listening \ {u}
    BY <1>8 DEF RemoveMeasureListener, Return, Goto
  <2>2. Registered(u)' = Registered(u)
    BY <2>1 DEF Registered
  <2> QED
    BY <2>1, <2>2 DEF Stage, InStep
<1>9. ASSUME UNCHANGED <<lists, registers, m_Listening>> PROVE Registered(u)' = Registered(u) /\ InStep(u)' = InStep(u)
  BY <1>9 DEF Registered, InStep
<1>10. CASE TestEmpty(t)
  <2>1. /\ pc[t] = "test" /\ UNCHANGED <<lists, registers, m_Listening>>
        /\ pc'[t] = IF lists[list[t]] = <<>> THEN "listen" ELSE "compare"
    BY <1>10 DEF TestEmpty, Continue, Goto
  <2> QED
    BY <1>0, <1>3, <1>9, <2>1 DEF Stage
<1>11. CASE CompareCallbacks(t)
  <2>1. /\ pc[t] = "compare" /\ UNCHANGED <<lists, registers, m_Listening>>
        /\ pc'[t] = IF request[t].callback \in ToSet(lists[list[t]]) THEN "idle" ELSE "append"
    BY <1>11 DEF CompareCallbacks, Continue, Return, Goto
  <2>2. u \in m_Listening /\ InStep(u)
    BY <2>1 DEF Stage, InStep
  <2> QED
    BY <1>0, <1>3, <1>9, <2>1, <2>2 DEF Stage
<1>12. CASE SearchCallback(t)
  <2>1. /\ pc[t] = "search" /\ UNCHANGED <<lists, registers, m_Listening>>
        /\ pc'[t] = IF request[t].callback \in ToSet(lists[list[t]]) THEN "drop" ELSE "idle"
    BY <1>12 DEF SearchCallback, Continue, Return, Goto
  <2> QED
    BY <1>0, <1>3, <1>9, <2>1 DEF Stage
<1>13. CASE CheckEmpty(t)
  <2>1. /\ pc[t] = "removed" /\ UNCHANGED <<lists, registers, m_Listening>>
        /\ pc'[t] = IF lists[list[t]] = <<>> THEN "unlisten" ELSE "idle"
    BY <1>13 DEF CheckEmpty, Continue, Return, Goto
  <2>2. pc'[t] = "idle" => InStep(u)
    BY <1>3, <2>1 DEF Stage, InStep
  <2> QED
    BY <1>0, <1>3, <1>9, <2>1, <2>2 DEF Stage
<1> QED
  BY <1>4, <1>5, <1>6, <1>7, <1>8, <1>10, <1>11, <1>12, <1>13 DEF Web
\* A request begins: it takes the list of its URL, and is noticed if another one is at work there.
LEMMA Finds ==
    ASSUME Types, NEW t \in Threads, FindStep(t)
    PROVE  \E r \in Request :
               /\ pc[t] = "idle" /\ pc'[t] # "idle" /\ request'[t] = r
               /\ list'[t] = registers[r.url]
               /\ UNCHANGED <<lists, registers, m_Listening>>
               /\ overlapped \subseteq overlapped'
               /\ (\E s \in Threads : pc[s] # "idle" /\ request[s].url = r.url) => r.url \in overlapped'
               /\ pc'[t] \in {"create", "test", "search"}
               /\ (pc'[t] = "create" => registers[r.url] = 0)
<1> USE DEF Types, WebTypes
<1>1. PICK r \in Requests[t] : FindCallbacks(t, r) \/ FindList(t, r)
  BY DEF FindStep
<1>2. r \in Request
  BY RegistersAssumption
<1>3. \E p \in {"create", "test", "search"} :
        /\ pc[t] = "idle" /\ Begin(t, r, registers[r.url], p) /\ (p = "create" => registers[r.url] = 0)
  BY <1>1 DEF FindCallbacks, FindList
<1>4. PICK p \in {"create", "test", "search"} :
        /\ pc[t] = "idle" /\ Begin(t, r, registers[r.url], p) /\ (p = "create" => registers[r.url] = 0)
  BY <1>3
<1>5. pc'[t] = p /\ request'[t] = r /\ list'[t] = registers[r.url] /\ UNCHANGED <<lists, registers, m_Listening>>
  BY <1>4 DEF Begin, Goto
<1>6. /\ overlapped \subseteq overlapped'
      /\ (\E s \in Threads : pc[s] # "idle" /\ request[s].url = r.url) => r.url \in overlapped'
  BY <1>4 DEF Begin
<1> QED
  BY <1>2, <1>4, <1>5, <1>6

LEMMA WebOverlaps == ASSUME NEW t \in Threads, Web(t) PROVE overlapped' = overlapped
  BY DEF Web, CreateCallbacks, TestEmpty, CompareCallbacks, AddMeasureListener, AddCallback,
         SearchCallback, RemoveCallback, CheckEmpty, RemoveMeasureListener

LEMMA ApartKept == ASSUME Types, Apart, [Next]_vars PROVE Apart'
<1> USE DEF Types, Apart
<1>1. ASSUME NEW t \in Threads, FindStep(t) PROVE Apart'
  <2>1. PICK r \in Request :
            /\ pc[t] = "idle" /\ pc'[t] # "idle" /\ request'[t] = r
            /\ list'[t] = registers[r.url]
            /\ UNCHANGED <<lists, registers, m_Listening>>
            /\ overlapped \subseteq overlapped'
            /\ (\E s \in Threads : pc[s] # "idle" /\ request[s].url = r.url) => r.url \in overlapped'
    BY <1>1, Finds
  <2>2. \A s \in Threads : s # t => pc'[s] = pc[s] /\ request'[s] = request[s] /\ list'[s] = list[s]
    BY <1>1, Moves
  <2>3. OneAtATime'
    BY <2>1, <2>2 DEF OneAtATime
  <2>4. r.url \in Urls
    BY DEF Request
  <2>5. ListsApart'
    BY <2>1, <2>2, <2>4 DEF ListsApart
  <2> QED
    BY <2>3, <2>5
<1>2. ASSUME NEW t \in Threads, Web(t) PROVE Apart'
  <2>1. \A s \in Threads : s # t => pc'[s] = pc[s] /\ request'[s] = request[s] /\ list'[s] = list[s]
    BY <1>2, Moves
  <2>2. /\ pc[t] # "idle" /\ request[t].url \in Urls
        /\ (pc'[t] # "idle" => request'[t] = request[t] /\ list'[t] = list[t])
    <3>1. pc[t] # "idle"
      BY <1>2, WebKinds DEF Grows, Appends, Shrinks, Listens, Unlistens, Looks
    <3> QED
      BY <1>2, <3>1, Moves DEF Request
  <2>3. OneAtATime'
    <3>1. overlapped' = overlapped
      BY <1>2, WebOverlaps
    <3> QED
      BY <2>1, <2>2, <3>1 DEF OneAtATime
  <2>4. pc'[t] = "idle" => list'[t] = 0
    BY <1>2, Moves
  <2>5. registers' = registers \/ (pc[t] = "create" /\ registers' = [registers EXCEPT ![request[t].url] = Len(lists) + 1])
    BY <1>2, WebKinds DEF Grows, Appends, Shrinks, Listens, Unlistens, Looks
  <2>6. /\ \A s \in Threads : list[s] \in 0..Len(lists) /\ Len(lists) \in Nat
        /\ registers \in [Urls -> 0..Len(lists)]
    BY DEF WebTypes
  <2>7. \A u, v \in Urls : registers'[u] # 0 /\ registers'[u] = registers'[v] => u = v
    BY <2>2, <2>5, <2>6 DEF ListsApart
  <2>8. ASSUME NEW s \in Threads, NEW v \in Urls, list'[s] # 0, registers'[v] = list'[s]
        PROVE  pc'[s] # "idle" /\ request'[s].url = v
    <3>1. list'[s] = list[s] /\ pc'[s] # "idle" /\ request'[s] = request[s]
      <4>1. CASE s = t
        BY <2>2, <2>4, <2>8, <4>1
      <4>2. CASE s # t
        BY <2>1, <2>8, <4>2 DEF ListsApart
      <4> QED
        BY <4>1, <4>2
    <3>2. registers[v] = list[s]
      BY <2>2, <2>5, <2>6, <2>8, <3>1
    <3> QED
      BY <2>8, <3>1, <3>2 DEF ListsApart
  <2>9. \A s \in Threads : pc'[s] = "idle" => list'[s] = 0
    BY <2>1, <2>4 DEF ListsApart
  <2>10. ListsApart'
    BY <2>7, <2>8, <2>9 DEF ListsApart
  <2> QED
    BY <2>3, <2>10
<1>3. CASE BusStep \/ UNCHANGED vars
  <2>1. UNCHANGED webVars
    BY <1>3, BusLeavesWeb DEF vars
  <2> QED
    BY <2>1 DEF webVars, OneAtATime, ListsApart
<1> QED
  BY <1>1, <1>2, <1>3 DEF Next, FindStep, BusStep

\* The stage of a request is that of before if it has not moved and nothing of its URL has.
LEMMA SameStage ==
    ASSUME NEW s \in Threads, NEW u \in Urls, pc'[s] = pc[s], request'[s] = request[s], list'[s] = list[s],
           registers'[u] = registers[u], Registered(u)' = Registered(u),
           u \in m_Listening' <=> u \in m_Listening, Stage(s, u)
    PROVE  Stage(s, u)'
<1>1. InStep(u) => InStep(u)'
  BY DEF InStep
<1> QED
  BY <1>1 DEF Stage

LEMMA StagesKept == ASSUME Types, Apart, Stages, [Next]_vars PROVE Stages'
<1>1. ASSUME NEW t \in Threads, FindStep(t) \/ Web(t), NEW u \in Urls \ overlapped'
      PROVE  /\ (\A s \in Threads : pc'[s] # "idle" => request'[s].url # u) =>
                    InStep(u)' /\ IsInjective(Registered(u)')
             /\ \A s \in Threads : pc'[s] # "idle" /\ request'[s].url = u => Stage(s, u)'
  <2>1. \A s \in Threads : s # t => pc'[s] = pc[s] /\ request'[s] = request[s] /\ list'[s] = list[s]
    BY <1>1, Moves DEF Types
  <2>2. CASE FindStep(t)
    <3>1. PICK r \in Request :
            /\ pc[t] = "idle" /\ pc'[t] # "idle" /\ request'[t] = r
            /\ list'[t] = registers[r.url]
            /\ UNCHANGED <<lists, registers, m_Listening>>
            /\ overlapped \subseteq overlapped'
            /\ (\E s \in Threads : pc[s] # "idle" /\ request[s].url = r.url) => r.url \in overlapped'
            /\ pc'[t] \in {"create", "test", "search"}
            /\ (pc'[t] = "create" => registers[r.url] = 0)
      BY <2>2, Finds
    <3>2. Registered(u)' = Registered(u) /\ InStep(u)' = InStep(u) /\ u \in Urls \ overlapped
      BY <3>1 DEF Registered, InStep
    <3>3. CASE r.url = u
      <4>1. \A s \in Threads : pc[s] # "idle" => request[s].url # u
        BY <3>1, <3>3
      <4>2. InStep(u) /\ IsInjective(Registered(u))
        BY <3>2, <4>1 DEF Stages
      <4>3. Stage(t, u)'
        <5>1. registers[u] = 0 => u \notin m_Listening
          BY <4>2 DEF InStep, Registered
        <5> QED
          BY <3>1, <3>2, <3>3, <4>2, <5>1 DEF Stage
      <4> QED
        BY <2>1, <3>1, <3>3, <4>1, <4>3
    <3>4. CASE r.url # u
      <4>1. \A s \in Threads : pc'[s] # "idle" /\ request'[s].url = u =>
                s # t /\ pc[s] # "idle" /\ request[s].url = u
        BY <2>1, <3>1, <3>4
      <4>2. \A s \in Threads : pc[s] # "idle" /\ request[s].url = u =>
                s # t /\ pc'[s] # "idle" /\ request'[s].url = u
        BY <2>1, <3>1
      <4>3. (\A s \in Threads : pc'[s] # "idle" => request'[s].url # u) =>
                InStep(u)' /\ IsInjective(Registered(u)')
        BY <3>2, <4>2 DEF Stages
      <4>4. ASSUME NEW s \in Threads, pc'[s] # "idle", request'[s].url = u PROVE Stage(s, u)'
        <5>1. Stage(s, u)
          BY <3>2, <4>1, <4>4 DEF Stages
        <5> QED
          BY <2>1, <3>1, <3>2, <4>1, <4>4, <5>1, SameStage
      <4> QED
        BY <4>3, <4>4
    <3> QED
      BY <3>3, <3>4
  <2>3. CASE Web(t)
    <3>1. /\ pc[t] # "idle" /\ request[t].url \in Urls
          /\ (pc'[t] # "idle" => request'[t] = request[t] /\ list'[t] = list[t])
      <4>1. pc[t] # "idle"
        BY <2>3, WebKinds DEF Types, Grows, Appends, Shrinks, Listens, Unlistens, Looks
      <4> QED
        BY <2>3, <4>1, Moves DEF Types, Request
    <3>2. u \in Urls \ overlapped
      BY <2>3, WebOverlaps
    <3>3. CASE request[t].url = u
      <4>1. \A s \in Threads : s # t /\ pc[s] # "idle" => request[s].url # u
        BY <3>1, <3>2, <3>3 DEF Apart, OneAtATime
      <4>2. Stage(t, u)
        BY <3>1, <3>2, <3>3 DEF Stages
      <4>3. /\ pc'[t] = "idle" => InStep(u)' /\ IsInjective(Registered(u)')
            /\ pc'[t] # "idle" => Stage(t, u)'
        BY <2>3, <3>3, <4>2, OwnStage
      <4> QED
        BY <2>1, <3>1, <3>3, <4>1, <4>3
    <3>4. CASE request[t].url # u
      <4>1. /\ registers'[u] = registers[u] /\ Registered(u)' = Registered(u)
            /\ u \in m_Listening' <=> u \in m_Listening
        BY <2>3, <3>4, Elsewhere DEF Apart
      <4>2. \A s \in Threads : (pc'[s] # "idle" /\ request'[s].url = u) =>
                s # t /\ pc[s] # "idle" /\ request[s].url = u
        BY <2>1, <3>1, <3>4
      <4>3. \A s \in Threads : (pc[s] # "idle" /\ request[s].url = u) =>
                s # t /\ pc'[s] # "idle" /\ request'[s].url = u
        BY <2>1, <3>4
      <4>4. (\A s \in Threads : pc'[s] # "idle" => request'[s].url # u) =>
                InStep(u)' /\ IsInjective(Registered(u)')
        <5>1. InStep(u) => InStep(u)'
          BY <4>1 DEF InStep
        <5> QED
          BY <3>2, <4>1, <4>3, <5>1 DEF Stages
      <4>5. ASSUME NEW s \in Threads, pc'[s] # "idle", request'[s].url = u PROVE Stage(s, u)'
        <5>1. Stage(s, u)
          BY <3>2, <4>2, <4>5 DEF Stages
        <5> QED
          BY <2>1, <4>1, <4>2, <4>5, <5>1, SameStage
      <4> QED
        BY <4>4, <4>5
    <3> QED
      BY <3>3, <3>4
  <2> QED
    BY <1>1, <2>2, <2>3
<1>2. CASE \E t \in Threads : FindStep(t) \/ Web(t)
  BY <1>1, <1>2 DEF Stages
<1>3. CASE BusStep \/ UNCHANGED vars
  <2>1. UNCHANGED webVars
    BY <1>3, BusLeavesWeb DEF vars
  <2> QED
    BY <2>1 DEF webVars, Stages, Stage, InStep, Registered
<1> QED
  BY <1>2, <1>3 DEF Next, FindStep, BusStep

-----------------------------------------------------------------------------
(* Every callback is notified. *)

\* While undisturbed, a callback registered for all of the dispatch has been posted to or is still
\* to come: its URL is yet to be visited or at hand, and so is its place in the list.
Notifying ==
    Dispatching /\ ~disturbed =>
        /\ \A p \in steady : p[1] \in m_Listening /\ MeasureOf[p[1]] = measure /\ p[2] \in ToSet(Registered(p[1]))
        /\ bus = "next" => \A p \in steady : p[1] \in unvisited
        /\ bus \in {"get", "list"} => \A p \in steady : p[1] \in unvisited \cup {url}
        /\ bus \in {"list", "notify", "post"} => url \in m_Listening /\ MeasureOf[url] = measure
        /\ bus \in {"notify", "post"} =>
            /\ iterated = registers[url]
            /\ \A i \in 1..cursor : <<url, lists[iterated][i]>> \in posted \/ (bus = "post" /\ i = cursor)
        /\ bus = "post" => callback = lists[iterated][cursor]

LEMMA ChangesOfLists ==
    ASSUME NEW t \in Threads, FindStep(t) \/ Web(t)
    PROVE  UNCHANGED <<lists, registers, m_Listening, steady, disturbed>> \/ (Dispatching => disturbed')
<1> USE DEF Disturb, NothingDisturbed
<1>1. UNCHANGED <<lists, registers, m_Listening, steady, disturbed>> \/ disturbed' = (disturbed \/ Dispatching)
  BY DEF FindStep, FindCallbacks, FindList, Begin, Web, CreateCallbacks, TestEmpty, CompareCallbacks,
         AddMeasureListener, AddCallback, SearchCallback, RemoveCallback, CheckEmpty, RemoveMeasureListener
<1>2. CASE disturbed' = (disturbed \/ Dispatching)
  BY <1>2
<1> QED
  BY <1>1, <1>2

LEMMA NotifyingKept == ASSUME Types, Notifying, [Next]_vars PROVE Notifying'
<1>0. /\ bus \in {"idle", "next", "get", "list", "notify", "post", "dead"}
      /\ cursor \in Nat /\ m_Listening \subseteq Urls
  BY DEF Types, WebTypes, BusTypes
<1>1. ASSUME NEW t \in Threads, FindStep(t) \/ Web(t) PROVE Notifying'
  <2>1. UNCHANGED <<bus, measure, unvisited, url, iterated, cursor, callback, posted>>
    BY <1>1, WebLeavesBus DEF busVars
  <2>2. Dispatching' = Dispatching
    BY <2>1 DEF Dispatching
  <2>3. CASE UNCHANGED <<lists, registers, m_Listening, steady, disturbed>>
    BY <2>1, <2>2, <2>3 DEF Notifying, Registered
  <2>4. CASE Dispatching => disturbed'
    BY <2>2, <2>4 DEF Notifying
  <2> QED
    BY <1>1, <2>3, <2>4, ChangesOfLists
<1>2. ASSUME NEW m \in Measures, Dispatch(m) PROVE Notifying'
  <2>1. bus' = "next" /\ measure' = m /\ unvisited' = m_Listening /\ UNCHANGED <<lists, registers, m_Listening>>
    BY <1>2 DEF Dispatch, webVars
  <2>2. \A p \in steady' : p[1] \in m_Listening /\ MeasureOf[p[1]] = m /\ p[2] \in ToSet(Registered(p[1]))
    BY <1>2 DEF Dispatch
  <2> QED
    BY <2>1, <2>2 DEF Notifying, Registered
<1>3. ASSUME Finish \/ Die PROVE Notifying'
  BY <1>3 DEF Finish, Die, Notifying, Dispatching
<1>5. CASE NextUrl
  <2>1. ASSUME NEW u \in unvisited, bus = "next", url' = u, unvisited' = unvisited \ {u}, bus' = "get",
               UNCHANGED <<measure, posted>>, NothingDisturbed, UNCHANGED webVars
        PROVE  Notifying'
    <3>1. UNCHANGED <<lists, registers, m_Listening, steady, disturbed>>
      BY <2>1 DEF NothingDisturbed, webVars
    <3> QED
      BY <2>1, <3>1 DEF Notifying, Dispatching, Registered
  <2> QED
    BY <1>3, <1>5, <2>1 DEF NextUrl
<1>6. CASE GetMeasure
  <2>1. CASE /\ bus = "get" /\ url \in m_Listening /\ bus' = IF MeasureOf[url] = measure THEN "list" ELSE "next"
             /\ UNCHANGED <<measure, unvisited, url, posted>> /\ NothingDisturbed /\ UNCHANGED webVars
    <3>1. UNCHANGED <<lists, registers, m_Listening, steady, disturbed>>
      BY <2>1 DEF NothingDisturbed, webVars
    <3> QED
      BY <2>1, <3>1 DEF Notifying, Dispatching, Registered
  <2> QED
    BY <1>3, <1>6, <2>1 DEF GetMeasure
<1>7. CASE GetCallbacks
  BY <1>7 DEF GetCallbacks, Notifying, Dispatching, Registered, webVars
<1>8. CASE NextCallback
  <2>1. CASE bus = "notify" /\ TakeCallback /\ UNCHANGED webVars
    <3>1. UNCHANGED <<lists, registers, m_Listening, steady, disturbed, url, iterated, posted, measure>>
      BY <2>1 DEF TakeCallback, NothingDisturbed, webVars
    <3>2. bus' = "post" /\ cursor' = cursor + 1 /\ callback' = lists[iterated][cursor + 1]
      BY <2>1 DEF TakeCallback
    <3>3. \A i \in 1..(cursor + 1) : i \in 1..cursor \/ i = cursor + 1
      BY <1>0
    <3> QED
      BY <2>1, <3>1, <3>2, <3>3 DEF Notifying, Dispatching, Registered
  <2> QED
    BY <1>3, <1>8, <2>1 DEF NextCallback
<1>9. CASE Post
  <2>1. bus = "post" /\ bus' = "notify" /\ posted' = posted \cup {<<url, callback>>}
    BY <1>9 DEF Post
  <2>2. UNCHANGED <<lists, registers, m_Listening, steady, disturbed, url, iterated, cursor, measure>>
    BY <1>9 DEF Post, webVars
  <2> QED
    BY <2>1, <2>2 DEF Notifying, Dispatching, Registered
<1>10. CASE UNCHANGED vars
  BY <1>10 DEF vars, webVars, busVars, Notifying, Dispatching, Registered
<1> QED
  BY <1>1, <1>2, <1>5, <1>6, <1>7, <1>8, <1>9, <1>10 DEF Next, FindStep, Bus

\* A dispatch that ends has come to the end of the URLs or of the list of one.
LEMMA EndsNotified ==
    ASSUME Types, Notifying, [Next]_vars, Dispatching, bus' = "idle", ~disturbed, OneUrl
    PROVE  steady \subseteq posted
<1>0. HaveLists /\ HistoryTypes
  BY DEF Types
<1>1. bus \in {"next", "notify"} /\ (NextUrl \/ NextCallback)
  <2>1. ASSUME NEW t \in Threads, FindStep(t) \/ Web(t) PROVE FALSE
    BY <2>1, WebLeavesBus DEF busVars, Dispatching
  <2>2. ASSUME NEW m \in Measures, Dispatch(m) PROVE FALSE
    BY <2>2 DEF Dispatch
  <2>3. ~GetMeasure /\ ~GetCallbacks /\ ~Post
    BY DEF GetMeasure, GetCallbacks, Post, Die
  <2>4. ~(UNCHANGED vars)
    BY DEF vars, busVars, Dispatching
  <2> QED
    BY <2>1, <2>2, <2>3, <2>4 DEF Next, FindStep, Bus, NextUrl, NextCallback
<1>2. CASE NextUrl
  <2>1. bus = "next" /\ unvisited = {}
    BY <1>2 DEF NextUrl, Die
  <2> QED
    BY <2>1 DEF Notifying
<1>3. CASE NextCallback
  <2>1. bus = "notify" /\ cursor = Len(lists[iterated])
    BY <1>3 DEF NextCallback, TakeCallback, Die
  <2>2. /\ url \in m_Listening /\ MeasureOf[url] = measure /\ iterated = registers[url]
        /\ \A i \in 1..cursor : <<url, lists[iterated][i]>> \in posted
    BY <2>1 DEF Notifying
  <2>3. registers[url] # 0 /\ Registered(url) = lists[iterated]
    BY <2>2, <1>0 DEF Registered, HaveLists
  <2>4. ASSUME NEW p \in steady PROVE p \in posted
    <3>1. p \in Urls \X Callbacks
      BY <1>0 DEF HistoryTypes
    <3>2. p[1] = url /\ p[2] \in ToSet(lists[iterated])
      BY <2>2, <2>3 DEF Notifying, OneUrl
    <3>3. PICK i \in 1..Len(lists[iterated]) : p[2] = lists[iterated][i]
      BY <3>2 DEF ToSet
    <3>4. <<url, p[2]>> \in posted
      BY <2>1, <2>2, <3>3
    <3> QED
      BY <3>1, <3>2, <3>4
  <2> QED
    BY <2>4
<1> QED
  BY <1>1, <1>2, <1>3

-----------------------------------------------------------------------------
(* The theorems. *)

IInv == Types /\ Survives /\ Apart /\ Stages /\ Notifying

LEMMA Invariance == Spec => []IInv
<1>1. Init => IInv
  <2> SUFFICES ASSUME Init PROVE IInv
    OBVIOUS
  <2>1. Types
    BY TypesFirst
  <2>2. Survives
    BY DEF Init, Survives, Dispatching
  <2>3. Apart
    BY DEF Init, Apart, OneAtATime, ListsApart
  <2>4. \A u \in Urls : Registered(u) = <<>> /\ IsInjective(<<>>)
    BY DEF Init, Registered, IsInjective
  <2>5. Stages
    BY <2>4 DEF Init, Stages, InStep
  <2>6. Notifying
    BY DEF Init, Notifying, Dispatching
  <2> QED
    BY <2>1, <2>2, <2>3, <2>5, <2>6 DEF IInv
<1>2. IInv /\ [Next]_vars => IInv'
  BY TypesKept, SurvivesKept, ApartKept, StagesKept, NotifyingKept DEF IInv
<1> QED
  BY <1>1, <1>2, PTL DEF Spec

\* Every variable keeps its type, and what is listened to has a list.
THEOREM TypeCorrect == Spec => []TypeOK
<1>1. IInv => TypeOK
  BY TypesAreTypes DEF IInv
<1> QED
  BY <1>1, Invariance, PTL

\* Only a registration or its removal that falls into a dispatch can end the reading thread.
THEOREM OnlyDisturbedDies == Spec => []DiesOnlyDisturbed
<1>1. IInv => DiesOnlyDisturbed
  BY DEF IInv, Survives, DiesOnlyDisturbed
<1> QED
  BY <1>1, Invariance, PTL

\* addRegister and removeRegister, one at a time on each URL, keep listening to what has callbacks, and
\* to nothing else, and put no callback twice into a list.
THEOREM ListsAndListeners == Spec => []ListensWhileRegistered
<1>1. IInv => ListensWhileRegistered
  BY DEF IInv, Stages, InStep, ListensWhileRegistered, Settled
<1> QED
  BY <1>1, Invariance, PTL

\* A dispatch that nothing disturbs posts to every callback that was registered when it began, if
\* the measure has one URL.
THEOREM AllNotified == Spec => NotifiesAll
<1>1. IInv /\ [Next]_vars => (Dispatching /\ bus' = "idle" /\ ~disturbed /\ OneUrl => steady \subseteq posted)
  BY EndsNotified DEF IInv
<1> QED
  BY <1>1, Invariance, PTL DEF Spec, NotifiesAll
=============================================================================
