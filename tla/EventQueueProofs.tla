--------------------------- MODULE EventQueueProofs ---------------------------
(***************************************************************************)
(* The locking discipline of the event queue and the conservation of its   *)
(* events, for any number of threads, calls and events.                    *)
(***************************************************************************)
EXTENDS EventQueue, FiniteSetTheorems, TLAPS

\* A thread that has events to post has at least one of them in its list.
PostingHasEvents ==
    \A t \in Thread : pc[t] \in {"posting", "probe", "busy", "callback"} => local[t] # <<>>

IInv == TypeOK /\ PostingHasEvents /\ LockIsHeldInside

LEMMA InitInv == Init => IInv
BY EventAssumption DEF Init, IInv, TypeOK, PostingHasEvents, LockIsHeldInside, Where, Thread

LEMMA LenOfEmpty == \A s : s = <<>> => Len(s) = 0
OBVIOUS

\* The first event of a list is removed; the thread stays in the posting states
\* only if there is another one.
LEMMA FinishFirstInv ==
    ASSUME IInv, NEW t \in Thread, local[t] # <<>>, FinishFirst(t)
    PROVE  /\ local' \in [Thread -> Seq(Event)]
           /\ pc' \in [Thread -> Where]
           /\ pc'[t] \in {"idle", "posting"}
           /\ pc'[t] = "posting" => local'[t] # <<>>
           /\ \A u \in Thread : u # t => pc'[u] = pc[u] /\ local'[u] = local[u]
<1>1. local[t] \in Seq(Event) /\ local \in [Thread -> Seq(Event)] /\ pc \in [Thread -> Where]
  BY DEF IInv, TypeOK
<1>2. Tail(local[t]) \in Seq(Event) /\ Len(Tail(local[t])) = Len(local[t]) - 1
  BY <1>1
<1>3. Len(local[t]) # 1 => Tail(local[t]) # <<>>
  <2>1. Len(local[t]) \in Nat
    BY <1>1
  <2>2. Tail(local[t]) = <<>> => Len(Tail(local[t])) = 0
    BY LenOfEmpty, Zenon
  <2> QED BY <1>2, <2>1, <2>2
<1> QED BY <1>1, <1>2, <1>3 DEF FinishFirst, Where

LEMMA NextInv == IInv /\ [Next]_vars => IInv'
<1> SUFFICES ASSUME IInv, [Next]_vars PROVE IInv'
  OBVIOUS
<1> USE EventAssumption DEF IInv
<1>1. ASSUME NEW t \in Thread, GetLock(t) PROVE IInv'
  BY <1>1 DEF GetLock, TypeOK, PostingHasEvents, LockIsHeldInside, Where, Thread
<1>2. ASSUME NEW t \in Thread, PostLocked(t) PROVE IInv'
  <2>1. NewEvent(t) \in Event
    BY <1>2 DEF PostLocked, NewEvent, Event, TypeOK
  <2>2. TypeOK'
    BY <1>2, <2>1 DEF PostLocked, TypeOK
  <2> QED BY <1>2, <2>2 DEF PostLocked, PostingHasEvents, LockIsHeldInside
<1>3. ASSUME NEW t \in Thread, PostUnlocked(t) PROVE IInv'
  <2>1. NewEvent(t) \in Event
    BY <1>3 DEF PostUnlocked, NewEvent, Event, TypeOK
  <2>2. <<NewEvent(t)>> \in Seq(Event) /\ <<NewEvent(t)>> # <<>>
    BY <2>1
  <2>3. TypeOK'
    BY <1>3, <2>2 DEF PostUnlocked, TypeOK, Where
  <2>4. PostingHasEvents'
    BY <1>3, <2>2 DEF PostUnlocked, TypeOK, PostingHasEvents
  <2>5. LockIsHeldInside'
    BY <1>3 DEF PostUnlocked, TypeOK, LockIsHeldInside
  <2> QED BY <2>3, <2>4, <2>5
<1>4. ASSUME NEW t \in Thread, TakeQueue(t) PROVE IInv'
  BY <1>4 DEF TakeQueue, LeftAfterTake, TypeOK, PostingHasEvents, LockIsHeldInside, Where
<1>5. ASSUME NEW t \in Thread, Unlock(t) PROVE IInv'
  BY <1>5 DEF Unlock, TypeOK, PostingHasEvents, LockIsHeldInside, Where, Thread
<1>6. ASSUME NEW t \in Thread, TryLock(t) PROVE IInv'
  BY <1>6 DEF TryLock, TypeOK, PostingHasEvents, LockIsHeldInside, Where, Thread
<1>7. ASSUME NEW t \in Thread, Requeue(t) PROVE IInv'
  <2>1. pc[t] = "busy" /\ local[t] # <<>> /\ FinishFirst(t)
    BY <1>7 DEF Requeue, PostingHasEvents
  <2>2. Head(local[t]) \in Event
    BY <2>1 DEF TypeOK
  <2>3. queue' \in Seq(Event)
    BY <1>7, <2>2 DEF Requeue, Requeued, TypeOK
  <2> QED BY <1>7, <2>1, <2>3, FinishFirstInv
          DEF Requeue, TypeOK, PostingHasEvents, LockIsHeldInside
<1>8. ASSUME NEW t \in Thread, Unprobe(t) PROVE IInv'
  BY <1>8 DEF Unprobe, AfterProbe, TypeOK, PostingHasEvents, LockIsHeldInside, Where, Thread
<1>9. ASSUME NEW t \in Thread, Callback(t) PROVE IInv'
  <2>1. pc[t] = "callback" /\ local[t] # <<>> /\ FinishFirst(t)
    BY <1>9 DEF Callback, PostingHasEvents
  <2>2. Head(local[t]) \in Event
    BY <2>1 DEF TypeOK
  <2>3. delivered' \in Seq(Event)
    BY <1>9, <2>2 DEF Callback, TypeOK
  <2> QED BY <1>9, <2>1, <2>3, FinishFirstInv
          DEF Callback, TypeOK, PostingHasEvents, LockIsHeldInside
<1>10. ASSUME NEW t \in Thread, Join(t) PROVE IInv'
  BY <1>10 DEF Join, TypeOK, PostingHasEvents, LockIsHeldInside, Where
<1>11. ASSUME NEW t \in App, StopThread(t) PROVE IInv'
  BY <1>11 DEF StopThread, TypeOK, PostingHasEvents, LockIsHeldInside, Where, Thread
<1>12. ASSUME Exit PROVE IInv'
  BY <1>12 DEF Exit, TypeOK, PostingHasEvents, LockIsHeldInside, Where, Thread
<1>13. ASSUME NEW t \in Thread, Enter(t) PROVE IInv'
  <2>1. calls' \in [App -> 0 .. MaxCalls]
    <3>1. CASE UNCHANGED calls
      BY <3>1 DEF TypeOK
    <3>2. CASE t \in App /\ calls[t] < MaxCalls /\ calls' = [calls EXCEPT ![t] = @ + 1]
      BY <3>2 DEF TypeOK
    <3> QED BY <1>13, <3>1, <3>2 DEF Enter
  <2>2. TypeOK'
    BY <1>13, <2>1 DEF Enter, TypeOK, Where
  <2>3. PostingHasEvents'
    BY <1>13 DEF Enter, TypeOK, PostingHasEvents
  <2>4. LockIsHeldInside'
    BY <1>13 DEF Enter, TypeOK, LockIsHeldInside, Thread
  <2> QED BY <2>2, <2>3, <2>4
<1>14. CASE UNCHANGED vars
  BY <1>14 DEF vars, TypeOK, PostingHasEvents, LockIsHeldInside
<1> QED BY <1>1, <1>2, <1>3, <1>4, <1>5, <1>6, <1>7, <1>8, <1>9, <1>10, <1>11, <1>12, <1>13,
        <1>14
        DEF Next, Continue

-----------------------------------------------------------------------------
(* Lists without repetitions *)

Items(s) == {s[i] : i \in DOMAIN s}

Once(s) == \A i, j \in DOMAIN s : s[i] = s[j] => i = j

LEMMA EmptyItems == Items(<<>>) = {} /\ Once(<<>>)
BY DEF Items, Once

LEMMA OnlyEmpty == ASSUME NEW s \in Seq(Event), Len(s) = 0 PROVE s = <<>>
OBVIOUS

LEMMA SingleItems == ASSUME NEW e PROVE Items(<<e>>) = {e} /\ Once(<<e>>)
BY DEF Items, Once

LEMMA AppendItems ==
    ASSUME NEW s \in Seq(Event), NEW e \in Event
    PROVE  /\ Items(Append(s, e)) = Items(s) \cup {e}
           /\ Once(s) /\ e \notin Items(s) => Once(Append(s, e))
<1> DEFINE a == Append(s, e)
<1>1. /\ DOMAIN s = 1 .. Len(s) /\ Len(s) \in Nat
      /\ DOMAIN a = 1 .. Len(s) + 1
      /\ a[Len(s) + 1] = e /\ \A i \in 1 .. Len(s) : a[i] = s[i]
  OBVIOUS
<1> HIDE DEF a
<1>2. Items(a) = Items(s) \cup {e}
  <2>1. \A i \in DOMAIN a : a[i] = e \/ \E j \in DOMAIN s : a[i] = s[j]
    BY <1>1
  <2>2. \A j \in DOMAIN s : j \in DOMAIN a /\ a[j] = s[j]
    BY <1>1
  <2>3. Len(s) + 1 \in DOMAIN a
    BY <1>1
  <2> QED BY <1>1, <2>1, <2>2, <2>3 DEF Items
<1>3. ASSUME Once(s), e \notin Items(s) PROVE Once(a)
  <2> SUFFICES ASSUME NEW i \in DOMAIN a, NEW j \in DOMAIN a, a[i] = a[j] PROVE i = j
    BY DEF Once
  <2>1. \A k \in DOMAIN s : a[k] = s[k] /\ a[k] # e
    BY <1>1, <1>3 DEF Items
  <2>2. i \in DOMAIN s <=> i # Len(s) + 1
    BY <1>1
  <2>3. j \in DOMAIN s <=> j # Len(s) + 1
    BY <1>1
  <2> QED BY <1>1, <1>3, <2>1, <2>2, <2>3 DEF Once
<1> QED BY <1>2, <1>3 DEF a

LEMMA TailItems ==
    ASSUME NEW s \in Seq(Event), s # <<>>, Once(s)
    PROVE  /\ Head(s) \in Items(s) /\ Head(s) \in Event
           /\ Items(Tail(s)) = Items(s) \ {Head(s)} /\ Once(Tail(s))
<1>1. PICK r : r = Tail(s)
  OBVIOUS
<1>2. PICK h : h = Head(s)
  OBVIOUS
<1>3. /\ Len(s) \in Nat /\ Len(s) >= 1 /\ DOMAIN s = 1 .. Len(s)
      /\ DOMAIN r = 1 .. Len(s) - 1 /\ h = s[1] /\ h \in Event
      /\ \A i \in 1 .. Len(s) - 1 : r[i] = s[i + 1]
  BY <1>1, <1>2
<1>4. 1 \in DOMAIN s
  BY <1>3
<1>5. \A i \in DOMAIN r : i + 1 \in DOMAIN s /\ i + 1 # 1 /\ r[i] = s[i + 1]
  BY <1>3
<1>6. ASSUME NEW j \in DOMAIN s, j # 1 PROVE \E i \in DOMAIN r : r[i] = s[j]
  <2>1. j - 1 \in DOMAIN r /\ (j - 1) + 1 = j
    BY <1>3, <1>6
  <2>2. r[j - 1] = s[j]
    BY <1>5, <2>1
  <2> QED BY <2>1, <2>2
<1>7. Items(r) = Items(s) \ {h}
  <2>1. ASSUME NEW i \in DOMAIN r PROVE r[i] \in Items(s) \ {h}
    BY <1>3, <1>4, <1>5 DEF Items, Once
  <2>2. ASSUME NEW e \in Items(s), e # h PROVE e \in Items(r)
    BY <1>3, <1>6, <2>2 DEF Items
  <2> QED BY <2>1, <2>2 DEF Items
<1>8. Once(r)
  <2> SUFFICES ASSUME NEW i \in DOMAIN r, NEW j \in DOMAIN r, r[i] = r[j] PROVE i = j
    BY DEF Once
  <2>1. i + 1 = j + 1
    BY <1>5 DEF Once
  <2> QED BY <1>3, <2>1
<1> QED BY <1>1, <1>2, <1>3, <1>4, <1>7, <1>8 DEF Items

\* Copies, of a list without repetitions
LEMMA CopiesOnce ==
    ASSUME NEW s, Once(s), NEW e
    PROVE  Copies(s, e) = IF e \in Items(s) THEN 1 ELSE 0
<1>1. PICK at : at = {i \in DOMAIN s : s[i] = e}
  OBVIOUS
<1>2. Copies(s, e) = Cardinality(at)
  BY <1>1 DEF Copies
<1>3. CASE e \in Items(s)
  <2>1. PICK i \in DOMAIN s : s[i] = e
    BY <1>3 DEF Items
  <2>2. at = {i}
    BY <1>1, <2>1 DEF Once
  <2> QED BY <1>2, <1>3, <2>2, FS_Singleton
<1>4. CASE e \notin Items(s)
  <2>1. at = {}
    BY <1>1, <1>4 DEF Items
  <2> QED BY <1>2, <1>4, <2>1, FS_EmptySet
<1> QED BY <1>3, <1>4

-----------------------------------------------------------------------------
(* Where the events are *)

\* A thread that is not posting has no events at hand.
NothingAtHand ==
    \A t \in Thread : pc[t] \in {"idle", "waiting", "locked", "join", "exited"} => local[t] = <<>>

NoRepetition == Once(queue) /\ Once(delivered) /\ \A t \in Thread : Once(local[t])

\* No event is in two of the lists.
Disjoint ==
    /\ Items(queue) \cap Items(delivered) = {}
    /\ \A t \in Thread :
        /\ Items(local[t]) \cap (Items(queue) \cup Items(delivered)) = {}
        /\ \A u \in Thread \ {t} : Items(local[t]) \cap Items(local[u]) = {}

Everywhere == Items(queue) \cup Items(delivered) \cup UNION {Items(local[t]) : t \in Thread}

\* The events in the lists are those that were posted.
AllPosted == \A e \in Event : e \in Everywhere <=> e.n <= posted[e.by]

Spread == NothingAtHand /\ NoRepetition /\ Disjoint /\ AllPosted

LEMMA InitSpread == Init => Spread
<1> SUFFICES ASSUME Init PROVE Spread
  OBVIOUS
<1>1. NothingAtHand /\ NoRepetition
  BY EmptyItems DEF Init, NothingAtHand, NoRepetition
<1>2. Items(queue) = {} /\ Items(delivered) = {} /\ \A t \in Thread : Items(local[t]) = {}
  BY EmptyItems DEF Init
<1>3. Disjoint /\ Everywhere = {}
  BY <1>2 DEF Disjoint, Everywhere
<1>4. AllPosted
  BY <1>3, EventAssumption DEF Init, AllPosted, Event
<1> QED BY <1>1, <1>3, <1>4 DEF Spread

\* The next event of a thread is in no list yet.
LEMMA NewIsNew ==
    ASSUME IInv, Spread, NEW t \in Thread, posted[t] < MaxEvents,
           posted' = [posted EXCEPT ![t] = @ + 1]
    PROVE  /\ NewEvent(t) \in Event /\ NewEvent(t) \notin Everywhere
           /\ \A e \in Event : e.n <= posted'[e.by]
                                 <=> e.n <= posted[e.by] \/ e = NewEvent(t)
<1>1. posted \in [Thread -> 0 .. MaxEvents] /\ MaxEvents \in Nat
  BY EventAssumption DEF IInv, TypeOK
<1>2. PICK n : n = posted[t] + 1
  OBVIOUS
<1>3. NewEvent(t) = [by |-> t, n |-> n] /\ n \in 1 .. MaxEvents
  BY <1>1, <1>2 DEF NewEvent
<1>4. NewEvent(t) \in Event /\ NewEvent(t).n = n /\ NewEvent(t).by = t
  BY <1>3 DEF Event
<1>5. NewEvent(t) \notin Everywhere
  BY <1>1, <1>2, <1>4 DEF Spread, AllPosted
<1>6. ASSUME NEW e \in Event
      PROVE  e.n <= posted'[e.by] <=> e.n <= posted[e.by] \/ e = NewEvent(t)
  <2>1. e = [by |-> e.by, n |-> e.n] /\ e.by \in Thread /\ e.n \in 1 .. MaxEvents
    BY DEF Event
  <2>2. CASE e.by = t
    <3>1. e = NewEvent(t) <=> e.n = n
      BY <1>3, <1>4, <2>1, <2>2
    <3>2. posted'[e.by] = n
      BY <1>1, <1>2, <2>2
    <3> QED BY <1>1, <1>2, <2>1, <2>2, <3>1, <3>2
  <2>3. CASE e.by # t
    <3>1. posted'[e.by] = posted[e.by] /\ e # NewEvent(t)
      BY <1>1, <1>4, <2>1, <2>3
    <3> QED BY <3>1
  <2> QED BY <2>2, <2>3
<1> QED BY <1>4, <1>5, <1>6

\* The lists stay as they are, and only threads without events come to rest.
LEMMA SpreadKept ==
    ASSUME Spread, UNCHANGED <<queue, local, posted, delivered>>,
           \A u \in Thread : pc'[u] \in {"idle", "waiting", "locked", "join", "exited"}
               => pc[u] \in {"idle", "waiting", "locked", "join", "exited"} \/ local[u] = <<>>
    PROVE  Spread'
<1>1. NothingAtHand'
  BY DEF Spread, NothingAtHand
<1>2. NoRepetition' /\ Disjoint'
  BY DEF Spread, NoRepetition, Disjoint
<1>3. AllPosted'
  BY DEF Spread, AllPosted, Everywhere
<1> QED BY <1>1, <1>2, <1>3 DEF Spread

\* A thread is done with the first event of its list.
LEMMA FinishFirstLists ==
    ASSUME IInv, Spread, NEW t \in Thread, local[t] # <<>>, FinishFirst(t)
    PROVE  /\ Head(local[t]) \in Items(local[t]) /\ Head(local[t]) \in Event
           /\ Items(local'[t]) = Items(local[t]) \ {Head(local[t])}
           /\ \A u \in Thread : Once(local'[u]) /\ (u # t => local'[u] = local[u])
           /\ NothingAtHand'
<1>1. /\ local \in [Thread -> Seq(Event)] /\ local[t] \in Seq(Event)
      /\ pc \in [Thread -> Where] /\ \A u \in Thread : Once(local[u])
  BY DEF IInv, TypeOK, Spread, NoRepetition
<1>2. local'[t] = Tail(local[t]) /\ \A u \in Thread : u # t => local'[u] = local[u]
  BY <1>1 DEF FinishFirst
<1>3. /\ Head(local[t]) \in Items(local[t]) /\ Head(local[t]) \in Event
      /\ Items(local'[t]) = Items(local[t]) \ {Head(local[t])} /\ Once(local'[t])
  BY <1>1, <1>2, TailItems
<1>4. NothingAtHand'
  <2>1. pc'[t] = "idle" => local'[t] = <<>>
    <3>1. pc'[t] = IF Len(local[t]) = 1 THEN "idle" ELSE "posting"
      BY <1>1 DEF FinishFirst
    <3>2. ASSUME Len(local[t]) = 1 PROVE Tail(local[t]) = <<>>
      <4>1. Tail(local[t]) \in Seq(Event) /\ Len(Tail(local[t])) = 0
        BY <1>1, <3>2
      <4> QED BY <4>1, OnlyEmpty, Zenon
    <3> QED BY <1>2, <3>1, <3>2
  <2>2. pc'[t] \in {"idle", "posting"}
    BY <1>1 DEF FinishFirst
  <2>3. \A u \in Thread : u # t => pc'[u] = pc[u]
    BY <1>1 DEF FinishFirst
  <2> QED BY <1>2, <2>1, <2>2, <2>3 DEF Spread, NothingAtHand
<1> QED BY <1>1, <1>2, <1>3, <1>4

\* The first event goes to another list, which is the queue or that of the delivered.
LEMMA MovedSpread ==
    ASSUME IInv, Spread, NEW t \in Thread, local[t] # <<>>, FinishFirst(t),
           NEW q \in Seq(Event), NEW d \in Seq(Event),
           \/ q = Append(queue, Head(local[t])) /\ d = delivered
           \/ q = queue /\ d = Append(delivered, Head(local[t])),
           queue' = q, delivered' = d, posted' = posted
    PROVE  Spread'
<1>1. PICK h : h = Head(local[t])
  OBVIOUS
<1>2. /\ h \in Items(local[t]) /\ h \in Event
      /\ Items(local'[t]) = Items(local[t]) \ {h}
      /\ \A u \in Thread : Once(local'[u]) /\ (u # t => local'[u] = local[u])
      /\ NothingAtHand'
  BY <1>1, FinishFirstLists
<1>3. /\ queue \in Seq(Event) /\ delivered \in Seq(Event)
      /\ Once(queue) /\ Once(delivered) /\ h \notin Items(queue) /\ h \notin Items(delivered)
  BY <1>2 DEF IInv, TypeOK, Spread, NoRepetition, Disjoint
<1>4. /\ Once(queue') /\ Once(delivered')
      /\ \/ Items(queue') = Items(queue) \cup {h} /\ Items(delivered') = Items(delivered)
         \/ Items(queue') = Items(queue) /\ Items(delivered') = Items(delivered) \cup {h}
  <2>1. CASE q = Append(queue, h) /\ d = delivered
    BY <2>1, <1>2, <1>3, AppendItems
  <2>2. CASE q = queue /\ d = Append(delivered, h)
    BY <2>2, <1>2, <1>3, AppendItems
  <2> QED BY <1>1, <2>1, <2>2
<1>5. NoRepetition'
  BY <1>2, <1>4 DEF NoRepetition
<1>6. \A u \in Thread : u # t => Items(local'[u]) = Items(local[u]) /\ h \notin Items(local[u])
  BY <1>2 DEF Spread, Disjoint
<1>7. Disjoint'
  <2>1. Items(queue') \cap Items(delivered') = {}
    BY <1>3, <1>4 DEF Spread, Disjoint
  <2>2. ASSUME NEW u \in Thread
        PROVE  Items(local'[u]) \cap (Items(queue') \cup Items(delivered')) = {}
    <3>1. Items(local[u]) \cap (Items(queue) \cup Items(delivered)) = {}
      BY DEF Spread, Disjoint
    <3>2. Items(local'[u]) \subseteq Items(local[u]) /\ h \notin Items(local'[u])
      BY <1>2, <1>6
    <3> QED BY <1>4, <3>1, <3>2
  <2>3. ASSUME NEW u \in Thread, NEW v \in Thread \ {u}
        PROVE  Items(local'[u]) \cap Items(local'[v]) = {}
    <3>1. Items(local[u]) \cap Items(local[v]) = {}
      BY DEF Spread, Disjoint
    <3>2. Items(local'[u]) \subseteq Items(local[u]) /\ Items(local'[v]) \subseteq Items(local[v])
      BY <1>2, <1>6
    <3> QED BY <3>1, <3>2
  <2> QED BY <2>1, <2>2, <2>3 DEF Disjoint
<1>8. Everywhere' = Everywhere
  <2>1. ASSUME NEW e PROVE e \in Everywhere' <=> e \in Everywhere
    <3>1. e \in Everywhere
            <=> e \in Items(queue) \/ e \in Items(delivered)
                  \/ \E u \in Thread : e \in Items(local[u])
      BY DEF Everywhere
    <3>2. e \in Everywhere'
            <=> e \in Items(queue') \/ e \in Items(delivered')
                  \/ \E u \in Thread : e \in Items(local'[u])
      BY DEF Everywhere
    <3>3. CASE e = h
      BY <1>2, <1>4, <3>1, <3>2, <3>3
    <3>4. CASE e # h
      <4>1. \A u \in Thread : e \in Items(local'[u]) <=> e \in Items(local[u])
        BY <1>2, <1>6, <3>4
      <4> QED BY <1>4, <3>1, <3>2, <3>4, <4>1
    <3> QED BY <3>3, <3>4
  <2> QED BY <2>1
<1>9. AllPosted'
  BY <1>8 DEF Spread, AllPosted
<1> QED BY <1>2, <1>5, <1>7, <1>9 DEF Spread

LEMMA PostLockedSpread ==
    ASSUME IInv, Spread, NEW t \in Thread, PostLocked(t)
    PROVE  Spread'
<1>1. PICK e : e = NewEvent(t)
  OBVIOUS
<1>2. /\ queue' = Append(queue, e) /\ UNCHANGED <<pc, local, delivered>>
      /\ posted[t] < MaxEvents /\ posted' = [posted EXCEPT ![t] = @ + 1]
  BY <1>1 DEF PostLocked
<1>3. /\ e \in Event /\ e \notin Everywhere
      /\ \A x \in Event : x.n <= posted'[x.by] <=> x.n <= posted[x.by] \/ x = e
  BY <1>1, <1>2, NewIsNew
<1>4. /\ e \notin Items(queue) /\ e \notin Items(delivered)
      /\ \A u \in Thread : e \notin Items(local[u])
  BY <1>3 DEF Everywhere
<1>5. Items(queue') = Items(queue) \cup {e} /\ Once(queue')
  BY <1>2, <1>3, <1>4, AppendItems DEF IInv, TypeOK, Spread, NoRepetition
<1>6. NothingAtHand' /\ NoRepetition'
  BY <1>2, <1>5 DEF Spread, NothingAtHand, NoRepetition
<1>7. Disjoint'
  BY <1>2, <1>4, <1>5 DEF Spread, Disjoint
<1>8. Everywhere' = Everywhere \cup {e}
  BY <1>2, <1>5 DEF Everywhere
<1>9. AllPosted'
  BY <1>3, <1>8 DEF Spread, AllPosted
<1> QED BY <1>6, <1>7, <1>9 DEF Spread

LEMMA PostUnlockedSpread ==
    ASSUME IInv, Spread, NEW t \in Thread, PostUnlocked(t)
    PROVE  Spread'
<1>1. PICK e : e = NewEvent(t)
  OBVIOUS
<1>2. /\ local' = [local EXCEPT ![t] = <<e>>] /\ UNCHANGED <<queue, delivered>>
      /\ posted[t] < MaxEvents /\ posted' = [posted EXCEPT ![t] = @ + 1]
      /\ pc[t] = "idle" /\ pc' = [pc EXCEPT ![t] = "posting"]
      /\ DOMAIN local = Thread /\ DOMAIN pc = Thread
  BY <1>1 DEF PostUnlocked, IInv, TypeOK
<1>3. /\ e \in Event /\ e \notin Everywhere
      /\ \A x \in Event : x.n <= posted'[x.by] <=> x.n <= posted[x.by] \/ x = e
  BY <1>1, <1>2, NewIsNew
<1>4. /\ e \notin Items(queue) /\ e \notin Items(delivered)
      /\ \A u \in Thread : e \notin Items(local[u])
  BY <1>3 DEF Everywhere
<1>5. Items(local[t]) = {}
  BY <1>2, EmptyItems DEF Spread, NothingAtHand
<1>6. /\ Items(local'[t]) = {e} /\ Once(local'[t])
      /\ \A u \in Thread : u # t => local'[u] = local[u]
  BY <1>2, SingleItems
<1>7. NothingAtHand'
  BY <1>2, <1>6 DEF Spread, NothingAtHand
<1>8. NoRepetition'
  BY <1>2, <1>6 DEF Spread, NoRepetition
<1>9. Disjoint'
  <2>1. Items(queue') \cap Items(delivered') = {}
    BY <1>2 DEF Spread, Disjoint
  <2>2. ASSUME NEW u \in Thread
        PROVE  Items(local'[u]) \cap (Items(queue') \cup Items(delivered')) = {}
    BY <1>2, <1>4, <1>6 DEF Spread, Disjoint
  <2>3. ASSUME NEW u \in Thread, NEW v \in Thread \ {u}
        PROVE  Items(local'[u]) \cap Items(local'[v]) = {}
    BY <1>4, <1>6 DEF Spread, Disjoint
  <2> QED BY <2>1, <2>2, <2>3 DEF Disjoint
<1>10. Everywhere' = Everywhere \cup {e}
  <2>1. ASSUME NEW x PROVE x \in Everywhere' <=> x \in Everywhere \/ x = e
    <3>1. x \in Everywhere
            <=> x \in Items(queue) \/ x \in Items(delivered)
                  \/ \E u \in Thread : x \in Items(local[u])
      BY DEF Everywhere
    <3>2. x \in Everywhere'
            <=> x \in Items(queue') \/ x \in Items(delivered')
                  \/ \E u \in Thread : x \in Items(local'[u])
      BY DEF Everywhere
    <3> QED BY <1>2, <1>5, <1>6, <3>1, <3>2
  <2> QED BY <2>1
<1>11. AllPosted'
  BY <1>3, <1>10 DEF Spread, AllPosted
<1> QED BY <1>7, <1>8, <1>9, <1>11 DEF Spread

\* put_iaxc_lock takes the whole queue.
LEMMA TakeSpread ==
    ASSUME IInv, Spread, NEW t \in Thread, TakeQueue(t)
    PROVE  Spread'
<1>1. /\ local' = [local EXCEPT ![t] = queue] /\ queue' = <<>>
      /\ UNCHANGED <<posted, delivered>>
      /\ pc[t] = "locked" /\ pc' = [pc EXCEPT ![t] = "taken"]
      /\ DOMAIN local = Thread /\ DOMAIN pc = Thread
  BY DEF TakeQueue, LeftAfterTake, IInv, TypeOK
<1>2. Items(local[t]) = {} /\ Items(queue') = {} /\ Once(queue')
  BY <1>1, EmptyItems DEF Spread, NothingAtHand
<1>3. local'[t] = queue /\ \A u \in Thread : u # t => local'[u] = local[u]
  BY <1>1
<1>4. NothingAtHand'
  BY <1>1, <1>3 DEF Spread, NothingAtHand
<1>5. NoRepetition'
  BY <1>1, <1>2, <1>3 DEF Spread, NoRepetition
<1>6. Disjoint'
  <2>1. ASSUME NEW u \in Thread
        PROVE  Items(local'[u]) \cap (Items(queue') \cup Items(delivered')) = {}
    BY <1>1, <1>2, <1>3 DEF Spread, Disjoint
  <2>2. ASSUME NEW u \in Thread, NEW v \in Thread \ {u}
        PROVE  Items(local'[u]) \cap Items(local'[v]) = {}
    BY <1>3 DEF Spread, Disjoint
  <2> QED BY <1>2, <2>1, <2>2 DEF Disjoint
<1>7. Everywhere' = Everywhere
  <2>1. ASSUME NEW x PROVE x \in Everywhere' <=> x \in Everywhere
    <3>1. x \in Everywhere
            <=> x \in Items(queue) \/ x \in Items(delivered)
                  \/ \E u \in Thread : x \in Items(local[u])
      BY DEF Everywhere
    <3>2. x \in Everywhere'
            <=> x \in Items(queue') \/ x \in Items(delivered')
                  \/ \E u \in Thread : x \in Items(local'[u])
      BY DEF Everywhere
    <3> QED BY <1>1, <1>2, <1>3, <3>1, <3>2
  <2> QED BY <2>1
<1>8. AllPosted'
  BY <1>1, <1>7 DEF Spread, AllPosted
<1> QED BY <1>4, <1>5, <1>6, <1>8 DEF Spread

LEMMA NextSpread ==
    ASSUME IInv, Spread, [Next]_vars
    PROVE  Spread'
<1>0. pc \in [Thread -> Where]
  BY DEF IInv, TypeOK
<1>1. ASSUME NEW t \in Thread,
             Enter(t) \/ GetLock(t) \/ Unlock(t) \/ TryLock(t) \/ Unprobe(t) \/ Join(t)
      PROVE  Spread'
  <2>1. UNCHANGED <<queue, local, posted, delivered>>
    BY <1>1 DEF Enter, GetLock, Unlock, TryLock, Unprobe, Join
  <2>2. ASSUME NEW u \in Thread, pc'[u] \in {"idle", "waiting", "locked", "join", "exited"}
        PROVE  pc[u] \in {"idle", "waiting", "locked", "join", "exited"} \/ local[u] = <<>>
    BY <1>0, <1>1, <2>2 DEF Enter, GetLock, Unlock, TryLock, Unprobe, Join
  <2> QED BY <2>1, <2>2, SpreadKept
<1>2. ASSUME NEW t \in Thread, PostLocked(t) \/ PostUnlocked(t) \/ TakeQueue(t)
      PROVE  Spread'
  BY <1>2, PostLockedSpread, PostUnlockedSpread, TakeSpread
<1>3. ASSUME NEW t \in Thread, Requeue(t) PROVE Spread'
  <2>1. /\ local[t] # <<>> /\ FinishFirst(t) /\ queue' = Append(queue, Head(local[t]))
        /\ delivered' = delivered /\ posted' = posted
    BY <1>3 DEF Requeue, Requeued, IInv, PostingHasEvents
  <2>2. queue' \in Seq(Event) /\ delivered' \in Seq(Event)
    <3>1. Head(local[t]) \in Event
      BY <2>1, FinishFirstLists
    <3> QED BY <2>1, <3>1 DEF IInv, TypeOK
  <2> QED BY <2>1, <2>2, MovedSpread
<1>4. ASSUME NEW t \in Thread, Callback(t) PROVE Spread'
  <2>1. /\ local[t] # <<>> /\ FinishFirst(t)
        /\ delivered' = Append(delivered, Head(local[t]))
        /\ queue' = queue /\ posted' = posted
    BY <1>4 DEF Callback, IInv, PostingHasEvents
  <2>2. queue' \in Seq(Event) /\ delivered' \in Seq(Event)
    <3>1. Head(local[t]) \in Event
      BY <2>1, FinishFirstLists
    <3> QED BY <2>1, <3>1 DEF IInv, TypeOK
  <2> QED BY <2>1, <2>2, MovedSpread
<1>5. CASE Exit \/ \E t \in App : StopThread(t)
  <2>1. UNCHANGED <<queue, local, posted, delivered>>
    BY <1>5 DEF Exit, StopThread
  <2>2. ASSUME NEW u \in Thread, pc'[u] \in {"idle", "waiting", "locked", "join", "exited"}
        PROVE  pc[u] \in {"idle", "waiting", "locked", "join", "exited"}
    BY <1>0, <1>5, <2>2 DEF Exit, StopThread
  <2> QED BY <2>1, <2>2, SpreadKept
<1>6. CASE UNCHANGED vars
  BY <1>6, SpreadKept DEF vars
<1> QED BY <1>1, <1>2, <1>3, <1>4, <1>5, <1>6 DEF Next, Continue

\* An event that was posted is in one list, once.
LEMMA SpreadConserves ==
    ASSUME IInv, Spread
    PROVE  EventsAreConserved
<1> SUFFICES ASSUME NEW t \in Thread, NEW n \in 1 .. posted[t],
                    NEW e, e = [by |-> t, n |-> n]
             PROVE  Copies(queue, e) + Cardinality(InLists(e)) + Copies(delivered, e) = 1
  BY DEF EventsAreConserved
<1>1. e \in Event /\ e.n <= posted[e.by]
  BY EventAssumption DEF IInv, TypeOK, Event
<1>2. \/ e \in Items(queue) \/ e \in Items(delivered)
      \/ \E u \in Thread : e \in Items(local[u])
  BY <1>1 DEF Spread, AllPosted, Everywhere
<1>3. /\ Copies(queue, e) = IF e \in Items(queue) THEN 1 ELSE 0
      /\ Copies(delivered, e) = IF e \in Items(delivered) THEN 1 ELSE 0
  BY CopiesOnce DEF Spread, NoRepetition
<1>4. InLists(e) = {u \in Thread : e \in Items(local[u])}
  BY DEF InLists, Items
<1>5. CASE \E u \in Thread : e \in Items(local[u])
  <2>1. PICK u \in Thread : e \in Items(local[u])
    BY <1>5
  <2>2. \A v \in Thread : e \in Items(local[v]) => v = u
    BY <2>1 DEF Spread, Disjoint
  <2>3. InLists(e) = {u}
    BY <1>4, <2>1, <2>2
  <2>4. Cardinality(InLists(e)) = 1
    BY <2>3, FS_Singleton
  <2>5. e \notin Items(queue) /\ e \notin Items(delivered)
    BY <2>1 DEF Spread, Disjoint
  <2> QED BY <1>3, <2>4, <2>5
<1>6. CASE \A u \in Thread : e \notin Items(local[u])
  <2>1. InLists(e) = {}
    BY <1>4, <1>6
  <2>2. Cardinality(InLists(e)) = 0
    BY <2>1, FS_EmptySet
  <2>3. ~(e \in Items(queue) /\ e \in Items(delivered))
    BY DEF Spread, Disjoint
  <2> QED BY <1>2, <1>3, <1>6, <2>2, <2>3
<1> QED BY <1>5, <1>6

-----------------------------------------------------------------------------

\* The variables keep their types; a thread never posts from an empty list.
THEOREM TypeCorrect == Spec => []TypeOK
BY InitInv, NextInv, PTL DEF Spec, IInv

\* The library lock is held by the thread that is inside, and by no thread that
\* runs the application's callback (put_iaxc_lock, iaxci_post_event).
THEOREM LockDiscipline == Spec => []LockIsHeldInside
BY InitInv, NextInv, PTL DEF Spec, IInv

\* No event is lost, and the callback is called at most once for each: however many
\* threads take the queue, find the lock busy and put events back, a posted event is
\* in the queue, in one thread's hands or delivered, once (put_iaxc_lock,
\* iaxci_post_event).
THEOREM EventsKept == Spec => []EventsAreConserved
<1>1. Init => IInv /\ Spread
  BY InitInv, InitSpread
<1>2. IInv /\ Spread /\ [Next]_vars => IInv' /\ Spread'
  BY NextInv, NextSpread
<1>3. IInv /\ Spread => EventsAreConserved
  BY SpreadConserves
<1> QED BY <1>1, <1>2, <1>3, PTL DEF Spec

=============================================================================
