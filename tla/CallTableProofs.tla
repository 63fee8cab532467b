---------------------------- MODULE CallTableProofs ----------------------------
(***************************************************************************)
(* The lines of the call table and their sessions, for any number of       *)
(* lines, addresses and call numbers.                                      *)
(***************************************************************************)
EXTENDS CallTable, FiniteSetTheorems, TLAPS

\* A session that lives, at an address that nothing else named when it was made
Fresh(s) == s \in Live(heap) /\ ~heap[s].reused

\* No two lines have it.
SessionsDiffer ==
    \A s \in Slot : Fresh(s) =>
        \A l, k \in Line : calls[l].session = s /\ calls[k].session = s => l = k

\* It is not the registration's and a line's.
RegIsAlone == Fresh(reg.session) => \A l \in Line : calls[l].session # reg.session

\* No scheduled final frame names it.
FramesAreOfTheDead == \A f \in schedq : ~Fresh(f.slot)

Ownership ==
    /\ LineHasItsSession /\ SessionsDiffer /\ RegIsAlone /\ FramesAreOfTheDead

LiveHasCallno == \A s \in Live(heap) : heap[s].callno \in Callno

IInv ==
    /\ TypeOK /\ LiveHasCallno /\ SelectedBitIsUnique /\ ActiveIffSession
    /\ Ownership

-----------------------------------------------------------------------------
(* Lines *)

LineRecord == [state : SUBSET Bits, session : Slot \cup {NULL}, posted : Activity,
               owner : Callno \cup {NoCallno}, lost : BOOLEAN, reused : BOOLEAN]

\* A report changes what the application was posted, and nothing else.
LEMMA ReportedKeeps ==
    ASSUME NEW r \in LineRecord
    PROVE  /\ Reported(r) \in LineRecord
           /\ Reported(r).state = r.state /\ Reported(r).session = r.session
           /\ Reported(r).owner = r.owner /\ Reported(r).lost = r.lost
           /\ Reported(r).reused = r.reused
BY DEF LineRecord, Reported, Activity

LEMMA WithKeeps ==
    ASSUME NEW r \in LineRecord, NEW bit \in Bits
    PROVE  /\ With(r, bit) \in LineRecord /\ Without(r, bit) \in LineRecord
           /\ With(r, bit).state = r.state \cup {bit}
           /\ Without(r, bit).state = r.state \ {bit}
           /\ With(r, bit).session = r.session /\ Without(r, bit).session = r.session
           /\ With(r, bit).owner = r.owner /\ Without(r, bit).owner = r.owner
           /\ With(r, bit).lost = r.lost /\ Without(r, bit).lost = r.lost
           /\ With(r, bit).reused = r.reused /\ Without(r, bit).reused = r.reused
BY DEF LineRecord, With, Without

\* The fields of a line that say which session it has, and its bits but for two.
Same(r, t) ==
    /\ t \in LineRecord
    /\ t.session = r.session /\ t.owner = r.owner /\ t.lost = r.lost /\ t.reused = r.reused
    /\ "ACTIVE" \in t.state <=> "ACTIVE" \in r.state

LEMMA AnsweredKeeps ==
    ASSUME NEW r \in LineRecord
    PROVE  /\ Same(r, Answered(r))
           /\ "SELECTED" \in Answered(r).state <=> "SELECTED" \in r.state
<1> DEFINE a == Without(r, "RINGING")
           b == With(a, "COMPLETE")
<1>1. {"RINGING", "COMPLETE"} \subseteq Bits
  BY DEF Bits
<1>2. a \in LineRecord /\ b \in LineRecord
  BY <1>1, WithKeeps
<1>3. b.session = r.session /\ b.owner = r.owner /\ b.lost = r.lost /\ b.reused = r.reused
  BY <1>1, <1>2, WithKeeps
<1>4. b.state = (r.state \ {"RINGING"}) \cup {"COMPLETE"}
  <2>1. a.state = r.state \ {"RINGING"}
    BY <1>1, WithKeeps
  <2> HIDE DEF a
  <2>2. b.state = a.state \cup {"COMPLETE"}
    BY <1>1, <1>2, WithKeeps, Zenon
  <2> QED BY <2>1, <2>2, Zenon
<1>5. Answered(r) = Reported(b)
  BY DEF Answered
<1> HIDE DEF a, b
<1> QED BY <1>2, <1>3, <1>4, <1>5, ReportedKeeps DEF Same

\* iaxc_select_call: lines keep their sessions, and only l may be selected after it.
LEMMA ChosenKeeps ==
    ASSUME NEW c \in [Line -> LineRecord], NEW l \in Line, selected \in Line \cup {NoLine},
           \A k \in Line : "SELECTED" \in c[k].state => k = selected \/ k = l
    PROVE  /\ Chosen(c, l) \in [Line -> LineRecord]
           /\ \A k \in Line : /\ Same(c[k], Chosen(c, l)[k])
                              /\ "SELECTED" \in Chosen(c, l)[k].state => k = l
<1> DEFINE d == Deselected(c, l)
           r == IF l = selected THEN c[l] ELSE With(c[l], "SELECTED")
           n == IF "RINGING" \in r.state /\ "OUTGOING" \notin r.state
                THEN Answered(r) ELSE Reported(With(r, "SELECTED"))
<1>0. "SELECTED" \in Bits /\ NoLine \notin Line
  BY CallTableAssumption DEF Bits
<1>1. d \in [Line -> LineRecord] /\ \A k \in Line : Same(c[k], d[k])
  <2>1. CASE selected \in {NoLine, l}
    BY <2>1 DEF Deselected, Same
  <2>2. CASE selected \notin {NoLine, l}
    <3> DEFINE w == Without(c[selected], "SELECTED")
    <3>1. selected \in Line /\ d = [c EXCEPT ![selected] = Reported(w)]
      BY <2>2 DEF Deselected
    <3>2. w \in LineRecord /\ Same(c[selected], w)
      BY <1>0, <3>1, WithKeeps DEF Same
    <3> HIDE DEF w
    <3>3. Same(w, Reported(w))
      BY <3>2, ReportedKeeps DEF Same
    <3>4. Same(c[selected], Reported(w))
      BY <3>2, <3>3 DEF Same
    <3> QED BY <3>1, <3>4 DEF Same
  <2> QED BY <2>1, <2>2
<1>2. \A k \in Line : k # l => "SELECTED" \notin d[k].state
  <2>1. CASE selected \in {NoLine, l}
    BY <2>1, <1>0 DEF Deselected
  <2>2. CASE selected \notin {NoLine, l}
    <3> DEFINE w == Without(c[selected], "SELECTED")
    <3>1. selected \in Line /\ d = [c EXCEPT ![selected] = Reported(w)]
      BY <2>2 DEF Deselected
    <3>2. w \in LineRecord /\ "SELECTED" \notin w.state
      BY <1>0, <3>1, WithKeeps
    <3> HIDE DEF w
    <3>3. "SELECTED" \notin Reported(w).state
      BY <3>2, ReportedKeeps
    <3> QED BY <3>1, <3>3
  <2> QED BY <2>1, <2>2
<1>3. r \in LineRecord /\ Same(c[l], r)
  BY <1>0, WithKeeps DEF Same
<1>4. Chosen(c, l) = [d EXCEPT ![l] = n]
  BY DEF Chosen
<1> HIDE DEF r, d
<1>5. Same(r, n)
  <2>1. CASE "RINGING" \in r.state /\ "OUTGOING" \notin r.state
    BY <2>1, <1>3, AnsweredKeeps
  <2>2. CASE ~("RINGING" \in r.state /\ "OUTGOING" \notin r.state)
    <3> DEFINE w == With(r, "SELECTED")
    <3>1. w \in LineRecord /\ Same(r, w) /\ n = Reported(w)
      BY <1>0, <1>3, <2>2, WithKeeps DEF Same
    <3> HIDE DEF w
    <3> QED BY <3>1, ReportedKeeps DEF Same
  <2> QED BY <2>1, <2>2
<1> HIDE DEF n
<1>6. Same(c[l], n)
  BY <1>3, <1>5 DEF Same
<1> QED BY <1>1, <1>2, <1>4, <1>6 DEF Same

-----------------------------------------------------------------------------
(* Steps *)

LEMMA InitInv == Init => IInv
<1> SUFFICES ASSUME Init PROVE IInv
  OBVIOUS
<1> USE CallTableAssumption DEF Init, FreeLine, NoReg, Dead, Activity, Bits
<1>1. TypeOK
  BY DEF TypeOK, Session
<1>2. LiveHasCallno /\ SelectedBitIsUnique /\ ActiveIffSession
  BY DEF LiveHasCallno, Live, SelectedBitIsUnique, ActiveIffSession
<1>3. Ownership
  BY DEF Ownership, LineHasItsSession, SessionsDiffer, RegIsAlone, FramesAreOfTheDead, Fresh,
     Live
<1> QED BY <1>1, <1>2, <1>3 DEF IInv

\* A line that has its session has one at an address that nothing else named.
LEMMA LineIsFresh ==
    ASSUME IInv, NEW l \in Line, calls[l].session # NULL, ~calls[l].lost, ~calls[l].reused
    PROVE  /\ Fresh(calls[l].session) /\ calls[l].session \in Slot
           /\ \A k \in Line : calls[k].session = calls[l].session => k = l
           /\ reg.session # calls[l].session
           /\ \A f \in schedq : f.slot # calls[l].session
<1>1. calls[l].session \in Slot /\ calls[l].owner # NoCallno
  BY DEF IInv, TypeOK
<1>2. heap[calls[l].session]
        = [callno |-> calls[l].owner, refused |-> FALSE, reused |-> FALSE]
  BY DEF IInv, Ownership, LineHasItsSession
<1>3. /\ heap[calls[l].session].callno = calls[l].owner
      /\ ~heap[calls[l].session].reused
  BY <1>2
<1>4. Fresh(calls[l].session)
  BY <1>1, <1>3 DEF Fresh, Live, Dead
<1> QED BY <1>1, <1>4 DEF IInv, Ownership, SessionsDiffer, RegIsAlone, FramesAreOfTheDead

\* Apart from one that may be made at s, no session gets another holder.
LEMMA HoldersKept ==
    ASSUME IInv, NEW s,
           \A x \in Slot \ {s} : Fresh(x)' =>
               /\ Fresh(x)
               /\ \A l \in Line : calls'[l].session = x => calls[l].session = x
               /\ reg'.session = x => reg.session = x
               /\ \A f \in schedq' : f.slot = x => f \in schedq,
           Fresh(s)' =>
               /\ \A l, k \in Line : calls'[l].session = s /\ calls'[k].session = s => l = k
               /\ reg'.session = s => \A l \in Line : calls'[l].session # s
               /\ \A f \in schedq' : f.slot # s
    PROVE  SessionsDiffer' /\ RegIsAlone' /\ FramesAreOfTheDead'
<1>1. SessionsDiffer /\ RegIsAlone /\ FramesAreOfTheDead
  BY DEF IInv, Ownership
<1>2. \A x : Fresh(x)' => x \in Slot
  BY DEF Fresh, Live
<1>3. SessionsDiffer'
  <2> SUFFICES ASSUME NEW x \in Slot, Fresh(x)', NEW l \in Line, NEW k \in Line,
                      calls'[l].session = x, calls'[k].session = x
               PROVE  l = k
    BY DEF SessionsDiffer
  <2>1. CASE x = s
    BY <2>1
  <2>2. CASE x # s
    BY <2>2, <1>1 DEF SessionsDiffer
  <2> QED BY <2>1, <2>2
<1>4. RegIsAlone'
  <2> SUFFICES ASSUME Fresh(reg.session)', NEW l \in Line, calls'[l].session = reg'.session
               PROVE  FALSE
    BY DEF RegIsAlone
  <2>1. reg'.session \in Slot
    BY <1>2
  <2>2. CASE reg'.session = s
    BY <2>2
  <2>3. CASE reg'.session # s
    BY <2>1, <2>3, <1>1 DEF RegIsAlone
  <2> QED BY <2>2, <2>3
<1>5. FramesAreOfTheDead'
  <2> SUFFICES ASSUME NEW f \in schedq', Fresh(f.slot)' PROVE FALSE
    BY DEF FramesAreOfTheDead
  <2>1. f.slot \in Slot
    BY <1>2
  <2>2. CASE f.slot = s
    BY <2>2
  <2>3. CASE f.slot # s
    BY <2>1, <2>3, <1>1 DEF FramesAreOfTheDead
  <2> QED BY <2>2, <2>3
<1> QED BY <1>3, <1>4, <1>5

\* Lines change, but not the sessions they have.
LEMMA LinesKept ==
    ASSUME IInv, UNCHANGED <<heap, reg, schedq>>,
           calls' \in [Line -> LineRecord], selected' \in Line \cup {NoLine},
           \A k \in Line : /\ Same(calls[k], calls'[k])
                           /\ "SELECTED" \in calls'[k].state => selected' = k
    PROVE  IInv'
<1>1. TypeOK' /\ LiveHasCallno' /\ SelectedBitIsUnique'
  BY DEF IInv, TypeOK, LineRecord, LiveHasCallno, Live, SelectedBitIsUnique, Same
<1>2. ActiveIffSession'
  BY DEF IInv, ActiveIffSession, Same
<1>3. Ownership'
  <2>1. LineHasItsSession'
    BY DEF IInv, Ownership, LineHasItsSession, Same
  <2>2. \A x : Fresh(x)' <=> Fresh(x)
    BY DEF Fresh, Live
  <2>3. SessionsDiffer' /\ RegIsAlone' /\ FramesAreOfTheDead'
    BY <2>2, CallTableAssumption, HoldersKept DEF Same, Live, Fresh
  <2> QED BY <2>1, <2>3 DEF Ownership
<1> QED BY <1>1, <1>2, <1>3 DEF IInv

\* A line that is not active gets a new session.
LEMMA LineUsed ==
    ASSUME IInv, NEW l \in Line, NEW s \in Slot, NEW c \in Callno,
           CanBeNew(heap, s, c), heap' = Created(heap, s, c, reg.session),
           UNCHANGED <<reg, schedq>>,
           calls' \in [Line -> LineRecord], selected' \in Line \cup {NoLine},
           calls'[l].session = s, calls'[l].owner = c, calls'[l].lost = FALSE,
           calls'[l].reused <=> s \in Named(reg.session),
           "ACTIVE" \in calls'[l].state,
           \A k \in Line : k # l => Same(calls[k], calls'[k]),
           \A k \in Line : "SELECTED" \in calls'[k].state => selected' = k
    PROVE  IInv'
<1> USE CallTableAssumption
<1>0. PICK u \in BOOLEAN : u <=> s \in Named(reg.session)
  OBVIOUS
<1>1. /\ heap' \in [Slot -> Session]
      /\ heap'[s] = [callno |-> c, refused |-> FALSE, reused |-> u]
      /\ \A x \in Slot : x # s => heap'[x] = heap[x]
  <2>1. (s \in Named(reg.session)) = u
    BY <1>0
  <2>2. heap' = [heap EXCEPT ![s] = [callno |-> c, refused |-> FALSE, reused |-> u]]
    BY <2>1, Zenon DEF Created
  <2> QED BY <2>2 DEF IInv, TypeOK, Session
<1>2. TypeOK'
  BY <1>1 DEF IInv, TypeOK, LineRecord, Same
<1>3. LiveHasCallno' /\ SelectedBitIsUnique' /\ ActiveIffSession'
  BY <1>1 DEF IInv, LiveHasCallno, Live, SelectedBitIsUnique, ActiveIffSession, Same
<1>4. s \notin Live(heap) /\ ~Fresh(s)
  BY DEF CanBeNew, Fresh
<1>5. LineHasItsSession'
  <2> SUFFICES ASSUME NEW k \in Line, calls'[k].session # NULL, ~calls'[k].lost,
                      ~calls'[k].reused
               PROVE  heap'[calls'[k].session]
                          = [callno |-> calls'[k].owner, refused |-> FALSE, reused |-> FALSE]
    BY DEF LineHasItsSession
  <2>1. CASE k = l
    <3>1. u = FALSE
      BY <1>0, <2>1
    <3> QED BY <2>1, <3>1, <1>1
  <2>2. CASE k # l
    <3>1. /\ calls'[k].session = calls[k].session /\ calls'[k].owner = calls[k].owner
          /\ calls'[k].lost = calls[k].lost /\ calls'[k].reused = calls[k].reused
      BY <2>2 DEF Same
    <3>2. calls[k].session \in Slot /\ calls[k].session # s
      BY <1>4, <3>1, LineIsFresh
    <3>3. heap[calls[k].session]
              = [callno |-> calls[k].owner, refused |-> FALSE, reused |-> FALSE]
      BY <3>1 DEF IInv, Ownership, LineHasItsSession
    <3> QED BY <1>1, <3>1, <3>2, <3>3
  <2> QED BY <2>1, <2>2
<1>6. ASSUME NEW x \in Slot \ {s}, Fresh(x)'
      PROVE  /\ Fresh(x)
             /\ \A k \in Line : calls'[k].session = x => calls[k].session = x
  BY <1>1, <1>6 DEF Fresh, Live, Same
<1>7. ASSUME Fresh(s)'
      PROVE  /\ \A k \in Line : k # l => calls'[k].session # s
             /\ reg'.session # s /\ \A f \in schedq' : f.slot # s
  <2>1. s \notin Named(reg.session)
    BY <1>0, <1>1, <1>7 DEF Fresh
  <2> QED BY <2>1 DEF Named, Same
<1>8. SessionsDiffer' /\ RegIsAlone' /\ FramesAreOfTheDead'
  BY <1>6, <1>7, HoldersKept
<1> QED BY <1>2, <1>3, <1>5, <1>8 DEF IInv, Ownership

\* What destroy_session does to the heap.
LEMMA DestroyedHeap ==
    ASSUME IInv, NEW s, NEW h \in [Slot -> Session],
           \A x \in Live(h) : h[x].callno \in Callno
    PROVE  /\ Destroyed(h, s) \in [Slot -> Session]
           /\ \A x \in Slot : x # s => Destroyed(h, s)[x] = h[x]
           /\ s \notin Live(Destroyed(h, s))
           /\ \A x \in Live(Destroyed(h, s)) : x \in Live(h) /\ Destroyed(h, s)[x].callno \in Callno
BY DEF Destroyed, Live, Dead, Session

\* It makes none.
LEMMA DestroyedFresh ==
    ASSUME NEW s, heap' = Destroyed(heap, s)
    PROVE  \A x \in Slot : Fresh(x)' => Fresh(x) /\ x # s
BY DEF Fresh, Destroyed, Live

\* What the registration may be.
LEMMA RegTyped ==
    /\ NoReg \in [made : BOOLEAN, session : Slot \cup {NULL}]
    /\ [made |-> TRUE, session |-> NULL] \in [made : BOOLEAN, session : Slot \cup {NULL}]
    /\ \A s \in Slot :
        [made |-> TRUE, session |-> s] \in [made : BOOLEAN, session : Slot \cup {NULL}]
BY DEF NoReg

\* A line's session is destroyed and the line cleared.
LEMMA LineEnded ==
    ASSUME IInv, NEW l \in Line, UNCHANGED <<reg, selected>>,
           heap' = Destroyed(heap, calls[l].session),
           calls' = Cleared(calls, l),
           schedq' \subseteq [slot : Slot, callno : Callno],
           \A f \in schedq' : f \in schedq \/ f.slot = calls[l].session
    PROVE  IInv'
<1> USE CallTableAssumption
<1> DEFINE s == calls[l].session
<1>0. heap \in [Slot -> Session]
      /\ \A x \in Live(heap) : heap[x].callno \in Callno
  BY DEF IInv, TypeOK, LiveHasCallno
<1>1. /\ heap' \in [Slot -> Session]
      /\ \A x \in Slot : x # s => heap'[x] = heap[x]
      /\ s \notin Live(heap')
      /\ \A x \in Live(heap') : x \in Live(heap) /\ heap'[x].callno \in Callno
  BY <1>0, DestroyedHeap
<1>2. /\ calls' \in [Line -> LineRecord]
      /\ calls'[l] = FreeLine
      /\ \A k \in Line : k # l => calls'[k] = calls[k]
  BY DEF IInv, TypeOK, Cleared, FreeLine, LineRecord, Activity, Bits
<1> HIDE DEF s
<1>3. TypeOK'
  <2>1. \A k \in Line : (calls'[k].session = NULL) <=> (calls'[k].owner = NoCallno)
    BY <1>2 DEF IInv, TypeOK, FreeLine
  <2> QED BY <1>1, <1>2, <2>1 DEF IInv, TypeOK, LineRecord
<1>4. LiveHasCallno' /\ SelectedBitIsUnique' /\ ActiveIffSession'
  BY <1>1, <1>2 DEF IInv, LiveHasCallno, SelectedBitIsUnique, ActiveIffSession, FreeLine
<1>5. LineHasItsSession'
  <2> SUFFICES ASSUME NEW k \in Line, calls'[k].session # NULL, ~calls'[k].lost,
                      ~calls'[k].reused
               PROVE  heap'[calls'[k].session]
                          = [callno |-> calls'[k].owner, refused |-> FALSE, reused |-> FALSE]
    BY DEF LineHasItsSession
  <2>1. k # l /\ calls'[k] = calls[k]
    BY <1>2 DEF FreeLine
  <2>2. calls[k].session # s /\ calls[k].session \in Slot
    BY <2>1, LineIsFresh DEF s
  <2> QED BY <1>1, <2>1, <2>2 DEF IInv, Ownership, LineHasItsSession
<1>6. \A x \in Slot : Fresh(x)' => Fresh(x) /\ x # s /\ x # NULL
  BY <1>1 DEF Fresh
<1>7. SessionsDiffer' /\ RegIsAlone' /\ FramesAreOfTheDead'
  <2>1. \A x \in Slot : Fresh(x)' =>
            /\ Fresh(x)
            /\ \A k \in Line : calls'[k].session = x => calls[k].session = x
            /\ \A f \in schedq' : f.slot = x => f \in schedq
    BY <1>2, <1>6 DEF FreeLine, s
  <2>2. ~Fresh(NULL)'
    BY DEF Fresh, Live
  <2> QED BY <2>1, <2>2, HoldersKept
<1> QED BY <1>3, <1>4, <1>5, <1>7 DEF IInv, Ownership

\* A session that no line has is destroyed, or was not there.
LEMMA OtherEnded ==
    ASSUME IInv, UNCHANGED <<calls, selected>>, NEW s,
           heap' = Destroyed(heap, s),
           reg' \in {reg, NoReg, [made |-> TRUE, session |-> NULL]},
           schedq' \subseteq schedq,
           \A l \in Line : calls[l].session = s /\ s # NULL => calls[l].lost \/ calls[l].reused
    PROVE  IInv'
<1> USE CallTableAssumption
<1>0. heap \in [Slot -> Session]
      /\ \A x \in Live(heap) : heap[x].callno \in Callno
  BY DEF IInv, TypeOK, LiveHasCallno
<1>1. /\ heap' \in [Slot -> Session]
      /\ \A x \in Slot : x # s => heap'[x] = heap[x]
      /\ \A x \in Live(heap') : x \in Live(heap) /\ heap'[x].callno \in Callno
  BY <1>0, DestroyedHeap
<1>2. TypeOK'
  <2>1. reg' \in [made : BOOLEAN, session : Slot \cup {NULL}]
    BY RegTyped, Zenon DEF IInv, TypeOK
  <2> QED BY <1>1, <2>1 DEF IInv, TypeOK
<1>4. LiveHasCallno' /\ SelectedBitIsUnique' /\ ActiveIffSession'
  BY <1>1 DEF IInv, LiveHasCallno, SelectedBitIsUnique, ActiveIffSession
<1>3. LineHasItsSession'
  BY <1>1 DEF IInv, Ownership, LineHasItsSession, TypeOK
<1>5. SessionsDiffer' /\ RegIsAlone' /\ FramesAreOfTheDead'
  <2>1. \A x \in Slot : Fresh(x)' => Fresh(x)
    BY <1>1, DestroyedFresh
  <2>2. ~Fresh(NULL)' /\ \A x \in Slot : reg'.session = x => reg.session = x
    BY DEF Fresh, Live, NoReg
  <2> QED BY <2>1, <2>2, HoldersKept
<1> QED BY <1>2, <1>3, <1>4, <1>5 DEF IInv, Ownership

\* A session that is no line's is made, and the registration's may have ended.
LEMMA OtherCreated ==
    ASSUME IInv, UNCHANGED <<calls, selected, schedq>>, NEW s \in Slot, NEW c \in Callno,
           NEW h, CanBeNew(h, s, c),
           h \in {heap, Destroyed(heap, reg.session)},
           NEW refused \in BOOLEAN, NEW r,
           heap' = [h EXCEPT ![s] = [callno |-> c, refused |-> refused,
                                     reused |-> s \in Named(r)]],
           \/ reg' = reg /\ r = reg.session
           \/ reg' = [made |-> TRUE, session |-> s]
    PROVE  IInv'
<1> USE CallTableAssumption
<1>0. heap \in [Slot -> Session] /\ \A x \in Live(heap) : heap[x].callno \in Callno
  BY DEF IInv, TypeOK, LiveHasCallno
<1>1. /\ h \in [Slot -> Session]
      /\ \A x \in Slot : x # reg.session => h[x] = heap[x]
      /\ \A x \in Live(h) : x \in Live(heap) /\ h[x].callno \in Callno
      /\ \A x \in Live(h) : h[x] = heap[x]
  <2>1. CASE h = heap
    BY <1>0, <2>1
  <2>2. CASE h = Destroyed(heap, reg.session)
    <3>1. \A x \in Live(h) : h[x] = heap[x]
      BY <2>2 DEF Destroyed, Live
    <3> QED BY <1>0, <2>2, <3>1, DestroyedHeap
  <2> QED BY <2>1, <2>2
<1>a. PICK u \in BOOLEAN : u <=> s \in Named(r)
  OBVIOUS
<1>2. /\ heap' \in [Slot -> Session]
      /\ \A x \in Slot : x # s => heap'[x] = h[x]
      /\ heap'[s].callno = c /\ heap'[s].reused = u
  <2>1. (s \in Named(r)) = u
    BY <1>a
  <2>2. heap' = [h EXCEPT ![s] = [callno |-> c, refused |-> refused, reused |-> u]]
    BY <2>1, Zenon
  <2> QED BY <1>1, <2>2 DEF Session
<1>3. TypeOK'
  <2>1. reg' \in [made : BOOLEAN, session : Slot \cup {NULL}]
    BY RegTyped, Zenon DEF IInv, TypeOK
  <2> QED BY <1>2, <2>1 DEF IInv, TypeOK
<1>4. LiveHasCallno'
  BY <1>1, <1>2 DEF LiveHasCallno, Live
<1>5. SelectedBitIsUnique' /\ ActiveIffSession'
  BY DEF IInv, SelectedBitIsUnique, ActiveIffSession
<1>6. LineHasItsSession'
  <2> SUFFICES ASSUME NEW k \in Line, calls[k].session # NULL, ~calls[k].lost,
                      ~calls[k].reused
               PROVE  heap'[calls[k].session]
                          = [callno |-> calls[k].owner, refused |-> FALSE, reused |-> FALSE]
    BY DEF LineHasItsSession
  <2>1. calls[k].session \in Slot /\ calls[k].session # reg.session
    BY LineIsFresh
  <2>2. Fresh(calls[k].session)
    BY LineIsFresh
  <2>3. h[calls[k].session] = heap[calls[k].session] /\ calls[k].session \in Live(h)
    BY <1>1, <2>1, <2>2 DEF Fresh, Live
  <2>4. calls[k].session # s
    BY <2>3 DEF CanBeNew
  <2> QED BY <1>2, <2>1, <2>3, <2>4 DEF IInv, Ownership, LineHasItsSession
<1>7. ASSUME NEW x \in Slot \ {s}, Fresh(x)'
      PROVE  Fresh(x) /\ (reg'.session = x => reg.session = x)
  BY <1>1, <1>2, <1>7 DEF Fresh, Live
<1>8. ASSUME Fresh(s)'
      PROVE  /\ \A k \in Line : calls'[k].session # s
             /\ \A f \in schedq' : f.slot # s
  <2>1. s \notin Named(r)
    BY <1>a, <1>2, <1>8 DEF Fresh
  <2> QED BY <2>1 DEF Named
<1>9. SessionsDiffer' /\ RegIsAlone' /\ FramesAreOfTheDead'
  BY <1>7, <1>8, HoldersKept
<1> QED BY <1>3, <1>4, <1>5, <1>6, <1>9 DEF IInv, Ownership

-----------------------------------------------------------------------------
(* The actions *)

\* A line that may be dialled on has no session.
LEMMA DialLineIsFree ==
    ASSUME IInv, NEW l \in Line, DialLine(l) \/ FirstFree(l)
    PROVE  "ACTIVE" \notin calls[l].state /\ calls[l].session = NULL
BY DEF IInv, ActiveIffSession, DialLine, FirstFree, Free

LEMMA UsedRecord ==
    ASSUME IInv, NEW l \in Line, NEW s \in Slot, NEW c \in Callno, NEW b \in SUBSET Bits
    PROVE  /\ Used(l, s, c, b) \in LineRecord
           /\ Used(l, s, c, b).session = s /\ Used(l, s, c, b).owner = c
           /\ Used(l, s, c, b).lost = FALSE /\ Used(l, s, c, b).state = b
           /\ Used(l, s, c, b).reused <=> s \in Named(reg.session)
<1>1. PICK v \in BOOLEAN : v <=> s \in Named(reg.session)
  OBVIOUS
<1>2. PICK w : w = (s \in Named(reg.session))
  OBVIOUS
<1>3. w = v
  BY <1>1, <1>2
<1>4. calls[l].posted \in Activity
  BY DEF IInv, TypeOK
<1>5. Used(l, s, c, b)
        = [state |-> b, session |-> s, posted |-> calls[l].posted, owner |-> c,
           lost |-> FALSE, reused |-> w]
  BY <1>2 DEF Used
<1>6. Used(l, s, c, b) \in LineRecord
  BY <1>3, <1>4, <1>5 DEF LineRecord
<1> QED BY <1>1, <1>3, <1>5, <1>6

LEMMA DialInv ==
    ASSUME IInv, NEW l \in Line, NEW s \in Slot, NEW c \in Callno, Dial(l, s, c)
    PROVE  IInv'
<1>a. PICK b \in SUBSET Bits : b = {"OUTGOING", "ACTIVE"}
  BY DEF Bits
<1>b. PICK u : u = Used(l, s, c, b)
  OBVIOUS
<1> DEFINE d == [calls EXCEPT ![l] = u]
<1>1. /\ u \in LineRecord /\ u.session = s /\ u.owner = c /\ u.lost = FALSE
      /\ u.state = b /\ (u.reused <=> s \in Named(reg.session))
  <2>1. /\ Used(l, s, c, b) \in LineRecord
        /\ Used(l, s, c, b).session = s /\ Used(l, s, c, b).owner = c
        /\ Used(l, s, c, b).lost = FALSE /\ Used(l, s, c, b).state = b
        /\ Used(l, s, c, b).reused <=> s \in Named(reg.session)
    BY UsedRecord
  <2> QED BY <1>b, <2>1
<1>2. calls' = Chosen(d, l) /\ selected' = l
  BY <1>b, <1>a DEF Dial
<1>3. calls \in [Line -> LineRecord]
  BY DEF IInv, TypeOK, LineRecord
<1>4. /\ d \in [Line -> LineRecord]
      /\ d[l] = u /\ \A k \in Line : k # l => d[k] = calls[k]
  BY <1>1, <1>3
<1>5. \A k \in Line : "SELECTED" \in d[k].state => k = selected \/ k = l
  BY <1>4 DEF IInv, SelectedBitIsUnique
<1> HIDE DEF d
<1>6. /\ calls' \in [Line -> LineRecord]
      /\ \A k \in Line : /\ Same(d[k], calls'[k])
                         /\ "SELECTED" \in calls'[k].state => k = l
  BY <1>2, <1>4, <1>5, ChosenKeeps DEF IInv, TypeOK
<1>7. /\ calls'[l].session = s /\ calls'[l].owner = c /\ calls'[l].lost = FALSE
      /\ calls'[l].reused <=> s \in Named(reg.session)
      /\ "ACTIVE" \in calls'[l].state
      /\ \A k \in Line : k # l => Same(calls[k], calls'[k])
  BY <1>1, <1>4, <1>6, <1>a DEF Same
<1>8. /\ CanBeNew(heap, s, c) /\ heap' = Created(heap, s, c, reg.session)
      /\ UNCHANGED <<reg, schedq>> /\ selected' \in Line \cup {NoLine}
      /\ \A k \in Line : "SELECTED" \in calls'[k].state => selected' = k
  BY <1>6 DEF Dial
<1> QED BY <1>6, <1>7, <1>8, LineUsed

LEMMA IncomingInv ==
    ASSUME IInv, NEW l \in Line, NEW s \in Slot, NEW c \in Callno, Incoming(l, s, c)
    PROVE  IInv'
<1>a. PICK b \in SUBSET Bits : b = {"ACTIVE", "RINGING"}
  BY DEF Bits
<1>b. PICK u : u = Used(l, s, c, b)
  OBVIOUS
<1> DEFINE r == Reported(u)
<1>1. /\ u \in LineRecord /\ u.session = s /\ u.owner = c /\ u.lost = FALSE
      /\ u.state = b /\ (u.reused <=> s \in Named(reg.session))
  <2>1. /\ Used(l, s, c, b) \in LineRecord
        /\ Used(l, s, c, b).session = s /\ Used(l, s, c, b).owner = c
        /\ Used(l, s, c, b).lost = FALSE /\ Used(l, s, c, b).state = b
        /\ Used(l, s, c, b).reused <=> s \in Named(reg.session)
    BY UsedRecord
  <2> QED BY <1>b, <2>1
<1>2. calls' = [calls EXCEPT ![l] = r]
  BY <1>b, <1>a DEF Incoming
<1>3. /\ r \in LineRecord /\ r.session = s /\ r.owner = c /\ r.lost = FALSE
      /\ (r.reused <=> s \in Named(reg.session))
      /\ r.state = {"ACTIVE", "RINGING"}
  BY <1>1, <1>a, ReportedKeeps
<1> HIDE DEF r
<1>4. calls \in [Line -> LineRecord]
  BY DEF IInv, TypeOK, LineRecord
<1>5. /\ calls' \in [Line -> LineRecord]
      /\ calls'[l] = r /\ \A k \in Line : k # l => calls'[k] = calls[k]
  BY <1>2, <1>3, <1>4
<1>6. \A k \in Line : k # l => Same(calls[k], calls'[k])
  BY <1>4, <1>5 DEF Same
<1>7. /\ CanBeNew(heap, s, c) /\ heap' = Created(heap, s, c, reg.session)
      /\ UNCHANGED <<reg, schedq>> /\ selected' \in Line \cup {NoLine}
      /\ \A k \in Line : "SELECTED" \in calls'[k].state => selected' = k
  BY <1>3, <1>5 DEF Incoming, IInv, TypeOK, SelectedBitIsUnique
<1> QED BY <1>3, <1>5, <1>6, <1>7, LineUsed

\* Answering, ringing and the like: one line changes its bits.
LEMMA LineAnswered ==
    ASSUME IInv, NEW l \in Line, NEW r \in LineRecord, Same(calls[l], r),
           "SELECTED" \in r.state => "SELECTED" \in calls[l].state,
           calls' = [calls EXCEPT ![l] = r], UNCHANGED <<heap, selected, reg, schedq>>
    PROVE  IInv'
<1>1. calls \in [Line -> LineRecord] /\ selected \in Line \cup {NoLine}
  BY DEF IInv, TypeOK, LineRecord
<1>2. calls' \in [Line -> LineRecord] /\ \A k \in Line : Same(calls[k], calls'[k])
  BY <1>1 DEF Same
<1>3. \A k \in Line : "SELECTED" \in calls'[k].state => selected' = k
  BY <1>1 DEF IInv, SelectedBitIsUnique
<1> QED BY <1>1, <1>2, <1>3, LinesKept

LEMMA AnswerInv ==
    ASSUME IInv, NEW l \in Line,
           calls' = [calls EXCEPT ![l] = Answered(calls[l])],
           UNCHANGED <<heap, selected, reg, schedq>>
    PROVE  IInv'
<1>1. calls[l] \in LineRecord
  BY DEF IInv, TypeOK, LineRecord
<1>2. /\ Same(calls[l], Answered(calls[l])) /\ Answered(calls[l]) \in LineRecord
      /\ "SELECTED" \in Answered(calls[l]).state => "SELECTED" \in calls[l].state
  BY <1>1, AnsweredKeeps DEF Same
<1> QED BY <1>2, LineAnswered

LEMMA AnswerOfApp ==
    ASSUME IInv, NEW l \in Line, AppAnswer(l)
    PROVE  IInv'
BY AnswerInv DEF AppAnswer

LEMMA AnswerOfPeer ==
    ASSUME IInv, NEW l \in Line, NEW s \in Slot, AnswerOrVoice(l, s)
    PROVE  IInv'
BY AnswerInv DEF AnswerOrVoice, PeerAnswered, Answered

LEMMA RingInv ==
    ASSUME IInv, NEW l \in Line, NEW s \in Slot, Ring(l, s)
    PROVE  IInv'
<1> DEFINE w == With(calls[l], "RINGING")
<1>1. calls[l] \in LineRecord /\ "RINGING" \in Bits
  BY DEF IInv, TypeOK, LineRecord, Bits
<1>2. /\ w \in LineRecord /\ Same(calls[l], w)
      /\ "SELECTED" \in w.state => "SELECTED" \in calls[l].state
  BY <1>1, WithKeeps DEF Same
<1>3. /\ calls' = [calls EXCEPT ![l] = Reported(w)]
      /\ UNCHANGED <<heap, selected, reg, schedq>>
  BY DEF Ring
<1> HIDE DEF w
<1>4. /\ Reported(w) \in LineRecord /\ Same(calls[l], Reported(w))
      /\ "SELECTED" \in Reported(w).state => "SELECTED" \in calls[l].state
  BY <1>2, ReportedKeeps DEF Same
<1> QED BY <1>3, <1>4, LineAnswered

LEMMA SelectInv ==
    ASSUME IInv, NEW l \in Line, Select(l)
    PROVE  IInv'
<1>1. calls \in [Line -> LineRecord] /\ selected \in Line \cup {NoLine}
  BY DEF IInv, TypeOK, LineRecord
<1>2. /\ Chosen(calls, l) \in [Line -> LineRecord]
      /\ \A k \in Line : /\ Same(calls[k], Chosen(calls, l)[k])
                         /\ "SELECTED" \in Chosen(calls, l)[k].state => k = l
  BY <1>1, ChosenKeeps DEF IInv, SelectedBitIsUnique
<1>3. calls' = Chosen(calls, l) /\ selected' = l /\ UNCHANGED <<heap, reg, schedq>>
  BY DEF Select
<1> QED BY <1>2, <1>3, LinesKept

LEMMA EndHereInv ==
    ASSUME IInv, NEW l \in Line, EndHere(l)
    PROVE  IInv'
<1> DEFINE s == calls[l].session
           fs == FinalFrames(s, CallnoAt(s, l))
<1>1. s \in Slot \cup {NULL} /\ (s # NULL => CallnoAt(s, l) \in Callno)
  BY DEF IInv, TypeOK, LiveHasCallno, CallnoAt
<1>2. fs \subseteq [slot : Slot, callno : Callno] /\ \A f \in fs : f.slot = s
  <2> HIDE DEF s
  <2> QED BY <1>1 DEF FinalFrames
<1>3. schedq' = schedq \cup fs /\ schedq \subseteq [slot : Slot, callno : Callno]
  BY DEF EndHere, IInv, TypeOK
<1> HIDE DEF fs
<1>4. /\ schedq' \subseteq [slot : Slot, callno : Callno]
      /\ \A f \in schedq' : f \in schedq \/ f.slot = calls[l].session
  BY <1>2, <1>3
<1>5. /\ UNCHANGED <<reg, selected>> /\ heap' = Destroyed(heap, calls[l].session)
      /\ calls' = Cleared(calls, l)
  BY DEF EndHere
<1> QED BY <1>4, <1>5, LineEnded

LEMMA RemoteEndInv ==
    ASSUME IInv, NEW l \in Line, NEW s \in Slot, RemoteEnd(l, s)
    PROVE  IInv'
<1>1. /\ UNCHANGED <<reg, selected>> /\ heap' = Destroyed(heap, calls[l].session)
      /\ calls' = Cleared(calls, l) /\ schedq' = schedq
  BY DEF RemoteEnd, FindCall, Has
<1>2. schedq \subseteq [slot : Slot, callno : Callno]
  BY DEF IInv, TypeOK
<1> QED BY <1>1, <1>2, LineEnded

LEMMA AcceptIncompatibleInv ==
    ASSUME IInv, NEW l \in Line, NEW s \in Slot, AcceptIncompatible(l, s)
    PROVE  IInv'
<1> USE CallTableAssumption
<1>0. /\ calls[l].session = s /\ s \in Live(heap) /\ s # NULL
      /\ heap' = Destroyed(heap, s) /\ UNCHANGED <<selected, reg>>
      /\ heap \in [Slot -> Session]
      /\ \A x \in Live(heap) : heap[x].callno \in Callno
  BY DEF AcceptIncompatible, FindCall, Has, IInv, TypeOK, LiveHasCallno
<1>1. /\ heap' \in [Slot -> Session]
      /\ \A x \in Slot : x # s => heap'[x] = heap[x]
      /\ s \notin Live(heap')
      /\ \A x \in Live(heap') : x \in Live(heap) /\ heap'[x].callno \in Callno
  BY <1>0, DestroyedHeap
<1>2. schedq' = schedq \cup {[slot |-> s, callno |-> heap[s].callno]}
  BY <1>0 DEF AcceptIncompatible, FinalFrames
<1>3. /\ schedq' \subseteq [slot : Slot, callno : Callno]
      /\ \A f \in schedq' : f \in schedq \/ f.slot = s
  BY <1>0, <1>2 DEF IInv, TypeOK
<1>4. calls \in [Line -> LineRecord]
  BY DEF IInv, TypeOK, LineRecord
<1>5. /\ calls' \in [Line -> LineRecord]
      /\ calls'[l].lost
      /\ \A k \in Line : k # l => calls'[k] = calls[k]
      /\ \A k \in Line : /\ calls'[k].session = calls[k].session
                         /\ calls'[k].owner = calls[k].owner
                         /\ calls'[k].state = calls[k].state
  BY <1>4 DEF AcceptIncompatible, LineRecord
<1>6. TypeOK'
  BY <1>0, <1>1, <1>3, <1>5 DEF IInv, TypeOK, LineRecord
<1>7. LiveHasCallno' /\ SelectedBitIsUnique' /\ ActiveIffSession'
  BY <1>0, <1>1, <1>5 DEF IInv, LiveHasCallno, SelectedBitIsUnique, ActiveIffSession
<1>8. LineHasItsSession'
  <2> SUFFICES ASSUME NEW k \in Line, calls'[k].session # NULL, ~calls'[k].lost,
                      ~calls'[k].reused
               PROVE  heap'[calls'[k].session]
                          = [callno |-> calls'[k].owner, refused |-> FALSE, reused |-> FALSE]
    BY DEF LineHasItsSession
  <2>1. k # l /\ calls'[k] = calls[k]
    BY <1>5
  <2>2. calls[k].session # s /\ calls[k].session \in Slot
    BY <1>0, <2>1, LineIsFresh
  <2> QED BY <1>1, <2>1, <2>2 DEF IInv, Ownership, LineHasItsSession
<1>9. SessionsDiffer' /\ RegIsAlone' /\ FramesAreOfTheDead'
  <2>1. \A x \in Slot : Fresh(x)' => Fresh(x) /\ x # s
    BY <1>0, DestroyedFresh
  <2>2. ~Fresh(NULL)'
    BY DEF Fresh, Live
  <2> QED BY <1>0, <1>3, <1>5, <2>1, <2>2, HoldersKept
<1> QED BY <1>6, <1>7, <1>8, <1>9 DEF IInv, Ownership

LEMMA IncomingRejectedInv ==
    ASSUME IInv, NEW s \in Slot, NEW c \in Callno, IncomingRejected(s, c)
    PROVE  IInv'
<1>1. /\ UNCHANGED <<heap, calls, selected, reg>> /\ s \notin Live(heap)
      /\ schedq' \subseteq schedq \cup {[slot |-> s, callno |-> c]}
  BY DEF IncomingRejected, CanBeNew, FinalFrames
<1>2. \A f \in schedq' : f \in schedq \/ f.slot = s
  BY <1>1
<1>3. TypeOK'
  BY <1>1 DEF IInv, TypeOK
<1>4. LiveHasCallno' /\ SelectedBitIsUnique' /\ ActiveIffSession'
  BY <1>1 DEF IInv, LiveHasCallno, Live, SelectedBitIsUnique, ActiveIffSession
<1>5. LineHasItsSession'
  BY <1>1 DEF IInv, Ownership, LineHasItsSession
<1>6. SessionsDiffer' /\ RegIsAlone' /\ FramesAreOfTheDead'
  <2>1. \A x : Fresh(x)' => Fresh(x) /\ x # s
    BY <1>1 DEF Fresh, Live
  <2>2. ~Fresh(NULL)'
    BY CallTableAssumption DEF Fresh, Live
  <2> QED BY <1>1, <1>2, <2>1, <2>2, HoldersKept
<1> QED BY <1>3, <1>4, <1>5, <1>6 DEF IInv, Ownership

LEMMA NewIsRefused ==
    ASSUME IInv, NEW s \in Slot, NEW c \in Callno, IncomingRefused(s, c)
    PROVE  heap' = [heap EXCEPT ![s] = [callno |-> c, refused |-> TRUE,
                                        reused |-> s \in Named(reg.session)]]
<1>1. PICK v \in BOOLEAN : v <=> s \in Named(reg.session)
  OBVIOUS
<1>2. v = (s \in Named(reg.session))
  BY <1>1
<1>3. heap' = [[heap EXCEPT ![s] = [callno |-> c, refused |-> FALSE, reused |-> v]]
                   EXCEPT ![s].refused = TRUE]
  BY <1>2 DEF IncomingRefused, Created
<1>4. DOMAIN heap = Slot
  BY DEF IInv, TypeOK
<1>5. heap' = [heap EXCEPT ![s] = [callno |-> c, refused |-> TRUE, reused |-> v]]
  BY <1>3, <1>4
<1> QED BY <1>2, <1>5

LEMMA OtherSessionInv ==
    ASSUME IInv, NEW s \in Slot, NEW c \in Callno,
           Register(s, c) \/ Refresh(s, c) \/ IncomingRefused(s, c)
    PROVE  IInv'
<1>1. CASE Register(s, c)
  BY <1>1, OtherCreated DEF Register, Created
<1>2. CASE Refresh(s, c)
  BY <1>2, OtherCreated DEF Refresh, Created, BeforeRefresh
<1>3. CASE IncomingRefused(s, c)
  <2>1. heap' = [heap EXCEPT ![s] = [callno |-> c, refused |-> TRUE,
                                     reused |-> s \in Named(reg.session)]]
    BY <1>3, NewIsRefused
  <2>2. /\ UNCHANGED <<calls, selected, schedq>> /\ CanBeNew(heap, s, c)
        /\ reg' = reg /\ TRUE \in BOOLEAN
    BY <1>3 DEF IncomingRefused
  <2> QED BY <2>1, <2>2, OtherCreated
<1> QED BY <1>1, <1>2, <1>3

\* The session that ends is no line's.
LEMMA OtherEndInv ==
    ASSUME IInv, Unregister \/ \E s \in Slot : RemoteEndOfRefused(s) \/ RegReply(s)
    PROVE  IInv'
<1>1. CASE Unregister
  <2>1. \A l \in Line : calls[l].session = reg.session /\ reg.session # NULL
                          => calls[l].lost \/ calls[l].reused
    BY LineIsFresh
  <2> QED BY <1>1, <2>1, OtherEnded DEF Unregister
<1>2. ASSUME NEW s \in Slot, RemoteEndOfRefused(s) PROVE IInv'
  BY <1>2, OtherEnded DEF RemoteEndOfRefused, NoCall, Has
<1>3. ASSUME NEW s \in Slot, RegReply(s) PROVE IInv'
  BY <1>3, OtherEnded DEF RegReply, NoCall, Has
<1> QED BY <1>1, <1>2, <1>3

\* The session a final frame names has ended already.
LEMMA FinalFrameInv ==
    ASSUME IInv, NEW f \in schedq, FinalFrameDue(f)
    PROVE  IInv'
<1>1. \A l \in Line : calls[l].session = f.slot /\ f.slot # NULL
                         => calls[l].lost \/ calls[l].reused
  BY LineIsFresh
<1>2. /\ UNCHANGED <<calls, selected, reg>> /\ heap' = Destroyed(heap, f.slot)
      /\ schedq' \subseteq schedq
  BY DEF FinalFrameDue
<1> QED BY <1>1, <1>2, OtherEnded

\* Every line is hung up and the table made anew.
LEMMA RestartInv == ASSUME IInv, Restart PROVE IInv'
<1> USE CallTableAssumption
<1> DEFINE dumped == {l \in Line : ~Free(l)}
           frames(l) == FinalFrames(calls[l].session, CallnoAt(calls[l].session, l))
<1>1. /\ calls' = [l \in Line |-> FreeLine] /\ selected' = NoLine /\ reg' = reg
      /\ heap' = DumpedSessions(dumped)
      /\ schedq' = schedq \cup UNION {frames(l) : l \in dumped}
  BY DEF Restart
<1>2. /\ heap \in [Slot -> Session]
      /\ \A x \in Live(heap) : heap[x].callno \in Callno
      /\ schedq \subseteq [slot : Slot, callno : Callno]
  BY DEF IInv, TypeOK, LiveHasCallno
<1>3. /\ heap' \in [Slot -> Session]
      /\ \A x \in Live(heap') : x \in Live(heap) /\ heap'[x].callno \in Callno
                               /\ \A l \in dumped : calls[l].session # x
  <2>1. Dead \in Session
    BY DEF Dead, Session
  <2>2. heap' \in [Slot -> Session]
    BY <1>1, <1>2, <2>1 DEF DumpedSessions
  <2>3. \A x \in Live(heap') : x \in Live(heap) /\ heap'[x] = heap[x]
                               /\ \A l \in dumped : calls[l].session # x
    BY <1>1 DEF DumpedSessions, Live, Has
  <2> QED BY <1>2, <2>2, <2>3
<1>4. ASSUME NEW l \in dumped, NEW f \in frames(l)
      PROVE  f \in [slot : Slot, callno : Callno] /\ f.slot = calls[l].session
  <2>1. l \in Line /\ calls[l].session \in Slot \cup {NULL}
    BY DEF IInv, TypeOK
  <2>2. calls[l].session # NULL => CallnoAt(calls[l].session, l) \in Callno
    BY <1>2, <2>1 DEF IInv, TypeOK, CallnoAt
  <2> QED BY <2>1, <2>2 DEF FinalFrames
<1> HIDE DEF dumped, frames
<1>5. schedq' \subseteq [slot : Slot, callno : Callno]
  BY <1>1, <1>2, <1>4
<1>6. \A l \in Line : calls'[l] = FreeLine
  BY <1>1
<1>7. TypeOK'
  <2>1. calls' \in [Line -> LineRecord]
    BY <1>1 DEF FreeLine, LineRecord, Activity, Bits
  <2> QED BY <1>1, <1>3, <1>5, <1>6, <2>1 DEF IInv, TypeOK, LineRecord, FreeLine
<1>8. LiveHasCallno' /\ SelectedBitIsUnique' /\ ActiveIffSession'
  BY <1>3, <1>6 DEF LiveHasCallno, SelectedBitIsUnique, ActiveIffSession, FreeLine
<1>9. LineHasItsSession'
  BY <1>6 DEF LineHasItsSession, FreeLine
<1>10. SessionsDiffer' /\ RegIsAlone' /\ FramesAreOfTheDead'
  <2>1. ASSUME NEW x \in Slot, Fresh(x)'
        PROVE  Fresh(x) /\ \A l \in dumped : calls[l].session # x
    <3>1. heap'[x] = heap[x]
      BY <1>1, <2>1 DEF Fresh, DumpedSessions, Live
    <3> QED BY <1>3, <2>1, <3>1 DEF Fresh
  <2>2. ASSUME NEW x \in Slot, Fresh(x)', NEW f \in schedq', f.slot = x PROVE f \in schedq
    BY <1>1, <1>4, <2>1, <2>2
  <2>3. ~Fresh(NULL)' /\ \A l \in Line : calls'[l].session = NULL
    BY <1>6 DEF Fresh, Live, FreeLine
  <2> QED BY <1>1, <2>1, <2>2, <2>3, HoldersKept
<1> QED BY <1>7, <1>8, <1>9, <1>10 DEF IInv, Ownership

LEMMA NextInv == IInv /\ [Next]_vars => IInv'
<1> SUFFICES ASSUME IInv, [Next]_vars PROVE IInv'
  OBVIOUS
<1>1. ASSUME NEW s \in Slot, NEW c \in Callno, NEW l \in Line,
             Dial(l, s, c) \/ Incoming(l, s, c)
      PROVE  IInv'
  BY <1>1, DialInv, IncomingInv
<1>2. ASSUME NEW s \in Slot, NEW c \in Callno,
             IncomingRejected(s, c) \/ IncomingRefused(s, c) \/ Register(s, c)
                 \/ Refresh(s, c)
      PROVE  IInv'
  BY <1>2, IncomingRejectedInv, OtherSessionInv
<1>3. ASSUME NEW l \in Line, AppAnswer(l) \/ Select(l) \/ Hangup(l) PROVE IInv'
  <2>1. CASE AppAnswer(l)
    BY <2>1, AnswerOfApp
  <2>2. CASE Select(l)
    BY <2>2, SelectInv
  <2>3. CASE Hangup(l)
    BY <2>3, EndHereInv DEF Hangup
  <2> QED BY <1>3, <2>1, <2>2, <2>3
<1>4. ASSUME NEW s \in Slot, NEW l \in Line,
             RemoteEnd(l, s) \/ BusyOrTimeout(l, s) \/ AcceptIncompatible(l, s)
                 \/ AnswerOrVoice(l, s) \/ Ring(l, s)
      PROVE  IInv'
  <2>1. CASE RemoteEnd(l, s)
    BY <2>1, RemoteEndInv
  <2>2. CASE BusyOrTimeout(l, s)
    BY <2>2, EndHereInv DEF BusyOrTimeout
  <2>3. CASE AcceptIncompatible(l, s)
    BY <2>3, AcceptIncompatibleInv
  <2>4. CASE AnswerOrVoice(l, s)
    BY <2>4, AnswerOfPeer
  <2>5. CASE Ring(l, s)
    BY <2>5, RingInv
  <2> QED BY <1>4, <2>1, <2>2, <2>3, <2>4, <2>5
<1>5. CASE Unregister \/ \E s \in Slot : RemoteEndOfRefused(s) \/ RegReply(s)
  BY <1>5, OtherEndInv
<1>6. CASE \E f \in schedq : FinalFrameDue(f)
  BY <1>6, FinalFrameInv
<1>7. CASE Restart
  BY <1>7, RestartInv
<1>8. CASE UNCHANGED vars
  BY <1>8 DEF vars, IInv, TypeOK, LiveHasCallno, Live, SelectedBitIsUnique,
     ActiveIffSession, Ownership, LineHasItsSession, SessionsDiffer, RegIsAlone,
     FramesAreOfTheDead, Fresh
<1> QED BY <1>1, <1>2, <1>3, <1>4, <1>5, <1>6, <1>7, <1>8 DEF Next

-----------------------------------------------------------------------------
(* What was posted to the application *)

\* LastPostIsRight, of one line.
Knows(r) ==
    /\ r.session = NULL => r.posted = "FREE"
    /\ /\ {"ACTIVE", "COMPLETE", "SELECTED"} \subseteq r.state
       /\ "RINGING" \notin r.state
       => r.posted = "ANSWERED"

\* What a report needs to be right: a line without a call has no bit of one, and the
\* application has it as free.
Fair(r) ==
    /\ r \in LineRecord
    /\ "ACTIVE" \in r.state <=> r.session # NULL
    /\ r.session = NULL => r.posted = "FREE"

LEMMA ReportedKnows ==
    ASSUME NEW r, Fair(r)
    PROVE  Knows(Reported(r)) /\ Fair(Reported(r))
<1>1. /\ Reported(r) \in LineRecord
      /\ Reported(r).state = r.state /\ Reported(r).session = r.session
  BY ReportedKeeps DEF Fair
<1>2. Reported(r).posted =
        IF r.state = {} THEN "FREE"
        ELSE IF {"ACTIVE", "RINGING"} \subseteq r.state
        THEN IF "OUTGOING" \in r.state THEN "OUTGOING" ELSE "RINGIN"
        ELSE IF {"ACTIVE", "COMPLETE", "SELECTED"} \subseteq r.state THEN "ANSWERED"
        ELSE r.posted
  BY DEF Fair, LineRecord, Reported
<1>3. r.session = NULL => Reported(r).posted = "FREE"
  BY <1>2 DEF Fair
<1>4. ASSUME {"ACTIVE", "COMPLETE", "SELECTED"} \subseteq r.state,
             "RINGING" \notin r.state
      PROVE  Reported(r).posted = "ANSWERED"
  BY <1>2, <1>4
<1> QED BY <1>1, <1>3, <1>4 DEF Knows, Fair

LEMMA WithFair ==
    ASSUME NEW r, Fair(r), NEW bit \in Bits \ {"ACTIVE"}
    PROVE  Fair(With(r, bit)) /\ Fair(Without(r, bit))
<1>1. With(r, bit).posted = r.posted /\ Without(r, bit).posted = r.posted
  BY DEF Fair, LineRecord, With, Without
<1> QED BY <1>1, WithKeeps DEF Fair

LEMMA AnsweredKnows ==
    ASSUME NEW r, Fair(r)
    PROVE  Knows(Answered(r)) /\ Fair(Answered(r))
<1>1. {"RINGING", "COMPLETE"} \subseteq Bits \ {"ACTIVE"}
  BY DEF Bits
<1>2. PICK a : a = Without(r, "RINGING")
  OBVIOUS
<1>3. PICK b : b = With(a, "COMPLETE")
  OBVIOUS
<1>4. Fair(a)
  BY <1>1, <1>2, WithFair
<1>5. Fair(b)
  BY <1>1, <1>3, <1>4, WithFair
<1>6. Answered(r) = Reported(b)
  BY <1>2, <1>3 DEF Answered
<1> QED BY <1>5, <1>6, ReportedKnows

\* iaxc_select_call reports the line it deselects and the line it selects.
LEMMA ChosenKnows ==
    ASSUME NEW c, DOMAIN c = Line, \A k \in Line : Fair(c[k]), NEW l \in Line,
           selected \in Line \cup {NoLine}, \A k \in Line : k # l => Knows(c[k])
    PROVE  \A k \in Line : Knows(Chosen(c, l)[k])
<1>0. "SELECTED" \in Bits \ {"ACTIVE"} /\ NoLine \notin Line
  BY CallTableAssumption DEF Bits
<1>1. PICK d : d = Deselected(c, l)
  OBVIOUS
<1>2. PICK r : r = IF l = selected THEN c[l] ELSE With(c[l], "SELECTED")
  OBVIOUS
<1>3. PICK n : n = IF "RINGING" \in r.state /\ "OUTGOING" \notin r.state
                   THEN Answered(r) ELSE Reported(With(r, "SELECTED"))
  OBVIOUS
<1>4. Chosen(c, l) = [d EXCEPT ![l] = n]
  BY <1>1, <1>2, <1>3 DEF Chosen
<1>5. DOMAIN d = Line /\ \A k \in Line : k # l => Knows(d[k])
  <2>1. CASE selected \in {NoLine, l}
    BY <2>1, <1>1 DEF Deselected
  <2>2. CASE selected \notin {NoLine, l}
    <3>1. PICK w : w = Without(c[selected], "SELECTED")
      OBVIOUS
    <3>2. selected \in Line /\ d = [c EXCEPT ![selected] = Reported(w)]
      BY <2>2, <1>1, <3>1 DEF Deselected
    <3>3. Knows(Reported(w))
      <4>1. Fair(w)
        BY <1>0, <3>1, <3>2, WithFair
      <4> QED BY <4>1, ReportedKnows
    <3> QED BY <3>2, <3>3
  <2> QED BY <2>1, <2>2
<1>6. Fair(r)
  <2>1. CASE l = selected
    BY <2>1, <1>2
  <2>2. CASE l # selected
    BY <2>2, <1>0, <1>2, WithFair
  <2> QED BY <2>1, <2>2
<1>7. Knows(n)
  <2>1. CASE "RINGING" \in r.state /\ "OUTGOING" \notin r.state
    BY <2>1, <1>3, <1>6, AnsweredKnows
  <2>2. CASE ~("RINGING" \in r.state /\ "OUTGOING" \notin r.state)
    <3>1. PICK w : w = With(r, "SELECTED")
      OBVIOUS
    <3>2. Fair(w) /\ n = Reported(w)
      BY <2>2, <1>0, <1>3, <1>6, <3>1, WithFair
    <3> QED BY <3>2, ReportedKnows
  <2> QED BY <2>1, <2>2
<1> QED BY <1>4, <1>5, <1>7

LEMMA KnowsAll == LastPostIsRight <=> \A l \in Line : Knows(calls[l])
BY DEF LastPostIsRight, Knows

LEMMA LinesAreFair ==
    ASSUME IInv, LastPostIsRight
    PROVE  \A l \in Line : Fair(calls[l])
BY DEF IInv, TypeOK, LineRecord, ActiveIffSession, LastPostIsRight, Fair

\* One line changes, to one of which the application knows.
LEMMA OneLinePosted ==
    ASSUME IInv, LastPostIsRight, NEW l \in Line, NEW r, Knows(r),
           calls' = [calls EXCEPT ![l] = r]
    PROVE  LastPostIsRight'
<1>1. DOMAIN calls = Line /\ \A k \in Line : Knows(calls[k])
  BY KnowsAll DEF IInv, TypeOK
<1>2. \A k \in Line : Knows(calls'[k])
  BY <1>1
<1> QED BY <1>2 DEF LastPostIsRight, Knows

LEMMA FreeLineKnows == Knows(FreeLine)
BY DEF FreeLine, Knows

\* A line that gets a session has bits of which nothing is reported wrongly.
LEMMA UsedIsFair ==
    ASSUME IInv, NEW l \in Line, NEW s \in Slot, NEW c \in Callno,
           NEW b \in SUBSET Bits, "ACTIVE" \in b
    PROVE  Fair(Used(l, s, c, b))
BY CallTableAssumption DEF IInv, TypeOK, Used, Fair, LineRecord

LEMMA DialPosted ==
    ASSUME IInv, LastPostIsRight, NEW l \in Line, NEW s \in Slot, NEW c \in Callno,
           Dial(l, s, c)
    PROVE  LastPostIsRight'
<1>1. PICK b \in SUBSET Bits : b = {"OUTGOING", "ACTIVE"}
  BY DEF Bits
<1>2. PICK u : u = Used(l, s, c, b)
  OBVIOUS
<1>3. PICK d : d = [calls EXCEPT ![l] = u]
  OBVIOUS
<1>4. calls' = Chosen(d, l)
  BY <1>1, <1>2, <1>3 DEF Dial
<1>5. Fair(u)
  BY <1>1, <1>2, UsedIsFair
<1>6. /\ DOMAIN calls = Line /\ selected \in Line \cup {NoLine}
      /\ \A k \in Line : Fair(calls[k]) /\ Knows(calls[k])
  BY LinesAreFair, KnowsAll DEF IInv, TypeOK
<1>7. /\ DOMAIN d = Line /\ \A k \in Line : Fair(d[k])
      /\ \A k \in Line : k # l => Knows(d[k])
  BY <1>3, <1>5, <1>6
<1>8. \A k \in Line : Knows(calls'[k])
  BY <1>4, <1>6, <1>7, ChosenKnows
<1> QED BY <1>8 DEF LastPostIsRight, Knows

LEMMA SelectPosted ==
    ASSUME IInv, LastPostIsRight, NEW l \in Line, Select(l)
    PROVE  LastPostIsRight'
<1>1. calls' = Chosen(calls, l)
  BY DEF Select
<1>2. /\ DOMAIN calls = Line /\ selected \in Line \cup {NoLine}
      /\ \A k \in Line : Fair(calls[k]) /\ Knows(calls[k])
  BY LinesAreFair, KnowsAll DEF IInv, TypeOK
<1>3. \A k \in Line : Knows(calls'[k])
  BY <1>1, <1>2, ChosenKnows
<1> QED BY <1>3 DEF LastPostIsRight, Knows

LEMMA IncomingPosted ==
    ASSUME IInv, LastPostIsRight, NEW l \in Line, NEW s \in Slot, NEW c \in Callno,
           Incoming(l, s, c)
    PROVE  LastPostIsRight'
<1>1. PICK b \in SUBSET Bits : b = {"ACTIVE", "RINGING"}
  BY DEF Bits
<1>2. PICK u : u = Used(l, s, c, b)
  OBVIOUS
<1>3. Fair(u) /\ calls' = [calls EXCEPT ![l] = Reported(u)]
  BY <1>1, <1>2, UsedIsFair DEF Incoming
<1>4. Knows(Reported(u))
  BY <1>3, ReportedKnows
<1> QED BY <1>3, <1>4, OneLinePosted

LEMMA NextPosted ==
    ASSUME IInv, LastPostIsRight, [Next]_vars
    PROVE  LastPostIsRight'
<1>1. ASSUME NEW s \in Slot, NEW c \in Callno, NEW l \in Line,
             Dial(l, s, c) \/ Incoming(l, s, c)
      PROVE  LastPostIsRight'
  BY <1>1, DialPosted, IncomingPosted
<1>2. CASE UNCHANGED calls
  BY <1>2 DEF LastPostIsRight
<1>3. ASSUME NEW s \in Slot, NEW c \in Callno,
             IncomingRejected(s, c) \/ IncomingRefused(s, c) \/ Register(s, c)
                 \/ Refresh(s, c)
      PROVE  LastPostIsRight'
  BY <1>3, <1>2 DEF IncomingRejected, IncomingRefused, Register, Refresh
<1>4. ASSUME NEW l \in Line, calls' = [calls EXCEPT ![l] = Answered(calls[l])]
      PROVE  LastPostIsRight'
  <2>1. Knows(Answered(calls[l]))
    BY LinesAreFair, AnsweredKnows
  <2> QED BY <1>4, <2>1, OneLinePosted
<1>5. ASSUME NEW l \in Line, calls' = Cleared(calls, l) PROVE LastPostIsRight'
  BY <1>5, FreeLineKnows, OneLinePosted DEF Cleared
<1>6. ASSUME NEW l \in Line, AppAnswer(l) \/ Select(l) \/ Hangup(l)
      PROVE  LastPostIsRight'
  <2>1. CASE AppAnswer(l)
    BY <2>1, <1>4 DEF AppAnswer
  <2>2. CASE Select(l)
    BY <2>2, SelectPosted
  <2>3. CASE Hangup(l)
    BY <2>3, <1>5 DEF Hangup, EndHere
  <2> QED BY <1>6, <2>1, <2>2, <2>3
<1>7. ASSUME NEW s \in Slot, NEW l \in Line, AcceptIncompatible(l, s)
      PROVE  LastPostIsRight'
  <2>1. PICK r : r = [calls[l] EXCEPT !.lost = TRUE]
    OBVIOUS
  <2>2. calls' = [calls EXCEPT ![l] = r]
    BY <1>7, <2>1 DEF AcceptIncompatible
  <2>3. calls[l] \in LineRecord /\ Knows(calls[l])
    BY KnowsAll DEF IInv, TypeOK, LineRecord
  <2>4. r.state = calls[l].state /\ r.session = calls[l].session /\ r.posted = calls[l].posted
    BY <2>1, <2>3 DEF LineRecord
  <2>5. Knows(r)
    BY <2>3, <2>4 DEF Knows
  <2> QED BY <2>2, <2>5, OneLinePosted
<1>8. ASSUME NEW s \in Slot, NEW l \in Line, Ring(l, s) PROVE LastPostIsRight'
  <2>1. PICK w : w = With(calls[l], "RINGING")
    OBVIOUS
  <2>2. "RINGING" \in Bits \ {"ACTIVE"}
    BY DEF Bits
  <2>3. Fair(w)
    BY <2>1, <2>2, LinesAreFair, WithFair
  <2>4. Knows(Reported(w)) /\ calls' = [calls EXCEPT ![l] = Reported(w)]
    BY <1>8, <2>1, <2>3, ReportedKnows DEF Ring
  <2> QED BY <2>4, OneLinePosted
<1>9. ASSUME NEW s \in Slot, NEW l \in Line,
             RemoteEnd(l, s) \/ BusyOrTimeout(l, s) \/ AnswerOrVoice(l, s)
      PROVE  LastPostIsRight'
  <2>1. CASE RemoteEnd(l, s)
    BY <2>1, <1>5 DEF RemoteEnd
  <2>2. CASE BusyOrTimeout(l, s)
    BY <2>2, <1>5 DEF BusyOrTimeout, EndHere
  <2>3. CASE AnswerOrVoice(l, s)
    BY <2>3, <1>4 DEF AnswerOrVoice, PeerAnswered, Answered
  <2> QED BY <1>9, <2>1, <2>2, <2>3
<1>10. CASE Unregister \/ (\E s \in Slot : RemoteEndOfRefused(s) \/ RegReply(s))
            \/ \E f \in schedq : FinalFrameDue(f)
  BY <1>10, <1>2 DEF Unregister, RemoteEndOfRefused, RegReply, FinalFrameDue
<1>11. CASE Restart
  <2>1. \A l \in Line : Knows(calls'[l])
    BY <1>11, FreeLineKnows DEF Restart
  <2> QED BY <2>1 DEF LastPostIsRight, Knows
<1>12. CASE UNCHANGED vars
  BY <1>12, <1>2 DEF vars
<1> QED BY <1>1, <1>3, <1>6, <1>7, <1>8, <1>9, <1>10, <1>11, <1>12 DEF Next

-----------------------------------------------------------------------------
(* The holders of a session *)

HeldByLine(s) == \E l \in Line : calls[l].session = s

\* A session that was refused has no holder, unless its address already had; every
\* other one has; and there is no session of a registration that was not made.
Held ==
    /\ \A s \in Live(heap) :
           IF heap[s].refused THEN heap[s].reused \/ (~HeldByLine(s) /\ reg.session # s)
           ELSE HeldByLine(s) \/ reg.session = s
    /\ ~reg.made => reg.session = NULL

\* No session but s is new, and those that stay keep their holders.
LEMMA HeldKept ==
    ASSUME Held, NEW s, ~reg'.made => reg'.session = NULL,
           \A x \in Live(heap') \ {s} :
               /\ x \in Live(heap) /\ heap'[x] = heap[x]
               /\ HeldByLine(x)' <=> HeldByLine(x)
               /\ reg'.session = x <=> reg.session = x,
           s \in Live(heap') =>
               IF heap'[s].refused
               THEN heap'[s].reused \/ (~HeldByLine(s)' /\ reg'.session # s)
               ELSE HeldByLine(s)' \/ reg'.session = s
    PROVE  Held'
<1>1. ASSUME NEW x \in Live(heap')
      PROVE  IF heap'[x].refused
             THEN heap'[x].reused \/ (~HeldByLine(x)' /\ reg'.session # x)
             ELSE HeldByLine(x)' \/ reg'.session = x
  <2>1. CASE x = s
    BY <2>1, <1>1
  <2>2. CASE x # s
    BY <2>2, <1>1 DEF Held
  <2> QED BY <2>1, <2>2
<1> QED BY <1>1 DEF Held

\* A new session that is not made at an address something names has no holder.
LEMMA NewIsUnheld ==
    ASSUME NEW s, s \notin Named(reg.session)
    PROVE  ~HeldByLine(s) /\ reg.session # s
BY DEF Named, HeldByLine

\* A line that had no session gets the new one.
LEMMA UsedHeld ==
    ASSUME IInv, Held, NEW l \in Line, NEW s \in Slot, NEW c \in Callno,
           heap' = Created(heap, s, c, reg.session), reg' = reg,
           calls[l].session = NULL, calls'[l].session = s,
           \A k \in Line : k # l => calls'[k].session = calls[k].session
    PROVE  Held'
<1>1. /\ heap'[s] = [callno |-> c, refused |-> FALSE, reused |-> s \in Named(reg.session)]
      /\ \A x \in Slot : x # s => heap'[x] = heap[x]
  BY DEF IInv, TypeOK, Created
<1>2. HeldByLine(s)'
  BY DEF HeldByLine
<1>3. ~heap'[s].refused
  BY <1>1
<1>4. ASSUME NEW x \in Live(heap') \ {s}
      PROVE  /\ x \in Live(heap) /\ heap'[x] = heap[x]
             /\ HeldByLine(x)' <=> HeldByLine(x)
  <2>1. x \in Slot /\ x \in Live(heap) /\ heap'[x] = heap[x] /\ x # NULL
    BY <1>1, CallTableAssumption DEF Live
  <2>2. \A k \in Line : calls'[k].session = x <=> calls[k].session = x
    BY <2>1
  <2> QED BY <2>1, <2>2 DEF HeldByLine
<1>5. ~reg'.made => reg'.session = NULL
  BY DEF Held
<1> QED BY <1>2, <1>3, <1>4, <1>5, HeldKept

\* Sessions end, and none of the lines' that stay.
LEMMA EndedHeld ==
    ASSUME Held, UNCHANGED reg,
           \A x \in Live(heap') : x \in Live(heap) /\ heap'[x] = heap[x],
           \A x \in Live(heap') : HeldByLine(x)' <=> HeldByLine(x)
    PROVE  Held'
<1>1. ASSUME NEW x \in Live(heap')
      PROVE  IF heap'[x].refused
             THEN heap'[x].reused \/ (~HeldByLine(x)' /\ reg'.session # x)
             ELSE HeldByLine(x)' \/ reg'.session = x
  BY <1>1 DEF Held
<1> QED BY <1>1 DEF Held

LEMMA DialHeld ==
    ASSUME IInv, Held, NEW l \in Line, NEW s \in Slot, NEW c \in Callno,
           Dial(l, s, c)
    PROVE  Held'
<1>a. PICK b \in SUBSET Bits : b = {"OUTGOING", "ACTIVE"}
  BY DEF Bits
<1>b. PICK u : u = Used(l, s, c, b)
  OBVIOUS
<1>c. PICK d : d = [calls EXCEPT ![l] = u]
  OBVIOUS
<1>1. u \in LineRecord /\ u.session = s
  BY <1>b, CallTableAssumption DEF IInv, TypeOK, Used, LineRecord, Bits
<1>2. calls' = Chosen(d, l)
  BY <1>b, <1>a, <1>c DEF Dial
<1>3. calls \in [Line -> LineRecord] /\ selected \in Line \cup {NoLine}
  BY DEF IInv, TypeOK, LineRecord
<1>4. /\ d \in [Line -> LineRecord]
      /\ d[l] = u /\ \A k \in Line : k # l => d[k] = calls[k]
  BY <1>1, <1>3, <1>c
<1>5. \A k \in Line : "SELECTED" \in d[k].state => k = selected \/ k = l
  BY <1>4 DEF IInv, SelectedBitIsUnique
<1>6. \A k \in Line : Same(d[k], calls'[k])
  BY <1>2, <1>3, <1>4, <1>5, ChosenKeeps
<1>7. /\ calls'[l].session = s
      /\ \A k \in Line : k # l => calls'[k].session = calls[k].session
  BY <1>1, <1>4, <1>6 DEF Same
<1>8. /\ heap' = Created(heap, s, c, reg.session) /\ reg' = reg
      /\ DialLine(l)
  BY DEF Dial
<1>9. calls[l].session = NULL
  BY <1>8, DialLineIsFree
<1> QED BY <1>7, <1>8, <1>9, UsedHeld

LEMMA IncomingHeld ==
    ASSUME IInv, Held, NEW l \in Line, NEW s \in Slot, NEW c \in Callno,
           Incoming(l, s, c)
    PROVE  Held'
<1>1. PICK b \in SUBSET Bits : b = {"ACTIVE", "RINGING"}
  BY DEF Bits
<1>2. PICK u : u = Used(l, s, c, b)
  OBVIOUS
<1>3. u \in LineRecord /\ u.session = s
  BY <1>2 DEF IInv, TypeOK, Used, LineRecord
<1>4. Reported(u).session = s
  BY <1>3, ReportedKeeps
<1>5. calls' = [calls EXCEPT ![l] = Reported(u)] /\ DOMAIN calls = Line
  BY <1>1, <1>2 DEF Incoming, IInv, TypeOK
<1>6. /\ calls'[l].session = s
      /\ \A k \in Line : k # l => calls'[k].session = calls[k].session
  BY <1>4, <1>5
<1>7. /\ heap' = Created(heap, s, c, reg.session) /\ reg' = reg
      /\ FirstFree(l)
  BY DEF Incoming
<1>8. calls[l].session = NULL
  BY <1>7, DialLineIsFree
<1> QED BY <1>6, <1>7, <1>8, UsedHeld

\* iaxc_clear_call of a line whose session is destroyed
LEMMA LineEndedHeld ==
    ASSUME IInv, Held, NEW l \in Line, UNCHANGED reg,
           heap' = Destroyed(heap, calls[l].session), calls' = Cleared(calls, l)
    PROVE  Held'
<1>1. PICK s : s = calls[l].session
  OBVIOUS
<1>2. \A x \in Live(heap') : x \in Live(heap) /\ heap'[x] = heap[x] /\ x # s /\ x # NULL
  BY <1>1, CallTableAssumption DEF Destroyed, Live
<1>3. calls'[l].session = NULL /\ \A k \in Line : k # l => calls'[k] = calls[k]
  BY DEF Cleared, FreeLine, IInv, TypeOK
<1>4. ASSUME NEW x \in Live(heap') PROVE HeldByLine(x)' <=> HeldByLine(x)
  <2>1. \A k \in Line : calls'[k].session = x <=> calls[k].session = x
    BY <1>1, <1>2, <1>3
  <2> QED BY <2>1 DEF HeldByLine
<1> QED BY <1>2, <1>4, EndedHeld

\* Lines keep their sessions; sessions end, or none changes.
LEMMA SessionsKeptHeld ==
    ASSUME Held, UNCHANGED reg,
           \A k \in Line : calls'[k].session = calls[k].session,
           \A x \in Live(heap') : x \in Live(heap) /\ heap'[x] = heap[x]
    PROVE  Held'
<1>1. ASSUME NEW x \in Live(heap') PROVE HeldByLine(x)' <=> HeldByLine(x)
  BY DEF HeldByLine
<1> QED BY <1>1, EndedHeld

LEMMA DestroyedLive ==
    ASSUME NEW s, heap' = Destroyed(heap, s)
    PROVE  \A x \in Live(heap') : x \in Live(heap) /\ heap'[x] = heap[x] /\ x # s
BY DEF Destroyed, Live

\* Answering keeps the session of every line.
LEMMA AnswerHeld ==
    ASSUME IInv, Held, NEW l \in Line,
           calls' = [calls EXCEPT ![l] = Answered(calls[l])], UNCHANGED <<heap, reg>>
    PROVE  Held'
<1>1. calls \in [Line -> LineRecord]
  BY DEF IInv, TypeOK, LineRecord
<1>2. Answered(calls[l]).session = calls[l].session
  BY <1>1, AnsweredKeeps DEF Same
<1>3. \A k \in Line : calls'[k].session = calls[k].session
  BY <1>1, <1>2
<1> QED BY <1>3, SessionsKeptHeld

LEMMA SelectHeld ==
    ASSUME IInv, Held, NEW l \in Line, Select(l)
    PROVE  Held'
<1>1. /\ calls \in [Line -> LineRecord] /\ selected \in Line \cup {NoLine}
      /\ \A k \in Line : "SELECTED" \in calls[k].state => k = selected \/ k = l
  BY DEF IInv, TypeOK, LineRecord, SelectedBitIsUnique
<1>2. \A k \in Line : Same(calls[k], Chosen(calls, l)[k])
  BY <1>1, ChosenKeeps
<1>3. \A k \in Line : calls'[k].session = calls[k].session
  BY <1>2 DEF Select, Same
<1> QED BY <1>3, SessionsKeptHeld DEF Select

\* The registration's sessions and the refused ones, which no line has
LEMMA OtherHeld ==
    ASSUME IInv, Held, NEW s \in Slot, NEW c \in Callno,
           Register(s, c) \/ Refresh(s, c) \/ IncomingRefused(s, c)
    PROVE  Held'
<1>1. UNCHANGED calls
  BY DEF Register, Refresh, IncomingRefused
<1>2. \A x : HeldByLine(x)' <=> HeldByLine(x)
  BY <1>1 DEF HeldByLine
<1>3. CASE Register(s, c)
  <2>1. /\ reg.session = NULL /\ reg'.session = s /\ reg'.made
        /\ heap'[s] = [callno |-> c, refused |-> FALSE, reused |-> s \in Named(NULL)]
        /\ \A x \in Slot : x # s => heap'[x] = heap[x]
    BY <1>3 DEF Register, Held, Created, IInv, TypeOK
  <2>2. \A x \in Live(heap') \ {s} : x \in Live(heap) /\ heap'[x] = heap[x] /\ x # NULL
    BY <2>1, CallTableAssumption DEF Live
  <2> QED BY <1>2, <2>1, <2>2, HeldKept
<1>4. CASE Refresh(s, c)
  <2>1. PICK h : h = Destroyed(heap, reg.session)
    OBVIOUS
  <2>2. /\ heap' = [h EXCEPT ![s] = [callno |-> c, refused |-> FALSE,
                                     reused |-> s \in Named(NULL)]]
        /\ DOMAIN h = Slot
    BY <1>4, <2>1 DEF Refresh, BeforeRefresh, Created, Destroyed
  <2>3. reg'.session = s /\ reg'.made
    BY <1>4 DEF Refresh
  <2>4. \A x \in Live(heap') \ {s} : x \in Live(h) /\ heap'[x] = h[x]
    BY <2>2 DEF Live
  <2>5. \A x \in Live(h) : x \in Live(heap) /\ h[x] = heap[x] /\ x # reg.session
    BY <2>1 DEF Destroyed, Live
  <2>6. heap'[s].refused = FALSE
    BY <2>2
  <2> QED BY <1>2, <2>3, <2>4, <2>5, <2>6, HeldKept
<1>5. CASE IncomingRefused(s, c)
  <2>1. /\ heap' = [heap EXCEPT ![s] = [callno |-> c, refused |-> TRUE,
                                        reused |-> s \in Named(reg.session)]]
        /\ reg' = reg /\ DOMAIN heap = Slot
    BY <1>5, NewIsRefused DEF IncomingRefused, IInv, TypeOK
  <2>2. \A x \in Live(heap') \ {s} : x \in Live(heap) /\ heap'[x] = heap[x]
    BY <2>1 DEF Live
  <2>3. heap'[s].refused /\ (heap'[s].reused <=> s \in Named(reg.session))
    BY <2>1
  <2>4. heap'[s].reused \/ (~HeldByLine(s)' /\ reg'.session # s)
    BY <1>2, <2>1, <2>3, NewIsUnheld
  <2>5. ~reg'.made => reg'.session = NULL
    BY <2>1 DEF Held
  <2> QED BY <1>2, <2>1, <2>2, <2>3, <2>4, <2>5, HeldKept
<1> QED BY <1>3, <1>4, <1>5

\* The registration's session ends.
LEMMA RegEndHeld ==
    ASSUME Held, UNCHANGED calls, heap' = Destroyed(heap, reg.session),
           reg' \in {NoReg, [made |-> TRUE, session |-> NULL]}
    PROVE  Held'
<1>1. \A x : HeldByLine(x)' <=> HeldByLine(x)
  BY DEF HeldByLine
<1>2. \A x \in Live(heap') :
          x \in Live(heap) /\ heap'[x] = heap[x] /\ x # reg.session /\ x # NULL
  BY CallTableAssumption DEF Destroyed, Live
<1>3. reg'.session = NULL
  BY DEF NoReg
<1>4. ASSUME NEW x \in Live(heap')
      PROVE  IF heap'[x].refused
             THEN heap'[x].reused \/ (~HeldByLine(x)' /\ reg'.session # x)
             ELSE HeldByLine(x)' \/ reg'.session = x
  BY <1>1, <1>2, <1>3, <1>4 DEF Held
<1> QED BY <1>3, <1>4 DEF Held

\* iaxc_dump_all_calls ends the session of every line that has one.
LEMMA RestartHeld == ASSUME IInv, Held, Restart PROVE Held'
<1>1. PICK dumped : dumped = {l \in Line : ~Free(l)}
  OBVIOUS
<1>2. heap' = DumpedSessions(dumped) /\ reg' = reg /\ calls' = [l \in Line |-> FreeLine]
  BY <1>1 DEF Restart
<1>3. ASSUME NEW l \in Line, calls[l].session # NULL PROVE l \in dumped
  BY <1>1, <1>3 DEF Free, IInv, ActiveIffSession
<1>4. ASSUME NEW x \in Live(heap')
      PROVE  /\ x \in Live(heap) /\ heap'[x] = heap[x] /\ x # NULL
             /\ \A l \in dumped : calls[l].session # x
  BY <1>2, CallTableAssumption DEF DumpedSessions, Has, Live
<1>5. \A l \in Line : calls'[l].session = NULL
  BY <1>2 DEF FreeLine
<1>6. ASSUME NEW x \in Live(heap') PROVE HeldByLine(x)' <=> HeldByLine(x)
  BY <1>3, <1>4, <1>5 DEF HeldByLine
<1> QED BY <1>2, <1>4, <1>6, EndedHeld

LEMMA InitHeld == Init => Held
BY DEF Init, Held, Live, NoReg

LEMMA NextHeld ==
    ASSUME IInv, Held, [Next]_vars
    PROVE  Held'
<1>1. ASSUME NEW s \in Slot, NEW c \in Callno, NEW l \in Line,
             Dial(l, s, c) \/ Incoming(l, s, c)
      PROVE  Held'
  BY <1>1, DialHeld, IncomingHeld
<1>2. ASSUME NEW s \in Slot, NEW c \in Callno,
             Register(s, c) \/ Refresh(s, c) \/ IncomingRefused(s, c)
      PROVE  Held'
  BY <1>2, OtherHeld
<1>3. CASE UNCHANGED <<heap, calls, reg>>
  BY <1>3, SessionsKeptHeld
<1>4. ASSUME NEW l \in Line, AppAnswer(l) \/ Select(l) \/ Hangup(l) PROVE Held'
  <2>1. CASE AppAnswer(l)
    BY <2>1, AnswerHeld DEF AppAnswer
  <2>2. CASE Select(l)
    BY <2>2, SelectHeld
  <2>3. CASE Hangup(l)
    BY <2>3, LineEndedHeld DEF Hangup, EndHere
  <2> QED BY <1>4, <2>1, <2>2, <2>3
<1>5. ASSUME NEW s \in Slot, NEW l \in Line, AcceptIncompatible(l, s) PROVE Held'
  <2>1. /\ heap' = Destroyed(heap, s) /\ reg' = reg
        /\ calls' = [calls EXCEPT ![l].lost = TRUE]
    BY <1>5 DEF AcceptIncompatible
  <2>2. \A k \in Line : calls'[k].session = calls[k].session
    BY <2>1 DEF IInv, TypeOK
  <2> QED BY <2>1, <2>2, DestroyedLive, SessionsKeptHeld
<1>6. ASSUME NEW s \in Slot, NEW l \in Line, Ring(l, s) PROVE Held'
  <2>1. PICK w : w = With(calls[l], "RINGING")
    OBVIOUS
  <2>2. calls \in [Line -> LineRecord] /\ "RINGING" \in Bits
    BY DEF IInv, TypeOK, LineRecord, Bits
  <2>3. w \in LineRecord /\ w.session = calls[l].session
    BY <2>1, <2>2, WithKeeps
  <2>4. Reported(w).session = calls[l].session
    BY <2>3, ReportedKeeps
  <2>5. calls' = [calls EXCEPT ![l] = Reported(w)] /\ UNCHANGED <<heap, reg>>
    BY <1>6, <2>1 DEF Ring
  <2>6. \A k \in Line : calls'[k].session = calls[k].session
    BY <2>2, <2>4, <2>5
  <2> QED BY <2>5, <2>6, SessionsKeptHeld
<1>7. ASSUME NEW s \in Slot, NEW l \in Line,
             RemoteEnd(l, s) \/ BusyOrTimeout(l, s) \/ AnswerOrVoice(l, s)
      PROVE  Held'
  <2>1. CASE RemoteEnd(l, s)
    BY <2>1, LineEndedHeld DEF RemoteEnd, FindCall, Has
  <2>2. CASE BusyOrTimeout(l, s)
    BY <2>2, LineEndedHeld DEF BusyOrTimeout, EndHere
  <2>3. CASE AnswerOrVoice(l, s)
    BY <2>3, AnswerHeld DEF AnswerOrVoice, PeerAnswered, Answered
  <2> QED BY <1>7, <2>1, <2>2, <2>3
<1>8. CASE Unregister \/ \E s \in Slot : RegReply(s)
  BY <1>8, RegEndHeld DEF Unregister, RegReply
<1>9. CASE (\E s \in Slot : RemoteEndOfRefused(s)) \/ \E f \in schedq : FinalFrameDue(f)
  <2>1. UNCHANGED <<calls, reg>> /\ \E s : heap' = Destroyed(heap, s)
    BY <1>9 DEF RemoteEndOfRefused, FinalFrameDue
  <2> QED BY <2>1, DestroyedLive, SessionsKeptHeld
<1>10. CASE Restart
  BY <1>10, RestartHeld
<1>11. ASSUME NEW s \in Slot, NEW c \in Callno, IncomingRejected(s, c) PROVE Held'
  BY <1>11, <1>3 DEF IncomingRejected
<1>12. CASE UNCHANGED vars
  BY <1>12, <1>3 DEF vars
<1> QED BY <1>1, <1>2, <1>4, <1>5, <1>6, <1>7, <1>8, <1>9, <1>10, <1>11, <1>12 DEF Next

\* The holders of a session that lives are counted.
LEMMA HoldersCounted ==
    ASSUME IInv, Held
    PROVE  SessionsAreAccountedFor
<1> USE CallTableAssumption
<1> SUFFICES ASSUME NEW s \in Live(heap)
             PROVE  /\ ~heap[s].refused => Holders(s) # {}
                    /\ ~heap[s].reused =>
                           Cardinality(Holders(s)) = (IF heap[s].refused THEN 0 ELSE 1)
  BY DEF SessionsAreAccountedFor
<1>1. s \in Slot /\ s # NULL /\ SessionsDiffer /\ RegIsAlone
  BY DEF IInv, Ownership, Live
<1>2. ~heap[s].refused => Holders(s) # {}
  BY DEF Held, HeldByLine, Holders
<1>3. ASSUME ~heap[s].reused
      PROVE  Cardinality(Holders(s)) = (IF heap[s].refused THEN 0 ELSE 1)
  <2>1. Fresh(s)
    BY <1>3 DEF Fresh
  <2>2. CASE heap[s].refused
    <3>1. Holders(s) = {}
      BY <1>3, <2>2 DEF Held, HeldByLine, Holders
    <3> QED BY <2>2, <3>1, FS_EmptySet
  <2>3. CASE ~heap[s].refused /\ reg.session = s
    <3>1. \A l \in Line : calls[l].session # s
      BY <1>1, <2>1, <2>3 DEF RegIsAlone
    <3>2. Holders(s) = {NULL}
      BY <2>3, <3>1 DEF Holders
    <3> QED BY <2>3, <3>2, FS_Singleton
  <2>4. CASE ~heap[s].refused /\ reg.session # s
    <3>1. PICK l \in Line : calls[l].session = s
      BY <2>4 DEF Held, HeldByLine
    <3>2. \A k \in Line : calls[k].session = s => k = l
      BY <1>1, <2>1, <3>1 DEF SessionsDiffer
    <3>3. Holders(s) = {l}
      BY <2>4, <3>1, <3>2 DEF Holders
    <3> QED BY <2>4, <3>3, FS_Singleton
  <2> QED BY <2>2, <2>3, <2>4
<1> QED BY <1>2, <1>3

-----------------------------------------------------------------------------
(* The results *)

\* Every step of the handlers and of the application keeps the invariant.
THEOREM InductiveInvariant == Spec => []IInv
BY InitInv, NextInv, PTL DEF Spec

\* The table, the sessions and the queue have the values the code can give them; a
\* line has a session exactly while it is the line of a call.
THEOREM TypeCorrect == Spec => []TypeOK
<1>1. IInv => TypeOK
  BY DEF IInv
<1> QED BY <1>1, InductiveInvariant, PTL

\* Media never goes to a line other than the one the SELECTED bit names, whatever the
\* number of lines and the order of calls, answers and hangups (iaxc_select_call).
THEOREM SelectedUnique == Spec => []SelectedBitIsUnique
<1>1. IInv => SelectedBitIsUnique
  BY DEF IInv
<1> QED BY <1>1, InductiveInvariant, PTL

\* iaxc_first_free_call passes over exactly the lines that have a session: no call is
\* put on the line of another, and no line of an ended call stays taken.
THEOREM ActiveExact == Spec => []ActiveIffSession
<1>1. IInv => ActiveIffSession
  BY DEF IInv
<1> QED BY <1>1, InductiveInvariant, PTL

\* Whatever addresses malloc gives out, a line whose session was made at an address
\* that nothing still named keeps it until its own end, unless an ACCEPT with a wrong
\* format ended it: neither the end of another line, nor the registration's refresh, nor
\* a late final frame destroys it, and no session made later gets its address.
THEOREM SessionKept == Spec => []LineHasItsSession
<1>1. IInv => LineHasItsSession
  BY DEF IInv, Ownership
<1> QED BY <1>1, InductiveInvariant, PTL

\* Whatever the order of calls, selections, answers and ends, the last activity posted
\* about a line that has lost its session is that it is free, and about the answered call
\* that is selected that it is answered (wtkcall_lib.c).  In which order posts are
\* delivered is not said here: the queue may let one overtake another.
THEOREM LastPostRight == Spec => []LastPostIsRight
<1>1. Init => LastPostIsRight
  BY DEF Init, LastPostIsRight, FreeLine
<1>2. IInv /\ LastPostIsRight /\ [Next]_vars => LastPostIsRight'
  BY NextPosted
<1> QED BY <1>1, <1>2, InductiveInvariant, PTL DEF Spec

\* No session is leaked by a refresh, a restart or the end of a call: one that was not
\* refused is held by a line or by the registration, whatever addresses malloc gives out.
\* One that was made at an address nothing still named is held only once.
THEOREM EverySessionHasOneHolder == Spec => []SessionsAreAccountedFor
<1>1. Init => Held
  BY InitHeld
<1>2. IInv /\ Held /\ [Next]_vars => Held'
  BY NextHeld
<1>3. IInv /\ Held => SessionsAreAccountedFor
  BY HoldersCounted
<1> QED BY <1>1, <1>2, <1>3, InductiveInvariant, PTL DEF Spec

=============================================================================
