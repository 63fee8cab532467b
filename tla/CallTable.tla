-------------------------------- MODULE CallTable --------------------------------
(***************************************************************************)
(* The client's calls: the lines of the call table and the registration    *)
(* (iaxclient_lib.c, wtkcall_lib.c), the IAX sessions they point to, and   *)
(* the last frames of ended sessions that schedq still holds (iax.c).      *)
(*                                                                         *)
(* A handler runs under iaxc_lock from its first line to its last, so each *)
(* is one action.  Sessions are C objects: a line, the registration and a  *)
(* scheduled frame know one by its address, and malloc may give an address *)
(* out again while some of them still hold it.  The application may dial,  *)
(* answer, select and hang up at any time, also on a line whose call has   *)
(* just ended.  Frames without an effect on lines and sessions, and        *)
(* transfers, are left out.                                                *)
(***************************************************************************)
EXTENDS Integers, FiniteSets

CONSTANTS
    max_calls,      \* number of lines
    Slot,           \* addresses malloc can give a session
    Callno,         \* call numbers; one that is in use is not given out again
    NULL,           \* no session
    NoCallno,       \* no call
    NoLine          \* no line selected

Line == 0 .. max_calls - 1

ASSUME CallTableAssumption ==
    /\ max_calls \in Nat \ {0}
    /\ NoLine \notin Line /\ NULL \notin Slot /\ NoCallno \notin Callno

VARIABLES
    heap,       \* the sessions by address: call number, whether it was refused, and
                \* whether something still named the address when it was made
    calls,      \* the lines
    selected,   \* selected_call
    reg,        \* the registration (at most one is modelled) and its session
    schedq      \* final frames: the address of their session and their call number

vars == <<heap, calls, selected, reg, schedq>>

Bits == {"ACTIVE", "OUTGOING", "RINGING", "COMPLETE", "SELECTED"}
Activity == {"FREE", "OUTGOING", "RINGIN", "ANSWERED"}

\* posted is the last activity of the line that was posted to the application; EventQueue
\* says in which order posts may reach it.  owner is the call number of the session the
\* line was given, lost that it ended and nobody told the call table, reused that its
\* address was one something else still named.
FreeLine == [state |-> {}, session |-> NULL, posted |-> "FREE",
             owner |-> NoCallno, lost |-> FALSE, reused |-> FALSE]

Session == [callno : Callno \cup {NoCallno}, refused : BOOLEAN, reused : BOOLEAN]

Dead == [callno |-> NoCallno, refused |-> FALSE, reused |-> FALSE]

Live(h) == {s \in Slot : h[s] # Dead}

-----------------------------------------------------------------------------
(* Sessions *)

\* The addresses something names, r being the registration's
Named(r) == {calls[l].session : l \in Line} \cup {f.slot : f \in schedq} \cup {r}

UsedCallnos ==
    {heap[s].callno : s \in Slot} \cup {f.callno : f \in schedq}
        \cup {calls[l].owner : l \in Line}

\* iax_session_new, with h the sessions there are
CanBeNew(h, s, c) ==
    /\ s \notin Live(h)
    /\ c \notin UsedCallnos

Created(h, s, c, r) ==
    [h EXCEPT ![s] = [callno |-> c, refused |-> FALSE, reused |-> s \in Named(r)]]

\* destroy_session: of the session that lives at the address now, if any
Destroyed(h, s) == [x \in Slot |-> IF x = s THEN Dead ELSE h[x]]

\* The call number in the memory at s, which may have been freed while l points to it.
CallnoAt(s, l) == IF s \in Live(heap) THEN heap[s].callno ELSE calls[l].owner

\* send_command_final: the last frame is scheduled and the session destroyed.
FinalFrames(s, c) == IF s = NULL THEN {} ELSE {[slot |-> s, callno |-> c]}

-----------------------------------------------------------------------------
(* Lines *)

\* iaxci_do_state_callback posts the line's state under iaxc_lock: handlers post in the
\* order they run in.  wtkcall_perform_state_callback makes the activity of it.
Reported(r) ==
    [r EXCEPT !.posted =
        IF r.state = {} THEN "FREE"
        ELSE IF {"ACTIVE", "RINGING"} \subseteq r.state
        THEN IF "OUTGOING" \in r.state THEN "OUTGOING" ELSE "RINGIN"
        ELSE IF {"ACTIVE", "COMPLETE", "SELECTED"} \subseteq r.state THEN "ANSWERED"
        ELSE r.posted]

With(r, bit) == [r EXCEPT !.state = r.state \cup {bit}]
Without(r, bit) == [r EXCEPT !.state = r.state \ {bit}]

\* iaxc_first_free_call gives the first of the lines without a bit set, if any.
Free(l) == calls[l].state = {}
FirstFree(l) == Free(l) /\ \A k \in Line : Free(k) => l <= k

Has(l, s) == calls[l].session = s

\* iaxc_find_call_by_session
FindCall(l, s) == Has(l, s) /\ \A k \in Line : Has(k, s) => l <= k

\* mutant: the first line is not looked at
NoCallFromOne(s) == \A l \in Line \ {0} : ~Has(l, s)

NoCall(s) == \A l \in Line : ~Has(l, s)

\* mutant: the pointer is not reset
KeptSession(c, l) == [c EXCEPT ![l] = [FreeLine EXCEPT !.session = c[l].session]]

\* mutant: the state is not reset
KeptState(c, l) == [c EXCEPT ![l] = [FreeLine EXCEPT !.state = c[l].state]]

\* iaxc_clear_call; the session is destroyed by the callers
Cleared(c, l) == [c EXCEPT ![l] = FreeLine]

Answered(r) == Reported(With(Without(r, "RINGING"), "COMPLETE"))

Deselected(c, l) ==
    IF selected \in {NoLine, l} THEN c
    ELSE [c EXCEPT ![selected] = Reported(Without(c[selected], "SELECTED"))]

\* iaxc_select_call: the line is selected; an incoming call that rings is answered.
Chosen(c, l) ==
    LET r == IF l = selected THEN c[l] ELSE With(c[l], "SELECTED")
    IN  [Deselected(c, l) EXCEPT ![l] =
            IF "RINGING" \in r.state /\ "OUTGOING" \notin r.state
            THEN Answered(r) ELSE Reported(With(r, "SELECTED"))]

Used(l, s, c, bits) ==
    [state |-> bits, session |-> s, posted |-> calls[l].posted, owner |-> c, lost |-> FALSE,
     reused |-> s \in Named(reg.session)]

-----------------------------------------------------------------------------
(* The application's calls (wtkcall_lib.c) *)

DialLine(l) ==
    IF selected # NoLine /\ "ACTIVE" \notin calls[selected].state
    THEN l = selected ELSE FirstFree(l)

Dial(l, s, c) ==
    /\ DialLine(l)
    /\ CanBeNew(heap, s, c)
    /\ heap' = Created(heap, s, c, reg.session)
    /\ calls' = Chosen([calls EXCEPT ![l] = Used(l, s, c, {"OUTGOING", "ACTIVE"})], l)
    /\ selected' = l
    /\ UNCHANGED <<reg, schedq>>

AppAnswer(l) ==
    /\ calls' = [calls EXCEPT ![l] = Answered(calls[l])]
    /\ UNCHANGED <<heap, selected, reg, schedq>>

Select(l) ==
    /\ calls' = Chosen(calls, l)
    /\ selected' = l
    /\ UNCHANGED <<heap, reg, schedq>>

\* iax_hangup or iax_reject of the line's session, then iaxc_clear_call
EndHere(l) ==
    LET s == calls[l].session
    IN  /\ schedq' = schedq \cup FinalFrames(s, CallnoAt(s, l))
        /\ heap' = Destroyed(heap, s)
        /\ calls' = Cleared(calls, l)
        /\ UNCHANGED <<selected, reg>>

Hangup(l) == EndHere(l)

\* iaxc_dump_all_calls: every line that is not free is hung up.
DumpedSessions(dumped) ==
    [x \in Slot |-> IF \E l \in dumped : Has(l, x) THEN Dead ELSE heap[x]]

\* The user leaves the application and comes back: wtkcall_shutdown_iax hangs up and
\* frees the table, wtkcall_initialize_iax makes a new one.  The registration and the
\* sessions without a line are static and stay, and so does schedq.
Restart ==
    LET dumped == {l \in Line : ~Free(l)}
    IN  /\ heap' = DumpedSessions(dumped)
        /\ schedq' = schedq \cup UNION {FinalFrames(calls[l].session,
                                                  CallnoAt(calls[l].session, l)) : l \in dumped}
        /\ calls' = [l \in Line |-> FreeLine]
        /\ selected' = NoLine
        /\ UNCHANGED reg

-----------------------------------------------------------------------------
(* The registration *)

NoReg == [made |-> FALSE, session |-> NULL]

Register(s, c) ==
    /\ ~reg.made
    /\ CanBeNew(heap, s, c)
    /\ heap' = Created(heap, s, c, NULL)
    /\ reg' = [made |-> TRUE, session |-> s]
    /\ UNCHANGED <<calls, selected, schedq>>

KeepOld(h, s) == h                             \* mutant: the old session is left alone

BeforeRefresh(h, s) == Destroyed(h, s)

\* iaxc_refresh_registrations: an unanswered REGREQ is given up.
Refresh(s, c) ==
    /\ reg.made
    /\ LET h == BeforeRefresh(heap, reg.session)
       IN  /\ CanBeNew(h, s, c)
           /\ heap' = Created(h, s, c, NULL)
    /\ reg' = [made |-> TRUE, session |-> s]
    /\ UNCHANGED <<calls, selected, schedq>>

Unregister ==
    /\ reg.made
    /\ heap' = Destroyed(heap, reg.session)
    /\ reg' = NoReg
    /\ UNCHANGED <<calls, selected, schedq>>

\* iaxc_handle_regreply, for whatever event its session has; REGREJ ends it.
RegReply(s) ==
    /\ s \in Live(heap) /\ NoCall(s) /\ reg.session = s
    /\ heap' = Destroyed(heap, s)
    /\ reg' \in {NoReg, [made |-> TRUE, session |-> NULL]}
    /\ UNCHANGED <<calls, selected, schedq>>

-----------------------------------------------------------------------------
(* Events from the network (iax_get_event, service_network) *)

\* NEW, no format in common: iax_reject of the session made for it
IncomingRejected(s, c) ==
    /\ \E l \in Line : Free(l)
    /\ CanBeNew(heap, s, c)
    /\ schedq' = schedq \cup FinalFrames(s, c)
    /\ UNCHANGED <<heap, calls, selected, reg>>

\* NEW: every line is taken (it is told BUSY), or the caller's name starts with
\* "[msg@", for which iax_reject is called with the line's session, which is NULL.
IncomingRefused(s, c) ==
    /\ CanBeNew(heap, s, c)
    /\ heap' = [Created(heap, s, c, reg.session) EXCEPT ![s].refused = TRUE]
    /\ UNCHANGED <<calls, selected, reg, schedq>>

Incoming(l, s, c) ==
    /\ FirstFree(l)
    /\ CanBeNew(heap, s, c)
    /\ heap' = Created(heap, s, c, reg.session)
    /\ calls' = [calls EXCEPT ![l] = Reported(Used(l, s, c, {"ACTIVE", "RINGING"}))]
    /\ UNCHANGED <<selected, reg, schedq>>

\* HANGUP, REJECT or INVAL from the peer; handle_event destroys the session first.
RemoteEnd(l, s) ==
    /\ s \in Live(heap) /\ FindCall(l, s)
    /\ heap' = Destroyed(heap, s)
    /\ calls' = Cleared(calls, l)
    /\ UNCHANGED <<selected, reg, schedq>>

RemoteEndOfRefused(s) ==
    /\ s \in Live(heap) /\ NoCall(s) /\ reg.session # s
    /\ heap' = Destroyed(heap, s)
    /\ UNCHANGED <<calls, selected, reg, schedq>>

\* BUSY, or IAX_EVENT_TIMEOUT, which is dropped when no line has the session
BusyOrTimeout(l, s) ==
    /\ s \in Live(heap) /\ FindCall(l, s)
    /\ EndHere(l)

\* ACCEPT with a format the call did not offer: a REJECT is sent and the session
\* destroyed; the event made of it is dropped, its session being no longer valid.
AcceptIncompatible(l, s) ==
    /\ s \in Live(heap) /\ FindCall(l, s) /\ "OUTGOING" \in calls[l].state
    /\ schedq' = schedq \cup FinalFrames(s, heap[s].callno)
    /\ heap' = Destroyed(heap, s)
    /\ calls' = [calls EXCEPT ![l].lost = TRUE]
    /\ UNCHANGED <<selected, reg>>

\* mutant: nobody is told
AnsweredSilently(r) == With(Without(r, "RINGING"), "COMPLETE")

PeerAnswered(r) == Reported(With(Without(r, "RINGING"), "COMPLETE"))

\* ANSWER, whatever the call; the first VOICE of an outgoing call that rings does the same.
AnswerOrVoice(l, s) ==
    /\ s \in Live(heap) /\ FindCall(l, s)
    /\ calls' = [calls EXCEPT ![l] = PeerAnswered(calls[l])]
    /\ UNCHANGED <<heap, selected, reg, schedq>>

Ring(l, s) ==
    /\ s \in Live(heap) /\ FindCall(l, s)
    /\ "COMPLETE" \notin calls[l].state
    /\ calls' = [calls EXCEPT ![l] = Reported(With(calls[l], "RINGING"))]
    /\ UNCHANGED <<heap, selected, reg, schedq>>

\* iax_get_event: a final frame is due.  destroy_session has marked it as acknowledged;
\* it is freed, and the session at the address it holds is destroyed.
FinalFrameDue(f) ==
    /\ schedq' = schedq \ {f}
    /\ heap' = Destroyed(heap, f.slot)
    /\ UNCHANGED <<calls, selected, reg>>

-----------------------------------------------------------------------------

Init ==
    /\ heap = [s \in Slot |-> Dead]
    /\ calls = [l \in Line |-> FreeLine]
    /\ selected = NoLine
    /\ reg = NoReg
    /\ schedq = {}

Next ==
    \/ \E s \in Slot, c \in Callno :
           \/ \E l \in Line : Dial(l, s, c) \/ Incoming(l, s, c)
           \/ IncomingRejected(s, c) \/ IncomingRefused(s, c)
           \/ Register(s, c) \/ Refresh(s, c)
    \/ \E l \in Line : AppAnswer(l) \/ Select(l) \/ Hangup(l)
    \/ Unregister \/ Restart
    \/ \E s \in Slot :
           \/ \E l \in Line :
                  \/ RemoteEnd(l, s) \/ BusyOrTimeout(l, s) \/ AcceptIncompatible(l, s)
                  \/ AnswerOrVoice(l, s) \/ Ring(l, s)
           \/ RemoteEndOfRefused(s) \/ RegReply(s)
    \/ \E f \in schedq : FinalFrameDue(f)

Spec == Init /\ [][Next]_vars

-----------------------------------------------------------------------------
(* Properties *)

\* A line has a session exactly while it is the line of some call.
TypeOK ==
    /\ heap \in [Slot -> Session]
    /\ calls \in [Line -> [state : SUBSET Bits, session : Slot \cup {NULL},
                           posted : Activity, owner : Callno \cup {NoCallno},
                           lost : BOOLEAN, reused : BOOLEAN]]
    /\ \A l \in Line : (calls[l].session = NULL) <=> (calls[l].owner = NoCallno)
    /\ selected \in Line \cup {NoLine}
    /\ reg \in [made : BOOLEAN, session : Slot \cup {NULL}]
    /\ schedq \subseteq [slot : Slot, callno : Callno]

\* Media, DTMF and text go to selected_call; the SELECTED bit, on which the
\* application is told of answers, never names another line.
SelectedBitIsUnique ==
    \A l \in Line : "SELECTED" \in calls[l].state => selected = l

\* iaxc_first_free_call and wtkcall_dial judge a line by its bits alone: they pass
\* over exactly the lines that have a session.
ActiveIffSession ==
    \A l \in Line : "ACTIVE" \in calls[l].state <=> calls[l].session # NULL

\* Nothing is left unsaid: the last activity posted about a line that has no session is
\* that it is free, and about the answered call that is selected that it is answered.
LastPostIsRight ==
    \A l \in Line :
        /\ calls[l].session = NULL => calls[l].posted = "FREE"
        /\ /\ {"ACTIVE", "COMPLETE", "SELECTED"} \subseteq calls[l].state
           /\ "RINGING" \notin calls[l].state
           => calls[l].posted = "ANSWERED"

\* The holders of a session's address.
Holders(s) ==
    {l \in Line : calls[l].session = s} \cup (IF reg.session = s THEN {NULL} ELSE {})

\* No session is leaked: one that was not refused has a holder.  None is shared: it has
\* one only, or none if it was refused, unless malloc made it at an address that a
\* scheduled frame or a line with a dead session still named.
SessionsAreAccountedFor ==
    \A s \in Live(heap) :
        /\ ~heap[s].refused => Holders(s) # {}
        /\ ~heap[s].reused => Cardinality(Holders(s)) = (IF heap[s].refused THEN 0 ELSE 1)

\* A line's session is the one it was given and lives: the end of another line, a refresh,
\* a restart or a late final frame takes it only if an ACCEPT with a wrong format has
\* ended it, or something named its address already when it was made.
LineHasItsSession ==
    \A l \in Line :
        calls[l].session # NULL /\ ~calls[l].lost /\ ~calls[l].reused
            => heap[calls[l].session]
                   = [callno |-> calls[l].owner, refused |-> FALSE, reused |-> FALSE]

\* "If final, destroy the session": a scheduled final frame names the session it was
\* sent for, or none.
FinalFrameNamesItsSession ==
    \A f \in schedq : f.slot \in Live(heap) => heap[f.slot].callno = f.callno

=============================================================================
