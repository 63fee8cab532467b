------------------------------- MODULE StateCtl -------------------------------
(***************************************************************************)
(* The StateCtl application of the call server (app_statectl.c), for one   *)
(* conference number: the conference is built when its first call arrives, *)
(* with a room of the mix server, and freed with the last reference to it; *)
(* its members come, are told of each other, are kicked and go.            *)
(*                                                                         *)
(* Every call is a thread of Asterisk that runs conf_exec.  It joins under *)
(* the lock of the conference (playlock) and leaves under the lock of the  *)
(* list of conferences (confs), so that joining and leaving do not exclude *)
(* each other: nor do a walk of the list of members under one lock and a   *)
(* change of it under the other.  A member that has left stays in the list,*)
(* marked as absent, until the conference ends or its number calls again.  *)
(*                                                                         *)
(* pc of a call: "find", "build" and "ask" look up or build the conference;*)
(* "admit" up to "enter" join it; "inside"; "leave", "leaving" leave it;   *)
(* "dispose" gives the reference back; "gone": its channel is destroyed.   *)
(***************************************************************************)
EXTENDS Integers, Sequences, FiniteSets, SequencesExt

CONSTANTS
    Chan,           \* calls (channels), each of them made once
    Number, num,    \* calling numbers, and the number each call comes from
    Session,        \* sessions: bound on the requests for a room
    Quiet,          \* calls with option q, of monitors or of admins: no entrance sound
    Nobody, NoNumber, NoSession,
    MaxCount        \* maxcount of the room in statectl.conf; 0: no limit

ASSUME StateCtlAssumption ==
    /\ Nobody \notin Chan /\ NoNumber \notin Number /\ NoSession \notin Session
    /\ num \in [Chan -> Number] /\ MaxCount \in Nat /\ Quiet \subseteq Chan

VARIABLES
    pc,             \* of each call: where it is
    source,         \* of each call: where it looks for the conference, while it looks
    conf,           \* the conference
    asked,          \* the sessions a room was asked for
    request,        \* the session of the request that waits for its reply
    confs, playlock,    \* who holds the locks
    user_no,        \* of the call that is about to join; 0: none is
    still,          \* i_hangup of the call that leaves
    heard,          \* the last status of each number a member was told
    admin,          \* a StateCtl command of the console
    overlapped,     \* joining and leaving have overlapped in this conference
    leaked,         \* the call that has left confs locked behind it
    torn,           \* the list changed under a walk that ended early, or has lost an entry
    seen            \* the members that the walk under playlock found present

vars == <<pc, source, conf, asked, request, confs, playlock, user_no, still, heard,
          admin, overlapped, leaked, torn, seen>>

\* struct ast_conf_user; active is user_status, kicked is ADMINFLAG_KICKME
User == [chan : Chan, cid : Number \cup {NoNumber}, no : Nat \ {0},
         active : BOOLEAN, kicked : BOOLEAN]

\* struct ast_conference
Conference == [refcount : Nat, users : Int, user_count : Int, userlist : Seq(User),
               session : Session \cup {NoSession}]

NoConference == [refcount |-> 0, users |-> 0, user_count |-> 0, userlist |-> <<>>,
                 session |-> NoSession]

Exists == conf.refcount > 0

\* AST_LIST_LAST of an empty list dereferenced, a text written to a channel that does not
\* exist, an entry used after free: the process may be dead, nothing follows here.
Alive == \A c \in Chan : pc[c] \notin {"crashed", "stray", "broken"}

\* The mutexes of Asterisk are recursive.
Unlocked(c) == confs \in {Nobody, c}

\* A call that has left confs locked only undoes its later locks.
Unlock == confs' = leaked

Goto(c, label) == pc' = [pc EXCEPT ![c] = label]

Actives == {i \in DOMAIN conf.userlist : conf.userlist[i].active}

\* The channels of the entries a walk has reached that are marked as present
Present(walk) == {conf.userlist[i].chan : i \in Actives \cap walk}

Members == Present(DOMAIN conf.userlist)

\* The entry of a call that is in the list.
Entry(c) == CHOOSE i \in DOMAIN conf.userlist : conf.userlist[i].chan = c

Listed(c) == \E i \in DOMAIN conf.userlist : conf.userlist[i].chan = c

-----------------------------------------------------------------------------
(* conf_exec: finding and building the conference *)

\* A call to the conference.
Call(c) ==
    /\ Alive /\ pc[c] = "idle"
    /\ Goto(c, "find")
    /\ UNCHANGED <<source, conf, asked, request, confs, playlock, user_no, still, heard,
                   admin, overlapped, leaked, torn, seen>>

\* mutant: the reference is taken when the conference is built, not when it is found
Found(cnf) == cnf

Referenced(cnf) == [cnf EXCEPT !.refcount = @ + 1]

Has(c) == Goto(c, "admit") /\ source' = [source EXCEPT ![c] = "config"]

\* find_conf, find_conf_realtime: the list of conferences first
Find(c) ==
    /\ Alive /\ pc[c] = "find" /\ Unlocked(c)
    /\ IF Exists THEN conf' = Referenced(conf) /\ Has(c)
                 ELSE Goto(c, "build") /\ UNCHANGED <<conf, source>>
    /\ UNCHANGED <<asked, request, confs, playlock, user_no, still, heard,
                   admin, overlapped, leaked, torn, seen>>

\* No conference: conf_exec looks in the database next, then it returns.
Failed(c) ==
    \/ /\ source[c] = "config"
       /\ Goto(c, "find") /\ source' = [source EXCEPT ![c] = "realtime"]
    \/ /\ source[c] = "realtime"
       /\ Goto(c, "gone") /\ source' = [source EXCEPT ![c] = "config"]

\* Neither configured there nor in the list, or its group has no valid modes.
NotConfigured(c) ==
    /\ Alive /\ pc[c] = "build" /\ Unlocked(c)
    /\ ~Exists
    /\ Failed(c)
    /\ UNCHANGED <<conf, asked, request, confs, playlock, user_no, still, heard,
                   admin, overlapped, leaked, torn, seen>>

\* build_conf: another call may have built it meanwhile
BuildFound(c) ==
    /\ Alive /\ pc[c] = "build" /\ Unlocked(c)
    /\ Exists
    /\ conf' = Referenced(conf)
    /\ Has(c)
    /\ UNCHANGED <<asked, request, confs, playlock, user_no, still, heard,
                   admin, overlapped, leaked, torn, seen>>

\* mutant: the session is made of the conference number alone
SessionOfNumber == CHOOSE s \in Session : TRUE

\* generate_statectl_uniqueid
Fresh == CHOOSE s \in Session : s \notin asked

\* build_conf, get_addr_from_Mixing: a room is asked for with confs locked
Build(c) ==
    /\ Alive /\ pc[c] = "build" /\ Unlocked(c)
    /\ ~Exists
    /\ Session # asked
    /\ asked' = asked \cup {Fresh} /\ request' = Fresh
    /\ confs' = c
    /\ Goto(c, "ask")
    /\ UNCHANGED <<source, conf, playlock, user_no, still, heard, admin, overlapped,
                   leaked, torn, seen>>

\* The reply: the conference is in the list, referenced by the call that has built it.
Answered(c) ==
    /\ Alive /\ pc[c] = "ask"
    /\ conf' = [NoConference EXCEPT !.refcount = 1, !.session = request]
    /\ request' = NoSession
    /\ Unlock
    /\ Has(c)
    /\ UNCHANGED <<asked, playlock, user_no, still, heard, admin, overlapped, leaked,
                   torn, seen>>

StaysLocked(c) == c         \* mutant: the error path does not unlock

LockedAfterFailure(c) == leaked

\* No reply in time
NoAnswer(c) ==
    /\ Alive /\ pc[c] = "ask"
    /\ request' = NoSession
    /\ confs' = LockedAfterFailure(c)
    /\ Failed(c)
    /\ UNCHANGED <<conf, asked, playlock, user_no, still, heard, admin, overlapped,
                   leaked, torn, seen>>

\* Not in the white list, or a wrong password
Refuse(c) ==
    /\ Alive /\ pc[c] = "admit"
    /\ Goto(c, "dispose")
    /\ UNCHANGED <<source, conf, asked, request, confs, playlock, user_no, still, heard,
                   admin, overlapped, leaked, torn, seen>>

-----------------------------------------------------------------------------
(* conf_run: joining *)

\* ast_answer; a conference that is full is left again. Nothing is locked.
Admit(c) ==
    /\ Alive /\ pc[c] = "admit"
    /\ IF MaxCount > 0 /\ conf.users >= MaxCount THEN Goto(c, "dispose") ELSE Goto(c, "join")
    /\ UNCHANGED <<source, conf, asked, request, confs, playlock, user_no, still, heard,
                   admin, overlapped, leaked, torn, seen>>

\* mutant: the numbers are not compared
AbsentOfAny(n) == {i \in DOMAIN conf.userlist : ~conf.userlist[i].active}

\* Entries of a number whose call has left.
Absent(n) ==
    {i \in DOMAIN conf.userlist : conf.userlist[i].cid = n /\ ~conf.userlist[i].active}

\* The one of them that is found first
FirstAbsent(n) == {i \in Absent(n) : \A j \in Absent(n) : i <= j}

\* AST_LIST_REMOVE inside AST_LIST_TRAVERSE: the walk ends with the first one removed.
Purged(n) ==
    IF Absent(n) = {} THEN {conf.userlist}
    ELSE {RemoveAt(conf.userlist, i) : i \in FirstAbsent(n)}

\* How far a walk under confs gets: AST_LIST_REMOVE cuts what comes after the entry it
\* removes off for whoever stands on it, and a call that joins removes under playlock.
Walks ==
    {DOMAIN conf.userlist} \cup
    UNION {{1 .. i : i \in FirstAbsent(num[d])} : d \in {e \in Chan : pc[e] = "scan"}}

Torn(walk) == torn' = (torn \/ walk # DOMAIN conf.userlist)

\* A joining and a leaving section are under way at the same time.
Leaving == \E d \in Chan : pc[d] = "leaving"
Joining == \E d \in Chan : pc[d] \in {"scan", "insert", "fill"}

\* One that takes its entry out of the list, and frees it
Removing == \E d \in Chan : pc[d] = "leaving" /\ still[d]

\* Two threads count at once without a common lock: one of the updates may be lost.
Counted(n, delta, race) == {n + delta} \cup (IF race THEN {n} ELSE {})

UnpurgedCount(n) == {conf.user_count}   \* mutant: the removed entry stays in the count

CountPurged(n) ==
    IF Absent(n) = {} THEN {conf.user_count} ELSE Counted(conf.user_count, -1, Leaving)

NextNumber(list) == list[Len(list)].no + 1

FirstNumber == 1

\* The new user is made; playlock is taken.
JoinLock(c) ==
    /\ Alive /\ pc[c] = "join" /\ playlock = Nobody
    /\ playlock' = c
    /\ Goto(c, "scan")
    /\ overlapped' = (overlapped \/ Leaving)
    /\ UNCHANGED <<source, conf, asked, request, confs, user_no, still, heard, admin,
                   leaked, torn, seen>>

\* Under playlock: the absent entry of the same number goes, the user gets a number.
JoinScan(c) ==
    /\ Alive /\ pc[c] = "scan"
    /\ \E list \in Purged(num[c]), v \in CountPurged(num[c]) :
           IF conf.userlist # <<>> /\ list = <<>>
           THEN Goto(c, "crashed") /\ UNCHANGED <<conf, user_no>>
           ELSE /\ Goto(c, "insert")
                /\ user_no' = IF conf.userlist = <<>> THEN FirstNumber ELSE NextNumber(list)
                /\ conf' = [conf EXCEPT !.userlist = list, !.user_count = v]
    /\ UNCHANGED <<source, asked, request, confs, playlock, still, heard, admin,
                   overlapped, leaked, torn, seen>>

\* Still under playlock: the new entry is in the list before it is filled in.  While another
\* call takes its own out, under confs, the new one may get lost, or the links may break.
JoinInsert(c) ==
    /\ Alive /\ pc[c] = "insert"
    /\ \/ /\ conf' = [conf EXCEPT !.userlist = Append(@,
                          [chan |-> c, cid |-> NoNumber, no |-> user_no,
                           active |-> FALSE, kicked |-> FALSE])]
          /\ Goto(c, "fill")
          /\ UNCHANGED torn
       \/ Removing /\ Goto(c, "fill") /\ torn' = TRUE /\ UNCHANGED conf
       \/ Removing /\ Goto(c, "broken") /\ UNCHANGED <<conf, torn>>
    /\ user_no' = 0
    /\ UNCHANGED <<source, asked, request, confs, playlock, still, heard,
                   admin, overlapped, leaked, seen>>

\* Caller, status, flags: what was set meanwhile is lost.
Filled(c) ==
    IF Listed(c)
    THEN [conf.userlist EXCEPT ![Entry(c)] =
             [@ EXCEPT !.cid = num[c], !.active = TRUE, !.kicked = FALSE]]
    ELSE conf.userlist

\* The entry is filled in, the counters are counted up; playlock is free.
JoinFill(c) ==
    /\ Alive /\ pc[c] = "fill"
    /\ \E u \in Counted(conf.users, 1, Leaving),
          v \in Counted(conf.user_count, 1, Leaving) :
           conf' = [conf EXCEPT !.users = u, !.user_count = v, !.userlist = Filled(c)]
    /\ playlock' = Nobody
    /\ Goto(c, "enter")
    /\ UNCHANGED <<source, asked, request, confs, user_no, still, heard, admin,
                   overlapped, leaked, torn, seen>>

\* Under playlock again, for the announcement; a quiet call has no entrance sound.
Enter(c) ==
    /\ Alive /\ pc[c] = "enter" /\ playlock = Nobody
    /\ playlock' = c
    /\ IF c \in Quiet THEN Goto(c, "tell") /\ seen' = Members
                      ELSE Goto(c, "play") /\ UNCHANGED seen
    /\ UNCHANGED <<source, conf, asked, request, confs, user_no, still, heard, admin,
                   overlapped, leaked, torn>>

PlayedUnlocked(c) == TRUE       \* mutant: the entrance sound does not need confs

Played(c) == Unlocked(c)

\* conf_play locks confs for the entrance sound, and unlocks it.
Play(c) ==
    /\ Alive /\ pc[c] = "play" /\ Played(c)
    /\ Goto(c, "tell")
    /\ seen' = Members
    /\ UNCHANGED <<source, conf, asked, request, confs, playlock, user_no, still, heard,
                   admin, overlapped, leaked, torn>>

Nothing == [n \in Number |-> "nothing"]

\* What a call that leaves is still told concerns nobody.
Listening == {"enter", "play", "tell", "inside"}

\* The members that a walk reaches are told.
Told(n, status, walk) ==
    heard' = [d \in Chan |-> IF d \in Present(walk) /\ pc[d] \in Listening
                             THEN [heard[d] EXCEPT ![n] = status] ELSE heard[d]]

\* Every member, the new one too, is told that its number is in.  One that was present when
\* the walk came to it may have left since, under confs, and its channel may be destroyed.
Tell(c) ==
    /\ Alive /\ pc[c] = "tell"
    /\ \/ /\ Told(num[c], "in", DOMAIN conf.userlist)
          /\ playlock' = Nobody
          /\ seen' = {}
          /\ Goto(c, "inside")
       \/ /\ \E d \in seen : pc[d] = "gone"
          /\ Goto(c, "stray")
          /\ UNCHANGED <<heard, playlock, seen>>
    /\ UNCHANGED <<source, conf, asked, request, confs, user_no, still, admin,
                   overlapped, leaked, torn>>

-----------------------------------------------------------------------------
(* conf_run: the loop of a member *)

\* The caller hangs up, or nothing can be read from the channel.
HangUp(c) ==
    /\ Alive /\ pc[c] = "inside"
    /\ Goto(c, "leave")
    /\ UNCHANGED <<source, conf, asked, request, confs, playlock, user_no, still, heard,
                   admin, overlapped, leaked, torn, seen>>

\* mutant: user->userflags instead of user->adminflags
FlagUnseen(c) == FALSE

KickSeen(c) == Listed(c) /\ conf.userlist[Entry(c)].kicked

\* ADMINFLAG_KICKME is seen in the next turn of the loop.
Kicked(c) ==
    /\ Alive /\ pc[c] = "inside" /\ KickSeen(c)
    /\ Goto(c, "leave")
    /\ UNCHANGED <<source, conf, asked, request, confs, playlock, user_no, still, heard,
                   admin, overlapped, leaked, torn, seen>>

Flagged(which) ==
    [conf EXCEPT !.userlist =
        [i \in DOMAIN conf.userlist |->
            [conf.userlist[i] EXCEPT !.kicked = @ \/ i \in which]]]

\* The text KIC with "ALL": every entry of the list.
KickAll(c) ==
    /\ Alive /\ pc[c] = "inside" /\ Unlocked(c)
    /\ \E walk \in Walks : conf' = Flagged(walk) /\ Torn(walk)
    /\ UNCHANGED <<pc, source, asked, request, confs, playlock, user_no, still, heard,
                   admin, overlapped, leaked, seen>>

\* The text KIC with a number
Kick(c, n) ==
    /\ Alive /\ pc[c] = "inside" /\ Unlocked(c)
    /\ \E walk \in Walks :
           /\ conf' = Flagged({i \in Actives \cap walk : conf.userlist[i].cid = n})
           /\ Torn(walk)
    /\ UNCHANGED <<pc, source, asked, request, confs, playlock, user_no, still, heard,
                   admin, overlapped, leaked, seen>>

\* The status that a walk gives of a number: a later entry overrides an earlier one.
Status(n, before, walk) ==
    LET of == {i \in walk : conf.userlist[i].cid = n}
    IN  IF of = {} THEN before
        ELSE IF \E i \in of : \A j \in of : j >= i => conf.userlist[j].active
        THEN "in" ELSE "out"

\* The text QCS: the whole list for the member that asks.
Query(c) ==
    /\ Alive /\ pc[c] = "inside" /\ Unlocked(c)
    /\ \E walk \in Walks :
           /\ heard' = [heard EXCEPT ![c] = [n \in Number |-> Status(n, heard[c][n], walk)]]
           /\ Torn(walk)
    /\ UNCHANGED <<pc, source, conf, asked, request, confs, playlock, user_no, still,
                   admin, overlapped, leaked, seen>>

\* A text QCS without "ci", KIC without "fi", MUT without "fi" or "st": confs is locked, and
\* unlocked only where the key was found.
HalfText(c) ==
    /\ Alive /\ pc[c] = "inside" /\ Unlocked(c)
    /\ confs' = c /\ leaked' = c
    /\ UNCHANGED <<pc, source, conf, asked, request, playlock, user_no, still, heard,
                   admin, overlapped, torn, seen>>

\* The entry has its channel, and the channel is not destroyed.
HasChannel(i) ==
    conf.userlist[i].cid # NoNumber /\ pc[conf.userlist[i].chan] # "gone"

\* The text MUT for a number that is in: the new status goes to every entry of the list.
\* What a write to a channel that is not there does is undefined: nothing, or the end.
Mute(c, n) ==
    /\ Alive /\ pc[c] = "inside" /\ Unlocked(c)
    /\ \E i \in Actives : conf.userlist[i].cid = n
    /\ \E walk \in Walks :
           /\ \/ /\ heard' = [d \in Chan |->
                                  IF /\ pc[d] \in Listening
                                     /\ \E i \in walk :
                                            conf.userlist[i].chan = d /\ HasChannel(i)
                                  THEN [heard[d] EXCEPT ![n] = "in"] ELSE heard[d]]
                 /\ UNCHANGED pc
              \/ /\ \E i \in walk : ~HasChannel(i)
                 /\ Goto(c, "stray")
                 /\ UNCHANGED heard
           /\ Torn(walk)
    /\ UNCHANGED <<source, conf, asked, request, confs, playlock, user_no, still,
                   admin, overlapped, leaked, seen>>

-----------------------------------------------------------------------------
(* conf_run: leaving, and the rest of conf_exec *)

\* A walk finds another call of the same number that is a member.
SameNumber(c, walk) ==
    \E i \in Actives \cap walk : conf.userlist[i].chan # c /\ conf.userlist[i].cid = num[c]

Marked(c) ==
    IF Listed(c) THEN [conf.userlist EXCEPT ![Entry(c)].active = FALSE] ELSE conf.userlist

\* Under confs: the entry is marked as absent, i_hangup is found out.  A call of the same
\* number that joins may take the entry out while the walk stands on it.
LeaveMark(c) ==
    /\ Alive /\ pc[c] = "leave" /\ Unlocked(c)
    /\ confs' = c
    /\ conf' = [conf EXCEPT !.userlist = Marked(c)]
    /\ Goto(c, "leaving")
    /\ \E walk \in Walks' : still' = [still EXCEPT ![c] = SameNumber(c, walk)] /\ Torn(walk)
    /\ heard' = [heard EXCEPT ![c] = Nothing]
    /\ overlapped' = (overlapped \/ Joining)
    /\ UNCHANGED <<source, asked, request, playlock, user_no, admin, leaked, seen>>

\* Another call is in the list under playlock.
Walking == \E d \in Chan : pc[d] \in {"scan", "insert", "tell"}

\* Still under confs.  A number that is still in keeps one entry, and nobody is told; the
\* other one is freed, whoever stands on it.
LeaveStill(c) ==
    /\ Alive /\ pc[c] = "leaving" /\ still[c]
    /\ \/ /\ \E u \in Counted(conf.users, -1, Joining),
                v \in Counted(conf.user_count, -1, Joining) :
                 conf' = [conf EXCEPT !.users = u, !.user_count = v,
                             !.userlist = IF Listed(c) THEN RemoveAt(@, Entry(c)) ELSE @]
          /\ Unlock
          /\ still' = [still EXCEPT ![c] = FALSE]
          /\ Goto(c, "dispose")
       \/ Walking /\ Listed(c) /\ Goto(c, "broken") /\ UNCHANGED <<conf, confs, still>>
    /\ UNCHANGED <<source, asked, request, playlock, user_no, heard, admin, overlapped,
                   leaked, torn, seen>>

\* Everybody is told that the number is out; the entry stays.
LeaveLast(c) ==
    /\ Alive /\ pc[c] = "leaving" /\ ~still[c]
    /\ \E u \in Counted(conf.users, -1, Joining) : conf' = [conf EXCEPT !.users = u]
    /\ \E walk \in Walks : Told(num[c], "out", walk) /\ Torn(walk)
    /\ Unlock
    /\ Goto(c, "dispose")
    /\ UNCHANGED <<source, asked, request, playlock, user_no, still, admin, overlapped,
                   leaked, seen>>

\* dispose_conf: the last reference frees the conference (conf_free, HUPCNF)
Disposed(cnf) ==
    IF cnf.refcount = 1 THEN NoConference ELSE [cnf EXCEPT !.refcount = @ - 1]

Dispose(c) ==
    /\ Alive /\ pc[c] = "dispose" /\ Unlocked(c)
    /\ conf' = Disposed(conf)
    /\ overlapped' = (overlapped /\ conf.refcount > 1)
    /\ torn' = (torn /\ conf.refcount > 1)
    /\ Goto(c, "gone")
    /\ UNCHANGED <<source, asked, request, confs, playlock, user_no, still, heard, admin,
                   leaked, seen>>

-----------------------------------------------------------------------------
(* admin_exec: "statectl kick" on the console *)

AdminKickAll ==
    /\ Alive /\ admin = "idle" /\ confs = Nobody /\ Exists
    /\ \E walk \in Walks : conf' = Referenced(Flagged(walk)) /\ Torn(walk)
    /\ admin' = "busy"
    /\ UNCHANGED <<pc, source, asked, request, confs, playlock, user_no, still, heard,
                   overlapped, leaked, seen>>

\* find_user: the entry with a user number
AdminKick ==
    /\ Alive /\ admin = "idle" /\ confs = Nobody /\ Exists
    /\ \E i \in DOMAIN conf.userlist : conf' = Referenced(Flagged({i}))
    /\ admin' = "busy"
    /\ UNCHANGED <<pc, source, asked, request, confs, playlock, user_no, still, heard,
                   overlapped, leaked, torn, seen>>

AdminDone ==
    /\ Alive /\ admin = "busy" /\ confs = Nobody
    /\ conf' = Disposed(conf)
    /\ overlapped' = (overlapped /\ conf.refcount > 1)
    /\ torn' = (torn /\ conf.refcount > 1)
    /\ admin' = "idle"
    /\ UNCHANGED <<pc, source, asked, request, confs, playlock, user_no, still, heard,
                   leaked, seen>>

-----------------------------------------------------------------------------

Init ==
    /\ pc = [c \in Chan |-> "idle"]
    /\ source = [c \in Chan |-> "config"]
    /\ conf = NoConference
    /\ asked = {} /\ request = NoSession
    /\ confs = Nobody /\ playlock = Nobody
    /\ user_no = 0
    /\ still = [c \in Chan |-> FALSE]
    /\ heard = [c \in Chan |-> Nothing]
    /\ admin = "idle"
    /\ overlapped = FALSE /\ torn = FALSE
    /\ leaked = Nobody /\ seen = {}

\* What the thread of a call does by itself
Work(c) ==
    \/ Find(c) \/ NotConfigured(c) \/ BuildFound(c) \/ Build(c) \/ Answered(c) \/ NoAnswer(c)
    \/ Admit(c) \/ JoinLock(c) \/ JoinScan(c) \/ JoinInsert(c) \/ JoinFill(c)
    \/ Enter(c) \/ Play(c) \/ Tell(c) \/ Kicked(c)
    \/ LeaveMark(c) \/ LeaveStill(c) \/ LeaveLast(c) \/ Dispose(c)

Next ==
    \/ \E c \in Chan :
        \/ \E n \in Number : Kick(c, n) \/ Mute(c, n)
        \/ Work(c)
        \/ Call(c) \/ Refuse(c) \/ HangUp(c) \/ KickAll(c) \/ Query(c) \/ HalfText(c)
    \/ AdminKickAll \/ AdminKick \/ AdminDone

Spec == Init /\ [][Next]_vars

\* Threads run; a request for a room ends with its reply or its timeout (SO_RCVTIMEO).
Fairness == WF_vars(AdminDone) /\ \A c \in Chan : WF_vars(Work(c))

FairSpec == Spec /\ Fairness

-----------------------------------------------------------------------------
(* Properties *)

Labels == {"idle", "find", "build", "ask", "admit", "join", "scan", "insert", "fill", "enter",
           "play", "tell", "inside", "leave", "leaving", "dispose", "gone",
           "crashed", "stray", "broken"}

\* Calls that use the conference they have found, and those whose entry is in its list.
Holding == {"admit", "join", "scan", "insert", "fill", "enter", "play", "tell", "inside",
            "leave", "leaving", "dispose", "crashed", "stray", "broken"}
Joined == {"enter", "play", "tell", "inside", "leave"}

\* Types of the variables.
TypeOK ==
    /\ pc \in [Chan -> Labels]
    /\ source \in [Chan -> {"config", "realtime"}]
    /\ conf \in Conference
    /\ asked \subseteq Session /\ request \in Session \cup {NoSession}
    /\ confs \in Chan \cup {Nobody} /\ playlock \in Chan \cup {Nobody}
    /\ user_no \in Nat
    /\ still \in [Chan -> BOOLEAN]
    /\ heard \in [Chan -> [Number -> {"nothing", "in", "out"}]]
    /\ admin \in {"idle", "busy"}
    /\ overlapped \in BOOLEAN /\ torn \in BOOLEAN
    /\ leaked \in Chan \cup {Nobody} /\ seen \subseteq Chan

\* conf_exec and admin_exec use the conference without a lock between their critical
\* sections: it is not freed while one of them does. A member keeps its entry, unless the
\* insertion (playlock) met a removal (confs); the entries that are marked as present, to
\* which statuses are sent, have the channels of calls.
ConferenceOutlivesItsCalls ==
    /\ \A c \in Chan : pc[c] \in Holding => Exists
    /\ \A c \in Chan : pc[c] \in Joined =>
           (torn /\ overlapped) \/ \E i \in Actives : conf.userlist[i].chan = c
    /\ \A i \in Actives : HasChannel(i)
    /\ admin = "busy" => Exists

\* The statuses members are told (ICS) come in the right order although joining and
\* leaving use different locks: the last one a member has heard of a number is not "out"
\* when a call of it stays inside, and not "in" when all its calls have left. Two things
\* spoil it: a walk that a removal cut short, and a call without the entrance sound, which
\* does not wait for a call that is about to report its number out.
LastStatusIsRight ==
    \A c \in Chan, n \in Number : Alive /\ ~torn /\ pc[c] = "inside" =>
        /\ heard[c][n] = "out" =>
               ~ \E d \in Chan \ Quiet : num[d] = n /\ pc[d] = "inside"
        /\ heard[c][n] = "in" =>
               \E d \in Chan : num[d] = n /\ pc[d] \in Joined \cup {"leaving"}

\* The counters agree with the list as long as no call has joined while another left, and
\* user numbers, by which the console kicks, are given to one entry each, whoever has left.
UsersAreCounted ==
    /\ Alive /\ ~overlapped /\ ~Joining /\ ~Leaving =>
           /\ conf.users = Cardinality(Actives)
           /\ conf.user_count = Len(conf.userlist)
    /\ \A i, j \in DOMAIN conf.userlist : i < j => conf.userlist[i].no < conf.userlist[j].no

\* The number of a new entry is looked up in the last one (AST_LIST_LAST), which may be
\* missing: but only for a number that has just left, when it has been alone with the
\* conference; whoever else has an entry as a member protects the others from that.
CrashIsExplained ==
    \A c \in Chan : pc[c] = "crashed" =>
        /\ \E d \in Chan \ {c} : num[d] = num[c] /\ pc[d] \in {"leaving", "dispose", "gone"}
        /\ \A i \in DOMAIN conf.userlist : conf.userlist[i].cid = num[c]
        /\ \A d \in Chan : pc[d] \in Joined => torn /\ ~Listed(d)

\* Seen from the conference server: of each session a room is asked for once, and the
\* room is hung up once, with the conference it belongs to.
ServerOf ==
    [s \in Session |-> IF s \notin asked THEN "idle"
                       ELSE IF s = request THEN "waiting"
                       ELSE IF s = conf.session THEN "open" ELSE "closed"]

Caller == INSTANCE RoomCaller WITH Key <- Session, server <- ServerOf

\* The application is a call server as the conference server expects it.
ImplementsRoomCaller == Caller!Spec

\* A member that was kicked leaves: nothing but a text without its key, after which confs
\* stays locked, can keep it.
KickedLeave ==
    \A c \in Chan :
        (\E i \in Actives : conf.userlist[i].chan = c /\ conf.userlist[i].kicked)
            ~> (pc[c] = "gone" \/ ~Alive \/ leaked # Nobody)

\* Nobody waits for the two locks for ever but after such a text: every call gets in or is
\* sent away.
CallSettles ==
    \A c \in Chan : pc[c] = "find" ~> (pc[c] \in {"inside", "gone"} \/ ~Alive \/ leaked # Nobody)

=============================================================================
