----------------------------- MODULE StateCtlProofs -----------------------------
(***************************************************************************)
(* Proofs about StateCtl.                                                  *)
(*                                                                         *)
(* The invariant says who holds a reference, who is in a section under a   *)
(* lock, which call each entry of the list belongs to and what it says,    *)
(* what a call that leaves has found out about its number, and what the    *)
(* members have been told.  The properties of StateCtl follow from it.     *)
(* What two threads can do to the list when they work on it under          *)
(* different locks is kept apart: torn says that it has happened, and the  *)
(* last two parts are about conferences where it has not.                  *)
(***************************************************************************)
EXTENDS StateCtl, FiniteSetTheorems, TLAPS

\* Calls that hold a reference to the conference
Holders == {c \in Chan : pc[c] \in Holding}

\* Each call that has found the conference, and the console, hold one reference.
References ==
    /\ IsFiniteSet(Holders)
    /\ conf.refcount = Cardinality(Holders) + (IF admin = "busy" THEN 1 ELSE 0)
    /\ ~Exists => conf = NoConference

\* The sections under the two locks, and the request for a room, which is one of them
Locks ==
    /\ \A c \in Chan : pc[c] \in {"ask", "leaving"} => confs = c
    /\ \A c \in Chan : pc[c] \in {"scan", "insert", "fill", "play", "tell"} => playlock = c
    /\ \A c \in Chan : pc[c] = "ask" => ~Exists /\ request \in asked
    /\ request # NoSession => \E c \in Chan : pc[c] = "ask"
    /\ Exists => conf.session \in asked
    /\ leaked # Nobody => confs = leaked

\* Sections that overlap are on record.
Overlaps == Joining /\ Leaving => overlapped

\* An entry may have been lost since the conference was built.
Spoilt == torn /\ overlapped

\* An entry belongs to one call, and what it says follows from where that call is.
Entries ==
    /\ \A i, j \in DOMAIN conf.userlist :
           conf.userlist[i].chan = conf.userlist[j].chan => i = j
    /\ \A c \in Chan : pc[c] \in {"fill", "stray"} \cup Joined => Listed(c) \/ Spoilt
    /\ \A i \in DOMAIN conf.userlist :
           LET u == conf.userlist[i]  c == u.chan
           IN  /\ pc[c] \in {"fill", "leaving", "dispose", "gone", "stray", "broken"} \cup Joined
               /\ u.cid = IF pc[c] = "fill" THEN NoNumber ELSE num[c]
               /\ u.active <=> pc[c] \in {"stray"} \cup Joined
               /\ pc[c] = "fill" => i = Len(conf.userlist)

\* User numbers rise along the list, and the next one is above them all.
Numbers ==
    /\ \A i, j \in DOMAIN conf.userlist :
           i < j => conf.userlist[i].no < conf.userlist[j].no
    /\ \A c \in Chan : pc[c] = "insert" =>
           /\ user_no > 0
           /\ \A i \in DOMAIN conf.userlist : conf.userlist[i].no < user_no

\* Whether the number of a call that leaves is still in is right until it has left, and
\* no entry that stays behind hides an earlier one that is in.
Leavers ==
    /\ \A c \in Chan : pc[c] = "leaving" =>
           IF still[c] THEN \E d \in Chan : d # c /\ num[d] = num[c] /\ pc[d] \in Joined
           ELSE \A d \in Chan \ Quiet :
                    d # c /\ num[d] = num[c] => pc[d] \notin {"tell", "inside"}
    /\ \A i, j \in DOMAIN conf.userlist :
           /\ i < j /\ conf.userlist[i].cid = conf.userlist[j].cid
           /\ conf.userlist[i].active /\ ~conf.userlist[j].active
           => LET d == conf.userlist[j].chan IN pc[d] = "leaving" /\ still[d]

\* A call that listens to nobody knows nothing.
Deaf == \A c \in Chan : pc[c] \notin Listening \cup {"leave"} => heard[c] = Nothing

\* What a member has been told is right.
Statuses ==
    \A c \in Chan, n \in Number : pc[c] \in Listening =>
        /\ heard[c][n] = "out" => \A d \in Chan \ Quiet : num[d] = n => pc[d] # "inside"
        /\ heard[c][n] = "in" =>
               \E d \in Chan : num[d] = n /\ pc[d] \in Joined \cup {"leaving"}

\* Calls that count as users, those that have an entry, and whether one is being filled in
In == {c \in Chan : pc[c] \in {"stray"} \cup Joined}
Kept == {c \in Chan : Listed(c)}
Filling == \E c \in Chan : pc[c] = "fill"

\* The counters between the sections that change them, as long as these do not overlap
Counts ==
    Alive /\ ~overlapped =>
        /\ conf.users = Cardinality(In) + (IF Leaving THEN 1 ELSE 0)
        /\ conf.user_count = Cardinality(Kept) - (IF Filling THEN 1 ELSE 0)
        /\ \A c \in Chan : pc[c] = "leaving" => Listed(c)

\* The inductive invariant.  Once the process is dead nothing is said of what was told.
IInv ==
    /\ TypeOK /\ References /\ Locks /\ Overlaps /\ Entries /\ Numbers
    /\ CrashIsExplained /\ Counts
    /\ Alive => Deaf
    /\ Alive /\ ~torn => Leavers /\ Statuses

-----------------------------------------------------------------------------
(* Lists *)

\* What RemoveAt leaves: everything else, in its order.
LEMMA Removal ==
    ASSUME NEW S, NEW s \in Seq(S), NEW i \in DOMAIN s
    PROVE  /\ RemoveAt(s, i) \in Seq(S)
           /\ Len(RemoveAt(s, i)) = Len(s) - 1
           /\ \A k \in 1 .. Len(s) - 1 : RemoveAt(s, i)[k] = s[IF k < i THEN k ELSE k + 1]
<1>1. i \in 1 .. Len(s) /\ Len(s) \in Nat
  OBVIOUS
<1>2. /\ SubSeq(s, 1, i - 1) \in Seq(S) /\ Len(SubSeq(s, 1, i - 1)) = i - 1
      /\ \A k \in 1 .. i - 1 : SubSeq(s, 1, i - 1)[k] = s[k]
  BY <1>1
<1>3. /\ SubSeq(s, i + 1, Len(s)) \in Seq(S) /\ Len(SubSeq(s, i + 1, Len(s))) = Len(s) - i
      /\ \A k \in 1 .. Len(s) - i : SubSeq(s, i + 1, Len(s))[k] = s[i + k]
  BY <1>1
<1> DEFINE a == SubSeq(s, 1, i - 1)  b == SubSeq(s, i + 1, Len(s))
<1>4. RemoveAt(s, i) = a \o b
  BY DEF RemoveAt
<1> HIDE DEF a, b
<1>5. /\ a \in Seq(S) /\ b \in Seq(S) /\ Len(a) = i - 1 /\ Len(b) = Len(s) - i
      /\ \A k \in 1 .. i - 1 : a[k] = s[k]
      /\ \A k \in 1 .. Len(s) - i : b[k] = s[i + k]
  BY <1>2, <1>3 DEF a, b
<1>6. a \o b \in Seq(S) /\ Len(a \o b) = Len(s) - 1
  BY <1>1, <1>5
<1>7. ASSUME NEW k \in 1 .. Len(s) - 1
      PROVE  (a \o b)[k] = s[IF k < i THEN k ELSE k + 1]
  <2>1. CASE k < i
    BY <1>1, <1>5, <2>1
  <2>2. CASE ~(k < i)
    <3>1. k - (i - 1) \in 1 .. Len(s) - i /\ i + (k - (i - 1)) = k + 1
      BY <1>1, <2>2
    <3>2. /\ k \in 1 .. Len(a) + Len(b) /\ ~(k <= Len(a)) /\ k - Len(a) = k - (i - 1)
          /\ a \in Seq(S) /\ b \in Seq(S)
      BY <1>1, <1>5, <2>2
    <3>3. (a \o b)[k] = b[k - (i - 1)]
      BY <3>2
    <3> QED BY <1>5, <2>2, <3>1, <3>3
  <2> QED BY <2>1, <2>2
<1> QED BY <1>4, <1>6, <1>7

\* A function on 1 .. n is a sequence.
LEMMA FunctionIsSeq ==
    ASSUME NEW S, NEW n \in Nat, NEW f \in [1 .. n -> S]
    PROVE  f \in Seq(S) /\ Len(f) = n
<1>1. f = [i \in 1 .. n |-> f[i]]
  OBVIOUS
<1>2. \A i \in 1 .. n : f[i] \in S
  OBVIOUS
<1>3. [i \in 1 .. n |-> f[i]] \in Seq(S) /\ Len([i \in 1 .. n |-> f[i]]) = n
  BY <1>2
<1> QED BY <1>1, <1>3

\* The list a call joins is the list it finds, or that without one absent entry of its number.
LEMMA Purge ==
    ASSUME TypeOK, NEW n, NEW list \in Purged(n)
    PROVE  \/ list = conf.userlist /\ Absent(n) = {}
           \/ \E i \in Absent(n) : list = RemoveAt(conf.userlist, i)
BY DEF Purged, FirstAbsent

\* The entry of a listed call is its entry.
LEMMA EntryOf ==
    ASSUME TypeOK, NEW c \in Chan, Listed(c)
    PROVE  Entry(c) \in DOMAIN conf.userlist /\ conf.userlist[Entry(c)].chan = c
BY DEF Listed, Entry

\* The types of the parts of the conference.
LEMMA ListType ==
    ASSUME TypeOK
    PROVE  /\ conf.userlist \in Seq(User) /\ Len(conf.userlist) \in Nat
           /\ DOMAIN conf.userlist = 1 .. Len(conf.userlist)
           /\ \A i \in DOMAIN conf.userlist : conf.userlist[i] \in User
           /\ conf.refcount \in Nat /\ conf.users \in Int /\ conf.user_count \in Int
           /\ conf.session \in Session \cup {NoSession}
BY DEF TypeOK, Conference

\* One more reference leaves the conference as it is.
LEMMA Referencing ==
    ASSUME NEW k \in Conference
    PROVE  /\ Referenced(k) \in Conference
           /\ Referenced(k).refcount = k.refcount + 1 /\ Referenced(k).users = k.users
           /\ Referenced(k).user_count = k.user_count
           /\ Referenced(k).userlist = k.userlist /\ Referenced(k).session = k.session
BY DEF Referenced, Conference

\* One reference less leaves it as it is or is the last.
LEMMA Disposing ==
    ASSUME NEW k \in Conference, k.refcount > 0
    PROVE  /\ Disposed(k) \in Conference
           /\ k.refcount = 1 => Disposed(k) = NoConference
           /\ k.refcount # 1 =>
                  /\ Disposed(k).refcount = k.refcount - 1 /\ Disposed(k).users = k.users
                  /\ Disposed(k).user_count = k.user_count
                  /\ Disposed(k).userlist = k.userlist /\ Disposed(k).session = k.session
<1>1. CASE k.refcount = 1
  BY <1>1 DEF Disposed, NoConference, Conference
<1>2. CASE k.refcount # 1
  <2>1. k.refcount - 1 \in Nat
    BY <1>2 DEF Conference
  <2> QED BY <1>2, <2>1 DEF Disposed, Conference
<1> QED BY <1>1, <1>2

\* A list with the same entries except for their flags
SameEntries(list) ==
    /\ list \in Seq(User) /\ Len(list) = Len(conf.userlist)
    /\ \A i \in 1 .. Len(conf.userlist) :
           /\ list[i].chan = conf.userlist[i].chan /\ list[i].cid = conf.userlist[i].cid
           /\ list[i].no = conf.userlist[i].no
           /\ list[i].active = conf.userlist[i].active

\* Setting ADMINFLAG_KICKME changes nothing else.
LEMMA Flagging ==
    ASSUME TypeOK, NEW which
    PROVE  /\ Flagged(which) \in Conference /\ SameEntries(Flagged(which).userlist)
           /\ Flagged(which).refcount = conf.refcount /\ Flagged(which).users = conf.users
           /\ Flagged(which).user_count = conf.user_count
           /\ Flagged(which).session = conf.session
<1> DEFINE list == [i \in DOMAIN conf.userlist |->
                       [conf.userlist[i] EXCEPT !.kicked = @ \/ i \in which]]
<1>1. list \in Seq(User) /\ Len(list) = Len(conf.userlist)
  <2>1. list \in [1 .. Len(conf.userlist) -> User]
    BY ListType DEF User
  <2> HIDE DEF list
  <2> QED BY <2>1, ListType, FunctionIsSeq
<1>2. SameEntries(list)
  <2>1. ASSUME NEW i \in 1 .. Len(conf.userlist)
        PROVE  /\ list[i].chan = conf.userlist[i].chan /\ list[i].cid = conf.userlist[i].cid
               /\ list[i].no = conf.userlist[i].no
               /\ list[i].active = conf.userlist[i].active
    BY ListType DEF User
  <2> QED BY <1>1, <2>1 DEF SameEntries
<1>3. Flagged(which) = [conf EXCEPT !.userlist = list]
  BY DEF Flagged
<1> HIDE DEF list
<1> QED BY <1>1, <1>2, <1>3, ListType DEF TypeOK, Conference

-----------------------------------------------------------------------------
(* The lists after joining and leaving *)

\* The sections that change the list, by their lists; Answered finds it empty.
LEMMA Scanned ==
    ASSUME TypeOK, NEW c \in Chan, JoinScan(c), pc'[c] = "insert"
    PROVE  /\ conf' \in Conference /\ user_no' \in Nat \ {0}
           /\ conf'.refcount = conf.refcount /\ conf'.session = conf.session
           /\ conf'.userlist \in Purged(num[c])
           /\ conf'.users = conf.users /\ conf'.user_count \in CountPurged(num[c])
           /\ user_no' = IF conf.userlist = <<>> THEN FirstNumber
                                                ELSE NextNumber(conf'.userlist)
           /\ conf.userlist # <<>> => conf'.userlist # <<>>
<1>1. PICK list \in Purged(num[c]), v \in CountPurged(num[c]) :
          IF conf.userlist # <<>> /\ list = <<>>
          THEN Goto(c, "crashed") /\ UNCHANGED <<conf, user_no>>
          ELSE /\ Goto(c, "insert")
               /\ user_no' = IF conf.userlist = <<>> THEN FirstNumber ELSE NextNumber(list)
               /\ conf' = [conf EXCEPT !.userlist = list, !.user_count = v]
  BY DEF JoinScan
<1>2. ~(conf.userlist # <<>> /\ list = <<>>)
  <2>1. SUFFICES ASSUME conf.userlist # <<>> /\ list = <<>> PROVE FALSE
    OBVIOUS
  <2>2. pc' = [pc EXCEPT ![c] = "crashed"]
    BY <1>1, <2>1 DEF Goto
  <2> QED BY <2>2 DEF TypeOK
<1>3. /\ user_no' = IF conf.userlist = <<>> THEN FirstNumber ELSE NextNumber(list)
      /\ conf' = [conf EXCEPT !.userlist = list, !.user_count = v]
  BY <1>1, <1>2
<1>4. list \in Seq(User)
  <2>1. ASSUME NEW i \in Absent(num[c]), list = RemoveAt(conf.userlist, i)
        PROVE  list \in Seq(User)
    BY <2>1, ListType, Removal DEF Absent
  <2> QED BY <2>1, ListType, Purge
<1>5. v \in Int
  BY ListType DEF CountPurged, Counted
<1>6. NextNumber(list) \in Nat \ {0} \/ conf.userlist = <<>>
  <2>1. SUFFICES ASSUME list # <<>> PROVE NextNumber(list) \in Nat \ {0}
    BY <1>2
  <2>2. Len(list) \in 1 .. Len(list) /\ list[Len(list)] \in User
    BY <1>4, <2>1
  <2> QED BY <2>2 DEF NextNumber, User
<1>7. conf' = [refcount |-> conf.refcount, users |-> conf.users,
               user_count |-> v, userlist |-> list,
               session |-> conf.session]
  BY <1>3 DEF TypeOK, Conference
<1>8. conf' \in Conference
  BY <1>4, <1>5, <1>7, ListType DEF Conference
<1>9. conf'.userlist = list
  BY <1>7
<1> QED BY <1>2, <1>3, <1>6, <1>7, <1>8, <1>9 DEF FirstNumber

\* The new entry is at the end of the list.
Linked(c) ==
    /\ conf' \in Conference
    /\ conf'.refcount = conf.refcount /\ conf'.session = conf.session
    /\ conf'.users = conf.users /\ conf'.user_count = conf.user_count
    /\ Len(conf'.userlist) = Len(conf.userlist) + 1
    /\ \A i \in 1 .. Len(conf.userlist) : conf'.userlist[i] = conf.userlist[i]
    /\ conf'.userlist[Len(conf.userlist) + 1] =
           [chan |-> c, cid |-> NoNumber, no |-> user_no, active |-> FALSE, kicked |-> FALSE]
    /\ Goto(c, "fill") /\ torn' = torn

\* The new entry is lost, or the links are broken.
Unlinked(c) ==
    /\ Removing /\ conf' = conf
    /\ \/ Goto(c, "fill") /\ torn' = TRUE
       \/ Goto(c, "broken") /\ torn' = torn

\* JoinInsert adds one entry at the end, if no call that leaves is in the way.
LEMMA Inserted ==
    ASSUME TypeOK, NEW c \in Chan, JoinInsert(c), user_no > 0
    PROVE  Linked(c) \/ Unlinked(c)
<1> DEFINE u == [chan |-> c, cid |-> NoNumber, no |-> user_no,
                 active |-> FALSE, kicked |-> FALSE]
<1>1. u \in User
  BY DEF User, TypeOK
<1>2. \/ /\ conf' = [conf EXCEPT !.userlist = Append(@, u)]
         /\ Goto(c, "fill") /\ torn' = torn
      \/ Unlinked(c)
  BY DEF JoinInsert, Unlinked
<1>3. u = [chan |-> c, cid |-> NoNumber, no |-> user_no, active |-> FALSE, kicked |-> FALSE]
  OBVIOUS
<1> HIDE DEF u
<1>4. CASE conf' = [conf EXCEPT !.userlist = Append(@, u)] /\ Goto(c, "fill") /\ torn' = torn
  <2>1. Append(conf.userlist, u) \in Seq(User)
    BY <1>1, ListType
  <2>2. conf' = [refcount |-> conf.refcount, users |-> conf.users,
                 user_count |-> conf.user_count, userlist |-> Append(conf.userlist, u),
                 session |-> conf.session]
    BY <1>4 DEF TypeOK, Conference
  <2>3. conf' \in Conference
    BY <2>1, <2>2, ListType DEF Conference
  <2>4. conf'.userlist = Append(conf.userlist, u)
    BY <2>2
  <2> QED BY <1>1, <1>3, <1>4, <2>2, <2>3, <2>4, ListType DEF Linked
<1> QED BY <1>2, <1>4

\* JoinFill changes nothing but the entry of its call and the counters.
LEMMA FilledIn ==
    ASSUME TypeOK, NEW c \in Chan, JoinFill(c)
    PROVE  /\ conf' \in Conference
           /\ conf'.refcount = conf.refcount /\ conf'.session = conf.session
           /\ conf'.users \in Counted(conf.users, 1, Leaving)
           /\ conf'.user_count \in Counted(conf.user_count, 1, Leaving)
           /\ Len(conf'.userlist) = Len(conf.userlist)
           /\ Listed(c) => \A i \in 1 .. Len(conf.userlist) :
                  LET u == conf'.userlist[i]
                  IN  IF i = Entry(c)
                      THEN /\ u.chan = c /\ u.cid = num[c] /\ u.no = conf.userlist[i].no
                           /\ u.active = TRUE
                      ELSE u = conf.userlist[i]
           /\ ~Listed(c) => conf'.userlist = conf.userlist
<1> DEFINE e == Entry(c)
           list == Filled(c)
           entry == [conf.userlist[e] EXCEPT !.cid = num[c], !.active = TRUE, !.kicked = FALSE]
<1>1. PICK n \in Counted(conf.users, 1, Leaving), m \in Counted(conf.user_count, 1, Leaving) :
          conf' = [conf EXCEPT !.users = n, !.user_count = m, !.userlist = list]
  BY DEF JoinFill
<1>2. n \in Int /\ m \in Int
  BY ListType DEF Counted
<1>3. /\ conf'.refcount = conf.refcount /\ conf'.session = conf.session
      /\ conf'.users = n /\ conf'.user_count = m /\ conf'.userlist = list
      /\ conf' = [refcount |-> conf.refcount, users |-> n, user_count |-> m,
                  userlist |-> list, session |-> conf.session]
  BY <1>1 DEF TypeOK, Conference
<1>4. CASE ~Listed(c)
  <2>1. list = conf.userlist
    BY <1>4 DEF Filled
  <2> HIDE DEF list
  <2> QED BY <1>2, <1>3, <1>4, <2>1, ListType DEF Conference
<1>5. CASE Listed(c)
  <2>1. /\ e \in 1 .. Len(conf.userlist) /\ conf.userlist[e] \in User
        /\ conf.userlist[e].chan = c
    BY <1>5, EntryOf, ListType
  <2>2. list = [conf.userlist EXCEPT ![e] = entry]
    BY <1>5 DEF Filled
  <2>3. /\ DOMAIN list = 1 .. Len(conf.userlist)
        /\ list = [i \in 1 .. Len(conf.userlist) |-> list[i]]
        /\ \A i \in 1 .. Len(conf.userlist) : i # e => list[i] = conf.userlist[i]
        /\ list[e] = entry
    BY <2>1, <2>2, ListType
  <2> HIDE DEF list
  <2>4. /\ entry \in User /\ entry.chan = conf.userlist[e].chan /\ entry.cid = num[c]
        /\ entry.no = conf.userlist[e].no /\ entry.active = TRUE
    <3> DEFINE o == conf.userlist[e]  new == num[c]
    <3>1. o \in User /\ new \in Number
      BY <2>1, StateCtlAssumption
    <3>2. entry = [o EXCEPT !.cid = new, !.active = TRUE, !.kicked = FALSE]
      OBVIOUS
    <3> HIDE DEF o, new, entry
    <3>3. /\ entry \in User /\ entry.chan = o.chan /\ entry.cid = new /\ entry.no = o.no
          /\ entry.active = TRUE
      BY <3>1, <3>2 DEF User
    <3> QED BY <3>3 DEF o, new
  <2> HIDE DEF entry
  <2>5. list \in [1 .. Len(conf.userlist) -> User]
    BY <2>1, <2>3, <2>4, ListType
  <2>6. list \in Seq(User) /\ Len(list) = Len(conf.userlist)
    BY <2>5, ListType, FunctionIsSeq
  <2>7. conf' \in Conference
    BY <1>2, <1>3, <2>6, ListType DEF Conference
  <2> QED BY <1>3, <1>5, <2>1, <2>3, <2>4, <2>6, <2>7
<1> QED BY <1>4, <1>5

\* LeaveMark marks the entry of its call.
LEMMA LeftMarked ==
    ASSUME TypeOK, NEW c \in Chan, LeaveMark(c)
    PROVE  /\ conf' \in Conference
           /\ conf'.refcount = conf.refcount /\ conf'.session = conf.session
           /\ conf'.users = conf.users /\ conf'.user_count = conf.user_count
           /\ Len(conf'.userlist) = Len(conf.userlist)
           /\ Listed(c) => \A i \in 1 .. Len(conf.userlist) :
                  LET u == conf'.userlist[i]
                  IN  IF i = Entry(c)
                      THEN /\ u.chan = c /\ u.cid = conf.userlist[i].cid
                           /\ u.no = conf.userlist[i].no /\ u.active = FALSE
                      ELSE u = conf.userlist[i]
           /\ ~Listed(c) => conf'.userlist = conf.userlist
<1> DEFINE e == Entry(c)
           list == Marked(c)
<1>1. /\ conf' = [refcount |-> conf.refcount, users |-> conf.users,
                  user_count |-> conf.user_count, userlist |-> list,
                  session |-> conf.session]
      /\ conf'.userlist = list
  BY DEF LeaveMark, TypeOK, Conference
<1>2. CASE ~Listed(c)
  <2>1. list = conf.userlist
    BY <1>2 DEF Marked
  <2> HIDE DEF list
  <2> QED BY <1>1, <1>2, <2>1, ListType DEF Conference
<1>3. CASE Listed(c)
  <2>1. /\ e \in 1 .. Len(conf.userlist) /\ conf.userlist[e] \in User
        /\ conf.userlist[e].chan = c
    BY <1>3, EntryOf, ListType
  <2>2. list = [conf.userlist EXCEPT ![e].active = FALSE]
    BY <1>3 DEF Marked
  <2>3. /\ DOMAIN list = 1 .. Len(conf.userlist)
        /\ list = [i \in 1 .. Len(conf.userlist) |-> list[i]]
        /\ \A i \in 1 .. Len(conf.userlist) : i # e => list[i] = conf.userlist[i]
        /\ list[e] = [conf.userlist[e] EXCEPT !.active = FALSE]
    BY <2>1, <2>2, ListType
  <2> HIDE DEF list
  <2>4. /\ list[e] \in User /\ list[e].chan = c /\ list[e].cid = conf.userlist[e].cid
        /\ list[e].no = conf.userlist[e].no /\ list[e].active = FALSE
    BY <2>1, <2>3 DEF User
  <2>5. list \in [1 .. Len(conf.userlist) -> User]
    BY <2>1, <2>3, <2>4, ListType
  <2>6. list \in Seq(User) /\ Len(list) = Len(conf.userlist)
    BY <2>5, ListType, FunctionIsSeq
  <2>7. conf' \in Conference
    BY <1>1, <2>6, ListType DEF Conference
  <2> QED BY <1>1, <1>3, <2>1, <2>3, <2>4, <2>6, <2>7
<1> QED BY <1>2, <1>3

\* LeaveStill removes the entry of its call, if it is there.
LEMMA LeftStill ==
    ASSUME TypeOK, NEW c \in Chan, LeaveStill(c), pc'[c] = "dispose"
    PROVE  /\ conf' \in Conference
           /\ conf'.refcount = conf.refcount /\ conf'.session = conf.session
           /\ conf'.users \in Counted(conf.users, -1, Joining)
           /\ conf'.user_count \in Counted(conf.user_count, -1, Joining)
           /\ confs' = leaked /\ pc' = [pc EXCEPT ![c] = "dispose"]
           /\ still' = [still EXCEPT ![c] = FALSE]
           /\ conf'.userlist = IF Listed(c) THEN RemoveAt(conf.userlist, Entry(c))
                                            ELSE conf.userlist
<1>a. ~Goto(c, "broken")
  BY DEF Goto, TypeOK
<1>1. PICK n \in Counted(conf.users, -1, Joining),
           m \in Counted(conf.user_count, -1, Joining) :
          conf' = [conf EXCEPT !.users = n, !.user_count = m,
                      !.userlist = IF Listed(c) THEN RemoveAt(@, Entry(c)) ELSE @]
  BY <1>a DEF LeaveStill
<1>b. /\ confs' = leaked /\ pc' = [pc EXCEPT ![c] = "dispose"]
      /\ still' = [still EXCEPT ![c] = FALSE]
  BY <1>a DEF LeaveStill, Unlock, Goto
<1>2. n \in Int /\ m \in Int
  BY ListType DEF Counted
<1> DEFINE list == IF Listed(c) THEN RemoveAt(conf.userlist, Entry(c)) ELSE conf.userlist
<1>3. list \in Seq(User)
  BY ListType, EntryOf, Removal
<1>4. conf' = [refcount |-> conf.refcount, users |-> n, user_count |-> m,
               userlist |-> list, session |-> conf.session]
  BY <1>1 DEF TypeOK, Conference
<1> HIDE DEF list
<1>5. conf' \in Conference /\ conf'.userlist = list
  BY <1>2, <1>3, <1>4, ListType DEF Conference
<1> QED BY <1>4, <1>5, <1>b DEF list

\* Whoever does not get that far breaks the list.
LEMMA LeftBroken ==
    ASSUME TypeOK, NEW c \in Chan, LeaveStill(c), pc'[c] # "dispose"
    PROVE  /\ pc[c] = "leaving" /\ pc' = [pc EXCEPT ![c] = "broken"] /\ Listed(c)
           /\ UNCHANGED <<conf, confs, still, source, asked, request, playlock, user_no,
                          heard, admin, overlapped, leaked, torn, seen>>
<1>1. ~Goto(c, "dispose")
  BY DEF Goto, TypeOK
<1> QED BY <1>1 DEF LeaveStill, Goto

\* LeaveLast leaves the list alone.
LEMMA LeftLast ==
    ASSUME TypeOK, NEW c \in Chan, LeaveLast(c)
    PROVE  /\ conf' \in Conference
           /\ conf'.refcount = conf.refcount /\ conf'.session = conf.session
           /\ conf'.userlist = conf.userlist /\ conf'.user_count = conf.user_count
           /\ conf'.users \in Counted(conf.users, -1, Joining)
<1>1. PICK n \in Counted(conf.users, -1, Joining) : conf' = [conf EXCEPT !.users = n]
  BY DEF LeaveLast
<1>2. n \in Int
  BY ListType DEF Counted
<1> QED BY <1>1, <1>2, ListType DEF TypeOK, Conference

-----------------------------------------------------------------------------
(* Types *)

\* Whoever has a reference finds a conference.
LEMMA HoldersFind ==
    ASSUME TypeOK, References
    PROVE  /\ \A c \in Chan : pc[c] \in Holding => Exists
           /\ admin = "busy" => Exists
<1>1. Cardinality(Holders) \in Nat /\ (Cardinality(Holders) = 0 => Holders = {})
  BY FS_EmptySet, FS_CardinalityType DEF References
<1>2. ASSUME NEW c \in Chan, pc[c] \in Holding PROVE Exists
  <2>1. c \in Holders
    BY <1>2 DEF Holders
  <2> QED BY <1>1, <2>1 DEF References, Exists
<1>3. ASSUME admin = "busy" PROVE Exists
  BY <1>1, <1>3 DEF References, Exists
<1> QED BY <1>2, <1>3

\* The types of everything but the conference
Rest ==
    /\ pc \in [Chan -> Labels]
    /\ source \in [Chan -> {"config", "realtime"}]
    /\ asked \subseteq Session /\ request \in Session \cup {NoSession}
    /\ confs \in Chan \cup {Nobody} /\ playlock \in Chan \cup {Nobody}
    /\ user_no \in Nat
    /\ still \in [Chan -> BOOLEAN]
    /\ heard \in [Chan -> [Number -> {"nothing", "in", "out"}]]
    /\ admin \in {"idle", "busy"}
    /\ overlapped \in BOOLEAN /\ torn \in BOOLEAN
    /\ leaked \in Chan \cup {Nobody} /\ seen \subseteq Chan

\* The members are calls.
LEMMA MembersAreCalls ==
    ASSUME TypeOK PROVE Members \subseteq Chan
BY ListType DEF Members, Present, Actives, User

\* Every step keeps the types.
LEMMA TypeStep ==
    TypeOK /\ References /\ Entries /\ Numbers /\ [Next]_vars => TypeOK'
<1> SUFFICES ASSUME TypeOK, References, Entries, Numbers, [Next]_vars PROVE TypeOK'
  OBVIOUS
<1> USE StateCtlAssumption
<1> DEFINE Goal == TypeOK'
<1>0. /\ Rest /\ conf \in Conference
      /\ Rest' /\ conf' \in Conference => Goal
  BY DEF TypeOK, Rest
<1> HIDE DEF Goal
<1>1. ASSUME NEW c \in Chan, Call(c) PROVE Goal
  BY <1>0, <1>1 DEF Call, Goto, Labels, Rest
<1>2. ASSUME NEW c \in Chan, NotConfigured(c) PROVE Goal
  <2>1. PICK l \in {"find", "gone"}, m \in {"config", "realtime"} :
            pc' = [pc EXCEPT ![c] = l] /\ source' = [source EXCEPT ![c] = m]
    BY <1>2 DEF NotConfigured, Failed, Goto
  <2> QED BY <1>0, <1>2, <2>1 DEF NotConfigured, Labels, Rest
<1>3. ASSUME NEW c \in Chan, Build(c) PROVE Goal
  BY <1>0, <1>3 DEF Build, Goto, Labels, Fresh, Rest
<1>4. ASSUME NEW c \in Chan, NoAnswer(c) PROVE Goal
  <2>1. PICK l \in {"find", "gone"}, m \in {"config", "realtime"} :
            pc' = [pc EXCEPT ![c] = l] /\ source' = [source EXCEPT ![c] = m]
    BY <1>4 DEF NoAnswer, Failed, Goto
  <2> QED BY <1>0, <1>4, <2>1 DEF NoAnswer, Labels, LockedAfterFailure, Rest
<1>5. ASSUME NEW c \in Chan, Refuse(c) PROVE Goal
  BY <1>0, <1>5 DEF Refuse, Goto, Labels, Rest
<1>6. ASSUME NEW c \in Chan, Admit(c) PROVE Goal
  BY <1>0, <1>6 DEF Admit, Goto, Labels, Rest
<1>7. ASSUME NEW c \in Chan, Enter(c) PROVE Goal
  <2>1. PICK l \in {"tell", "play"} : pc' = [pc EXCEPT ![c] = l]
    BY <1>7 DEF Enter, Goto
  <2>2. seen' \subseteq Chan
    BY <1>0, <1>7, MembersAreCalls DEF Enter, Rest
  <2> QED BY <1>0, <1>7, <2>1, <2>2 DEF Enter, Labels, Rest
<1>8. ASSUME NEW c \in Chan, Play(c) PROVE Goal
  BY <1>0, <1>8, MembersAreCalls DEF Play, Goto, Labels, Rest
<1>9. ASSUME NEW c \in Chan, Tell(c) PROVE Goal
  <2>1. PICK l \in {"inside", "stray"} : pc' = [pc EXCEPT ![c] = l]
    BY <1>9 DEF Tell, Goto
  <2>2. heard' \in [Chan -> [Number -> {"nothing", "in", "out"}]]
    BY <1>0, <1>9 DEF Tell, Told, Rest
  <2>3. playlock' \in Chan \cup {Nobody} /\ seen' \subseteq Chan
    BY <1>0, <1>9 DEF Tell, Rest
  <2> QED BY <1>0, <1>9, <2>1, <2>2, <2>3 DEF Tell, Labels, Rest
<1>10. ASSUME NEW c \in Chan, HangUp(c) PROVE Goal
  BY <1>0, <1>10 DEF HangUp, Goto, Labels, Rest
<1>11. ASSUME NEW c \in Chan, Kicked(c) PROVE Goal
  BY <1>0, <1>11 DEF Kicked, Goto, Labels, Rest
<1>12. ASSUME NEW c \in Chan, Query(c) PROVE Goal
  BY <1>0, <1>12 DEF Query, Torn, Status, Rest
<1>13. ASSUME NEW c \in Chan, Find(c) PROVE Goal
  BY <1>0, <1>13, Referencing DEF Find, Goto, Has, Labels, Rest
<1>14. ASSUME NEW c \in Chan, BuildFound(c) PROVE Goal
  BY <1>0, <1>14, Referencing DEF BuildFound, Goto, Has, Labels, Rest
<1>15. ASSUME NEW c \in Chan, KickAll(c) PROVE Goal
  BY <1>0, <1>15, Flagging DEF KickAll, Torn, Rest
<1>16. ASSUME NEW c \in Chan, Answered(c) PROVE Goal
  <2>1. conf' = [refcount |-> 1, users |-> 0, user_count |-> 0, userlist |-> <<>>,
                 session |-> request]
    BY <1>16 DEF Answered, NoConference
  <2>2. conf' \in Conference
    BY <1>0, <2>1 DEF Conference, Rest
  <2> QED BY <1>0, <1>16, <2>2 DEF Answered, Goto, Has, Unlock, Labels, Rest
<1>17. ASSUME NEW c \in Chan, Dispose(c) PROVE Goal
  <2>1. conf.refcount > 0
    BY <1>0, <1>17, HoldersFind DEF Dispose, Holding, Exists
  <2>2. conf' \in Conference
    BY <1>0, <1>17, <2>1, Disposing DEF Dispose
  <2> QED BY <1>0, <1>17, <2>2 DEF Dispose, Goto, Labels, Rest
<1>18. ASSUME NEW c \in Chan, JoinScan(c) PROVE Goal
  <2>1. CASE pc'[c] = "insert"
    <3>1. conf' \in Conference /\ user_no' \in Nat
      BY <1>18, <2>1, Scanned
    <3>2. pc' = [pc EXCEPT ![c] = "insert"]
      BY <1>0, <1>18, <2>1 DEF JoinScan, Goto, Rest
    <3>3. Rest'
      BY <1>0, <1>18, <3>1, <3>2 DEF JoinScan, Labels, Rest
    <3> QED BY <1>0, <3>1, <3>3
  <2>2. CASE pc'[c] # "insert"
    <3>1. \/ pc' = [pc EXCEPT ![c] = "crashed"] /\ UNCHANGED <<conf, user_no>>
          \/ pc' = [pc EXCEPT ![c] = "insert"]
      BY <1>18 DEF JoinScan, Goto
    <3>2. /\ pc' = [pc EXCEPT ![c] = "crashed"] /\ UNCHANGED <<conf, user_no>>
      BY <1>0, <2>2, <3>1 DEF Rest
    <3> QED BY <1>0, <1>18, <3>2 DEF JoinScan, Labels, Rest
  <2> QED BY <2>1, <2>2
<1>19. ASSUME NEW c \in Chan, JoinInsert(c) PROVE Goal
  <2>1. Linked(c) \/ Unlinked(c)
    BY <1>0, <1>19, Inserted DEF JoinInsert, Numbers
  <2>2. PICK l \in {"fill", "broken"} : pc' = [pc EXCEPT ![c] = l]
    BY <2>1 DEF Linked, Unlinked, Goto
  <2>3. conf' \in Conference /\ torn' \in BOOLEAN
    BY <1>0, <2>1 DEF Linked, Unlinked, Rest
  <2>4. Rest'
    BY <1>0, <1>19, <2>2, <2>3 DEF JoinInsert, Labels, Rest
  <2> QED BY <1>0, <2>3, <2>4
<1>20. ASSUME NEW c \in Chan, JoinFill(c) PROVE Goal
  <2>1. conf' \in Conference
    BY <1>0, <1>20, FilledIn
  <2>2. Rest'
    BY <1>0, <1>20 DEF JoinFill, Goto, Labels, Rest
  <2> QED BY <1>0, <2>1, <2>2
<1>21. ASSUME NEW c \in Chan, LeaveMark(c) PROVE Goal
  <2>1. conf' \in Conference
    BY <1>0, <1>21, LeftMarked
  <2>2. PICK walk : still' = [still EXCEPT ![c] = SameNumber(c, walk)] /\ Torn(walk)
    BY <1>21 DEF LeaveMark
  <2>3. still' \in [Chan -> BOOLEAN] /\ torn' \in BOOLEAN
    BY <1>0, <2>2 DEF SameNumber, Torn, Rest
  <2>4. Rest'
    BY <1>0, <1>21, <2>3 DEF LeaveMark, Goto, Labels, Nothing, Rest
  <2> QED BY <1>0, <2>1, <2>4
<1>22. ASSUME NEW c \in Chan, LeaveStill(c) PROVE Goal
  <2>1. CASE pc'[c] = "dispose"
    <3>1. /\ conf' \in Conference /\ confs' = leaked /\ pc' = [pc EXCEPT ![c] = "dispose"]
          /\ still' = [still EXCEPT ![c] = FALSE]
      BY <1>0, <1>22, <2>1, LeftStill
    <3>2. Rest'
      BY <1>0, <1>22, <3>1 DEF LeaveStill, Labels, Rest
    <3> QED BY <1>0, <3>1, <3>2
  <2>2. CASE pc'[c] # "dispose"
    BY <1>0, <1>22, <2>2, LeftBroken DEF Labels, Rest
  <2> QED BY <2>1, <2>2
<1>23. ASSUME NEW c \in Chan, LeaveLast(c) PROVE Goal
  <2>1. conf' \in Conference
    BY <1>0, <1>23, LeftLast
  <2>2. heard' \in [Chan -> [Number -> {"nothing", "in", "out"}]] /\ torn' \in BOOLEAN
    BY <1>0, <1>23 DEF LeaveLast, Told, Torn, Rest
  <2>3. Rest'
    BY <1>0, <1>23, <2>2 DEF LeaveLast, Goto, Unlock, Labels, Rest
  <2> QED BY <1>0, <2>1, <2>3
<1>24. ASSUME NEW c \in Chan, NEW m \in Number, Kick(c, m) PROVE Goal
  BY <1>0, <1>24, Flagging DEF Kick, Torn, Rest
<1>25. ASSUME NEW c \in Chan, NEW m \in Number, Mute(c, m) PROVE Goal
  <2>1. pc' = pc \/ pc' = [pc EXCEPT ![c] = "stray"]
    BY <1>25 DEF Mute, Goto
  <2>2. pc' \in [Chan -> Labels]
    BY <1>0, <2>1 DEF Labels, Rest
  <2>3. heard' \in [Chan -> [Number -> {"nothing", "in", "out"}]]
    <3>1. CASE heard' = heard
      BY <1>0, <3>1 DEF Rest
    <3>2. ASSUME NEW walk,
                 heard' = [d \in Chan |->
                             IF /\ pc[d] \in Listening
                                /\ \E i \in walk :
                                       conf.userlist[i].chan = d /\ HasChannel(i)
                             THEN [heard[d] EXCEPT ![m] = "in"] ELSE heard[d]]
          PROVE  heard' \in [Chan -> [Number -> {"nothing", "in", "out"}]]
      <4>1. ASSUME NEW d \in Chan
            PROVE  /\ heard[d] \in [Number -> {"nothing", "in", "out"}]
                   /\ [heard[d] EXCEPT ![m] = "in"] \in [Number -> {"nothing", "in", "out"}]
        BY <1>0 DEF Rest
      <4> QED BY <3>2, <4>1
    <3> QED BY <1>25, <3>1, <3>2 DEF Mute
  <2>4. torn' \in BOOLEAN
    BY <1>0, <1>25 DEF Mute, Torn, Rest
  <2> QED BY <1>0, <1>25, <2>2, <2>3, <2>4 DEF Mute, Rest
<1>26. ASSUME AdminKickAll PROVE Goal
  BY <1>0, <1>26, Flagging, Referencing DEF AdminKickAll, Torn, Rest
<1>27. ASSUME AdminKick PROVE Goal
  BY <1>0, <1>27, Flagging, Referencing DEF AdminKick, Rest
<1>28. ASSUME AdminDone PROVE Goal
  <2>1. conf.refcount > 0
    BY <1>0, <1>28, HoldersFind DEF AdminDone, Exists
  <2>2. conf' \in Conference
    BY <1>0, <1>28, <2>1, Disposing DEF AdminDone
  <2> QED BY <1>0, <1>28, <2>2 DEF AdminDone, Rest
<1>29. ASSUME UNCHANGED vars PROVE Goal
  BY <1>0, <1>29 DEF vars, Rest
<1>30. ASSUME NEW c \in Chan, JoinLock(c) PROVE Goal
  BY <1>0, <1>30 DEF JoinLock, Goto, Labels, Rest
<1>31. ASSUME NEW c \in Chan, HalfText(c) PROVE Goal
  BY <1>0, <1>31 DEF HalfText, Rest
<1> QED
  BY <1>1, <1>2, <1>3, <1>4, <1>5, <1>6, <1>7, <1>8, <1>9, <1>10, <1>11, <1>12, <1>13,
     <1>14, <1>15, <1>16, <1>17, <1>18, <1>19, <1>20, <1>21, <1>22, <1>23, <1>24, <1>25,
     <1>26, <1>27, <1>28, <1>29, <1>30, <1>31
  DEF Next, Work, Goal

-----------------------------------------------------------------------------
(* References *)

\* When the last reference is given back, no other call has one.
LEMMA LastHolder ==
    ASSUME TypeOK, References, conf.refcount = 1
    PROVE  /\ admin = "busy" => \A d \in Chan : pc[d] \notin Holding
           /\ \A c, d \in Chan : pc[c] \in Holding /\ pc[d] \in Holding => c = d
<1>1. Cardinality(Holders) \in Nat
  BY FS_CardinalityType DEF References
<1>2. CASE admin = "busy"
  <2>1. Holders = {}
    BY <1>1, <1>2, FS_EmptySet DEF References
  <2> QED BY <2>1 DEF Holders
<1>3. CASE admin # "busy"
  <2>1. IsFiniteSet(Holders) /\ Cardinality(Holders) = 1
    BY <1>1, <1>3 DEF References
  <2>2. PICK x : Holders = {x}
    BY <2>1, FS_Singleton
  <2> QED BY <1>3, <2>2 DEF Holders
<1> QED BY <1>2, <1>3

\* Moves that neither take nor give back a reference
LEMMA HoldersKept ==
    ASSUME TypeOK, References, NEW c \in Chan, NEW l,
           pc' = pc \/ (pc' = [pc EXCEPT ![c] = l] /\ (pc[c] \in Holding <=> l \in Holding)),
           admin' = admin, conf'.refcount = conf.refcount, Exists \/ conf' = conf
    PROVE  References'
<1>1. Holders' = Holders
  BY DEF Holders, TypeOK
<1> QED BY <1>1 DEF References, Exists

\* One more call holds a reference.
LEMMA HolderAdded ==
    ASSUME TypeOK, References, NEW c \in Chan, c \notin Holders, Holders' = Holders \cup {c},
           admin' = admin, conf'.refcount = conf.refcount + 1
    PROVE  References'
<1>1. IsFiniteSet(Holders') /\ Cardinality(Holders') = Cardinality(Holders) + 1
  BY FS_AddElement DEF References
<1>2. Cardinality(Holders) \in Nat
  BY FS_CardinalityType DEF References
<1> QED BY <1>1, <1>2 DEF References, Exists

\* Every step keeps the references counted.
LEMMA ReferencesStep ==
    TypeOK /\ References /\ Locks /\ Entries /\ Numbers /\ [Next]_vars => References'
<1> SUFFICES ASSUME TypeOK, References, Locks, Entries, Numbers, [Next]_vars
             PROVE  References'
  OBVIOUS
<1> DEFINE Goal == References'
<1>0. /\ pc \in [Chan -> Labels] /\ conf \in Conference /\ conf.refcount \in Nat
      /\ IsFiniteSet(Holders) /\ Cardinality(Holders) \in Nat
  BY FS_CardinalityType, ListType DEF TypeOK, References
<1>a. \A c \in Chan : pc[c] \in Holding => Exists
  BY HoldersFind
<1> HIDE DEF Goal
<1>1. ASSUME NEW c \in Chan, Call(c) PROVE Goal
  <2>1. pc[c] = "idle" /\ pc' = [pc EXCEPT ![c] = "find"]
    BY <1>1 DEF Call, Goto
  <2>2. "idle" \notin Holding /\ "find" \notin Holding
    BY DEF Holding
  <2> QED BY <1>1, <2>1, <2>2, HoldersKept DEF Call, Goal
<1>2. ASSUME NEW c \in Chan, NotConfigured(c) PROVE Goal
  <2>1. PICK l \in {"find", "gone"} : pc' = [pc EXCEPT ![c] = l]
    BY <1>2 DEF NotConfigured, Failed, Goto
  <2> QED BY <1>2, <2>1, HoldersKept DEF NotConfigured, Holding, Goal
<1>3. ASSUME NEW c \in Chan, Build(c) PROVE Goal
  <2>1. pc[c] = "build" /\ pc' = [pc EXCEPT ![c] = "ask"]
    BY <1>3 DEF Build, Goto
  <2>2. "build" \notin Holding /\ "ask" \notin Holding
    BY DEF Holding
  <2> QED BY <1>3, <2>1, <2>2, HoldersKept DEF Build, Goal
<1>4. ASSUME NEW c \in Chan, NoAnswer(c) PROVE Goal
  <2>1. PICK l \in {"find", "gone"} : pc' = [pc EXCEPT ![c] = l]
    BY <1>4 DEF NoAnswer, Failed, Goto
  <2> QED BY <1>4, <2>1, HoldersKept DEF NoAnswer, Holding, Goal
<1>5. ASSUME NEW c \in Chan, Refuse(c) PROVE Goal
  BY <1>5, HoldersKept DEF Refuse, Goto, Holding, Goal
<1>6. ASSUME NEW c \in Chan, Admit(c) PROVE Goal
  <2>1. PICK l \in {"dispose", "join"} : pc' = [pc EXCEPT ![c] = l]
    BY <1>6 DEF Admit, Goto
  <2> QED BY <1>6, <2>1, HoldersKept DEF Admit, Holding, Goal
<1>7. ASSUME NEW c \in Chan, JoinScan(c) PROVE Goal
  <2>1. PICK l \in {"crashed", "insert"} : pc' = [pc EXCEPT ![c] = l]
    BY <1>7 DEF JoinScan, Goto
  <2>2. conf'.refcount = conf.refcount
    <3>1. CASE pc'[c] = "insert"
      BY <1>7, <3>1, Scanned
    <3>2. CASE pc'[c] # "insert"
      BY <1>0, <1>7, <2>1, <3>2 DEF JoinScan, Goto
    <3> QED BY <3>1, <3>2
  <2> QED BY <1>7, <1>a, <2>1, <2>2, HoldersKept DEF JoinScan, Holding, Goal
<1>8. ASSUME NEW c \in Chan, JoinInsert(c) PROVE Goal
  <2>1. Linked(c) \/ Unlinked(c)
    BY <1>8, Inserted DEF JoinInsert, Numbers
  <2>2. PICK l \in {"fill", "broken"} : pc' = [pc EXCEPT ![c] = l]
    BY <2>1 DEF Linked, Unlinked, Goto
  <2>3. conf'.refcount = conf.refcount
    BY <2>1 DEF Linked, Unlinked
  <2> QED BY <1>8, <1>a, <2>2, <2>3, HoldersKept DEF JoinInsert, Holding, Goal
<1>9. ASSUME NEW c \in Chan, JoinFill(c) PROVE Goal
  <2>1. conf'.refcount = conf.refcount
    BY <1>9, FilledIn
  <2> QED BY <1>9, <1>a, <2>1, HoldersKept DEF JoinFill, Goto, Holding, Goal
<1>10. ASSUME NEW c \in Chan, Enter(c) PROVE Goal
  <2>1. PICK l \in {"tell", "play"} : pc' = [pc EXCEPT ![c] = l]
    BY <1>10 DEF Enter, Goto
  <2> QED BY <1>10, <2>1, HoldersKept DEF Enter, Holding, Goal
<1>11. ASSUME NEW c \in Chan, Play(c) PROVE Goal
  BY <1>11, HoldersKept DEF Play, Goto, Holding, Goal
<1>12. ASSUME NEW c \in Chan, Tell(c) PROVE Goal
  <2>1. PICK l \in {"inside", "stray"} : pc' = [pc EXCEPT ![c] = l]
    BY <1>12 DEF Tell, Goto
  <2> QED BY <1>12, <2>1, HoldersKept DEF Tell, Holding, Goal
<1>13. ASSUME NEW c \in Chan, HangUp(c) PROVE Goal
  BY <1>13, HoldersKept DEF HangUp, Goto, Holding, Goal
<1>14. ASSUME NEW c \in Chan, Kicked(c) PROVE Goal
  BY <1>14, HoldersKept DEF Kicked, Goto, Holding, Goal
<1>15. ASSUME NEW c \in Chan, KickAll(c) PROVE Goal
  BY <1>15, Flagging, <1>a, HoldersKept DEF KickAll, Goto, Holding, Goal
<1>16. ASSUME NEW c \in Chan, Query(c) PROVE Goal
  BY <1>16, HoldersKept DEF Query, Goto, Holding, Goal
<1>17. ASSUME NEW c \in Chan, LeaveMark(c) PROVE Goal
  <2>1. conf'.refcount = conf.refcount
    BY <1>17, LeftMarked
  <2> QED BY <1>17, <1>a, <2>1, HoldersKept DEF LeaveMark, Goto, Holding, Goal
<1>18. ASSUME NEW c \in Chan, LeaveStill(c) PROVE Goal
  <2>1. PICK l \in {"dispose", "broken"} :
            conf'.refcount = conf.refcount /\ pc' = [pc EXCEPT ![c] = l]
    BY <1>18, LeftStill, LeftBroken
  <2> QED BY <1>18, <1>a, <2>1, HoldersKept DEF LeaveStill, Holding, Goal
<1>19. ASSUME NEW c \in Chan, LeaveLast(c) PROVE Goal
  <2>1. conf'.refcount = conf.refcount
    BY <1>19, LeftLast DEF LeaveLast
  <2> QED BY <1>19, <1>a, <2>1, HoldersKept DEF LeaveLast, Goto, Holding, Goal
<1>20. ASSUME NEW c \in Chan, NEW m \in Number, Kick(c, m) PROVE Goal
  BY <1>20, Flagging, <1>a, HoldersKept DEF Kick, Holding, Goal
<1>21. ASSUME NEW c \in Chan, NEW m \in Number, Mute(c, m) PROVE Goal
  BY <1>21, HoldersKept DEF Mute, Goto, Holding, Goal
<1>22. ASSUME NEW c \in Chan, Find(c), Exists PROVE Goal
  <2>1. c \notin Holders /\ Holders' = Holders \cup {c}
    BY <1>0, <1>22 DEF Find, Has, Goto, Holders, Holding
  <2>2. conf'.refcount = conf.refcount + 1
    BY <1>0, <1>22, Referencing DEF Find
  <2> QED BY <1>22, <2>1, <2>2, HolderAdded DEF Find, Goal
<1>23. ASSUME NEW c \in Chan, BuildFound(c), Exists PROVE Goal
  <2>1. c \notin Holders /\ Holders' = Holders \cup {c}
    BY <1>0, <1>23 DEF BuildFound, Has, Goto, Holders, Holding
  <2>2. conf'.refcount = conf.refcount + 1
    BY <1>0, <1>23, Referencing DEF BuildFound
  <2> QED BY <1>23, <2>1, <2>2, HolderAdded DEF BuildFound, Goal
<1>24. ASSUME NEW c \in Chan, Find(c), ~Exists PROVE Goal
  BY <1>24, HoldersKept DEF Find, Goto, Holding, Goal
<1>25. ASSUME NEW c \in Chan, Answered(c) PROVE Goal
  <2>1. ~Exists
    BY <1>25 DEF Answered, Locks
  <2>2. conf.refcount = 0 /\ conf'.refcount = 1
    BY <1>0, <1>25, <2>1 DEF Answered, NoConference, Exists
  <2>3. c \notin Holders /\ Holders' = Holders \cup {c}
    BY <1>0, <1>25 DEF Answered, Has, Goto, Holders, Holding
  <2> QED BY <1>25, <2>2, <2>3, HolderAdded DEF Answered, Goal
<1>26. ASSUME NEW c \in Chan, Dispose(c) PROVE Goal
  <2>1. c \in Holders /\ Holders' = Holders \ {c}
    BY <1>0, <1>26 DEF Dispose, Goto, Holders, Holding
  <2>2. IsFiniteSet(Holders') /\ Cardinality(Holders') = Cardinality(Holders) - 1
    BY <1>0, <2>1, FS_RemoveElement
  <2>3. conf.refcount > 0
    BY <1>a, <1>26 DEF Dispose, Holding, Exists
  <2>4. /\ conf'.refcount = conf.refcount - 1 /\ conf'.refcount \in Nat
        /\ conf'.refcount = 0 => conf' = NoConference
    BY <1>0, <1>26, <2>3, Disposing DEF Dispose, NoConference
  <2> QED BY <1>0, <1>26, <2>2, <2>4 DEF Dispose, References, Exists, Goal
<1>27. ASSUME AdminKickAll PROVE Goal
  <2>1. conf'.refcount = conf.refcount + 1 /\ Holders' = Holders
    BY <1>27, Flagging, Referencing DEF AdminKickAll, Holders
  <2> QED BY <1>0, <1>27, <2>1 DEF AdminKickAll, References, Exists, Goal
<1>28. ASSUME AdminKick PROVE Goal
  <2>1. conf'.refcount = conf.refcount + 1 /\ Holders' = Holders
    BY <1>28, Flagging, Referencing DEF AdminKick, Holders
  <2> QED BY <1>0, <1>28, <2>1 DEF AdminKick, References, Exists, Goal
<1>29. ASSUME AdminDone PROVE Goal
  <2>1. conf.refcount > 0
    BY <1>29, HoldersFind DEF AdminDone, Exists
  <2>2. /\ conf'.refcount = conf.refcount - 1 /\ conf'.refcount \in Nat
        /\ conf'.refcount = 0 => conf' = NoConference
    BY <1>0, <1>29, <2>1, Disposing DEF AdminDone, NoConference
  <2>3. Holders' = Holders
    BY <1>29 DEF AdminDone, Holders
  <2> QED BY <1>0, <1>29, <2>2, <2>3 DEF AdminDone, References, Exists, Goal
<1>30. ASSUME UNCHANGED vars PROVE Goal
  BY <1>30 DEF vars, References, Holders, Exists, Goal
<1>31. ASSUME NEW c \in Chan, JoinLock(c) PROVE Goal
  BY <1>31, HoldersKept DEF JoinLock, Goto, Holding, Goal
<1>32. ASSUME NEW c \in Chan, HalfText(c) PROVE Goal
  BY <1>32, HoldersKept DEF HalfText, Goal
<1> QED
  BY <1>1, <1>2, <1>3, <1>4, <1>5, <1>6, <1>7, <1>8, <1>9, <1>10, <1>11, <1>12, <1>13,
     <1>14, <1>15, <1>16, <1>17, <1>18, <1>19, <1>20, <1>21, <1>22, <1>23, <1>24, <1>25,
     <1>26, <1>27, <1>28, <1>29, <1>30, <1>31, <1>32
  DEF Next, Work, BuildFound, Goal

-----------------------------------------------------------------------------
(* Locks *)

\* Every step keeps to the locks.
LEMMA LocksStep ==
    TypeOK /\ References /\ Locks /\ Entries /\ Numbers /\ [Next]_vars => Locks'
<1> SUFFICES ASSUME TypeOK, References, Locks, Entries, Numbers, [Next]_vars
             PROVE  Locks'
  OBVIOUS
<1> DEFINE Goal == Locks'
<1>0. /\ pc \in [Chan -> Labels] /\ conf \in Conference /\ conf.refcount \in Nat
      /\ asked \subseteq Session /\ request \in Session \cup {NoSession}
      /\ Nobody \notin Chan /\ NoSession \notin Session
  BY ListType, StateCtlAssumption DEF TypeOK
<1>a. \A c \in Chan : pc[c] \in Holding => Exists
  BY HoldersFind
<1>b. /\ \A c \in Chan : pc[c] \in {"ask", "leaving"} => confs = c
      /\ leaked # Nobody => confs = leaked
  BY DEF Locks
<1> HIDE DEF Goal
<1>1. ASSUME NEW c \in Chan, Call(c) PROVE Goal
  BY <1>0, <1>1 DEF Call, Goto, Locks, Exists, Goal
<1>2. ASSUME NEW c \in Chan, Refuse(c) PROVE Goal
  BY <1>0, <1>2 DEF Refuse, Goto, Locks, Exists, Goal
<1>3. ASSUME NEW c \in Chan, Enter(c) PROVE Goal
  <2>1. PICK l \in {"tell", "play"} : pc' = [pc EXCEPT ![c] = l]
    BY <1>3 DEF Enter, Goto
  <2> QED BY <1>0, <1>3, <2>1 DEF Enter, Locks, Exists, Goal
<1>4. ASSUME NEW c \in Chan, Play(c) PROVE Goal
  BY <1>0, <1>4 DEF Play, Goto, Locks, Exists, Goal
<1>5. ASSUME NEW c \in Chan, Tell(c) PROVE Goal
  <2>1. \/ pc' = [pc EXCEPT ![c] = "inside"]
        \/ pc' = [pc EXCEPT ![c] = "stray"] /\ playlock' = playlock
    BY <1>5 DEF Tell, Goto
  <2> QED BY <1>0, <1>5, <2>1 DEF Tell, Locks, Exists, Goal
<1>6. ASSUME NEW c \in Chan, HangUp(c) PROVE Goal
  BY <1>0, <1>6 DEF HangUp, Goto, Locks, Exists, Goal
<1>7. ASSUME NEW c \in Chan, Kicked(c) PROVE Goal
  BY <1>0, <1>7 DEF Kicked, Goto, Locks, Exists, Goal
<1>8. ASSUME NEW c \in Chan, Query(c) PROVE Goal
  BY <1>0, <1>8 DEF Query, Goto, Locks, Exists, Goal
<1>9. ASSUME NEW c \in Chan, NotConfigured(c) PROVE Goal
  <2>1. PICK l \in {"find", "gone"} : pc' = [pc EXCEPT ![c] = l]
    BY <1>9 DEF NotConfigured, Failed, Goto
  <2> QED BY <1>0, <1>b, <1>9, <2>1 DEF NotConfigured, Locks, Exists, LockedAfterFailure, Goal
<1>10. ASSUME NEW c \in Chan, NoAnswer(c) PROVE Goal
  <2>1. PICK l \in {"find", "gone"} : pc' = [pc EXCEPT ![c] = l]
    BY <1>10 DEF NoAnswer, Failed, Goto
  <2> QED BY <1>0, <1>b, <1>10, <2>1 DEF NoAnswer, Locks, Exists, LockedAfterFailure, Goal
<1>11. ASSUME NEW c \in Chan, Admit(c) PROVE Goal
  <2>1. PICK l \in {"dispose", "join"} : pc' = [pc EXCEPT ![c] = l]
    BY <1>11 DEF Admit, Failed, Goto
  <2> QED BY <1>0, <1>b, <1>11, <2>1 DEF Admit, Locks, Exists, LockedAfterFailure, Goal
<1>12. ASSUME NEW c \in Chan, Build(c) PROVE Goal
  <2>1. Fresh \in Session \ asked
    BY <1>0, <1>12 DEF Build, Fresh
  <2>2. \A d \in Chan : pc[d] \notin {"ask", "leaving"}
    BY <1>0, <1>b, <1>12 DEF Build, Unlocked
  <2> QED BY <1>0, <1>12, <2>1, <2>2 DEF Build, Unlocked, Goto, Locks, Exists, Goal
<1>13. ASSUME NEW c \in Chan, Answered(c) PROVE Goal
  <2>1. \A d \in Chan : pc'[d] \notin {"ask", "leaving"}
    BY <1>0, <1>b, <1>13 DEF Answered, Has, Goto
  <2>3. leaked' # Nobody => confs' = leaked'
    BY <1>13 DEF Answered, Unlock
  <2>2. conf'.session = request /\ request \in asked
    BY <1>0, <1>13 DEF Answered, NoConference, Locks
  <2> QED BY <1>0, <1>13, <2>1, <2>2, <2>3 DEF Answered, Has, Goto, Locks, Goal
<1>14. ASSUME NEW c \in Chan, Find(c) \/ BuildFound(c), Exists PROVE Goal
  <2>1. conf'.session = conf.session /\ pc' = [pc EXCEPT ![c] = "admit"]
        /\ Unlocked(c) /\ pc[c] \in {"find", "build"}
        /\ UNCHANGED <<confs, playlock, request, asked, leaked>>
    BY <1>0, <1>14, Referencing DEF Find, BuildFound, Has, Goto
  <2>2. \A d \in Chan : pc[d] \notin {"ask", "leaving"}
    BY <1>0, <1>b, <2>1 DEF Unlocked
  <2> QED BY <1>0, <1>14, <2>1, <2>2 DEF Locks, Exists, Goal
<1>15. ASSUME NEW c \in Chan, Find(c), ~Exists PROVE Goal
  BY <1>0, <1>15 DEF Find, Goto, Locks, Exists, Goal
<1>16. ASSUME NEW c \in Chan, JoinInsert(c) PROVE Goal
  <2>1. Linked(c) \/ Unlinked(c)
    BY <1>16, Inserted DEF JoinInsert, Numbers
  <2>2. PICK l \in {"fill", "broken"} : pc' = [pc EXCEPT ![c] = l]
    BY <2>1 DEF Linked, Unlinked, Goto
  <2>3. conf'.refcount = conf.refcount /\ conf'.session = conf.session
    BY <2>1 DEF Linked, Unlinked
  <2> QED BY <1>0, <1>b, <1>16, <2>2, <2>3 DEF JoinInsert, Locks, Exists, Goal
<1>17. ASSUME NEW c \in Chan, JoinFill(c) PROVE Goal
  <2>1. conf'.refcount = conf.refcount /\ conf'.session = conf.session
    BY <1>17, FilledIn
  <2> QED BY <1>0, <1>b, <1>17, <2>1 DEF JoinFill, Goto, Unlocked, Locks, Exists, Goal
<1>18. ASSUME NEW c \in Chan, LeaveMark(c) PROVE Goal
  <2>1. conf'.refcount = conf.refcount /\ conf'.session = conf.session
    BY <1>18, LeftMarked
  <2> QED BY <1>0, <1>b, <1>18, <2>1 DEF LeaveMark, Goto, Unlocked, Locks, Exists, Goal
<1>19. ASSUME NEW c \in Chan, LeaveStill(c) PROVE Goal
  <2>1. CASE pc'[c] = "dispose"
    <3>1. /\ conf'.refcount = conf.refcount /\ conf'.session = conf.session
          /\ confs' = leaked /\ pc' = [pc EXCEPT ![c] = "dispose"]
      BY <1>19, <2>1, LeftStill
    <3> QED BY <1>0, <1>b, <1>19, <3>1 DEF LeaveStill, Locks, Exists, Goal
  <2>2. CASE pc'[c] # "dispose"
    BY <1>0, <1>19, <2>2, LeftBroken DEF Locks, Exists, Goal
  <2> QED BY <2>1, <2>2
<1>20. ASSUME NEW c \in Chan, LeaveLast(c) PROVE Goal
  <2>1. conf'.refcount = conf.refcount /\ conf'.session = conf.session
    BY <1>20, LeftLast DEF LeaveLast
  <2> QED BY <1>0, <1>b, <1>20, <2>1 DEF LeaveLast, Goto, Unlock, Locks, Exists, Goal
<1>21. ASSUME NEW c \in Chan, JoinScan(c) PROVE Goal
  <2>1. PICK l \in {"crashed", "insert"} : pc' = [pc EXCEPT ![c] = l]
    BY <1>21 DEF JoinScan, Goto
  <2>2. conf'.refcount = conf.refcount /\ conf'.session = conf.session
    <3>1. CASE pc'[c] = "insert"
      BY <1>21, <3>1, Scanned
    <3>2. CASE pc'[c] # "insert"
      BY <1>0, <1>21, <2>1, <3>2 DEF JoinScan, Goto
    <3> QED BY <3>1, <3>2
  <2> QED BY <1>0, <1>21, <2>1, <2>2 DEF JoinScan, Locks, Exists, Goal
<1>22. ASSUME NEW c \in Chan, Dispose(c) PROVE Goal
  <2>1. conf.refcount > 0
    BY <1>a, <1>22 DEF Dispose, Holding, Exists
  <2>2. /\ conf'.refcount \in Nat
        /\ conf'.refcount > 0 => conf'.session = conf.session
        /\ pc' = [pc EXCEPT ![c] = "gone"] /\ Unlocked(c) /\ pc[c] = "dispose"
        /\ UNCHANGED <<confs, playlock, request, asked, leaked>>
    BY <1>0, <1>22, <2>1, Disposing DEF Dispose, Goto, NoConference
  <2>3. \A d \in Chan : pc[d] \notin {"ask", "leaving"}
    BY <1>0, <1>b, <2>2 DEF Unlocked
  <2> QED BY <1>0, <2>1, <2>2, <2>3 DEF Locks, Exists, Goal
<1>23. ASSUME AdminDone PROVE Goal
  <2>1. conf.refcount > 0
    BY <1>23, HoldersFind DEF AdminDone, Exists
  <2>2. /\ conf'.refcount \in Nat
        /\ conf'.refcount > 0 => conf'.session = conf.session
        /\ UNCHANGED <<pc, confs, playlock, request, asked, leaked>> /\ confs = Nobody
    BY <1>0, <1>23, <2>1, Disposing DEF AdminDone, NoConference
  <2>3. \A d \in Chan : pc[d] \notin {"ask", "leaving"}
    BY <1>0, <1>b, <2>2
  <2> QED BY <1>0, <2>1, <2>2, <2>3 DEF Locks, Exists, Goal
<1>24. ASSUME AdminKickAll \/ AdminKick PROVE Goal
  <2>1. /\ conf'.session = conf.session /\ Exists /\ confs = Nobody
        /\ UNCHANGED <<pc, confs, playlock, request, asked, leaked>>
    <3>1. PICK which : conf' = Referenced(Flagged(which))
      BY <1>24 DEF AdminKickAll, AdminKick
    <3>2. conf'.session = conf.session
      BY <3>1, Flagging, Referencing
    <3> QED BY <1>24, <3>2 DEF AdminKickAll, AdminKick
  <2>2. \A d \in Chan : pc[d] \notin {"ask", "leaving"}
    BY <1>0, <1>b, <2>1
  <2> QED BY <2>1, <2>2 DEF Locks, Goal
<1>25. ASSUME NEW c \in Chan, NEW m \in Number, KickAll(c) \/ Kick(c, m) PROVE Goal
  BY <1>25, Flagging DEF KickAll, Kick, Locks, Exists, Goal
<1>26. ASSUME NEW c \in Chan, KickAll(c) PROVE Goal
  BY <1>26, Flagging DEF KickAll, Locks, Exists, Goal
<1>27. ASSUME NEW c \in Chan, NEW m \in Number, Mute(c, m) PROVE Goal
  <2>1. /\ pc' = pc \/ pc' = [pc EXCEPT ![c] = "stray"]
        /\ pc[c] = "inside" /\ UNCHANGED <<conf, confs, playlock, request, asked, leaked>>
    BY <1>27 DEF Mute, Goto
  <2> QED BY <1>0, <2>1 DEF Locks, Exists, Goal
<1>28. ASSUME UNCHANGED vars PROVE Goal
  BY <1>28 DEF vars, Locks, Exists, Goal
<1>29. ASSUME NEW c \in Chan, JoinLock(c) PROVE Goal
  BY <1>0, <1>29 DEF JoinLock, Goto, Locks, Exists, Goal
<1>30. ASSUME NEW c \in Chan, HalfText(c) PROVE Goal
  <2>1. \A d \in Chan : pc[d] \notin {"ask", "leaving"}
    BY <1>0, <1>b, <1>30 DEF HalfText, Unlocked
  <2> QED BY <1>0, <1>30, <2>1 DEF HalfText, Locks, Exists, Goal
<1> QED
  BY <1>1, <1>2, <1>3, <1>4, <1>5, <1>6, <1>7, <1>8, <1>9, <1>10, <1>11, <1>12, <1>13,
     <1>14, <1>15, <1>16, <1>17, <1>18, <1>19, <1>20, <1>21, <1>22, <1>23, <1>24, <1>25,
     <1>26, <1>27, <1>28, <1>29, <1>30
  DEF Next, Work, BuildFound, Goal

\* A section that begins while one of the other kind is under way is on record.
LEMMA OverlapsStep ==
    TypeOK /\ References /\ Overlaps /\ [Next]_vars => Overlaps'
<1> SUFFICES ASSUME TypeOK, References, Overlaps, [Next]_vars PROVE Overlaps'
  OBVIOUS
<1> DEFINE Same == /\ overlapped => overlapped'
                   /\ \A d \in Chan : pc'[d] = "leaving" => pc[d] = "leaving"
                   /\ \A d \in Chan : pc'[d] \in {"scan", "insert", "fill"} =>
                          pc[d] \in {"scan", "insert", "fill"}
           None == \A d \in Chan : pc'[d] \notin {"leaving", "scan", "insert", "fill"}
<1>0. pc \in [Chan -> Labels]
  BY DEF TypeOK
<1>1. ASSUME Same PROVE Overlaps'
  BY <1>1 DEF Overlaps, Joining, Leaving
<1>2. ASSUME None PROVE Overlaps'
  BY <1>2 DEF Overlaps, Joining, Leaving
<1>3. ASSUME NEW c \in Chan, Dispose(c) PROVE Overlaps'
  <2>1. CASE conf.refcount = 1
    <3>1. None
      BY <1>0, <1>3, <2>1, LastHolder DEF Dispose, Goto, Holding
    <3> QED BY <1>2, <3>1
  <2>2. CASE conf.refcount # 1
    <3>1. conf.refcount > 1
      BY <1>3, <2>2, HoldersFind, ListType DEF Dispose, Holding, Exists
    <3>2. Same
      BY <1>0, <1>3, <3>1 DEF Dispose, Goto
    <3> QED BY <1>1, <3>2
  <2> QED BY <2>1, <2>2
<1>4. ASSUME AdminDone PROVE Overlaps'
  <2>1. CASE conf.refcount = 1
    <3>1. None
      BY <1>0, <1>4, <2>1, LastHolder DEF AdminDone, Holding
    <3> QED BY <1>2, <3>1
  <2>2. CASE conf.refcount # 1
    <3>1. conf.refcount > 1
      BY <1>4, <2>2, HoldersFind, ListType DEF AdminDone, Exists
    <3>2. Same
      BY <1>4, <3>1 DEF AdminDone
    <3> QED BY <1>1, <3>2
  <2> QED BY <2>1, <2>2
<1>5. ASSUME NEW c \in Chan, JoinLock(c) PROVE Overlaps'
  BY <1>0, <1>5 DEF JoinLock, Goto, Overlaps, Joining, Leaving
<1>6. ASSUME NEW c \in Chan, LeaveMark(c) PROVE Overlaps'
  BY <1>0, <1>6 DEF LeaveMark, Goto, Overlaps, Joining, Leaving
<1>7. ASSUME NEW c \in Chan, JoinInsert(c) PROVE Overlaps'
  <2>1. PICK l \in {"fill", "broken"} : pc' = [pc EXCEPT ![c] = l]
    BY <1>7 DEF JoinInsert, Goto
  <2> QED BY <1>0, <1>1, <1>7, <2>1 DEF JoinInsert
<1>8. ASSUME NEW c \in Chan, JoinScan(c) PROVE Overlaps'
  <2>1. PICK l \in {"crashed", "insert"} : pc' = [pc EXCEPT ![c] = l]
    BY <1>8 DEF JoinScan, Goto
  <2> QED BY <1>0, <1>1, <1>8, <2>1 DEF JoinScan
<1>9. ASSUME NEW c \in Chan, LeaveStill(c) PROVE Overlaps'
  <2>1. PICK l \in {"dispose", "broken"} : pc' = [pc EXCEPT ![c] = l]
    BY <1>9, LeftStill, LeftBroken
  <2> QED BY <1>0, <1>1, <1>9, <2>1 DEF LeaveStill
<1>10. ASSUME NEW c \in Chan, Tell(c) \/ Enter(c) \/ Admit(c) PROVE Overlaps'
  <2>1. PICK l \in {"inside", "stray", "tell", "play", "dispose", "join"} :
            pc' = [pc EXCEPT ![c] = l]
    BY <1>10 DEF Tell, Enter, Admit, Goto
  <2> QED BY <1>0, <1>1, <1>10, <2>1 DEF Tell, Enter, Admit
<1>11. ASSUME NEW c \in Chan, NotConfigured(c) \/ NoAnswer(c) \/ Find(c) PROVE Overlaps'
  <2>1. PICK l \in {"find", "gone", "admit", "build"} : pc' = [pc EXCEPT ![c] = l]
    BY <1>11 DEF NotConfigured, NoAnswer, Find, Failed, Has, Goto
  <2> QED BY <1>0, <1>1, <1>11, <2>1 DEF NotConfigured, NoAnswer, Find
<1>12. ASSUME NEW c \in Chan, NEW m \in Number, Kick(c, m) \/ Mute(c, m) PROVE Overlaps'
  <2>1. pc' = pc \/ pc' = [pc EXCEPT ![c] = "stray"]
    BY <1>12 DEF Kick, Mute, Goto
  <2> QED BY <1>0, <1>1, <1>12, <2>1 DEF Kick, Mute
<1>13. ASSUME NEW c \in Chan,
              KickAll(c) \/ Query(c) \/ HalfText(c)
       PROVE  Overlaps'
  BY <1>1, <1>13 DEF KickAll, Query, HalfText
<1>14. ASSUME NEW c \in Chan, Call(c) \/ Refuse(c) \/ HangUp(c) \/ Kicked(c) PROVE Overlaps'
  BY <1>0, <1>1, <1>14 DEF Call, Refuse, HangUp, Kicked, Goto
<1>15. ASSUME NEW c \in Chan, Build(c) \/ Answered(c) \/ BuildFound(c) PROVE Overlaps'
  BY <1>0, <1>1, <1>15 DEF Build, Answered, BuildFound, Has, Goto
<1>16. ASSUME NEW c \in Chan, JoinFill(c) \/ Play(c) \/ LeaveLast(c) PROVE Overlaps'
  BY <1>0, <1>1, <1>16 DEF JoinFill, Play, LeaveLast, Goto
<1>17. ASSUME AdminKickAll \/ AdminKick \/ UNCHANGED vars PROVE Overlaps'
  BY <1>1, <1>17 DEF AdminKickAll, AdminKick, vars
<1> HIDE DEF Same, None
<1> QED BY <1>3, <1>4, <1>5, <1>6, <1>7, <1>8, <1>9, <1>10, <1>11, <1>12, <1>13, <1>14,
           <1>15, <1>16, <1>17 DEF Next, Work

-----------------------------------------------------------------------------
(* Entries and numbers *)

\* Before a call is in the list, and after it has left
Before == {"idle", "find", "build", "ask", "admit", "join", "scan", "insert"}
After == {"leaving", "dispose", "gone", "broken"}

\* Moves of a call that say nothing new of its entry
Harmless(x, l) ==
    /\ l \in Labels \ {"insert"}
    /\ \/ x \in Before /\ l \notin {"fill", "stray"} \cup Joined
       \/ x \in Joined /\ l \in {"stray"} \cup Joined
       \/ x \in After /\ l \in After

\* The list without its i-th entry
Without(list, i) ==
    /\ i \in 1 .. Len(conf.userlist)
    /\ list \in Seq(User) /\ Len(list) = Len(conf.userlist) - 1
    /\ \A k \in 1 .. Len(conf.userlist) - 1 :
           list[k] = conf.userlist[IF k < i THEN k ELSE k + 1]

\* RemoveAt takes one entry out.
LEMMA Removed ==
    ASSUME TypeOK, NEW i \in DOMAIN conf.userlist
    PROVE  Without(RemoveAt(conf.userlist, i), i)
BY ListType, Removal DEF Without

\* Any two entries of the shorter list are two of the longer one in the same order, and
\* every other entry of the longer one is in it.
LEMMA Shorter ==
    ASSUME TypeOK, NEW list, NEW i, Without(list, i)
    PROVE  /\ \A k \in DOMAIN list : \E a \in DOMAIN conf.userlist :
                  /\ list[k] = conf.userlist[a] /\ a # i
                  /\ a = Len(conf.userlist) => k = Len(list)
           /\ \A k, m \in DOMAIN list : k < m => \E a, b \in DOMAIN conf.userlist :
                  a < b /\ list[k] = conf.userlist[a] /\ list[m] = conf.userlist[b]
                  /\ a # i /\ b # i
           /\ \A a \in DOMAIN conf.userlist : a # i =>
                  \E k \in DOMAIN list : list[k] = conf.userlist[a]
<1> DEFINE n == Len(conf.userlist)
           f(k) == IF k < i THEN k ELSE k + 1
<1>a. n \in Nat /\ DOMAIN conf.userlist = 1 .. n
  BY ListType
<1>b. list \in Seq(User) /\ Len(list) = n - 1 /\ i \in 1 .. n
  BY DEF Without
<1>c. DOMAIN list = 1 .. n - 1
  BY <1>b
<1>d. \A k \in 1 .. n - 1 : list[k] = conf.userlist[f(k)]
  BY Zenon DEF Without
<1>1. /\ n \in Nat /\ DOMAIN conf.userlist = 1 .. n /\ DOMAIN list = 1 .. n - 1
      /\ Len(list) = n - 1 /\ i \in 1 .. n
      /\ \A k \in 1 .. n - 1 : list[k] = conf.userlist[f(k)]
  BY <1>a, <1>b, <1>c, <1>d
<1>e. n = Len(conf.userlist)
  OBVIOUS
<1> HIDE DEF n
<1>2. ASSUME NEW k \in 1 .. n - 1
      PROVE  f(k) \in 1 .. n /\ f(k) # i /\ (f(k) = n => k = n - 1)
  BY <1>1
<1>3. ASSUME NEW k \in 1 .. n - 1, NEW m \in 1 .. n - 1, k < m PROVE f(k) < f(m)
  BY <1>1, <1>3
<1>4. ASSUME NEW a \in 1 .. n, a # i
      PROVE  \E k \in 1 .. n - 1 : list[k] = conf.userlist[a]
  <2>1. CASE a < i
    BY <1>1, <2>1
  <2>2. CASE a > i
    <3>1. a - 1 \in 1 .. n - 1 /\ f(a - 1) = a
      BY <1>1, <2>2
    <3> QED BY <1>1, <3>1
  <2> QED BY <1>1, <1>4, <2>1, <2>2
<1> HIDE DEF f
<1>5. ASSUME NEW k \in DOMAIN list
      PROVE  \E a \in DOMAIN conf.userlist :
                 /\ list[k] = conf.userlist[a] /\ a # i
                 /\ a = Len(conf.userlist) => k = Len(list)
  <2>1. k \in 1 .. n - 1
    BY <1>1, <1>5
  <2>2. /\ f(k) \in DOMAIN conf.userlist /\ list[k] = conf.userlist[f(k)] /\ f(k) # i
        /\ f(k) = Len(conf.userlist) => k = Len(list)
    BY <1>1, <1>2, <1>e, <2>1
  <2> QED BY <2>2
<1>6. ASSUME NEW k \in DOMAIN list, NEW m \in DOMAIN list, k < m
      PROVE  \E a, b \in DOMAIN conf.userlist :
                 a < b /\ list[k] = conf.userlist[a] /\ list[m] = conf.userlist[b]
                 /\ a # i /\ b # i
  <2>1. k \in 1 .. n - 1 /\ m \in 1 .. n - 1
    BY <1>1, <1>6
  <2>2. /\ f(k) \in DOMAIN conf.userlist /\ f(m) \in DOMAIN conf.userlist
        /\ list[k] = conf.userlist[f(k)] /\ list[m] = conf.userlist[f(m)]
        /\ f(k) # i /\ f(m) # i /\ f(k) < f(m)
    BY <1>1, <1>2, <1>3, <1>6, <2>1
  <2> QED BY <2>2
<1> QED BY <1>1, <1>4, <1>5, <1>6

\* A list with the same entries, and a harmless move
LEMMA EntriesKept ==
    ASSUME TypeOK, Entries, Numbers, NEW c, NEW l, SameEntries(conf'.userlist),
           pc' = pc \/ (pc' = [pc EXCEPT ![c] = l] /\ Harmless(pc[c], l)),
           user_no' = user_no, Spoilt => Spoilt'
    PROVE  Entries' /\ Numbers'
<1>1. /\ DOMAIN conf.userlist = 1 .. Len(conf.userlist)
      /\ DOMAIN conf'.userlist = 1 .. Len(conf.userlist)
      /\ Len(conf'.userlist) = Len(conf.userlist)
      /\ \A i \in 1 .. Len(conf.userlist) : conf.userlist[i].chan \in Chan
  BY ListType DEF SameEntries, User
<1>2. \A i \in 1 .. Len(conf.userlist) :
         /\ conf'.userlist[i].chan = conf.userlist[i].chan
         /\ conf'.userlist[i].cid = conf.userlist[i].cid
         /\ conf'.userlist[i].no = conf.userlist[i].no
         /\ conf'.userlist[i].active = conf.userlist[i].active
  BY DEF SameEntries
<1>3. \A d \in Chan : pc'[d] = pc[d] \/ (d = c /\ pc'[c] = l /\ Harmless(pc[c], l))
  <2>1. CASE pc' = pc
    BY <2>1
  <2>2. CASE pc' = [pc EXCEPT ![c] = l] /\ Harmless(pc[c], l)
    <3>1. \A d \in Chan : pc'[d] = IF d = c THEN l ELSE pc[d]
      BY <2>2 DEF TypeOK
    <3> QED BY <2>2, <3>1
  <2> QED BY <2>1, <2>2
<1>4. \A i \in 1 .. Len(conf.userlist) : pc[conf.userlist[i].chan] \notin Before
  BY <1>1 DEF Entries, Before, Joined
<1>5. \A d \in Chan : pc'[d] \in {"fill", "stray"} \cup Joined =>
         pc[d] \in {"fill", "stray"} \cup Joined /\ (pc'[d] = "fill" <=> pc[d] = "fill")
  BY <1>3 DEF Harmless, Before, After, Joined
<1>6. ASSUME NEW i \in DOMAIN conf'.userlist
      PROVE  LET u == conf'.userlist[i]  d == u.chan
             IN  /\ pc'[d] \in {"fill", "leaving", "dispose", "gone", "stray", "broken"} \cup Joined
                 /\ u.cid = IF pc'[d] = "fill" THEN NoNumber ELSE num[d]
                 /\ u.active <=> pc'[d] \in {"stray"} \cup Joined
                 /\ pc'[d] = "fill" => i = Len(conf'.userlist)
  <2> DEFINE u == conf.userlist[i]  d == u.chan  v == conf'.userlist[i]
  <2>1. /\ i \in DOMAIN conf.userlist /\ i \in 1 .. Len(conf.userlist) /\ d \in Chan
        /\ v.chan = d /\ v.cid = u.cid /\ v.active = u.active
    BY <1>1, <1>2
  <2>2. /\ pc[d] \in {"fill", "leaving", "dispose", "gone", "stray", "broken"} \cup Joined
        /\ u.cid = IF pc[d] = "fill" THEN NoNumber ELSE num[d]
        /\ u.active <=> pc[d] \in {"stray"} \cup Joined
        /\ pc[d] = "fill" => i = Len(conf.userlist)
    BY <2>1 DEF Entries
  <2>3. /\ pc'[d] \in {"fill", "leaving", "dispose", "gone", "stray", "broken"} \cup Joined
        /\ pc'[d] = "fill" <=> pc[d] = "fill"
        /\ pc'[d] \in {"stray"} \cup Joined <=> pc[d] \in {"stray"} \cup Joined
    BY <1>3, <1>4, <2>1, <2>2 DEF Harmless, After, Joined
  <2> QED BY <1>1, <2>1, <2>2, <2>3
<1>7. ASSUME NEW d \in Chan, pc'[d] \in {"fill", "stray"} \cup Joined, ~Spoilt'
      PROVE  Listed(d)'
  BY <1>1, <1>2, <1>5, <1>7 DEF Entries, Listed
<1>8. \A i, j \in DOMAIN conf'.userlist :
          conf'.userlist[i].chan = conf'.userlist[j].chan => i = j
  BY <1>1, <1>2 DEF Entries
<1>9. Entries'
  BY <1>6, <1>7, <1>8 DEF Entries
<1>10. \A d \in Chan : pc'[d] = "insert" => pc[d] = "insert"
  BY <1>3 DEF Harmless
<1>11. Numbers'
  BY <1>1, <1>2, <1>10 DEF Numbers
<1> QED BY <1>9, <1>11

\* A call without an entry moves on and leaves the list as it is.
LEMMA EntriesUnlisted ==
    ASSUME TypeOK, Entries, Numbers, NEW c \in Chan, NEW l, ~Listed(c),
           pc' = [pc EXCEPT ![c] = l], conf'.userlist = conf.userlist,
           \A d \in Chan : pc'[d] = "insert" => pc[d] = "insert" /\ user_no' = user_no,
           Spoilt => Spoilt', l \in {"fill", "stray"} \cup Joined => Spoilt'
    PROVE  Entries' /\ Numbers'
<1>1. \A d \in Chan : pc'[d] = IF d = c THEN l ELSE pc[d]
  BY DEF TypeOK
<1>2. \A i \in DOMAIN conf.userlist :
          conf.userlist[i].chan \in Chan /\ conf.userlist[i].chan # c
  BY ListType DEF Listed, User
<1>3. Entries'
  BY <1>1, <1>2 DEF Entries, Listed
<1>4. Numbers'
  BY DEF Numbers
<1> QED BY <1>3, <1>4

\* Without a conference no call has a reference to it.
LEMMA NothingHeld ==
    ASSUME TypeOK', References', ~Exists'
    PROVE  conf' = NoConference /\ \A d \in Chan : pc'[d] \notin Holding
<1>1. conf' = NoConference
  BY DEF References
<1>2. IsFiniteSet(Holders') /\ Cardinality(Holders') \in Nat
  BY FS_CardinalityType DEF References
<1>3. Cardinality(Holders') = 0
  BY <1>1, <1>2 DEF References, Exists, NoConference
<1>4. Holders' = {}
  BY <1>2, <1>3, FS_EmptySet
<1> QED BY <1>1, <1>4 DEF Holders

\* Only with the conference is it forgotten that an entry may have been lost.
LEMMA SpoiltKept ==
    ASSUME TypeOK, References, [Next]_vars, Exists'
    PROVE  /\ Spoilt => Spoilt'
           /\ torn => torn'
           /\ overlapped => overlapped'
<1> DEFINE Goal == (Spoilt => Spoilt') /\ (torn => torn') /\ (overlapped => overlapped')
<1>1. ASSUME NEW c \in Chan, Dispose(c) PROVE Goal
  <2>1. conf.refcount > 0 /\ conf.refcount \in Nat /\ conf \in Conference
    BY <1>1, HoldersFind, ListType DEF Dispose, Holding, Exists, TypeOK
  <2>2. conf.refcount # 1
    BY <1>1, <2>1, Disposing DEF Dispose, NoConference, Exists
  <2>3. conf.refcount > 1
    BY <2>1, <2>2
  <2>4. /\ overlapped' = (overlapped /\ conf.refcount > 1)
        /\ torn' = (torn /\ conf.refcount > 1)
    BY <1>1, Zenon DEF Dispose
  <2> QED BY <2>3, <2>4, Zenon DEF Spoilt
<1>2. ASSUME AdminDone PROVE Goal
  <2>1. conf.refcount > 0 /\ conf.refcount \in Nat /\ conf \in Conference
    BY <1>2, HoldersFind, ListType DEF AdminDone, Exists, TypeOK
  <2>2. conf.refcount # 1
    BY <1>2, <2>1, Disposing DEF AdminDone, NoConference, Exists
  <2>3. conf.refcount > 1
    BY <2>1, <2>2
  <2>4. /\ overlapped' = (overlapped /\ conf.refcount > 1)
        /\ torn' = (torn /\ conf.refcount > 1)
    BY <1>2, Zenon DEF AdminDone
  <2> QED BY <2>3, <2>4, Zenon DEF Spoilt
<1>a. torn \in BOOLEAN /\ overlapped \in BOOLEAN
  BY DEF TypeOK
<1>3. ASSUME NEW c \in Chan, JoinLock(c) \/ JoinInsert(c) \/ LeaveMark(c) \/ LeaveLast(c)
      PROVE  Goal
  <2>1. CASE JoinLock(c)
    BY <1>a, <2>1 DEF JoinLock, Spoilt
  <2>2. CASE JoinInsert(c)
    <3>1. (torn' = TRUE \/ torn' = torn) /\ overlapped' = overlapped
      BY <2>2, Zenon DEF JoinInsert
    <3> QED BY <3>1 DEF Spoilt
  <2>3. CASE LeaveMark(c)
    <3>1. overlapped' = (overlapped \/ Joining) /\ \E w \in Walks' : Torn(w)
      BY <2>3, Zenon DEF LeaveMark
    <3> QED BY <1>a, <3>1 DEF Torn, Spoilt
  <2>4. CASE LeaveLast(c)
    <3>1. overlapped' = overlapped /\ \E w \in Walks : Torn(w)
      BY <2>4, Zenon DEF LeaveLast
    <3> QED BY <1>a, <3>1 DEF Torn, Spoilt
  <2> QED BY <1>3, <2>1, <2>2, <2>3, <2>4
<1>4. ASSUME NEW c \in Chan, NEW m \in Number, Kick(c, m) \/ Mute(c, m) PROVE Goal
  <2>1. overlapped' = overlapped /\ \E w \in Walks : Torn(w)
    BY <1>4, Zenon DEF Kick, Mute
  <2> QED BY <1>a, <2>1 DEF Torn, Spoilt
<1>5. ASSUME NEW c \in Chan, KickAll(c) \/ Query(c) \/ HalfText(c) PROVE Goal
  <2>1. overlapped' = overlapped /\ (torn' = torn \/ \E w \in Walks : Torn(w))
    BY <1>5, Zenon DEF KickAll, Query, HalfText
  <2> QED BY <1>a, <2>1 DEF Torn, Spoilt
<1>6. ASSUME AdminKickAll \/ AdminKick \/ UNCHANGED vars PROVE Goal
  <2>1. overlapped' = overlapped /\ (torn' = torn \/ \E w \in Walks : Torn(w))
    BY <1>6 DEF AdminKickAll, AdminKick, vars
  <2> QED BY <1>a, <2>1 DEF Torn, Spoilt
<1>7. ASSUME NEW c \in Chan, Call(c) \/ Refuse(c) \/ HangUp(c) \/ Kicked(c) PROVE Goal
  BY <1>7 DEF Call, Refuse, HangUp, Kicked, Spoilt
<1>8. ASSUME NEW c \in Chan,
             Find(c) \/ NotConfigured(c) \/ BuildFound(c) \/ Build(c) \/ Answered(c) \/ NoAnswer(c)
      PROVE  Goal
  BY <1>8 DEF Find, NotConfigured, BuildFound, Build, Answered, NoAnswer, Spoilt
<1>9. ASSUME NEW c \in Chan,
             Admit(c) \/ JoinScan(c) \/ JoinFill(c) \/ Enter(c) \/ Play(c) \/ Tell(c) \/ LeaveStill(c)
      PROVE  Goal
  <2>1. torn' = torn /\ overlapped' = overlapped
    BY <1>9, Zenon DEF Admit, JoinScan, JoinFill, Enter, Play, Tell, LeaveStill
  <2> QED BY <2>1 DEF Spoilt
<1> QED BY <1>1, <1>2, <1>3, <1>4, <1>5, <1>6, <1>7, <1>8, <1>9 DEF Next, Work

\* Every step keeps the entries in agreement with the calls, and the numbers rising.
LEMMA EntriesStep ==
    TypeOK /\ References /\ Locks /\ Overlaps /\ Entries /\ Numbers /\ [Next]_vars
    => Entries' /\ Numbers'
<1> SUFFICES ASSUME TypeOK, References, Locks, Overlaps, Entries, Numbers, [Next]_vars
             PROVE  Entries' /\ Numbers'
  OBVIOUS
<1>z. CASE ~Exists'
  <2>1. conf' = NoConference /\ \A d \in Chan : pc'[d] \notin Holding
    BY <1>z, TypeStep, ReferencesStep, NothingHeld
  <2> QED BY <2>1 DEF Entries, Numbers, Holding, Joined, NoConference
<1> SUFFICES ASSUME Exists' PROVE Entries' /\ Numbers'
  BY <1>z
<1>s. Spoilt => Spoilt'
  BY SpoiltKept
<1> DEFINE Goal == Entries' /\ Numbers'
<1>0. /\ pc \in [Chan -> Labels] /\ conf \in Conference /\ conf.refcount \in Nat
      /\ Nobody \notin Chan /\ NoNumber \notin Number /\ num \in [Chan -> Number]
      /\ conf.userlist \in Seq(User) /\ Len(conf.userlist) \in Nat
      /\ DOMAIN conf.userlist = 1 .. Len(conf.userlist)
      /\ \A i \in DOMAIN conf.userlist : conf.userlist[i] \in User
  BY ListType, StateCtlAssumption DEF TypeOK
<1>a. \A list : list = conf.userlist => SameEntries(list)
  BY <1>0 DEF SameEntries
<1> HIDE DEF Goal
<1>1. ASSUME NEW c \in Chan, Call(c) PROVE Goal
  <2>1. /\ pc[c] = "idle" /\ pc' = [pc EXCEPT ![c] = "find"]
        /\ conf'.userlist = conf.userlist /\ user_no' = user_no
    BY <1>0, <1>1 DEF Call, Goto
  <2>2. Harmless("idle", "find")
    BY DEF Harmless, Before, After, Joined, Labels
  <2> QED BY <1>a, <2>1, <2>2, <1>s, EntriesKept DEF Goal
<1>2. ASSUME NEW c \in Chan, Refuse(c) PROVE Goal
  BY <1>a, <1>2, <1>s, EntriesKept DEF Refuse, Goto, Harmless, Before, After, Joined, Labels, Goal
<1>3. ASSUME NEW c \in Chan, Enter(c) PROVE Goal
  <2>1. PICK l \in {"tell", "play"} : pc' = [pc EXCEPT ![c] = l]
    BY <1>3 DEF Enter, Goto
  <2> QED BY <1>a, <1>3, <2>1, <1>s, EntriesKept
          DEF Enter, Harmless, Before, After, Joined, Labels, Goal
<1>4. ASSUME NEW c \in Chan, Play(c) PROVE Goal
  BY <1>a, <1>4, <1>s, EntriesKept DEF Play, Goto, Harmless, Before, After, Joined, Labels, Goal
<1>5. ASSUME NEW c \in Chan, Tell(c) PROVE Goal
  <2>1. PICK l \in {"inside", "stray"} : pc' = [pc EXCEPT ![c] = l]
    BY <1>5 DEF Tell, Goto
  <2> QED BY <1>a, <1>5, <2>1, <1>s, EntriesKept
          DEF Tell, Harmless, Before, After, Joined, Labels, Goal
<1>6. ASSUME NEW c \in Chan, HangUp(c) PROVE Goal
  BY <1>a, <1>6, <1>s, EntriesKept DEF HangUp, Goto, Harmless, Before, After, Joined, Labels, Goal
<1>7. ASSUME NEW c \in Chan, Kicked(c) PROVE Goal
  BY <1>a, <1>7, <1>s, EntriesKept DEF Kicked, Goto, Harmless, Before, After, Joined, Labels, Goal
<1>8. ASSUME NEW c \in Chan, Query(c) PROVE Goal
  BY <1>a, <1>8, <1>s, EntriesKept DEF Query, Goto, Harmless, Before, After, Joined, Labels, Goal
<1>9. ASSUME NEW c \in Chan, Build(c) PROVE Goal
  <2>1. /\ pc[c] = "build" /\ pc' = [pc EXCEPT ![c] = "ask"]
        /\ conf'.userlist = conf.userlist /\ user_no' = user_no
    BY <1>0, <1>9 DEF Build, Goto
  <2>2. Harmless("build", "ask")
    BY DEF Harmless, Before, After, Joined, Labels
  <2> QED BY <1>a, <2>1, <2>2, <1>s, EntriesKept DEF Goal
<1>10. ASSUME NEW c \in Chan, NotConfigured(c) PROVE Goal
  <2>1. PICK l \in {"find", "gone"} :
            /\ pc[c] = "build" /\ pc' = [pc EXCEPT ![c] = l]
            /\ conf'.userlist = conf.userlist /\ user_no' = user_no
    BY <1>10 DEF NotConfigured, Goto, Failed
  <2>2. Harmless("build", l)
    BY <2>1 DEF Harmless, Before, After, Joined, Labels
  <2> QED BY <1>a, <2>1, <2>2, <1>s, EntriesKept DEF Goal
<1>11. ASSUME NEW c \in Chan, NoAnswer(c) PROVE Goal
  <2>1. PICK l \in {"find", "gone"} :
            /\ pc[c] = "ask" /\ pc' = [pc EXCEPT ![c] = l]
            /\ conf'.userlist = conf.userlist /\ user_no' = user_no
    BY <1>11 DEF NoAnswer, Goto, Failed
  <2>2. Harmless("ask", l)
    BY <2>1 DEF Harmless, Before, After, Joined, Labels
  <2> QED BY <1>a, <2>1, <2>2, <1>s, EntriesKept DEF Goal
<1>12. ASSUME NEW c \in Chan, Admit(c) PROVE Goal
  <2>1. PICK l \in {"dispose", "join"} :
            /\ pc[c] = "admit" /\ pc' = [pc EXCEPT ![c] = l]
            /\ conf'.userlist = conf.userlist /\ user_no' = user_no
    BY <1>12 DEF Admit, Goto
  <2>2. Harmless("admit", l)
    BY <2>1 DEF Harmless, Before, After, Joined, Labels
  <2> QED BY <1>a, <2>1, <2>2, <1>s, EntriesKept DEF Goal
<1>13. ASSUME NEW c \in Chan, Answered(c) PROVE Goal
  <2>1. /\ pc[c] = "ask" /\ pc' = [pc EXCEPT ![c] = "admit"]
        /\ conf'.userlist = conf.userlist /\ user_no' = user_no
    BY <1>0, <1>13 DEF Answered, Goto, Has, Locks, References, NoConference
  <2>2. Harmless("ask", "admit")
    BY DEF Harmless, Before, After, Joined, Labels
  <2> QED BY <1>a, <2>1, <2>2, <1>s, EntriesKept DEF Goal
<1>14. ASSUME NEW c \in Chan, Find(c) \/ BuildFound(c), Exists PROVE Goal
  <2>1. PICK x \in {"find", "build"} :
            /\ pc[c] = x /\ pc' = [pc EXCEPT ![c] = "admit"]
            /\ conf' = Referenced(conf) /\ user_no' = user_no
    BY <1>14 DEF Find, BuildFound, Has, Goto
  <2>2. Harmless(x, "admit") /\ conf'.userlist = conf.userlist
    BY <1>0, <2>1, Referencing DEF Harmless, Before, After, Joined, Labels
  <2> QED BY <1>a, <2>1, <2>2, <1>s, EntriesKept DEF Goal
<1>15. ASSUME NEW c \in Chan, Find(c), ~Exists PROVE Goal
  BY <1>a, <1>15, <1>s, EntriesKept DEF Find, Goto, Harmless, Before, After, Joined, Labels, Goal
<1>16. ASSUME NEW c \in Chan, LeaveLast(c) PROVE Goal
  <2>1. /\ pc[c] = "leaving" /\ pc' = [pc EXCEPT ![c] = "dispose"]
        /\ conf'.userlist = conf.userlist /\ user_no' = user_no
    BY <1>0, <1>16, LeftLast DEF LeaveLast, Goto
  <2>2. Harmless("leaving", "dispose")
    BY DEF Harmless, Before, After, Joined, Labels
  <2> QED BY <1>a, <2>1, <2>2, <1>s, EntriesKept DEF Goal
<1>17. ASSUME AdminKickAll PROVE Goal
  <2>1. PICK which : conf' = Referenced(Flagged(which))
    BY <1>17 DEF AdminKickAll
  <2>2. SameEntries(conf'.userlist)
    BY <2>1, Flagging, Referencing
  <2> QED BY <1>17, <2>2, <1>s, EntriesKept DEF AdminKickAll, Goal
<1>18. ASSUME AdminKick PROVE Goal
  <2>1. PICK which : conf' = Referenced(Flagged(which))
    BY <1>18 DEF AdminKick
  <2>2. SameEntries(conf'.userlist)
    BY <2>1, Flagging, Referencing
  <2> QED BY <1>18, <2>2, <1>s, EntriesKept DEF AdminKick, Goal
<1>19. ASSUME NEW c \in Chan, KickAll(c) PROVE Goal
  BY <1>19, Flagging, <1>s, EntriesKept DEF KickAll, Goal
<1>20. ASSUME NEW c \in Chan, NEW m \in Number, Kick(c, m) PROVE Goal
  BY <1>20, Flagging, <1>s, EntriesKept DEF Kick, Goal
<1>21. ASSUME NEW c \in Chan, NEW m \in Number, Mute(c, m) PROVE Goal
  <2>1. /\ pc' = pc \/ pc' = [pc EXCEPT ![c] = "stray"]
        /\ pc[c] = "inside" /\ UNCHANGED <<conf, user_no>>
    BY <1>21 DEF Mute, Goto
  <2> QED BY <1>a, <2>1, <1>s, EntriesKept DEF Harmless, Before, After, Joined, Labels, Goal
<1>22. ASSUME UNCHANGED vars PROVE Goal
  BY <1>a, <1>22, <1>s, EntriesKept DEF vars, Goal
<1>23. ASSUME NEW c \in Chan, Dispose(c) PROVE Goal
  <2>1. /\ conf.refcount > 0 /\ pc[c] = "dispose" /\ pc' = [pc EXCEPT ![c] = "gone"]
        /\ conf' = Disposed(conf) /\ user_no' = user_no
    BY <1>23, HoldersFind DEF Dispose, Goto, Holding, Exists
  <2>2. CASE conf.refcount = 1
    <3>1. conf'.userlist = <<>>
      BY <1>0, <2>1, <2>2, Disposing DEF NoConference
    <3>2. \A d \in Chan : pc'[d] \notin Holding
      BY <1>0, <2>1, <2>2, LastHolder DEF Holding
    <3> QED BY <3>1, <3>2 DEF Entries, Numbers, Holding, Joined, Goal
  <2>3. CASE conf.refcount # 1
    <3>1. conf'.userlist = conf.userlist
      BY <1>0, <2>1, <2>3, Disposing
    <3> QED BY <1>a, <2>1, <3>1, <1>s, EntriesKept DEF Harmless, Before, After, Joined, Labels, Goal
  <2> QED BY <2>2, <2>3
<1>24. ASSUME AdminDone PROVE Goal
  <2>1. /\ conf.refcount > 0 /\ pc' = pc /\ admin = "busy"
        /\ conf' = Disposed(conf) /\ user_no' = user_no
    BY <1>24, HoldersFind DEF AdminDone, Exists
  <2>2. CASE conf.refcount = 1
    <3>1. conf'.userlist = <<>>
      BY <1>0, <2>1, <2>2, Disposing DEF NoConference
    <3>2. \A d \in Chan : pc'[d] \notin Holding
      BY <1>0, <2>1, <2>2, LastHolder
    <3> QED BY <3>1, <3>2 DEF Entries, Numbers, Holding, Joined, Goal
  <2>3. CASE conf.refcount # 1
    <3>1. conf'.userlist = conf.userlist
      BY <1>0, <2>1, <2>3, Disposing
    <3> QED BY <1>a, <2>1, <3>1, <1>s, EntriesKept DEF Goal
  <2> QED BY <2>2, <2>3
<1>25. ASSUME NEW c \in Chan, JoinScan(c), pc'[c] # "insert" PROVE Goal
  <2>1. /\ pc[c] = "scan" /\ pc' = [pc EXCEPT ![c] = "crashed"]
        /\ UNCHANGED <<conf, user_no>>
    <3>1. \/ pc' = [pc EXCEPT ![c] = "crashed"] /\ UNCHANGED <<conf, user_no>>
          \/ pc' = [pc EXCEPT ![c] = "insert"]
      BY <1>25 DEF JoinScan, Goto
    <3> QED BY <1>0, <1>25, <3>1 DEF JoinScan
  <2>2. Harmless("scan", "crashed")
    BY DEF Harmless, Before, After, Joined, Labels
  <2> QED BY <1>a, <2>1, <2>2, <1>s, EntriesKept DEF Goal
<1>26. ASSUME NEW c \in Chan, JoinScan(c), pc'[c] = "insert" PROVE Goal
  <2> DEFINE list == conf'.userlist
  <2>1. /\ list \in Purged(num[c])
        /\ user_no' = IF conf.userlist = <<>> THEN FirstNumber ELSE NextNumber(list)
        /\ conf.userlist # <<>> => list # <<>>
        /\ user_no' \in Nat \ {0}
    BY <1>26, Scanned
  <2>2. /\ pc[c] = "scan"
        /\ \A d \in Chan : pc'[d] = IF d = c THEN "insert" ELSE pc[d]
    <3>1. \/ pc' = [pc EXCEPT ![c] = "crashed"]
          \/ pc' = [pc EXCEPT ![c] = "insert"]
      BY <1>26 DEF JoinScan, Goto
    <3> QED BY <1>0, <1>26, <3>1 DEF JoinScan
  <2>3. \A d \in Chan : pc[d] # "insert"
    BY <1>0, <2>2 DEF Locks
  <2>4. \A i \in DOMAIN conf.userlist : conf.userlist[i].chan # c
    BY <2>2 DEF Entries, Joined
  <2> HIDE DEF list
  <2>5. /\ list \in Seq(User) /\ Len(list) \in Nat /\ DOMAIN list = 1 .. Len(list)
        /\ conf.userlist # <<>> => list # <<>>
        /\ conf.userlist = <<>> => list = <<>>
        /\ \A k \in DOMAIN list : \E i \in DOMAIN conf.userlist :
               /\ list[k] = conf.userlist[i]
               /\ i = Len(conf.userlist) => k = Len(list)
        /\ \A k, m \in DOMAIN list : k < m => \E i, j \in DOMAIN conf.userlist :
               i < j /\ list[k] = conf.userlist[i] /\ list[m] = conf.userlist[j]
        /\ \A j \in DOMAIN conf.userlist :
               pc[conf.userlist[j].chan] \in {"fill", "stray"} \cup Joined =>
                   \E k \in DOMAIN list : list[k] = conf.userlist[j]
    <3>1. CASE list = conf.userlist
      BY <1>0, <2>1, <3>1
    <3>2. CASE \E i \in Absent(num[c]) : list = RemoveAt(conf.userlist, i)
      <4>1. PICK i \in Absent(num[c]) : list = RemoveAt(conf.userlist, i)
        BY <3>2
      <4>2. /\ i \in DOMAIN conf.userlist /\ conf.userlist[i].cid = num[c]
            /\ ~conf.userlist[i].active /\ Without(list, i)
        BY <4>1, Removed DEF Absent
      <4>3. pc[conf.userlist[i].chan] \notin {"fill", "stray"} \cup Joined
        <5>1. num[c] # NoNumber
          BY <1>0
        <5> QED BY <4>2, <5>1 DEF Entries
      <4>4. list \in Seq(User) /\ Len(list) \in Nat /\ DOMAIN list = 1 .. Len(list)
        BY <4>2 DEF Without
      <4>5. conf.userlist # <<>>
        BY <1>0, <4>2
      <4>6. \A k \in DOMAIN list : \E j \in DOMAIN conf.userlist :
               /\ list[k] = conf.userlist[j]
               /\ j = Len(conf.userlist) => k = Len(list)
        BY <4>2, Shorter
      <4>7. \A k, m \in DOMAIN list : k < m => \E j, l \in DOMAIN conf.userlist :
               j < l /\ list[k] = conf.userlist[j] /\ list[m] = conf.userlist[l]
        BY <4>2, Shorter
      <4>8. ASSUME NEW j \in DOMAIN conf.userlist,
                   pc[conf.userlist[j].chan] \in {"fill", "stray"} \cup Joined
            PROVE  \E k \in DOMAIN list : list[k] = conf.userlist[j]
        BY <4>2, <4>3, <4>8, Shorter
      <4> QED BY <2>1, <4>4, <4>5, <4>6, <4>7, <4>8
    <3> QED BY <2>1, <3>1, <3>2, Purge
  <2>6. \A k \in DOMAIN list : list[k] \in User
    BY <2>5
  <2>7. ASSUME NEW d \in Chan, pc'[d] \in {"fill", "stray"} \cup Joined, ~Spoilt'
        PROVE  Listed(d)'
    <3>1. pc[d] \in {"fill", "stray"} \cup Joined
      BY <2>2, <2>7 DEF Joined
    <3>2. PICK i \in DOMAIN conf.userlist : conf.userlist[i].chan = d
      BY <1>s, <2>7, <3>1 DEF Entries, Listed
    <3>3. PICK k \in DOMAIN list : list[k] = conf.userlist[i]
      BY <2>5, <3>1, <3>2
    <3> QED BY <3>2, <3>3 DEF Listed, list
  <2>8. ASSUME NEW k \in DOMAIN list
        PROVE  LET u == list[k]  d == u.chan
               IN  /\ pc'[d] \in {"fill", "leaving", "dispose", "gone", "stray", "broken"} \cup Joined
                   /\ u.cid = IF pc'[d] = "fill" THEN NoNumber ELSE num[d]
                   /\ u.active <=> pc'[d] \in {"stray"} \cup Joined
                   /\ pc'[d] = "fill" => k = Len(list)
    <3>1. PICK i \in DOMAIN conf.userlist :
              /\ list[k] = conf.userlist[i]
              /\ i = Len(conf.userlist) => k = Len(list)
      BY <2>5
    <3>2. pc'[list[k].chan] = pc[list[k].chan]
      BY <1>0, <2>2, <2>4, <3>1 DEF User
    <3> QED BY <3>1, <3>2 DEF Entries
  <2>9. \A k, m \in DOMAIN list : k < m =>
            list[k].chan # list[m].chan /\ list[k].no < list[m].no
    <3> SUFFICES ASSUME NEW k \in DOMAIN list, NEW m \in DOMAIN list, k < m
                 PROVE  list[k].chan # list[m].chan /\ list[k].no < list[m].no
      OBVIOUS
    <3>1. PICK i \in DOMAIN conf.userlist, j \in DOMAIN conf.userlist :
              i < j /\ list[k] = conf.userlist[i] /\ list[m] = conf.userlist[j]
      BY <2>5
    <3> QED BY <1>0, <3>1 DEF Entries, Numbers
  <2>10. \A k, m \in DOMAIN list : list[k].chan = list[m].chan => k = m
    BY <2>5, <2>9
  <2>11. Entries'
    BY <2>7, <2>8, <2>10 DEF Entries, list
  <2>12. \A k \in DOMAIN list : list[k].no < user_no'
    <3>1. CASE conf.userlist = <<>>
      BY <2>5, <3>1
    <3>2. CASE conf.userlist # <<>>
      <4>1. Len(list) \in DOMAIN list /\ user_no' = list[Len(list)].no + 1
        BY <2>1, <2>5, <3>2 DEF NextNumber
      <4> QED BY <2>5, <2>6, <2>9, <4>1 DEF User
    <3> QED BY <3>1, <3>2
  <2> QED BY <2>1, <2>2, <2>3, <2>9, <2>11, <2>12 DEF Numbers, Goal, list
<1>27. ASSUME NEW c \in Chan, JoinInsert(c), Linked(c) PROVE Goal
  <2> DEFINE list == conf'.userlist  n == Len(conf.userlist)
  <2>1. /\ pc[c] = "insert" /\ \A d \in Chan : pc'[d] = IF d = c THEN "fill" ELSE pc[d]
    BY <1>0, <1>27 DEF JoinInsert, Linked, Goto
  <2>2. user_no > 0 /\ \A i \in DOMAIN conf.userlist : conf.userlist[i].no < user_no
    BY <2>1 DEF Numbers
  <2>3. /\ conf' \in Conference /\ Len(list) = n + 1
        /\ \A i \in 1 .. n : list[i] = conf.userlist[i]
        /\ list[n + 1].chan = c /\ list[n + 1].cid = NoNumber /\ list[n + 1].no = user_no
        /\ list[n + 1].active = FALSE
    <3>1. list[n + 1] = [chan |-> c, cid |-> NoNumber, no |-> user_no,
                         active |-> FALSE, kicked |-> FALSE]
      BY <1>27 DEF Linked
    <3> QED BY <1>27, <3>1 DEF Linked
  <2>4. \A d \in Chan : pc[d] \in {"insert", "fill"} => d = c
    BY <1>0, <2>1 DEF Locks
  <2>5. \A i \in DOMAIN conf.userlist : conf.userlist[i].chan # c
    BY <2>1 DEF Entries, Joined
  <2>6. n \in Nat /\ DOMAIN list = 1 .. n + 1 /\ DOMAIN conf.userlist = 1 .. n
    BY <1>0, <2>3 DEF Conference
  <2> HIDE DEF list, n
  <2>7. ASSUME NEW k \in 1 .. n + 1
        PROVE  LET u == list[k]  d == u.chan
               IN  /\ pc'[d] \in {"fill", "leaving", "dispose", "gone", "stray", "broken"} \cup Joined
                   /\ u.cid = IF pc'[d] = "fill" THEN NoNumber ELSE num[d]
                   /\ u.active <=> pc'[d] \in {"stray"} \cup Joined
                   /\ pc'[d] = "fill" => k = n + 1
    <3>1. CASE k = n + 1
      BY <2>1, <2>3, <3>1 DEF Joined
    <3>2. CASE k # n + 1
      <4>1. k \in 1 .. n
        BY <2>6, <3>2
      <4>2. /\ list[k] = conf.userlist[k] /\ list[k].chan \in Chan /\ list[k].chan # c
            /\ pc'[list[k].chan] = pc[list[k].chan]
        BY <1>0, <2>1, <2>3, <2>5, <2>6, <4>1 DEF User
      <4>3. pc[list[k].chan] # "fill"
        BY <2>4, <4>2
      <4> QED BY <2>6, <4>1, <4>2, <4>3 DEF Entries
    <3> QED BY <3>1, <3>2
  <2>8. ASSUME NEW d \in Chan, pc'[d] \in {"fill", "stray"} \cup Joined, ~Spoilt'
        PROVE  \E k \in 1 .. n + 1 : list[k].chan = d
    <3>1. CASE d = c
      BY <2>3, <2>6, <3>1
    <3>2. CASE d # c
      <4>1. PICK i \in 1 .. n : conf.userlist[i].chan = d
        BY <1>s, <2>1, <2>6, <2>8, <3>2 DEF Entries, Listed
      <4> QED BY <2>3, <2>6, <4>1
    <3> QED BY <3>1, <3>2
  <2>9. \A k, m \in 1 .. n + 1 : list[k].chan = list[m].chan => k = m
    BY <2>3, <2>5, <2>6 DEF Entries
  <2>10. \A k, m \in 1 .. n + 1 : k < m => list[k].no < list[m].no
    BY <2>2, <2>3, <2>6 DEF Numbers
  <2>11. Entries'
    BY <2>3, <2>6, <2>7, <2>8, <2>9 DEF Entries, Listed, list
  <2>12. \A d \in Chan : pc'[d] # "insert"
    BY <2>1, <2>4
  <2>13. Numbers'
    BY <2>6, <2>10, <2>12 DEF Numbers, list
  <2> QED BY <2>11, <2>13 DEF Goal
<1>31. ASSUME NEW c \in Chan, JoinInsert(c), Unlinked(c) PROVE Goal
  <2>1. pc[c] = "insert" /\ ~Listed(c) /\ conf' = conf
    BY <1>31 DEF JoinInsert, Unlinked, Entries, Listed, Joined
  <2>2. PICK l \in {"fill", "broken"} :
            /\ pc' = [pc EXCEPT ![c] = l]
            /\ l = "fill" => torn' = TRUE
    BY <1>31 DEF Unlinked, Goto
  <2>3. l = "fill" => Spoilt'
    BY <1>31, <2>1, <2>2 DEF JoinInsert, Unlinked, Overlaps, Joining, Leaving, Removing, Spoilt
  <2>4. \A d \in Chan : pc'[d] # "insert"
    <3>1. \A d \in Chan : pc[d] = "insert" => d = c
      BY <2>1 DEF Locks
    <3> QED BY <1>0, <2>2, <3>1
  <2>5. l \in {"fill", "stray"} \cup Joined => Spoilt'
    BY <2>3 DEF Joined
  <2> QED BY <1>s, <2>1, <2>2, <2>4, <2>5, EntriesUnlisted DEF Goal
<1>28. ASSUME NEW c \in Chan, JoinFill(c), Listed(c) PROVE Goal
  <2> DEFINE list == conf'.userlist  n == Len(conf.userlist)  e == Entry(c)
  <2>1. /\ pc[c] = "fill" /\ \A d \in Chan : pc'[d] = IF d = c THEN "enter" ELSE pc[d]
        /\ user_no' = user_no
    BY <1>0, <1>28 DEF JoinFill, Goto
  <2>2. Listed(c) /\ e \in 1 .. n /\ conf.userlist[e].chan = c
    BY <1>0, <1>28, EntryOf
  <2>3. /\ conf' \in Conference /\ Len(list) = n
        /\ \A i \in 1 .. n : i # e => list[i] = conf.userlist[i]
        /\ list[e].chan = c /\ list[e].cid = num[c] /\ list[e].no = conf.userlist[e].no
        /\ list[e].active = TRUE
    BY <1>28, <2>2, FilledIn
  <2>4. n \in Nat /\ DOMAIN list = 1 .. n /\ DOMAIN conf.userlist = 1 .. n
    BY <1>0, <2>3 DEF Conference
  <2>5. \A i \in 1 .. n : i # e => conf.userlist[i].chan \in Chan \ {c}
    BY <1>0, <2>2, <2>4 DEF Entries, User
  <2> HIDE DEF list, n, e
  <2>6. ASSUME NEW k \in 1 .. n
        PROVE  LET u == list[k]  d == u.chan
               IN  /\ pc'[d] \in {"fill", "leaving", "dispose", "gone", "stray", "broken"} \cup Joined
                   /\ u.cid = IF pc'[d] = "fill" THEN NoNumber ELSE num[d]
                   /\ u.active <=> pc'[d] \in {"stray"} \cup Joined
                   /\ pc'[d] = "fill" => k = n
    <3>1. CASE k = e
      BY <2>1, <2>3, <3>1 DEF Joined
    <3>2. CASE k # e
      <4>1. /\ list[k] = conf.userlist[k]
            /\ pc'[list[k].chan] = pc[list[k].chan]
        BY <2>1, <2>3, <2>5, <3>2
      <4> QED BY <2>4, <4>1 DEF Entries, n
    <3> QED BY <3>1, <3>2
  <2>7. ASSUME NEW i \in 1 .. n
        PROVE  list[i].chan = conf.userlist[i].chan /\ list[i].no = conf.userlist[i].no
    BY <2>2, <2>3
  <2>8. ASSUME NEW d \in Chan, pc'[d] \in {"fill", "stray"} \cup Joined, ~Spoilt'
        PROVE  \E k \in 1 .. n : list[k].chan = d
    <3>1. pc[d] \in {"fill", "stray"} \cup Joined
      BY <2>1, <2>8
    <3> QED BY <1>s, <2>4, <2>7, <2>8, <3>1 DEF Entries, Listed
  <2>9. Entries'
    <3>1. \A i, j \in 1 .. n : list[i].chan = list[j].chan => i = j
      BY <2>4, <2>7 DEF Entries
    <3> QED BY <2>3, <2>4, <2>6, <2>8, <3>1 DEF Entries, Listed, list
  <2>10. Numbers'
    <3>1. \A d \in Chan : pc'[d] = "insert" => pc[d] = "insert"
      BY <2>1
    <3> QED BY <2>1, <2>4, <2>7, <3>1 DEF Numbers, list
  <2> QED BY <2>9, <2>10 DEF Goal
<1>32. ASSUME NEW c \in Chan, JoinFill(c), ~Listed(c) PROVE Goal
  <2>1. /\ pc[c] = "fill" /\ pc' = [pc EXCEPT ![c] = "enter"] /\ user_no' = user_no
        /\ conf'.userlist = conf.userlist
    BY <1>32, FilledIn DEF JoinFill, Goto
  <2>2. Spoilt'
    BY <1>s, <1>32, <2>1 DEF Entries
  <2>3. \A d \in Chan : pc'[d] = "insert" => pc[d] = "insert" /\ user_no' = user_no
    BY <1>0, <2>1
  <2> QED BY <1>32, <2>1, <2>2, <2>3, EntriesUnlisted DEF Goal
<1>29. ASSUME NEW c \in Chan, LeaveMark(c), Listed(c) PROVE Goal
  <2> DEFINE list == conf'.userlist  n == Len(conf.userlist)  e == Entry(c)
  <2>1. /\ pc[c] = "leave" /\ \A d \in Chan : pc'[d] = IF d = c THEN "leaving" ELSE pc[d]
        /\ user_no' = user_no
    BY <1>0, <1>29 DEF LeaveMark, Goto
  <2>2. Listed(c) /\ e \in 1 .. n /\ conf.userlist[e].chan = c
    BY <1>0, <1>29, EntryOf
  <2>3. /\ conf' \in Conference /\ Len(list) = n
        /\ \A i \in 1 .. n : i # e => list[i] = conf.userlist[i]
        /\ list[e].chan = c /\ list[e].cid = conf.userlist[e].cid
        /\ list[e].no = conf.userlist[e].no /\ list[e].active = FALSE
    BY <1>29, <2>2, LeftMarked
  <2>4. n \in Nat /\ DOMAIN list = 1 .. n /\ DOMAIN conf.userlist = 1 .. n
    BY <1>0, <2>3 DEF Conference
  <2> HIDE DEF list, n, e
  <2>a. \A i \in 1 .. n : conf.userlist[i].chan \in Chan
    BY <2>4, ListType DEF User
  <2>b. \A i \in 1 .. n : i # e => conf.userlist[i].chan # c
    BY <1>0, <2>2, <2>4 DEF Entries
  <2>c. conf.userlist[e].cid = num[c]
    BY <1>0, <2>1, <2>2, <2>4 DEF Entries
  <2>5. /\ \A i \in 1 .. n : i # e => conf.userlist[i].chan \in Chan \ {c}
        /\ conf.userlist[e].cid = num[c]
    BY <2>a, <2>b, <2>c
  <2>6. ASSUME NEW k \in 1 .. n
        PROVE  LET u == list[k]  d == u.chan
               IN  /\ pc'[d] \in {"fill", "leaving", "dispose", "gone", "stray", "broken"} \cup Joined
                   /\ u.cid = IF pc'[d] = "fill" THEN NoNumber ELSE num[d]
                   /\ u.active <=> pc'[d] \in {"stray"} \cup Joined
                   /\ pc'[d] = "fill" => k = n
    <3>1. CASE k = e
      BY <2>1, <2>3, <2>5, <3>1 DEF Joined
    <3>2. CASE k # e
      <4>1. /\ list[k] = conf.userlist[k]
            /\ pc'[list[k].chan] = pc[list[k].chan]
        BY <2>1, <2>3, <2>5, <3>2
      <4> QED BY <2>4, <4>1 DEF Entries, n
    <3> QED BY <3>1, <3>2
  <2>7. ASSUME NEW i \in 1 .. n
        PROVE  list[i].chan = conf.userlist[i].chan /\ list[i].no = conf.userlist[i].no
    BY <2>2, <2>3
  <2>8. ASSUME NEW d \in Chan, pc'[d] \in {"fill", "stray"} \cup Joined, ~Spoilt'
        PROVE  \E k \in 1 .. n : list[k].chan = d
    <3>1. pc[d] \in {"fill", "stray"} \cup Joined
      BY <2>1, <2>8 DEF Joined
    <3> QED BY <1>s, <2>4, <2>7, <2>8, <3>1 DEF Entries, Listed
  <2>9. Entries'
    <3>1. \A i, j \in 1 .. n : list[i].chan = list[j].chan => i = j
      BY <2>4, <2>7 DEF Entries
    <3>2. DOMAIN conf'.userlist = 1 .. n /\ Len(conf'.userlist) = n
      BY <2>3 DEF list, Conference
    <3> QED BY <2>6, <2>8, <3>1, <3>2 DEF Entries, Listed, list
  <2>10. Numbers'
    <3>1. \A d \in Chan : pc'[d] = "insert" => pc[d] = "insert"
      BY <2>1
    <3> QED BY <2>1, <2>4, <2>7, <3>1 DEF Numbers, list
  <2> QED BY <2>9, <2>10 DEF Goal
<1>33. ASSUME NEW c \in Chan, LeaveMark(c), ~Listed(c) PROVE Goal
  <2>1. /\ pc[c] = "leave" /\ pc' = [pc EXCEPT ![c] = "leaving"] /\ user_no' = user_no
        /\ conf'.userlist = conf.userlist
    BY <1>33, LeftMarked DEF LeaveMark, Goto
  <2>2. \A d \in Chan : pc'[d] = "insert" => pc[d] = "insert" /\ user_no' = user_no
    BY <1>0, <2>1
  <2>3. "leaving" \notin {"fill", "stray"} \cup Joined
    BY DEF Joined
  <2> QED BY <1>s, <1>33, <2>1, <2>2, <2>3, EntriesUnlisted DEF Goal
<1>30. ASSUME NEW c \in Chan, LeaveStill(c), pc'[c] = "dispose" PROVE Goal
  <2> DEFINE list == conf'.userlist
  <2>1. /\ pc[c] = "leaving" /\ pc' = [pc EXCEPT ![c] = "dispose"]
        /\ user_no' = user_no
    BY <1>30, LeftStill DEF LeaveStill
  <2>2. list = IF Listed(c) THEN RemoveAt(conf.userlist, Entry(c)) ELSE conf.userlist
    BY <1>30, LeftStill
  <2>3. CASE ~Listed(c)
    <3>1. Harmless("leaving", "dispose")
      BY DEF Harmless, Before, After, Joined, Labels
    <3> QED BY <1>a, <2>1, <2>2, <2>3, <3>1, <1>s, EntriesKept DEF Goal
  <2>4. CASE Listed(c)
    <3> DEFINE e == Entry(c)
    <3>1. e \in DOMAIN conf.userlist /\ conf.userlist[e].chan = c /\ Without(list, e)
      BY <2>2, <2>4, EntryOf, Removed
    <3>2. \A d \in Chan : pc'[d] = IF d = c THEN "dispose" ELSE pc[d]
      BY <1>0, <2>1
    <3> HIDE DEF list, e
    <3>3. list \in Seq(User) /\ Len(list) \in Nat /\ DOMAIN list = 1 .. Len(list)
      BY <3>1 DEF Without
    <3>4. ASSUME NEW d \in Chan, pc'[d] \in {"fill", "stray"} \cup Joined, ~Spoilt'
          PROVE  Listed(d)'
      <4>1. pc[d] \in {"fill", "stray"} \cup Joined /\ d # c
        BY <3>2, <3>4 DEF Joined
      <4>2. PICK i \in DOMAIN conf.userlist : conf.userlist[i].chan = d
        BY <1>s, <3>4, <4>1 DEF Entries, Listed
      <4>3. PICK k \in DOMAIN list : list[k] = conf.userlist[i]
        BY <3>1, <4>1, <4>2, Shorter
      <4> QED BY <4>2, <4>3 DEF Listed, list
    <3>5. ASSUME NEW k \in DOMAIN list
          PROVE  LET u == list[k]  d == u.chan
                 IN  /\ pc'[d] \in {"fill", "leaving", "dispose", "gone", "stray", "broken"} \cup Joined
                     /\ u.cid = IF pc'[d] = "fill" THEN NoNumber ELSE num[d]
                     /\ u.active <=> pc'[d] \in {"stray"} \cup Joined
                     /\ pc'[d] = "fill" => k = Len(list)
      <4>1. PICK i \in DOMAIN conf.userlist :
                /\ list[k] = conf.userlist[i] /\ i # e
                /\ i = Len(conf.userlist) => k = Len(list)
        BY <3>1, Shorter
      <4>2. list[k].chan \in Chan \ {c}
        BY <1>0, <3>1, <4>1 DEF Entries, User
      <4>3. pc'[list[k].chan] = pc[list[k].chan]
        BY <3>2, <4>2
      <4> QED BY <4>1, <4>3 DEF Entries
    <3>6. \A k, m \in DOMAIN list : k < m =>
              list[k].chan # list[m].chan /\ list[k].no < list[m].no
      <4> SUFFICES ASSUME NEW k \in DOMAIN list, NEW m \in DOMAIN list, k < m
                   PROVE  list[k].chan # list[m].chan /\ list[k].no < list[m].no
        OBVIOUS
      <4>1. PICK i \in DOMAIN conf.userlist, j \in DOMAIN conf.userlist :
                i < j /\ list[k] = conf.userlist[i] /\ list[m] = conf.userlist[j]
        BY <3>1, Shorter
      <4> QED BY <1>0, <4>1 DEF Entries, Numbers
    <3>7. \A k, m \in DOMAIN list : list[k].chan = list[m].chan => k = m
      BY <3>3, <3>6
    <3>8. Entries'
      BY <3>4, <3>5, <3>7 DEF Entries, list
    <3>9. Numbers'
      <4>1. \A d \in Chan : pc'[d] = "insert" => pc[d] = "insert"
        BY <3>2
      <4>2. ASSUME NEW d \in Chan, pc'[d] = "insert", NEW k \in DOMAIN list
            PROVE  list[k].no < user_no
        BY <3>1, <4>1, <4>2, Shorter DEF Numbers
      <4> QED BY <2>1, <3>6, <4>1, <4>2 DEF Numbers, list
    <3> QED BY <3>8, <3>9 DEF Goal
  <2> QED BY <2>3, <2>4
<1>34. ASSUME NEW c \in Chan, LeaveStill(c), pc'[c] # "dispose" PROVE Goal
  <2>1. /\ pc[c] = "leaving" /\ pc' = [pc EXCEPT ![c] = "broken"]
        /\ conf'.userlist = conf.userlist /\ user_no' = user_no
    BY <1>34, LeftBroken
  <2>2. Harmless("leaving", "broken")
    BY DEF Harmless, Before, After, Joined, Labels
  <2> QED BY <1>a, <2>1, <2>2, <1>s, EntriesKept DEF Goal
<1>35. ASSUME NEW c \in Chan, JoinLock(c) PROVE Goal
  <2>1. /\ pc[c] = "join" /\ pc' = [pc EXCEPT ![c] = "scan"]
        /\ conf'.userlist = conf.userlist /\ user_no' = user_no
    BY <1>35 DEF JoinLock, Goto
  <2>2. Harmless("join", "scan")
    BY DEF Harmless, Before, After, Joined, Labels
  <2> QED BY <1>a, <2>1, <2>2, <1>s, EntriesKept DEF Goal
<1>36. ASSUME NEW c \in Chan, HalfText(c) PROVE Goal
  BY <1>a, <1>36, <1>s, EntriesKept DEF HalfText, Goal
<1>37. ASSUME NEW c \in Chan, JoinInsert(c) PROVE Linked(c) \/ Unlinked(c)
  BY <1>37, Inserted DEF JoinInsert, Numbers
<1> QED
  BY <1>1, <1>2, <1>3, <1>4, <1>5, <1>6, <1>7, <1>8, <1>9, <1>10, <1>11, <1>12, <1>13,
     <1>14, <1>15, <1>16, <1>17, <1>18, <1>19, <1>20, <1>21, <1>22, <1>23, <1>24, <1>25,
     <1>26, <1>27, <1>28, <1>29, <1>30, <1>31, <1>32, <1>33, <1>34, <1>35, <1>36, <1>37
  DEF Next, Work, BuildFound, Goal

-----------------------------------------------------------------------------
(* Crashes *)

\* Nothing happens after a crash.
LEMMA NextAlive == Next => Alive
<1>1. ASSUME NEW c \in Chan, NEW n \in Number, Kick(c, n) \/ Mute(c, n) PROVE Alive
  BY <1>1, Zenon DEF Kick, Mute
<1>2. ASSUME NEW c \in Chan,
             Find(c) \/ NotConfigured(c) \/ BuildFound(c) \/ Build(c) \/ Answered(c) \/ NoAnswer(c)
      PROVE  Alive
  BY <1>2, Zenon DEF Find, NotConfigured, BuildFound, Build, Answered, NoAnswer
<1>3. ASSUME NEW c \in Chan,
             Admit(c) \/ JoinLock(c) \/ JoinScan(c) \/ JoinInsert(c) \/ JoinFill(c)
      PROVE  Alive
  BY <1>3, Zenon DEF Admit, JoinLock, JoinScan, JoinInsert, JoinFill
<1>4. ASSUME NEW c \in Chan, Enter(c) \/ Play(c) \/ Tell(c) \/ Kicked(c) PROVE Alive
  BY <1>4, Zenon DEF Enter, Play, Tell, Kicked
<1>5. ASSUME NEW c \in Chan, LeaveMark(c) \/ LeaveStill(c) \/ LeaveLast(c) \/ Dispose(c)
      PROVE  Alive
  BY <1>5, Zenon DEF LeaveMark, LeaveStill, LeaveLast, Dispose
<1>6. ASSUME NEW c \in Chan,
             Call(c) \/ Refuse(c) \/ HangUp(c) \/ KickAll(c) \/ Query(c) \/ HalfText(c)
      PROVE  Alive
  BY <1>6, Zenon DEF Call, Refuse, HangUp, KickAll, Query, HalfText
<1>7. ASSUME AdminKickAll \/ AdminKick \/ AdminDone PROVE Alive
  BY <1>7, Zenon DEF AdminKickAll, AdminKick, AdminDone
<1> QED BY <1>1, <1>2, <1>3, <1>4, <1>5, <1>6, <1>7, Zenon DEF Next, Work

\* Only looking for the last entry crashes.
LEMMA OnlyScanCrashes ==
    ASSUME TypeOK, Next, NEW c \in Chan, pc'[c] = "crashed"
    PROVE  /\ JoinScan(c) /\ pc' = [pc EXCEPT ![c] = "crashed"]
           /\ conf.userlist # <<>> /\ <<>> \in Purged(num[c])
           /\ UNCHANGED conf
<1>0. pc \in [Chan -> Labels] /\ pc[c] # "crashed"
  BY NextAlive DEF TypeOK, Alive
<1>1. ASSUME NEW d \in Chan, Call(d) PROVE FALSE
  BY <1>0, <1>1 DEF Call, Goto
<1>2. ASSUME NEW d \in Chan, Refuse(d) PROVE FALSE
  BY <1>0, <1>2 DEF Refuse, Goto
<1>3. ASSUME NEW d \in Chan, Enter(d) PROVE FALSE
  BY <1>0, <1>3 DEF Enter, Goto
<1>4. ASSUME NEW d \in Chan, Play(d) PROVE FALSE
  BY <1>0, <1>4 DEF Play, Goto
<1>5. ASSUME NEW d \in Chan, Tell(d) PROVE FALSE
  BY <1>0, <1>5 DEF Tell, Goto
<1>6. ASSUME NEW d \in Chan, HangUp(d) PROVE FALSE
  BY <1>0, <1>6 DEF HangUp, Goto
<1>7. ASSUME NEW d \in Chan, Kicked(d) PROVE FALSE
  BY <1>0, <1>7 DEF Kicked, Goto
<1>8. ASSUME NEW d \in Chan, KickAll(d) PROVE FALSE
  BY <1>0, <1>8 DEF KickAll, Goto
<1>9. ASSUME NEW d \in Chan, Query(d) PROVE FALSE
  BY <1>0, <1>9 DEF Query, Goto
<1>10. ASSUME NEW d \in Chan, Build(d) PROVE FALSE
  BY <1>0, <1>10 DEF Build, Goto
<1>11. ASSUME NEW d \in Chan, Find(d) PROVE FALSE
  BY <1>0, <1>11 DEF Find, Goto, Has
<1>12. ASSUME NEW d \in Chan, NotConfigured(d) PROVE FALSE
  BY <1>0, <1>12 DEF NotConfigured, Goto, Failed
<1>13. ASSUME NEW d \in Chan, BuildFound(d) PROVE FALSE
  BY <1>0, <1>13 DEF BuildFound, Goto, Has
<1>14. ASSUME NEW d \in Chan, Answered(d) PROVE FALSE
  BY <1>0, <1>14 DEF Answered, Goto, Has
<1>15. ASSUME NEW d \in Chan, NoAnswer(d) PROVE FALSE
  BY <1>0, <1>15 DEF NoAnswer, Goto, Failed
<1>16. ASSUME NEW d \in Chan, Admit(d) PROVE FALSE
  BY <1>0, <1>16 DEF Admit, Goto
<1>17. ASSUME NEW d \in Chan, JoinInsert(d) PROVE FALSE
  BY <1>0, <1>17 DEF JoinInsert, Goto
<1>18. ASSUME NEW d \in Chan, JoinFill(d) PROVE FALSE
  BY <1>0, <1>18 DEF JoinFill, Goto
<1>19. ASSUME NEW d \in Chan, LeaveMark(d) PROVE FALSE
  BY <1>0, <1>19 DEF LeaveMark, Goto
<1>20. ASSUME NEW d \in Chan, LeaveStill(d) PROVE FALSE
  BY <1>0, <1>20 DEF LeaveStill, Goto
<1>21. ASSUME NEW d \in Chan, LeaveLast(d) PROVE FALSE
  BY <1>0, <1>21 DEF LeaveLast, Goto
<1>22. ASSUME NEW d \in Chan, Dispose(d) PROVE FALSE
  BY <1>0, <1>22 DEF Dispose, Goto
<1>23. ASSUME NEW d \in Chan, NEW n \in Number, Kick(d, n) \/ Mute(d, n) PROVE FALSE
  BY <1>0, <1>23 DEF Kick, Mute, Goto
<1>24. ASSUME AdminKickAll \/ AdminKick \/ AdminDone PROVE FALSE
  BY <1>0, <1>24 DEF AdminKickAll, AdminKick, AdminDone
<1>28. ASSUME NEW d \in Chan, JoinLock(d) PROVE FALSE
  BY <1>0, <1>28 DEF JoinLock, Goto
<1>29. ASSUME NEW d \in Chan, HalfText(d) PROVE FALSE
  BY <1>0, <1>29 DEF HalfText
<1>25. PICK d \in Chan : JoinScan(d)
  BY <1>1, <1>2, <1>3, <1>4, <1>5, <1>6, <1>7, <1>8, <1>9, <1>10, <1>11, <1>12, <1>13,
     <1>14, <1>15, <1>16, <1>17, <1>18, <1>19, <1>20, <1>21, <1>22, <1>23, <1>24,
     <1>28, <1>29
  DEF Next, Work
<1>26. PICK list \in Purged(num[d]) :
          IF conf.userlist # <<>> /\ list = <<>>
          THEN Goto(d, "crashed") /\ UNCHANGED <<conf, user_no>>
          ELSE Goto(d, "insert")
  BY <1>25 DEF JoinScan
<1>27. conf.userlist # <<>> /\ list = <<>> /\ d = c
  BY <1>0, <1>26 DEF Goto
<1> QED BY <1>25, <1>26, <1>27 DEF Goto

\* A crash is explained where it happens, and nothing happens after it.
LEMMA CrashStep ==
    ASSUME TypeOK, Entries, CrashIsExplained, [Next]_vars
    PROVE  CrashIsExplained'
<1>1. CASE UNCHANGED vars
  BY <1>1 DEF vars, CrashIsExplained, Listed
<1>2. ASSUME Next, NEW c \in Chan, pc'[c] = "crashed"
      PROVE  /\ \E d \in Chan \ {c} :
                    num[d] = num[c] /\ pc'[d] \in {"leaving", "dispose", "gone"}
             /\ \A i \in DOMAIN conf'.userlist : conf'.userlist[i].cid = num[c]
             /\ \A d \in Chan : pc'[d] \in Joined => torn' /\ ~Listed(d)'
  <2>1. /\ JoinScan(c) /\ pc' = [pc EXCEPT ![c] = "crashed"] /\ conf' = conf
        /\ conf.userlist # <<>> /\ <<>> \in Purged(num[c]) /\ torn' = torn
    BY <1>2, OnlyScanCrashes DEF JoinScan
  <2>2. pc[c] = "scan" /\ \A d \in Chan : pc'[d] = IF d = c THEN "crashed" ELSE pc[d]
    BY <2>1 DEF JoinScan, TypeOK
  <2>3. \A d \in Chan : pc[d] \notin {"stray", "broken"}
    BY <1>2, NextAlive DEF Alive
  <2>4. PICK i \in Absent(num[c]) : RemoveAt(conf.userlist, i) = <<>>
    BY <2>1, Purge, Zenon
  <2>5. i \in DOMAIN conf.userlist /\ conf.userlist[i].cid = num[c] /\ ~conf.userlist[i].active
    BY DEF Absent
  <2>6. Len(conf.userlist) = 1 /\ DOMAIN conf.userlist = 1 .. 1
    <3>1. Len(RemoveAt(conf.userlist, i)) = Len(conf.userlist) - 1
      BY <2>5, ListType, Removal
    <3>2. Len(conf.userlist) - 1 = 0
      BY <2>4, <3>1
    <3> QED BY <3>2, ListType
  <2>7. num[c] # NoNumber /\ conf.userlist[i].chan \in Chan /\ i = 1
    BY <2>5, <2>6, ListType, StateCtlAssumption DEF User
  <2> DEFINE d == conf.userlist[i].chan
  <2>8. /\ d # c /\ num[d] = num[c] /\ pc[d] \in {"leaving", "dispose", "gone"}
    BY <2>2, <2>3, <2>5, <2>7 DEF Entries, Joined
  <2>9. ASSUME NEW x \in Chan, pc[x] \in Joined PROVE torn /\ ~Listed(x)
    <3>1. ~Listed(x)
      <4>1. SUFFICES ASSUME Listed(x) PROVE FALSE
        OBVIOUS
      <4>2. conf.userlist[1].chan = x
        BY <2>6, <4>1 DEF Listed
      <4> QED BY <2>5, <2>7, <2>9, <4>2 DEF Entries
    <3> QED BY <2>9, <3>1 DEF Entries, Spoilt
  <2> HIDE DEF d
  <2>10. \A x \in Chan : pc'[x] \in Joined => torn' /\ ~Listed(x)'
    <3>1. \A x \in Chan : pc'[x] \in Joined => pc[x] \in Joined
      BY <2>2 DEF Joined
    <3>2. \A x \in Chan : Listed(x)' <=> Listed(x)
      BY <2>1 DEF Listed
    <3> QED BY <2>1, <2>9, <3>1, <3>2
  <2>11. \A j \in DOMAIN conf'.userlist : conf'.userlist[j].cid = num[c]
    BY <2>1, <2>5, <2>6, <2>7
  <2> QED BY <2>2, <2>7, <2>8, <2>10, <2>11 DEF d
<1> QED BY <1>1, <1>2 DEF CrashIsExplained

-----------------------------------------------------------------------------
(* Statuses *)

\* A member that listens is one of those that are told.
LEMMA ListenersAreMembers ==
    ASSUME TypeOK, Entries, ~torn, NEW c \in Chan, pc[c] \in Joined
    PROVE  /\ c \in Members
           /\ \E i \in Actives : conf.userlist[i].chan = c /\ conf.userlist[i].cid = num[c]
<1>1. PICK i \in DOMAIN conf.userlist : conf.userlist[i].chan = c
  BY DEF Entries, Listed, Spoilt
<1>2. conf.userlist[i].active /\ conf.userlist[i].cid = num[c]
  BY <1>1 DEF Entries, Joined
<1> QED BY <1>1, <1>2 DEF Members, Present, Actives

\* Entries marked as present are those of members.
LEMMA ActivesAreMembers ==
    ASSUME TypeOK, Entries, Alive, NEW i \in Actives
    PROVE  LET d == conf.userlist[i].chan
           IN  d \in Chan /\ pc[d] \in Joined /\ num[d] = conf.userlist[i].cid
<1>1. i \in DOMAIN conf.userlist /\ conf.userlist[i].active
  BY DEF Actives
<1>2. conf.userlist[i].chan \in Chan
  BY <1>1, ListType DEF User
<1> QED BY <1>1, <1>2 DEF Entries, Alive, Joined

NobodyLeaves == \A d \in Chan : pc[d] # "leaving"

\* Moves of a call that say nothing new of those that leave
Unleaving(c, x, l) ==
    /\ x # "leaving" /\ l # "leaving"
    /\ x \in Joined => l \in Joined
    /\ l \in {"tell", "inside"} => x \in {"tell", "inside"} \/ NobodyLeaves \/ c \in Quiet

\* A list with the same entries, and such a move
LEMMA LeaversKept ==
    ASSUME TypeOK, Leavers, NEW c, NEW l, SameEntries(conf'.userlist), still' = still,
           pc' = pc \/ (pc' = [pc EXCEPT ![c] = l] /\ Unleaving(c, pc[c], l))
    PROVE  Leavers'
<1>a. /\ DOMAIN conf.userlist = 1 .. Len(conf.userlist)
      /\ \A i \in 1 .. Len(conf.userlist) : conf.userlist[i].chan \in Chan
  BY ListType DEF User
<1>b. DOMAIN conf'.userlist = 1 .. Len(conf.userlist)
  BY ListType DEF SameEntries
<1>c. \A i \in 1 .. Len(conf.userlist) :
          /\ conf'.userlist[i].chan = conf.userlist[i].chan
          /\ conf'.userlist[i].cid = conf.userlist[i].cid
          /\ conf'.userlist[i].active = conf.userlist[i].active
  BY Zenon DEF SameEntries
<1>1. /\ DOMAIN conf.userlist = 1 .. Len(conf.userlist)
      /\ DOMAIN conf'.userlist = 1 .. Len(conf.userlist)
      /\ \A i \in 1 .. Len(conf.userlist) : conf.userlist[i].chan \in Chan
      /\ \A i \in 1 .. Len(conf.userlist) :
             /\ conf'.userlist[i].chan = conf.userlist[i].chan
             /\ conf'.userlist[i].cid = conf.userlist[i].cid
             /\ conf'.userlist[i].active = conf.userlist[i].active
  BY <1>a, <1>b, <1>c
<1>2. /\ \A d \in Chan : pc[d] = "leaving" <=> pc'[d] = "leaving"
      /\ \A d \in Chan : pc[d] \in Joined => pc'[d] \in Joined
      /\ \A d \in Chan : pc'[d] \in {"tell", "inside"} =>
             pc[d] \in {"tell", "inside"} \/ NobodyLeaves \/ d \in Quiet
  <2>1. CASE pc' = pc
    BY <2>1
  <2>2. CASE pc' = [pc EXCEPT ![c] = l] /\ Unleaving(c, pc[c], l)
    <3>1. \A d \in Chan : pc'[d] = IF d = c THEN l ELSE pc[d]
      BY <2>2 DEF TypeOK
    <3> QED BY <2>2, <3>1 DEF Unleaving
  <2> QED BY <2>1, <2>2
<1>3. ASSUME NEW d \in Chan, pc'[d] = "leaving"
      PROVE  IF still'[d] THEN \E e \in Chan : e # d /\ num[e] = num[d] /\ pc'[e] \in Joined
             ELSE \A e \in Chan \ Quiet :
                        e # d /\ num[e] = num[d] => pc'[e] \notin {"tell", "inside"}
  <2>1. pc[d] = "leaving" /\ ~NobodyLeaves
    BY <1>2, <1>3 DEF NobodyLeaves
  <2>2. CASE still[d]
    BY <1>2, <2>1, <2>2 DEF Leavers
  <2>3. CASE ~still[d]
    BY <1>2, <2>1, <2>3 DEF Leavers
  <2> QED BY <2>2, <2>3
<1>4. ASSUME NEW i \in DOMAIN conf'.userlist, NEW j \in DOMAIN conf'.userlist,
             i < j, conf'.userlist[i].cid = conf'.userlist[j].cid,
             conf'.userlist[i].active, ~conf'.userlist[j].active
      PROVE  LET d == conf'.userlist[j].chan IN pc'[d] = "leaving" /\ still'[d]
  BY <1>1, <1>2, <1>4 DEF Leavers
<1> QED BY <1>3, <1>4 DEF Leavers

\* Moves after which no status is wrong that was right
Silent(x, l) ==
    /\ l \in Listening => x \in Listening \cup {"fill"}
    /\ l = "leave" => x \in Listening
    /\ l = "inside" => x = "inside"
    /\ x \in Joined \cup {"leaving"} => l \in Joined \cup {"leaving"}
    /\ x \in Listening \cup {"leave"} => l \in Listening \cup {"leave"}

\* Nothing said, and such a move
LEMMA StatusesKept ==
    ASSUME TypeOK, Deaf, Statuses, NEW c, NEW l, heard' = heard,
           pc' = pc \/ (pc' = [pc EXCEPT ![c] = l] /\ Silent(pc[c], l))
    PROVE  Statuses'
<1>1. /\ \A d \in Chan : pc'[d] \in Listening => pc[d] \in Listening \cup {"fill"}
      /\ \A d \in Chan : pc[d] \in Listening \cup {"leave"} => pc'[d] \in Listening \cup {"leave"}
      /\ \A d \in Chan : pc'[d] = "inside" => pc[d] = "inside"
      /\ \A d \in Chan : pc[d] \in Joined \cup {"leaving"} => pc'[d] \in Joined \cup {"leaving"}
  <2>1. CASE pc' = pc
    BY <2>1
  <2>2. CASE pc' = [pc EXCEPT ![c] = l] /\ Silent(pc[c], l)
    <3>1. \A d \in Chan : pc'[d] = IF d = c THEN l ELSE pc[d]
      BY <2>2 DEF TypeOK
    <3> QED BY <2>2, <3>1 DEF Silent
  <2> QED BY <2>1, <2>2
<1>3. ASSUME NEW d \in Chan, NEW n \in Number, pc'[d] \in Listening
      PROVE  /\ heard'[d][n] = "out" => \A e \in Chan \ Quiet : num[e] = n => pc'[e] # "inside"
             /\ heard'[d][n] = "in" =>
                    \E e \in Chan : num[e] = n /\ pc'[e] \in Joined \cup {"leaving"}
  <2>1. CASE pc[d] \in Listening
    BY <1>1, <2>1 DEF Statuses
  <2>2. CASE pc[d] = "fill"
    <3>1. heard'[d][n] = "nothing"
      BY <2>2 DEF Deaf, Listening, Nothing
    <3> QED BY <3>1
  <2> QED BY <1>1, <1>3, <2>1, <2>2
<1> QED BY <1>3 DEF Statuses

\* Every step keeps what a call that leaves has found out about its number right.
LEMMA LeaversStep ==
    ASSUME TypeOK, References, Locks, Entries, Numbers, Alive, Alive', ~torn, ~torn',
           Leavers, Next
    PROVE  Leavers'
<1> DEFINE Goal == Leavers'
<1>0. /\ pc \in [Chan -> Labels] /\ conf \in Conference /\ conf.refcount \in Nat
      /\ Nobody \notin Chan /\ NoNumber \notin Number /\ num \in [Chan -> Number]
      /\ conf.userlist \in Seq(User) /\ Len(conf.userlist) \in Nat
      /\ DOMAIN conf.userlist = 1 .. Len(conf.userlist)
      /\ \A i \in DOMAIN conf.userlist : conf.userlist[i] \in User
      /\ still \in [Chan -> BOOLEAN]
  BY ListType, StateCtlAssumption DEF TypeOK
<1>a. \A list : list = conf.userlist => SameEntries(list)
  BY <1>0 DEF SameEntries
<1>b. \A d \in Chan : pc[d] = "leaving" => confs = d
  BY DEF Locks
<1> HIDE DEF Goal
<1>1. ASSUME NEW c \in Chan, Call(c) PROVE Goal
  <2>1. /\ pc[c] = "idle" /\ pc' = [pc EXCEPT ![c] = "find"]
        /\ conf'.userlist = conf.userlist /\ still' = still
    BY <1>0, <1>1 DEF Call, Goto
  <2>2. Unleaving(c, "idle", "find")
    BY DEF Unleaving, Joined
  <2> QED BY <1>a, <2>1, <2>2, LeaversKept DEF Goal
<1>2. ASSUME NEW c \in Chan, Build(c) PROVE Goal
  <2>1. /\ pc[c] = "build" /\ pc' = [pc EXCEPT ![c] = "ask"]
        /\ conf'.userlist = conf.userlist /\ still' = still
    BY <1>0, <1>2 DEF Build, Goto
  <2>2. Unleaving(c, "build", "ask")
    BY DEF Unleaving, Joined
  <2> QED BY <1>a, <2>1, <2>2, LeaversKept DEF Goal
<1>3. ASSUME NEW c \in Chan, NotConfigured(c) PROVE Goal
  <2>1. PICK l \in {"find", "gone"} :
            /\ pc[c] = "build" /\ pc' = [pc EXCEPT ![c] = l]
            /\ conf'.userlist = conf.userlist /\ still' = still
    BY <1>3 DEF NotConfigured, Goto, Failed
  <2>2. Unleaving(c, "build", l)
    BY <2>1 DEF Unleaving, Joined
  <2> QED BY <1>a, <2>1, <2>2, LeaversKept DEF Goal
<1>4. ASSUME NEW c \in Chan, NoAnswer(c) PROVE Goal
  <2>1. PICK l \in {"find", "gone"} :
            /\ pc[c] = "ask" /\ pc' = [pc EXCEPT ![c] = l]
            /\ conf'.userlist = conf.userlist /\ still' = still
    BY <1>4 DEF NoAnswer, Goto, Failed
  <2>2. Unleaving(c, "ask", l)
    BY <2>1 DEF Unleaving, Joined
  <2> QED BY <1>a, <2>1, <2>2, LeaversKept DEF Goal
<1>5. ASSUME NEW c \in Chan, Refuse(c) PROVE Goal
  <2>1. /\ pc[c] = "admit" /\ pc' = [pc EXCEPT ![c] = "dispose"]
        /\ conf'.userlist = conf.userlist /\ still' = still
    BY <1>0, <1>5 DEF Refuse, Goto
  <2>2. Unleaving(c, "admit", "dispose")
    BY DEF Unleaving, Joined
  <2> QED BY <1>a, <2>1, <2>2, LeaversKept DEF Goal
<1>6. ASSUME NEW c \in Chan, Admit(c) PROVE Goal
  <2>1. PICK l \in {"dispose", "join"} :
            /\ pc[c] = "admit" /\ pc' = [pc EXCEPT ![c] = l]
            /\ conf'.userlist = conf.userlist /\ still' = still
    BY <1>6 DEF Admit, Goto
  <2>2. Unleaving(c, "admit", l)
    BY <2>1 DEF Unleaving, Joined
  <2> QED BY <1>a, <2>1, <2>2, LeaversKept DEF Goal
<1>7. ASSUME NEW c \in Chan, Answered(c) PROVE Goal
  <2>1. /\ pc[c] = "ask" /\ pc' = [pc EXCEPT ![c] = "admit"]
        /\ conf'.userlist = conf.userlist /\ still' = still
    BY <1>0, <1>7 DEF Answered, Goto, Has, Locks, References, NoConference
  <2>2. Unleaving(c, "ask", "admit")
    BY DEF Unleaving, Joined
  <2> QED BY <1>a, <2>1, <2>2, LeaversKept DEF Goal
<1>8. ASSUME NEW c \in Chan, Enter(c) PROVE Goal
  <2>1. PICK l \in {"tell", "play"} :
            /\ pc[c] = "enter" /\ pc' = [pc EXCEPT ![c] = l]
            /\ l = "tell" => c \in Quiet
            /\ conf'.userlist = conf.userlist /\ still' = still
    BY <1>0, <1>8 DEF Enter, Goto
  <2>2. Unleaving(c, "enter", l)
    BY <2>1 DEF Unleaving, Joined
  <2> QED BY <1>a, <2>1, <2>2, LeaversKept DEF Goal
<1>9. ASSUME NEW c \in Chan, Tell(c) PROVE Goal
  <2>1. /\ pc[c] = "tell" /\ pc' = [pc EXCEPT ![c] = "inside"]
        /\ conf'.userlist = conf.userlist /\ still' = still
    BY <1>0, <1>9 DEF Tell, Goto, Alive
  <2>2. Unleaving(c, "tell", "inside")
    BY DEF Unleaving, Joined
  <2> QED BY <1>a, <2>1, <2>2, LeaversKept DEF Goal
<1>10. ASSUME NEW c \in Chan, HangUp(c) PROVE Goal
  <2>1. /\ pc[c] = "inside" /\ pc' = [pc EXCEPT ![c] = "leave"]
        /\ conf'.userlist = conf.userlist /\ still' = still
    BY <1>0, <1>10 DEF HangUp, Goto
  <2>2. Unleaving(c, "inside", "leave")
    BY DEF Unleaving, Joined
  <2> QED BY <1>a, <2>1, <2>2, LeaversKept DEF Goal
<1>11. ASSUME NEW c \in Chan, Kicked(c) PROVE Goal
  <2>1. /\ pc[c] = "inside" /\ pc' = [pc EXCEPT ![c] = "leave"]
        /\ conf'.userlist = conf.userlist /\ still' = still
    BY <1>0, <1>11 DEF Kicked, Goto
  <2>2. Unleaving(c, "inside", "leave")
    BY DEF Unleaving, Joined
  <2> QED BY <1>a, <2>1, <2>2, LeaversKept DEF Goal
<1>12. ASSUME NEW c \in Chan, Play(c) PROVE Goal
  <2>1. /\ pc[c] = "play" /\ pc' = [pc EXCEPT ![c] = "tell"] /\ Played(c)
        /\ conf'.userlist = conf.userlist /\ still' = still
    BY <1>12 DEF Play, Goto
  <2>2. NobodyLeaves
    BY <1>0, <1>b, <2>1 DEF Played, Unlocked, NobodyLeaves
  <2>3. Unleaving(c, "play", "tell")
    BY <2>2 DEF Unleaving, Joined
  <2> QED BY <1>a, <2>1, <2>2, <2>3, LeaversKept DEF Goal
<1>13. ASSUME NEW c \in Chan, Find(c) \/ BuildFound(c), Exists PROVE Goal
  <2>1. PICK x \in {"find", "build"} :
            /\ pc[c] = x /\ pc' = [pc EXCEPT ![c] = "admit"]
            /\ conf' = Referenced(conf) /\ still' = still
    BY <1>13 DEF Find, BuildFound, Has, Goto
  <2>2. conf'.userlist = conf.userlist
    BY <1>0, <2>1, Referencing
  <2>3. Unleaving(c, x, "admit")
    BY <2>1 DEF Unleaving, Joined
  <2> QED BY <1>a, <2>1, <2>2, <2>3, LeaversKept DEF Goal
<1>14. ASSUME NEW c \in Chan, Find(c), ~Exists PROVE Goal
  <2>1. /\ pc[c] = "find" /\ pc' = [pc EXCEPT ![c] = "build"]
        /\ conf'.userlist = conf.userlist /\ still' = still
    BY <1>14 DEF Find, Goto
  <2>2. Unleaving(c, "find", "build")
    BY DEF Unleaving, Joined
  <2> QED BY <1>a, <2>1, <2>2, LeaversKept DEF Goal
<1>15. ASSUME NEW c \in Chan, NEW m \in Number, Mute(c, m) PROVE Goal
  <2>1. pc' = pc
    BY <1>0, <1>15 DEF Mute, Goto, Alive
  <2>2. conf'.userlist = conf.userlist /\ still' = still
    BY <1>15 DEF Mute
  <2> QED BY <1>a, <2>1, <2>2, LeaversKept DEF Goal
<1>16. ASSUME NEW c \in Chan, Query(c) PROVE Goal
  BY <1>a, <1>16, LeaversKept DEF Query, Goal
<1>17. ASSUME NEW c \in Chan, KickAll(c) PROVE Goal
  BY <1>17, Flagging, LeaversKept DEF KickAll, Goal
<1>18. ASSUME NEW c \in Chan, NEW m \in Number, Kick(c, m) PROVE Goal
  BY <1>18, Flagging, LeaversKept DEF Kick, Goal
<1>19. ASSUME AdminKickAll PROVE Goal
  <2>1. PICK which : conf' = Referenced(Flagged(which))
    BY <1>19 DEF AdminKickAll
  <2>2. SameEntries(conf'.userlist)
    BY <2>1, Flagging, Referencing
  <2> QED BY <1>19, <2>2, LeaversKept DEF AdminKickAll, Goal
<1>20. ASSUME AdminKick PROVE Goal
  <2>1. PICK which : conf' = Referenced(Flagged(which))
    BY <1>20 DEF AdminKick
  <2>2. SameEntries(conf'.userlist)
    BY <2>1, Flagging, Referencing
  <2> QED BY <1>20, <2>2, LeaversKept DEF AdminKick, Goal
<1>21. ASSUME NEW c \in Chan, Dispose(c) PROVE Goal
  <2>1. /\ conf.refcount > 0 /\ pc[c] = "dispose" /\ pc' = [pc EXCEPT ![c] = "gone"]
        /\ conf' = Disposed(conf) /\ still' = still
    BY <1>21, HoldersFind DEF Dispose, Goto, Holding, Exists
  <2>2. CASE conf.refcount = 1
    <3>1. conf'.userlist = <<>>
      BY <1>0, <2>1, <2>2, Disposing DEF NoConference
    <3>2. \A d \in Chan : pc'[d] # "leaving"
      BY <1>0, <2>1, <2>2, LastHolder DEF Holding
    <3> QED BY <3>1, <3>2 DEF Leavers, Goal
  <2>3. CASE conf.refcount # 1
    <3>1. conf'.userlist = conf.userlist
      BY <1>0, <2>1, <2>3, Disposing
    <3>2. Unleaving(c, "dispose", "gone")
      BY DEF Unleaving, Joined
    <3> QED BY <1>a, <2>1, <3>1, <3>2, LeaversKept DEF Goal
  <2> QED BY <2>2, <2>3
<1>22. ASSUME AdminDone PROVE Goal
  <2>1. /\ conf.refcount > 0 /\ pc' = pc /\ admin = "busy"
        /\ conf' = Disposed(conf) /\ still' = still
    BY <1>22, HoldersFind DEF AdminDone, Exists
  <2>2. CASE conf.refcount = 1
    <3>1. conf'.userlist = <<>>
      BY <1>0, <2>1, <2>2, Disposing DEF NoConference
    <3>2. \A d \in Chan : pc'[d] # "leaving"
      BY <1>0, <2>1, <2>2, LastHolder DEF Holding
    <3> QED BY <3>1, <3>2 DEF Leavers, Goal
  <2>3. CASE conf.refcount # 1
    <3>1. conf'.userlist = conf.userlist
      BY <1>0, <2>1, <2>3, Disposing
    <3> QED BY <1>a, <2>1, <3>1, LeaversKept DEF Goal
  <2> QED BY <2>2, <2>3
<1>23. ASSUME NEW c \in Chan, JoinScan(c) PROVE Goal
  <2> DEFINE list == conf'.userlist
  <2>1. /\ pc[c] = "scan" /\ \A d \in Chan : pc'[d] = IF d = c THEN "insert" ELSE pc[d]
        /\ pc'[c] = "insert" /\ still' = still
    <3>1. \/ pc' = [pc EXCEPT ![c] = "crashed"]
          \/ pc' = [pc EXCEPT ![c] = "insert"]
      BY <1>23 DEF JoinScan, Goto
    <3> QED BY <1>0, <1>23, <3>1 DEF JoinScan, Alive
  <2>2. list \in Purged(num[c])
    BY <1>23, <2>1, Scanned
  <2> HIDE DEF list
  <2>3. \A k, m \in DOMAIN list : k < m => \E i, j \in DOMAIN conf.userlist :
            i < j /\ list[k] = conf.userlist[i] /\ list[m] = conf.userlist[j]
    <3>1. CASE list = conf.userlist
      BY <3>1
    <3>2. CASE \E i \in Absent(num[c]) : list = RemoveAt(conf.userlist, i)
      <4>1. PICK i \in DOMAIN conf.userlist : Without(list, i)
        BY <3>2, Removed DEF Absent
      <4> QED BY <4>1, Shorter
    <3> QED BY <2>2, <3>1, <3>2, Purge
  <2>4. ASSUME NEW d \in Chan, pc'[d] = "leaving"
        PROVE  IF still'[d] THEN \E e \in Chan : e # d /\ num[e] = num[d] /\ pc'[e] \in Joined
               ELSE \A e \in Chan \ Quiet :
                        e # d /\ num[e] = num[d] => pc'[e] \notin {"tell", "inside"}
    <3>1. pc[d] = "leaving" /\ \A e \in Chan : pc[e] \in Joined => pc'[e] = pc[e]
      BY <2>1, <2>4 DEF Joined
    <3>2. \A e \in Chan : pc'[e] \in {"tell", "inside"} => pc[e] \in {"tell", "inside"}
      BY <2>1
    <3> QED BY <2>1, <3>1, <3>2 DEF Leavers
  <2>5. ASSUME NEW k \in DOMAIN list, NEW m \in DOMAIN list, k < m,
               list[k].cid = list[m].cid, list[k].active, ~list[m].active
        PROVE  LET d == list[m].chan IN pc'[d] = "leaving" /\ still'[d]
    <3>1. PICK i \in DOMAIN conf.userlist, j \in DOMAIN conf.userlist :
              i < j /\ list[k] = conf.userlist[i] /\ list[m] = conf.userlist[j]
      BY <2>3, <2>5
    <3>2. pc[list[m].chan] = "leaving" /\ still[list[m].chan] /\ list[m].chan \in Chan
      BY <1>0, <2>5, <3>1 DEF Leavers, User
    <3> QED BY <2>1, <3>2
  <2> QED BY <2>4, <2>5 DEF Leavers, Goal, list
<1>24. ASSUME NEW c \in Chan, JoinInsert(c) PROVE Goal
  <2> DEFINE list == conf'.userlist  n == Len(conf.userlist)
  <2>1. Linked(c)
    <3>1. Linked(c) \/ Unlinked(c)
      BY <1>24, Inserted DEF JoinInsert, Numbers
    <3> QED BY <1>0, <3>1 DEF Unlinked, Goto, Alive
  <2>2. /\ pc[c] = "insert" /\ \A d \in Chan : pc'[d] = IF d = c THEN "fill" ELSE pc[d]
        /\ still' = still
    BY <1>0, <1>24, <2>1 DEF JoinInsert, Linked, Goto
  <2>3. /\ conf' \in Conference /\ Len(list) = n + 1
        /\ \A i \in 1 .. n : list[i] = conf.userlist[i]
        /\ list[n + 1].cid = NoNumber
    <3>1. list[n + 1] = [chan |-> c, cid |-> NoNumber, no |-> user_no,
                         active |-> FALSE, kicked |-> FALSE]
      BY <2>1 DEF Linked
    <3> QED BY <2>1, <3>1 DEF Linked
  <2>4. n \in Nat /\ DOMAIN list = 1 .. n + 1 /\ DOMAIN conf.userlist = 1 .. n
    BY <1>0, <2>3 DEF Conference
  <2> HIDE DEF list, n
  <2>5. ASSUME NEW d \in Chan, pc'[d] = "leaving"
        PROVE  IF still'[d] THEN \E e \in Chan : e # d /\ num[e] = num[d] /\ pc'[e] \in Joined
               ELSE \A e \in Chan \ Quiet :
                        e # d /\ num[e] = num[d] => pc'[e] \notin {"tell", "inside"}
    <3>1. pc[d] = "leaving" /\ \A e \in Chan : pc[e] \in Joined => pc'[e] = pc[e]
      BY <2>2, <2>5 DEF Joined
    <3>2. \A e \in Chan : pc'[e] \in {"tell", "inside"} => pc[e] \in {"tell", "inside"}
      BY <2>2
    <3> QED BY <2>2, <3>1, <3>2 DEF Leavers
  <2>6. ASSUME NEW k \in DOMAIN list, NEW m \in DOMAIN list, k < m,
               list[k].cid = list[m].cid, list[k].active, ~list[m].active
        PROVE  LET d == list[m].chan IN pc'[d] = "leaving" /\ still'[d]
    <3>1. k \in 1 .. n /\ list[k] = conf.userlist[k]
      BY <2>3, <2>4, <2>6
    <3>2. list[k].cid # NoNumber
      <4>1. pc[conf.userlist[k].chan] \in {"stray"} \cup Joined /\ conf.userlist[k].chan \in Chan
        BY <1>0, <2>4, <2>6, <3>1 DEF Entries, User
      <4>2. conf.userlist[k].cid = num[conf.userlist[k].chan]
        BY <2>4, <3>1, <4>1 DEF Entries, Joined
      <4> QED BY <1>0, <3>1, <4>1, <4>2
    <3>3. m \in 1 .. n /\ list[m] = conf.userlist[m]
      BY <2>3, <2>4, <2>6, <3>2
    <3>4. pc[list[m].chan] = "leaving" /\ still[list[m].chan] /\ list[m].chan \in Chan
      BY <1>0, <2>4, <2>6, <3>1, <3>3 DEF Leavers, User
    <3> QED BY <2>2, <3>4
  <2> QED BY <2>5, <2>6 DEF Leavers, Goal, list
<1>25. ASSUME NEW c \in Chan, JoinFill(c) PROVE Goal
  <2> DEFINE list == conf'.userlist  n == Len(conf.userlist)  e == Entry(c)
  <2>1. /\ pc[c] = "fill" /\ \A d \in Chan : pc'[d] = IF d = c THEN "enter" ELSE pc[d]
        /\ still' = still
    BY <1>0, <1>25 DEF JoinFill, Goto
  <2>2. Listed(c) /\ e \in 1 .. n /\ conf.userlist[e].chan = c
    BY <1>0, <2>1, EntryOf DEF Entries, Spoilt
  <2>3. /\ conf' \in Conference /\ Len(list) = n
        /\ \A i \in 1 .. n : i # e => list[i] = conf.userlist[i]
        /\ list[e].active = TRUE
    BY <1>25, <2>2, FilledIn
  <2>4. /\ n \in Nat /\ DOMAIN list = 1 .. n /\ DOMAIN conf.userlist = 1 .. n
        /\ e = n
    BY <1>0, <2>1, <2>2, <2>3 DEF Conference, Entries
  <2> HIDE DEF list, n, e
  <2>5. ASSUME NEW d \in Chan, pc'[d] = "leaving"
        PROVE  IF still'[d] THEN \E x \in Chan : x # d /\ num[x] = num[d] /\ pc'[x] \in Joined
               ELSE \A x \in Chan \ Quiet :
                        x # d /\ num[x] = num[d] => pc'[x] \notin {"tell", "inside"}
    <3>1. pc[d] = "leaving" /\ \A x \in Chan : pc[x] \in Joined => pc'[x] = pc[x]
      BY <2>1, <2>5 DEF Joined
    <3>2. \A x \in Chan : pc'[x] \in {"tell", "inside"} => pc[x] \in {"tell", "inside"}
      BY <2>1
    <3> QED BY <2>1, <3>1, <3>2 DEF Leavers
  <2>6. ASSUME NEW k \in DOMAIN list, NEW m \in DOMAIN list, k < m,
               list[k].cid = list[m].cid, list[k].active, ~list[m].active
        PROVE  LET d == list[m].chan IN pc'[d] = "leaving" /\ still'[d]
    <3>1. m # e /\ k # e
      BY <2>3, <2>4, <2>6
    <3>2. list[k] = conf.userlist[k] /\ list[m] = conf.userlist[m]
      BY <2>3, <2>4, <3>1
    <3>3. pc[list[m].chan] = "leaving" /\ still[list[m].chan] /\ list[m].chan \in Chan
      BY <1>0, <2>4, <2>6, <3>2 DEF Leavers, User
    <3> QED BY <2>1, <3>3
  <2> QED BY <2>5, <2>6 DEF Leavers, Goal, list
<1>26. ASSUME NEW c \in Chan, LeaveMark(c) PROVE Goal
  <2> DEFINE list == conf'.userlist  n == Len(conf.userlist)  e == Entry(c)
           Same == SameNumber(c, DOMAIN conf.userlist)
  <2>1. /\ pc[c] = "leave" /\ \A d \in Chan : pc'[d] = IF d = c THEN "leaving" ELSE pc[d]
        /\ Unlocked(c) /\ still'[c] = Same /\ Same \in BOOLEAN
    <3>1. PICK walk : still' = [still EXCEPT ![c] = SameNumber(c, walk)] /\ Torn(walk)
      BY <1>26 DEF LeaveMark
    <3>2. walk = DOMAIN conf.userlist
      BY <3>1, Zenon DEF Torn
    <3> QED BY <1>0, <1>26, <3>1, <3>2 DEF LeaveMark, Goto, SameNumber
  <2>2. Listed(c) /\ e \in 1 .. n /\ conf.userlist[e].chan = c /\ conf.userlist[e].cid = num[c]
    BY <1>0, <2>1, EntryOf DEF Entries, Joined, Spoilt
  <2>3. /\ conf' \in Conference /\ Len(list) = n
        /\ \A i \in 1 .. n : i # e => list[i] = conf.userlist[i]
        /\ list[e].active = FALSE /\ list[e].cid = num[c] /\ list[e].chan = c
    BY <1>26, <2>2, LeftMarked
  <2>4. n \in Nat /\ DOMAIN list = 1 .. n /\ DOMAIN conf.userlist = 1 .. n
    BY <1>0, <2>3 DEF Conference
  <2>5. \A d \in Chan : pc[d] # "leaving"
    BY <1>0, <1>b, <2>1 DEF Unlocked
  <2> HIDE DEF list, n, e
  <2>6. ASSUME Same
        PROVE  \E x \in Chan : x # c /\ num[x] = num[c] /\ pc'[x] \in Joined
    <3>1. PICK i \in Actives : conf.userlist[i].chan # c /\ conf.userlist[i].cid = num[c]
      BY <2>6 DEF SameNumber
    <3> QED BY <2>1, <3>1, ActivesAreMembers
  <2>7. ASSUME ~Same, NEW x \in Chan, x # c, num[x] = num[c]
        PROVE  pc'[x] \notin {"tell", "inside"}
    <3>1. SUFFICES ASSUME pc[x] \in {"tell", "inside"} PROVE FALSE
      BY <2>1, <2>7
    <3>2. pc[x] \in Joined
      BY <3>1 DEF Joined
    <3> QED BY <2>7, <3>2, ListenersAreMembers DEF SameNumber, Actives
  <2>8. ASSUME NEW d \in Chan, pc'[d] = "leaving"
        PROVE  IF still'[d] THEN \E x \in Chan : x # d /\ num[x] = num[d] /\ pc'[x] \in Joined
               ELSE \A x \in Chan \ Quiet :
                        x # d /\ num[x] = num[d] => pc'[x] \notin {"tell", "inside"}
    <3>1. d = c
      BY <2>1, <2>5, <2>8
    <3>2. CASE Same
      BY <2>1, <2>6, <3>1, <3>2
    <3>3. CASE ~Same
      BY <2>1, <2>7, <3>1, <3>3
    <3> QED BY <3>2, <3>3
  <2>9. ASSUME NEW k \in DOMAIN list, NEW m \in DOMAIN list, k < m,
               list[k].cid = list[m].cid, list[k].active, ~list[m].active
        PROVE  LET d == list[m].chan IN pc'[d] = "leaving" /\ still'[d]
    <3>1. k # e /\ list[k] = conf.userlist[k]
      BY <2>3, <2>4, <2>9
    <3>2. CASE m = e
      <4>1. k \in Actives /\ conf.userlist[k].chan # c /\ conf.userlist[k].cid = num[c]
        BY <2>2, <2>3, <2>4, <2>9, <3>1, <3>2 DEF Actives, Entries
      <4> QED BY <2>1, <2>3, <3>2, <4>1 DEF SameNumber, Actives
    <3>3. CASE m # e
      <4>1. list[m] = conf.userlist[m]
        BY <2>3, <2>4, <3>3
      <4> QED BY <1>0, <2>4, <2>5, <2>9, <3>1, <4>1 DEF Leavers, User
    <3> QED BY <3>2, <3>3
  <2> QED BY <2>8, <2>9 DEF Leavers, Goal, list
<1>27. ASSUME NEW c \in Chan, LeaveStill(c) PROVE Goal
  <2> DEFINE list == conf'.userlist
  <2>0. pc'[c] = "dispose"
    BY <1>0, <1>27, LeftBroken DEF Alive
  <2>1. /\ pc[c] = "leaving" /\ \A d \in Chan : pc'[d] = IF d = c THEN "dispose" ELSE pc[d]
    BY <1>0, <1>27, <2>0, LeftStill DEF LeaveStill
  <2>2. list = IF Listed(c) THEN RemoveAt(conf.userlist, Entry(c)) ELSE conf.userlist
    BY <1>27, <2>0, LeftStill
  <2> HIDE DEF list
  <2>3. \A k, m \in DOMAIN list : k < m => \E i, j \in DOMAIN conf.userlist :
            /\ i < j /\ list[k] = conf.userlist[i] /\ list[m] = conf.userlist[j]
            /\ conf.userlist[j].chan # c
    <3>1. CASE ~Listed(c)
      BY <2>2, <3>1 DEF Listed
    <3>2. CASE Listed(c)
      <4>1. /\ Entry(c) \in DOMAIN conf.userlist /\ conf.userlist[Entry(c)].chan = c
            /\ Without(list, Entry(c))
        BY <2>2, <3>2, EntryOf, Removed
      <4>2. \A j \in DOMAIN conf.userlist : j # Entry(c) => conf.userlist[j].chan # c
        BY <4>1 DEF Entries
      <4> QED BY <4>1, <4>2, Shorter
    <3> QED BY <3>1, <3>2
  <2>4. \A d \in Chan : pc[d] = "leaving" => d = c
    BY <1>b, <2>1
  <2>5. \A d \in Chan : pc'[d] # "leaving"
    BY <2>1, <2>4
  <2>6. ASSUME NEW k \in DOMAIN list, NEW m \in DOMAIN list, k < m,
               list[k].cid = list[m].cid, list[k].active, ~list[m].active
        PROVE  FALSE
    <3>1. PICK i \in DOMAIN conf.userlist, j \in DOMAIN conf.userlist :
              /\ i < j /\ list[k] = conf.userlist[i] /\ list[m] = conf.userlist[j]
              /\ conf.userlist[j].chan # c
      BY <2>3, <2>6
    <3>2. pc[conf.userlist[j].chan] = "leaving" /\ conf.userlist[j].chan \in Chan
      BY <1>0, <2>6, <3>1 DEF Leavers, User
    <3> QED BY <2>4, <3>1, <3>2
  <2> QED BY <2>5, <2>6 DEF Leavers, Goal, list
<1>28. ASSUME NEW c \in Chan, LeaveLast(c) PROVE Goal
  <2> DEFINE list == conf'.userlist
  <2>1. /\ pc[c] = "leaving" /\ \A d \in Chan : pc'[d] = IF d = c THEN "dispose" ELSE pc[d]
    BY <1>0, <1>28 DEF LeaveLast, Goto
  <2>2. list = conf.userlist
    BY <1>28, LeftLast
  <2> HIDE DEF list
  <2>4. \A d \in Chan : pc[d] = "leaving" => d = c
    BY <1>b, <2>1
  <2>5. \A d \in Chan : pc'[d] # "leaving"
    BY <2>1, <2>4
  <2>6. ASSUME NEW k \in DOMAIN list, NEW m \in DOMAIN list, k < m,
               list[k].cid = list[m].cid, list[k].active, ~list[m].active
        PROVE  FALSE
    <3>1. /\ pc[list[m].chan] = "leaving" /\ still[list[m].chan] /\ list[m].chan \in Chan
      BY <1>0, <2>2, <2>6 DEF Leavers, User
    <3>2. ~still[c]
      BY <1>28 DEF LeaveLast
    <3> QED BY <2>4, <3>1, <3>2
  <2> QED BY <2>5, <2>6 DEF Leavers, Goal, list
<1>29. ASSUME NEW c \in Chan, JoinLock(c) PROVE Goal
  <2>1. /\ pc[c] = "join" /\ pc' = [pc EXCEPT ![c] = "scan"]
        /\ conf'.userlist = conf.userlist /\ still' = still
    BY <1>29 DEF JoinLock, Goto
  <2>2. Unleaving(c, "join", "scan")
    BY DEF Unleaving, Joined
  <2> QED BY <1>a, <2>1, <2>2, LeaversKept DEF Goal
<1>30. ASSUME NEW c \in Chan, HalfText(c) PROVE Goal
  BY <1>a, <1>30, LeaversKept DEF HalfText, Goal
<1> QED
  BY <1>1, <1>2, <1>3, <1>4, <1>5, <1>6, <1>7, <1>8, <1>9, <1>10, <1>11, <1>12, <1>13, <1>14,
     <1>15, <1>16, <1>17, <1>18, <1>19, <1>20, <1>21, <1>22, <1>23, <1>24, <1>25, <1>26,
     <1>27, <1>28, <1>29, <1>30
  DEF Next, Work, BuildFound, Goal

\* Only a member is told anything, and what it was told is forgotten when it leaves.
LEMMA DeafStep ==
    ASSUME TypeOK, Alive, Alive', Deaf, Next
    PROVE  Deaf'
<1> DEFINE Fine(d) == \/ pc'[d] \in Listening \cup {"leave"}
                      \/ heard'[d] = Nothing
                      \/ pc[d] \notin Listening \cup {"leave"} /\ heard'[d] = heard[d]
           Goal == \A d \in Chan : Fine(d)
<1>0. pc \in [Chan -> Labels] /\ heard \in [Chan -> [Number -> {"nothing", "in", "out"}]]
  BY DEF TypeOK
<1>1. ASSUME NEW c \in Chan, NEW m \in Number, Mute(c, m) PROVE Goal
  <2>1. pc' = pc
    BY <1>0, <1>1 DEF Mute, Goto, Alive
  <2>2. ASSUME NEW d \in Chan PROVE heard'[d] = heard[d] \/ pc[d] \in Listening
    BY <1>0, <1>1 DEF Mute
  <2> QED BY <2>1, <2>2 DEF Deaf
<1>2. ASSUME NEW c \in Chan, Tell(c) PROVE Goal
  <2>1. pc[c] = "tell" /\ pc' = [pc EXCEPT ![c] = "inside"]
    BY <1>0, <1>2 DEF Tell, Goto, Alive
  <2>2. ASSUME NEW d \in Chan PROVE heard'[d] = heard[d] \/ pc[d] \in Listening
    BY <1>0, <1>2 DEF Tell, Told
  <2> QED BY <1>0, <2>1, <2>2 DEF Listening
<1>3. ASSUME NEW c \in Chan, LeaveLast(c) PROVE Goal
  <2>1. pc[c] = "leaving" /\ pc' = [pc EXCEPT ![c] = "dispose"]
    BY <1>3 DEF LeaveLast, Goto
  <2>2. ASSUME NEW d \in Chan PROVE heard'[d] = heard[d] \/ pc[d] \in Listening
    BY <1>0, <1>3 DEF LeaveLast, Told
  <2> QED BY <1>0, <2>1, <2>2 DEF Listening
<1>4. ASSUME NEW c \in Chan, LeaveMark(c) PROVE Goal
  <2>1. pc' = [pc EXCEPT ![c] = "leaving"] /\ heard' = [heard EXCEPT ![c] = Nothing]
    BY <1>4 DEF LeaveMark, Goto
  <2> QED BY <1>0, <2>1
<1>5. ASSUME NEW c \in Chan, Query(c) PROVE Goal
  <2>1. pc[c] = "inside" /\ pc' = pc /\ \A d \in Chan : d # c => heard'[d] = heard[d]
    BY <1>0, <1>5 DEF Query
  <2> QED BY <2>1 DEF Listening
<1>6. ASSUME NEW c \in Chan, LeaveStill(c) PROVE Goal
  <2>1. /\ pc[c] = "leaving" /\ heard' = heard
        /\ \E l \in {"dispose", "broken"} : pc' = [pc EXCEPT ![c] = l]
    BY <1>6 DEF LeaveStill, Goto
  <2> QED BY <1>0, <2>1 DEF Listening
<1>7. ASSUME NEW c \in Chan, NEW m \in Number, Kick(c, m) PROVE Goal
  BY <1>7 DEF Kick
<1>8. ASSUME NEW c \in Chan, KickAll(c) \/ HalfText(c) PROVE Goal
  BY <1>8 DEF KickAll, HalfText
<1>9. ASSUME AdminKickAll \/ AdminKick \/ AdminDone PROVE Goal
  BY <1>9 DEF AdminKickAll, AdminKick, AdminDone
<1>10. ASSUME NEW c \in Chan, HangUp(c) \/ Kicked(c) PROVE Goal
  BY <1>0, <1>10 DEF HangUp, Kicked, Goto
<1>11. ASSUME NEW c \in Chan, Call(c) \/ Refuse(c) \/ Build(c) \/ Dispose(c) PROVE Goal
  BY <1>0, <1>11 DEF Call, Refuse, Build, Dispose, Goto, Listening
<1>12. ASSUME NEW c \in Chan, BuildFound(c) \/ Answered(c) PROVE Goal
  BY <1>0, <1>12 DEF BuildFound, Answered, Has, Goto, Listening
<1>13. ASSUME NEW c \in Chan, Find(c) \/ NotConfigured(c) \/ NoAnswer(c) \/ Admit(c) PROVE Goal
  <2>1. /\ pc[c] \in {"find", "build", "ask", "admit"} /\ heard' = heard
        /\ \E l \in Labels : pc' = [pc EXCEPT ![c] = l]
    BY <1>13 DEF Find, NotConfigured, NoAnswer, Admit, Failed, Has, Goto, Labels
  <2> QED BY <1>0, <2>1 DEF Listening
<1>14. ASSUME NEW c \in Chan, JoinLock(c) \/ JoinScan(c) \/ JoinInsert(c) \/ JoinFill(c)
       PROVE  Goal
  <2>1. /\ pc[c] \in {"join", "scan", "insert", "fill"} /\ heard' = heard
        /\ \E l \in Labels : pc' = [pc EXCEPT ![c] = l]
    BY <1>14 DEF JoinLock, JoinScan, JoinInsert, JoinFill, Goto, Labels
  <2> QED BY <1>0, <2>1 DEF Listening
<1>15. ASSUME NEW c \in Chan, Enter(c) \/ Play(c) PROVE Goal
  <2>1. heard' = heard /\ \E l \in {"play", "tell"} : pc' = [pc EXCEPT ![c] = l]
    BY <1>15 DEF Enter, Play, Goto
  <2> QED BY <1>0, <2>1 DEF Listening
<1>16. Goal
  <2> HIDE DEF Goal
  <2> QED BY <1>1, <1>2, <1>3, <1>4, <1>5, <1>6, <1>7, <1>8, <1>9, <1>10, <1>11, <1>12, <1>13,
             <1>14, <1>15 DEF Next, Work
<1> QED BY <1>16 DEF Deaf

\* What a step tells is right, and remains so.
LEMMA StatusesStep ==
    ASSUME TypeOK, Locks, Entries, Alive, Alive', ~torn, ~torn', Deaf, Leavers, Statuses, Next
    PROVE  Statuses'
<1> DEFINE Goal == Statuses'
<1>0. /\ pc \in [Chan -> Labels] /\ num \in [Chan -> Number]
      /\ heard \in [Chan -> [Number -> {"nothing", "in", "out"}]]
      /\ still \in [Chan -> BOOLEAN]
  BY StateCtlAssumption DEF TypeOK
<1>b. \A d \in Chan : pc[d] = "leaving" => confs = d
  BY DEF Locks
<1>c. \A d \in Chan : pc[d] \in Listening => d \in Members
  BY ListenersAreMembers DEF Joined, Listening
<1> HIDE DEF Goal
<1>1. ASSUME NEW c \in Chan, Call(c) PROVE Goal
  <2>1. pc[c] = "idle" /\ pc' = [pc EXCEPT ![c] = "find"] /\ heard' = heard
    BY <1>1 DEF Call, Goto
  <2>2. Silent("idle", "find")
    BY DEF Silent, Joined, Listening
  <2> QED BY <2>1, <2>2, StatusesKept DEF Goal
<1>2. ASSUME NEW c \in Chan, Build(c) PROVE Goal
  <2>1. pc[c] = "build" /\ pc' = [pc EXCEPT ![c] = "ask"] /\ heard' = heard
    BY <1>2 DEF Build, Goto
  <2>2. Silent("build", "ask")
    BY DEF Silent, Joined, Listening
  <2> QED BY <2>1, <2>2, StatusesKept DEF Goal
<1>3. ASSUME NEW c \in Chan, Refuse(c) PROVE Goal
  <2>1. pc[c] = "admit" /\ pc' = [pc EXCEPT ![c] = "dispose"] /\ heard' = heard
    BY <1>3 DEF Refuse, Goto
  <2>2. Silent("admit", "dispose")
    BY DEF Silent, Joined, Listening
  <2> QED BY <2>1, <2>2, StatusesKept DEF Goal
<1>4. ASSUME NEW c \in Chan, Answered(c) PROVE Goal
  <2>1. pc[c] = "ask" /\ pc' = [pc EXCEPT ![c] = "admit"] /\ heard' = heard
    BY <1>4 DEF Answered, Goto, Has
  <2>2. Silent("ask", "admit")
    BY DEF Silent, Joined, Listening
  <2> QED BY <2>1, <2>2, StatusesKept DEF Goal
<1>5. ASSUME NEW c \in Chan, Enter(c) PROVE Goal
  <2>1. PICK l \in {"tell", "play"} :
            pc[c] = "enter" /\ pc' = [pc EXCEPT ![c] = l] /\ heard' = heard
    BY <1>5 DEF Enter, Goto
  <2>2. Silent("enter", l)
    BY <2>1 DEF Silent, Joined, Listening
  <2> QED BY <2>1, <2>2, StatusesKept DEF Goal
<1>6. ASSUME NEW c \in Chan, Play(c) PROVE Goal
  <2>1. pc[c] = "play" /\ pc' = [pc EXCEPT ![c] = "tell"] /\ heard' = heard
    BY <1>6 DEF Play, Goto
  <2>2. Silent("play", "tell")
    BY DEF Silent, Joined, Listening
  <2> QED BY <2>1, <2>2, StatusesKept DEF Goal
<1>7. ASSUME NEW c \in Chan, HangUp(c) PROVE Goal
  <2>1. pc[c] = "inside" /\ pc' = [pc EXCEPT ![c] = "leave"] /\ heard' = heard
    BY <1>7 DEF HangUp, Goto
  <2>2. Silent("inside", "leave")
    BY DEF Silent, Joined, Listening
  <2> QED BY <2>1, <2>2, StatusesKept DEF Goal
<1>8. ASSUME NEW c \in Chan, Kicked(c) PROVE Goal
  <2>1. pc[c] = "inside" /\ pc' = [pc EXCEPT ![c] = "leave"] /\ heard' = heard
    BY <1>8 DEF Kicked, Goto
  <2>2. Silent("inside", "leave")
    BY DEF Silent, Joined, Listening
  <2> QED BY <2>1, <2>2, StatusesKept DEF Goal
<1>9. ASSUME NEW c \in Chan, JoinInsert(c) PROVE Goal
  <2>1. pc[c] = "insert" /\ pc' = [pc EXCEPT ![c] = "fill"] /\ heard' = heard
    BY <1>0, <1>9 DEF JoinInsert, Goto, Alive
  <2>2. Silent("insert", "fill")
    BY DEF Silent, Joined, Listening
  <2> QED BY <2>1, <2>2, StatusesKept DEF Goal
<1>10. ASSUME NEW c \in Chan, JoinFill(c) PROVE Goal
  <2>1. pc[c] = "fill" /\ pc' = [pc EXCEPT ![c] = "enter"] /\ heard' = heard
    BY <1>10 DEF JoinFill, Goto
  <2>2. Silent("fill", "enter")
    BY DEF Silent, Joined, Listening
  <2> QED BY <2>1, <2>2, StatusesKept DEF Goal
<1>11. ASSUME NEW c \in Chan, Dispose(c) PROVE Goal
  <2>1. pc[c] = "dispose" /\ pc' = [pc EXCEPT ![c] = "gone"] /\ heard' = heard
    BY <1>11 DEF Dispose, Goto
  <2>2. Silent("dispose", "gone")
    BY DEF Silent, Joined, Listening
  <2> QED BY <2>1, <2>2, StatusesKept DEF Goal
<1>12. ASSUME NEW c \in Chan, NotConfigured(c) PROVE Goal
  <2>1. PICK l \in {"find", "gone"} :
            pc[c] = "build" /\ pc' = [pc EXCEPT ![c] = l] /\ heard' = heard
    BY <1>12 DEF NotConfigured, Goto, Failed
  <2>2. Silent("build", l)
    BY <2>1 DEF Silent, Joined, Listening
  <2> QED BY <2>1, <2>2, StatusesKept DEF Goal
<1>13. ASSUME NEW c \in Chan, NoAnswer(c) PROVE Goal
  <2>1. PICK l \in {"find", "gone"} :
            pc[c] = "ask" /\ pc' = [pc EXCEPT ![c] = l] /\ heard' = heard
    BY <1>13 DEF NoAnswer, Goto, Failed
  <2>2. Silent("ask", l)
    BY <2>1 DEF Silent, Joined, Listening
  <2> QED BY <2>1, <2>2, StatusesKept DEF Goal
<1>14. ASSUME NEW c \in Chan, Admit(c) PROVE Goal
  <2>1. PICK l \in {"dispose", "join"} :
            pc[c] = "admit" /\ pc' = [pc EXCEPT ![c] = l] /\ heard' = heard
    BY <1>14 DEF Admit, Goto
  <2>2. Silent("admit", l)
    BY <2>1 DEF Silent, Joined, Listening
  <2> QED BY <2>1, <2>2, StatusesKept DEF Goal
<1>15. ASSUME NEW c \in Chan, Find(c) PROVE Goal
  <2>1. PICK l \in {"admit", "build"} :
            pc[c] = "find" /\ pc' = [pc EXCEPT ![c] = l] /\ heard' = heard
    BY <1>15 DEF Find, Goto, Has
  <2>2. Silent("find", l)
    BY <2>1 DEF Silent, Joined, Listening
  <2> QED BY <2>1, <2>2, StatusesKept DEF Goal
<1>16. ASSUME NEW c \in Chan, BuildFound(c) PROVE Goal
  <2>1. PICK l \in {"admit"} :
            pc[c] = "build" /\ pc' = [pc EXCEPT ![c] = l] /\ heard' = heard
    BY <1>16 DEF BuildFound, Goto, Has
  <2>2. Silent("build", l)
    BY <2>1 DEF Silent, Joined, Listening
  <2> QED BY <2>1, <2>2, StatusesKept DEF Goal
<1>17. ASSUME NEW c \in Chan, JoinScan(c) PROVE Goal
  <2>1. pc[c] = "scan" /\ pc' = [pc EXCEPT ![c] = "insert"] /\ heard' = heard
    <3>1. \/ pc' = [pc EXCEPT ![c] = "crashed"]
          \/ pc' = [pc EXCEPT ![c] = "insert"]
      BY <1>17 DEF JoinScan, Goto
    <3> QED BY <1>0, <1>17, <3>1 DEF JoinScan, Alive
  <2>2. Silent("scan", "insert")
    BY DEF Silent, Joined, Listening
  <2> QED BY <2>1, <2>2, StatusesKept DEF Goal
<1>18. ASSUME NEW c \in Chan, KickAll(c) PROVE Goal
  BY <1>18, StatusesKept DEF KickAll, Goal
<1>19. ASSUME NEW c \in Chan, NEW m \in Number, Kick(c, m) PROVE Goal
  BY <1>19, StatusesKept DEF Kick, Goal
<1>20. ASSUME AdminKickAll PROVE Goal
  BY <1>20, StatusesKept DEF AdminKickAll, Goal
<1>21. ASSUME AdminKick PROVE Goal
  BY <1>21, StatusesKept DEF AdminKick, Goal
<1>22. ASSUME AdminDone PROVE Goal
  BY <1>22, StatusesKept DEF AdminDone, Goal
<1>23. ASSUME NEW c \in Chan, Tell(c) PROVE Goal
  <2>1. /\ pc[c] = "tell" /\ \A d \in Chan : pc'[d] = IF d = c THEN "inside" ELSE pc[d]
        /\ heard' = [d \in Chan |-> IF d \in Members /\ pc[d] \in Listening
                                    THEN [heard[d] EXCEPT ![num[c]] = "in"] ELSE heard[d]]
    BY <1>0, <1>23 DEF Tell, Goto, Told, Alive, Members
  <2>2. /\ \A d \in Chan : pc'[d] \in Listening <=> pc[d] \in Listening
        /\ \A d \in Chan : pc'[d] = "leave" <=> pc[d] = "leave"
        /\ \A d \in Chan : pc[d] \in Joined \cup {"leaving"}
                                => pc'[d] \in Joined \cup {"leaving"}
        /\ pc'[c] \in Joined
    BY <2>1 DEF Listening, Joined
  <2>4. ASSUME NEW d \in Chan, NEW n \in Number, pc'[d] \in Listening
        PROVE  /\ heard'[d][n] = "out" => \A e \in Chan \ Quiet : num[e] = n => pc'[e] # "inside"
               /\ heard'[d][n] = "in" =>
                      \E e \in Chan : num[e] = n /\ pc'[e] \in Joined \cup {"leaving"}
    <3>1. pc[d] \in Listening /\ heard'[d] = [heard[d] EXCEPT ![num[c]] = "in"]
      BY <1>c, <2>1, <2>2, <2>4
    <3>2. CASE n = num[c]
      BY <1>0, <2>2, <3>1, <3>2
    <3>3. CASE n # num[c]
      <4>1. heard'[d][n] = heard[d][n]
        BY <1>0, <3>1, <3>3
      <4> QED BY <2>1, <2>2, <3>1, <3>3, <4>1 DEF Statuses
    <3> QED BY <3>2, <3>3
  <2> QED BY <2>4 DEF Statuses, Goal
<1>24. ASSUME NEW c \in Chan, LeaveMark(c) PROVE Goal
  <2>1. /\ pc[c] = "leave" /\ \A d \in Chan : pc'[d] = IF d = c THEN "leaving" ELSE pc[d]
        /\ \A d \in Chan : heard'[d] = IF d = c THEN Nothing ELSE heard[d]
    BY <1>0, <1>24 DEF LeaveMark, Goto
  <2>2. /\ \A d \in Chan : pc'[d] \in Listening => d # c /\ pc[d] \in Listening
        /\ \A d \in Chan : pc'[d] = "inside" => pc[d] = "inside"
        /\ \A d \in Chan : pc[d] \in Joined \cup {"leaving"}
                                => pc'[d] \in Joined \cup {"leaving"}
    BY <2>1 DEF Listening, Joined
  <2>4. ASSUME NEW d \in Chan, NEW n \in Number, pc'[d] \in Listening
        PROVE  /\ heard'[d][n] = "out" => \A e \in Chan \ Quiet : num[e] = n => pc'[e] # "inside"
               /\ heard'[d][n] = "in" =>
                      \E e \in Chan : num[e] = n /\ pc'[e] \in Joined \cup {"leaving"}
    BY <2>1, <2>2, <2>4 DEF Statuses
  <2> QED BY <2>4 DEF Statuses, Goal
<1>25. ASSUME NEW c \in Chan, LeaveStill(c) PROVE Goal
  <2>1. /\ pc[c] = "leaving" /\ \A d \in Chan : pc'[d] = IF d = c THEN "dispose" ELSE pc[d]
        /\ heard' = heard /\ still[c]
    BY <1>0, <1>25, LeftBroken DEF LeaveStill, Goto, Alive
  <2>2. PICK x \in Chan : x # c /\ num[x] = num[c] /\ pc[x] \in Joined
    BY <2>1 DEF Leavers
  <2>3. /\ \A d \in Chan : pc'[d] \in Listening \cup {"leave"}
                                <=> pc[d] \in Listening \cup {"leave"}
        /\ \A d \in Chan : pc'[d] \in Listening => pc[d] \in Listening
        /\ \A d \in Chan : pc'[d] = "inside" => pc[d] = "inside"
        /\ \A d \in Chan : d # c => pc'[d] = pc[d]
    BY <2>1 DEF Listening
  <2>5. ASSUME NEW d \in Chan, NEW n \in Number, pc'[d] \in Listening
        PROVE  /\ heard'[d][n] = "out" => \A e \in Chan \ Quiet : num[e] = n => pc'[e] # "inside"
               /\ heard'[d][n] = "in" =>
                      \E e \in Chan : num[e] = n /\ pc'[e] \in Joined \cup {"leaving"}
    <3>1. heard'[d][n] = "out" => \A e \in Chan \ Quiet : num[e] = n => pc'[e] # "inside"
      BY <2>1, <2>3, <2>5 DEF Statuses
    <3>2. ASSUME heard'[d][n] = "in"
          PROVE  \E e \in Chan : num[e] = n /\ pc'[e] \in Joined \cup {"leaving"}
      <4>1. PICK e \in Chan : num[e] = n /\ pc[e] \in Joined \cup {"leaving"}
        BY <2>1, <2>3, <2>5, <3>2 DEF Statuses
      <4> QED BY <2>2, <2>3, <4>1
    <3> QED BY <3>1, <3>2
  <2> QED BY <2>5 DEF Statuses, Goal
<1>26. ASSUME NEW c \in Chan, LeaveLast(c) PROVE Goal
  <2>1. /\ pc[c] = "leaving" /\ \A d \in Chan : pc'[d] = IF d = c THEN "dispose" ELSE pc[d]
        /\ heard' = [d \in Chan |-> IF d \in Members /\ pc[d] \in Listening
                                    THEN [heard[d] EXCEPT ![num[c]] = "out"] ELSE heard[d]]
        /\ ~still[c]
    <3>1. PICK walk : Told(num[c], "out", walk) /\ Torn(walk)
      BY <1>26 DEF LeaveLast
    <3>2. walk = DOMAIN conf.userlist
      BY <3>1, Zenon DEF Torn
    <3> QED BY <1>0, <1>26, <3>1, <3>2 DEF LeaveLast, Goto, Told, Members
  <2>2. \A d \in Chan \ Quiet : num[d] = num[c] => pc'[d] # "inside"
    BY <2>1 DEF Leavers
  <2>3. /\ \A d \in Chan : pc'[d] \in Listening <=> pc[d] \in Listening
        /\ \A d \in Chan : pc'[d] = "leave" <=> pc[d] = "leave"
        /\ \A d \in Chan : pc'[d] = "inside" => pc[d] = "inside"
        /\ \A d \in Chan : d # c => pc'[d] = pc[d]
    BY <2>1 DEF Listening
  <2>5. ASSUME NEW d \in Chan, NEW n \in Number, pc'[d] \in Listening
        PROVE  /\ heard'[d][n] = "out" => \A e \in Chan \ Quiet : num[e] = n => pc'[e] # "inside"
               /\ heard'[d][n] = "in" =>
                      \E e \in Chan : num[e] = n /\ pc'[e] \in Joined \cup {"leaving"}
    <3>1. pc[d] \in Listening /\ heard'[d] = [heard[d] EXCEPT ![num[c]] = "out"]
      BY <1>c, <2>1, <2>3, <2>5
    <3>2. CASE n = num[c]
      BY <1>0, <2>2, <3>1, <3>2
    <3>3. CASE n # num[c]
      <4>1. heard'[d][n] = heard[d][n]
        BY <1>0, <3>1, <3>3
      <4>2. ASSUME heard'[d][n] = "out", NEW e \in Chan \ Quiet, num[e] = n
            PROVE  pc'[e] # "inside"
        <5>1. heard[d][n] = "out" /\ pc[d] \in Listening
          BY <3>1, <4>1, <4>2
        <5>2. pc[e] # "inside"
          BY <4>2, <5>1 DEF Statuses
        <5> QED BY <2>3, <5>2
      <4>3. ASSUME heard'[d][n] = "in"
            PROVE  \E e \in Chan : num[e] = n /\ pc'[e] \in Joined \cup {"leaving"}
        <5>1. PICK e \in Chan : num[e] = n /\ pc[e] \in Joined \cup {"leaving"}
          BY <3>1, <4>1, <4>3 DEF Statuses
        <5> QED BY <2>3, <3>3, <5>1
      <4> QED BY <4>2, <4>3
    <3> QED BY <3>2, <3>3
  <2> QED BY <2>5 DEF Statuses, Goal
<1>27. ASSUME NEW c \in Chan, NEW m \in Number, Mute(c, m) PROVE Goal
  <2>1. pc' = pc
    BY <1>0, <1>27 DEF Mute, Goto, Alive
  <2>2. PICK x \in Chan : num[x] = m /\ pc[x] \in Joined
    BY <1>27, ActivesAreMembers DEF Mute
  <2>3. ASSUME NEW d \in Chan
        PROVE  heard'[d] = heard[d] \/ (pc[d] \in Listening /\ heard'[d] = [heard[d] EXCEPT ![m] = "in"])
    BY <1>0, <1>27 DEF Mute
  <2>5. ASSUME NEW d \in Chan, NEW n \in Number, pc'[d] \in Listening
        PROVE  /\ heard'[d][n] = "out" => \A e \in Chan \ Quiet : num[e] = n => pc'[e] # "inside"
               /\ heard'[d][n] = "in" =>
                      \E e \in Chan : num[e] = n /\ pc'[e] \in Joined \cup {"leaving"}
    <3>1. CASE heard'[d][n] = heard[d][n]
      BY <2>1, <2>5, <3>1 DEF Statuses
    <3>2. CASE n = m /\ heard'[d][n] = "in"
      BY <2>1, <2>2, <3>2
    <3>3. CASE heard'[d] = [heard[d] EXCEPT ![m] = "in"]
      <4>1. n = m => heard'[d][n] = "in"
        BY <1>0, <3>3
      <4>2. n # m => heard'[d][n] = heard[d][n]
        BY <1>0, <3>3
      <4> QED BY <3>1, <3>2, <4>1, <4>2
    <3> QED BY <2>3, <3>1, <3>3
  <2> QED BY <2>5 DEF Statuses, Goal
<1>28. ASSUME NEW c \in Chan, Query(c) PROVE Goal
  <2> DEFINE Said(n) == Status(n, heard[c][n], DOMAIN conf.userlist)
  <2>1. /\ pc[c] = "inside" /\ pc' = pc /\ Unlocked(c)
        /\ \A d \in Chan : d # c => heard'[d] = heard[d]
        /\ \A n \in Number : heard'[c][n] = Said(n)
    <3>1. PICK walk :
              /\ heard' = [heard EXCEPT ![c] = [n \in Number |-> Status(n, heard[c][n], walk)]]
              /\ Torn(walk)
      BY <1>28 DEF Query
    <3>2. walk = DOMAIN conf.userlist
      BY <3>1, Zenon DEF Torn
    <3> QED BY <1>0, <1>28, <3>1, <3>2 DEF Query
  <2>2. \A d \in Chan : pc[d] # "leaving"
    BY <1>b, <2>1, StateCtlAssumption DEF Unlocked
  <2>4. ASSUME NEW n \in Number, NEW e \in Chan, num[e] = n, pc[e] = "inside"
        PROVE  Said(n) = "in"
    <3> DEFINE of == {i \in DOMAIN conf.userlist : conf.userlist[i].cid = n}
    <3>1. PICK i \in Actives : conf.userlist[i].chan = e /\ conf.userlist[i].cid = n
      BY <2>4, ListenersAreMembers DEF Joined
    <3>2. i \in of /\ conf.userlist[i].active
      BY <3>1 DEF Actives
    <3>3. ASSUME NEW j \in of, j >= i PROVE conf.userlist[j].active
      <4>1. SUFFICES ASSUME ~conf.userlist[j].active, i < j PROVE FALSE
        BY <3>2, <3>3, ListType
      <4>2. pc[conf.userlist[j].chan] = "leaving" /\ conf.userlist[j].chan \in Chan
        BY <3>2, <4>1, ListType DEF Leavers, User
      <4> QED BY <2>2, <4>2
    <3> QED BY <3>2, <3>3 DEF Status
  <2>5. ASSUME NEW n \in Number, Said(n) = "in"
        PROVE  \E e \in Chan : num[e] = n /\ pc[e] \in Joined \cup {"leaving"}
    <3> DEFINE of == {i \in DOMAIN conf.userlist : conf.userlist[i].cid = n}
    <3>1. CASE of = {}
      <4>1. heard[c][n] = "in"
        BY <2>5, <3>1 DEF Status
      <4> QED BY <2>1, <4>1 DEF Statuses, Listening
    <3>2. CASE of # {}
      <4>1. PICK i \in of : \A j \in of : j >= i => conf.userlist[j].active
        BY <2>5, <3>2 DEF Status
      <4>2. i \in Actives /\ conf.userlist[i].cid = n
        BY <4>1, ListType DEF Actives
      <4> QED BY <4>2, ActivesAreMembers
    <3> QED BY <3>1, <3>2
  <2>6. ASSUME NEW d \in Chan, NEW n \in Number, pc'[d] \in Listening
        PROVE  /\ heard'[d][n] = "out" => \A e \in Chan \ Quiet : num[e] = n => pc'[e] # "inside"
               /\ heard'[d][n] = "in" =>
                      \E e \in Chan : num[e] = n /\ pc'[e] \in Joined \cup {"leaving"}
    <3>1. CASE d = c
      BY <2>1, <2>4, <2>5, <3>1
    <3>2. CASE d # c
      BY <2>1, <2>6, <3>2 DEF Statuses
    <3> QED BY <3>1, <3>2
  <2> QED BY <2>6 DEF Statuses, Goal
<1>29. ASSUME NEW c \in Chan, JoinLock(c) PROVE Goal
  <2>1. pc[c] = "join" /\ pc' = [pc EXCEPT ![c] = "scan"] /\ heard' = heard
    BY <1>29 DEF JoinLock, Goto
  <2>2. Silent("join", "scan")
    BY DEF Silent, Joined, Listening
  <2> QED BY <2>1, <2>2, StatusesKept DEF Goal
<1>30. ASSUME NEW c \in Chan, HalfText(c) PROVE Goal
  BY <1>30, StatusesKept DEF HalfText, Goal
<1> QED
  BY <1>1, <1>2, <1>3, <1>4, <1>5, <1>6, <1>7, <1>8, <1>9, <1>10, <1>11, <1>12, <1>13,
     <1>14, <1>15, <1>16, <1>17, <1>18, <1>19, <1>20, <1>21, <1>22, <1>23, <1>24, <1>25,
     <1>26, <1>27, <1>28, <1>29, <1>30
  DEF Next, Work, Goal

-----------------------------------------------------------------------------
(* The counters *)

\* There are as many entries as calls that have one, and as many active ones as members.
LEMMA Sizes ==
    ASSUME TypeOK, References, Entries, ~overlapped
    PROVE  /\ IsFiniteSet(In) /\ Cardinality(In) \in Nat /\ Cardinality(Actives) = Cardinality(In)
           /\ IsFiniteSet(Kept) /\ Cardinality(Kept) \in Nat
           /\ Len(conf.userlist) = Cardinality(Kept)
<1> DEFINE n == Len(conf.userlist)
           f == [i \in 1 .. n |-> conf.userlist[i].chan]
           g == [i \in Actives |-> conf.userlist[i].chan]
<1>1. /\ n \in Nat /\ DOMAIN conf.userlist = 1 .. n
      /\ \A i \in 1 .. n : conf.userlist[i].chan \in Chan
  BY ListType DEF User
<1>2. f \in Bijection(1 .. n, Kept)
  <2>1. f \in [1 .. n -> Kept]
    BY <1>1 DEF Kept, Listed
  <2>2. \A i, j \in 1 .. n : f[i] = f[j] => i = j
    BY <1>1 DEF Entries
  <2>3. \A c \in Kept : \E i \in 1 .. n : f[i] = c
    BY <1>1 DEF Kept, Listed
  <2> QED BY <2>1, <2>2, <2>3 DEF Bijection, Injection, IsInjective, Surjection
<1>3. IsFiniteSet(1 .. n) /\ Cardinality(1 .. n) = n
  BY <1>1, FS_Interval
<1>4. IsFiniteSet(Kept) /\ Cardinality(Kept) = n
  BY <1>2, <1>3, FS_Bijection DEF ExistsBijection
<1>5. g \in Bijection(Actives, In)
  <2>1. g \in [Actives -> In]
    BY <1>1 DEF Actives, In, Entries
  <2>2. \A i, j \in Actives : g[i] = g[j] => i = j
    BY <1>1 DEF Entries, Actives
  <2>3. ASSUME NEW c \in In PROVE \E i \in Actives : g[i] = c
    <3>1. PICK i \in 1 .. n : conf.userlist[i].chan = c
      BY <1>1 DEF In, Entries, Listed, Spoilt
    <3>2. i \in Actives
      BY <1>1, <3>1 DEF In, Entries, Actives
    <3> QED BY <3>1, <3>2
  <2> QED BY <2>1, <2>2, <2>3 DEF Bijection, Injection, IsInjective, Surjection
<1>6. Actives \subseteq 1 .. n
  BY <1>1 DEF Actives
<1>7. IsFiniteSet(Actives)
  BY <1>3, <1>6, FS_Subset
<1>8. IsFiniteSet(In) /\ Cardinality(In) = Cardinality(Actives)
  BY <1>5, <1>7, FS_Bijection DEF ExistsBijection
<1> QED BY <1>1, <1>4, <1>8, FS_CardinalityType

\* Moves that are no matter of counting
Uncounted(x, l) ==
    /\ x \in {"stray"} \cup Joined <=> l \in {"stray"} \cup Joined
    /\ {x, l} \cap {"fill", "leaving"} = {}

\* A list with the same entries, and such a move
LEMMA CountsKept ==
    ASSUME TypeOK, Counts, Alive, ~overlapped, NEW c, NEW l, SameEntries(conf'.userlist),
           conf'.users = conf.users, conf'.user_count = conf.user_count,
           pc' = pc \/ (pc' = [pc EXCEPT ![c] = l] /\ Uncounted(pc[c], l))
    PROVE  Counts'
<1>1. \A d \in Chan : Listed(d)' <=> Listed(d)
  <2>1. /\ DOMAIN conf.userlist = 1 .. Len(conf.userlist)
        /\ DOMAIN conf'.userlist = 1 .. Len(conf.userlist)
    BY ListType DEF SameEntries
  <2>2. \A i \in 1 .. Len(conf.userlist) : conf'.userlist[i].chan = conf.userlist[i].chan
    BY Zenon DEF SameEntries
  <2> QED BY <2>1, <2>2, Zenon DEF Listed
<1>2. \A d \in Chan : /\ pc'[d] \in {"stray"} \cup Joined <=> pc[d] \in {"stray"} \cup Joined
                      /\ pc'[d] = "fill" <=> pc[d] = "fill"
                      /\ pc'[d] = "leaving" <=> pc[d] = "leaving"
  <2>1. CASE pc' = pc
    BY <2>1
  <2>2. CASE pc' = [pc EXCEPT ![c] = l] /\ Uncounted(pc[c], l)
    <3>1. \A d \in Chan : pc'[d] = IF d = c THEN l ELSE pc[d]
      BY <2>2 DEF TypeOK
    <3> QED BY <2>2, <3>1 DEF Uncounted
  <2> QED BY <2>1, <2>2
<1>3. In' = In /\ Kept' = Kept /\ (Filling' <=> Filling) /\ (Leaving' <=> Leaving)
  BY <1>1, <1>2 DEF In, Kept, Filling, Leaving
<1> QED BY <1>1, <1>2, <1>3 DEF Counts

\* Without a conference no call is counted, and the counters start again.
LEMMA CountsReset ==
    ASSUME TypeOK', References', ~Exists'
    PROVE  Counts'
<1>0. conf' = NoConference
      /\ \A d \in Chan : pc'[d] \notin {"stray", "fill", "leaving"} \cup Joined
  BY NothingHeld DEF Holding, Joined
<1>1. conf'.users = 0 /\ conf'.user_count = 0 /\ conf'.userlist = <<>>
  BY <1>0 DEF NoConference
<1>2. In' = {} /\ Kept' = {} /\ ~Filling' /\ ~Leaving'
  BY <1>0, <1>1 DEF In, Kept, Listed, Filling, Leaving
<1>3. \A d \in Chan : pc'[d] # "leaving"
  BY <1>0
<1> QED BY <1>1, <1>2, <1>3, FS_EmptySet DEF Counts

\* Without an overlap, no update of a counter is lost.
LEMMA Exactly ==
    ASSUME NEW n \in Int, NEW delta \in Int, NEW race \in BOOLEAN, ~race,
           NEW m \in Counted(n, delta, race)
    PROVE  m = n + delta
BY DEF Counted

\* Every step keeps the counters exact, or marks the overlap.
LEMMA CountsStep ==
    ASSUME IInv, [Next]_vars, TypeOK', References', Locks', Entries', Numbers'
    PROVE  Counts'
<1>d. SUFFICES ASSUME Alive', Exists', ~overlapped'
               PROVE  Counts'
  BY CountsReset DEF Counts
<1> DEFINE Goal == Counts'
<1>0. /\ TypeOK /\ References /\ Locks /\ Overlaps /\ Entries /\ Numbers /\ Counts
      /\ pc \in [Chan -> Labels] /\ conf \in Conference /\ conf.refcount \in Nat
      /\ Nobody \notin Chan
      /\ conf.userlist \in Seq(User) /\ Len(conf.userlist) \in Nat
      /\ DOMAIN conf.userlist = 1 .. Len(conf.userlist)
      /\ \A i \in DOMAIN conf.userlist : conf.userlist[i] \in User
  BY ListType, StateCtlAssumption DEF IInv, TypeOK
<1>e. ~overlapped
  BY <1>0, <1>d, SpoiltKept
<1>f. Alive /\ \A d \in Chan : pc'[d] \notin {"crashed", "stray", "broken"}
  BY <1>d, NextAlive DEF Alive, vars
<1>a. \A list : list = conf.userlist => SameEntries(list)
  BY <1>0 DEF SameEntries
<1>b. /\ \A d \in Chan : pc[d] \in {"ask", "leaving"} => confs = d
      /\ \A d \in Chan : pc[d] \in {"scan", "insert", "fill", "play", "tell"} => playlock = d
  BY <1>0 DEF Locks
<1>c. /\ IsFiniteSet(In) /\ Cardinality(In) \in Nat
      /\ IsFiniteSet(Kept) /\ Cardinality(Kept) \in Nat
      /\ conf.users \in Int /\ conf.user_count \in Int
      /\ Leaving \in BOOLEAN /\ Joining \in BOOLEAN
      /\ ~(Leaving /\ Joining)
      /\ conf.users = Cardinality(In) + (IF Leaving THEN 1 ELSE 0)
      /\ conf.user_count = Cardinality(Kept) - (IF Filling THEN 1 ELSE 0)
      /\ \A d \in Chan : pc[d] = "leaving" => Listed(d)
  <2>1. Leaving \in BOOLEAN /\ Joining \in BOOLEAN /\ ~(Leaving /\ Joining)
    BY <1>0, <1>e DEF Leaving, Joining, Overlaps
  <2>2. conf.users \in Int /\ conf.user_count \in Int
    BY <1>0, ListType
  <2>3. /\ IsFiniteSet(In) /\ Cardinality(In) \in Nat
        /\ IsFiniteSet(Kept) /\ Cardinality(Kept) \in Nat
    BY <1>0, <1>e, Sizes
  <2> QED BY <1>0, <1>e, <1>f, <2>1, <2>2, <2>3 DEF Counts
<1>g. ASSUME NEW c \in Chan, NEW l, pc' = [pc EXCEPT ![c] = l], Uncounted(pc[c], l),
             SameEntries(conf'.userlist),
             conf'.users = conf.users, conf'.user_count = conf.user_count
      PROVE  Goal
  BY <1>0, <1>e, <1>f, <1>g, CountsKept DEF Goal
<1> HIDE DEF Goal
<1>1. ASSUME NEW c \in Chan, Call(c) PROVE Goal
  <2>1. /\ pc[c] = "idle" /\ pc' = [pc EXCEPT ![c] = "find"]
        /\ conf' = conf
    BY <1>1 DEF Call, Goto
  <2>2. Uncounted("idle", "find")
    BY DEF Uncounted, Joined
  <2> QED BY <1>a, <1>g, <2>1, <2>2
<1>2. ASSUME NEW c \in Chan, Build(c) PROVE Goal
  <2>1. /\ pc[c] = "build" /\ pc' = [pc EXCEPT ![c] = "ask"]
        /\ conf' = conf
    BY <1>2 DEF Build, Goto
  <2>2. Uncounted("build", "ask")
    BY DEF Uncounted, Joined
  <2> QED BY <1>a, <1>g, <2>1, <2>2
<1>3. ASSUME NEW c \in Chan, Refuse(c) PROVE Goal
  <2>1. /\ pc[c] = "admit" /\ pc' = [pc EXCEPT ![c] = "dispose"]
        /\ conf' = conf
    BY <1>3 DEF Refuse, Goto
  <2>2. Uncounted("admit", "dispose")
    BY DEF Uncounted, Joined
  <2> QED BY <1>a, <1>g, <2>1, <2>2
<1>4. ASSUME NEW c \in Chan, Enter(c) PROVE Goal
  <2>1. PICK l \in {"play", "tell"} :
            pc[c] = "enter" /\ pc' = [pc EXCEPT ![c] = l] /\ conf' = conf
    BY <1>4 DEF Enter, Goto
  <2>2. Uncounted("enter", l)
    BY DEF Uncounted, Joined
  <2> QED BY <1>a, <1>g, <2>1, <2>2
<1>5. ASSUME NEW c \in Chan, Play(c) PROVE Goal
  <2>1. /\ pc[c] = "play" /\ pc' = [pc EXCEPT ![c] = "tell"]
        /\ conf' = conf
    BY <1>5 DEF Play, Goto
  <2>2. Uncounted("play", "tell")
    BY DEF Uncounted, Joined
  <2> QED BY <1>a, <1>g, <2>1, <2>2
<1>6. ASSUME NEW c \in Chan, Tell(c) PROVE Goal
  <2>1. /\ pc[c] = "tell" /\ pc' = [pc EXCEPT ![c] = "inside"]
        /\ conf' = conf
    BY <1>0, <1>6, <1>f DEF Tell, Goto
  <2>2. Uncounted("tell", "inside")
    BY DEF Uncounted, Joined
  <2> QED BY <1>a, <1>g, <2>1, <2>2
<1>7. ASSUME NEW c \in Chan, HangUp(c) PROVE Goal
  <2>1. /\ pc[c] = "inside" /\ pc' = [pc EXCEPT ![c] = "leave"]
        /\ conf' = conf
    BY <1>7 DEF HangUp, Goto
  <2>2. Uncounted("inside", "leave")
    BY DEF Uncounted, Joined
  <2> QED BY <1>a, <1>g, <2>1, <2>2
<1>8. ASSUME NEW c \in Chan, Kicked(c) PROVE Goal
  <2>1. /\ pc[c] = "inside" /\ pc' = [pc EXCEPT ![c] = "leave"]
        /\ conf' = conf
    BY <1>8 DEF Kicked, Goto
  <2>2. Uncounted("inside", "leave")
    BY DEF Uncounted, Joined
  <2> QED BY <1>a, <1>g, <2>1, <2>2
<1>9. ASSUME NEW c \in Chan, NotConfigured(c) PROVE Goal
  <2>1. PICK l \in {"find", "gone"} :
            /\ pc[c] = "build" /\ pc' = [pc EXCEPT ![c] = l]
            /\ conf' = conf
    BY <1>9 DEF NotConfigured, Goto, Failed
  <2>2. Uncounted("build", l)
    BY <2>1 DEF Uncounted, Joined
  <2> QED BY <1>a, <1>g, <2>1, <2>2
<1>10. ASSUME NEW c \in Chan, NoAnswer(c) PROVE Goal
  <2>1. PICK l \in {"find", "gone"} :
            /\ pc[c] = "ask" /\ pc' = [pc EXCEPT ![c] = l]
            /\ conf' = conf
    BY <1>10 DEF NoAnswer, Goto, Failed
  <2>2. Uncounted("ask", l)
    BY <2>1 DEF Uncounted, Joined
  <2> QED BY <1>a, <1>g, <2>1, <2>2
<1>11. ASSUME NEW c \in Chan, Admit(c) PROVE Goal
  <2>1. PICK l \in {"dispose", "join"} :
            /\ pc[c] = "admit" /\ pc' = [pc EXCEPT ![c] = l]
            /\ conf' = conf
    BY <1>11 DEF Admit, Goto
  <2>2. Uncounted("admit", l)
    BY <2>1 DEF Uncounted, Joined
  <2> QED BY <1>a, <1>g, <2>1, <2>2
<1>12. ASSUME NEW c \in Chan, Answered(c) PROVE Goal
  <2>1. /\ pc[c] = "ask" /\ pc' = [pc EXCEPT ![c] = "admit"]
        /\ conf'.userlist = conf.userlist /\ conf'.users = conf.users
        /\ conf'.user_count = conf.user_count
    BY <1>0, <1>12 DEF Answered, Goto, Has, Locks, References, NoConference
  <2>2. Uncounted("ask", "admit")
    BY DEF Uncounted, Joined
  <2> QED BY <1>a, <1>g, <2>1, <2>2
<1>13. ASSUME NEW c \in Chan, Find(c), Exists PROVE Goal
  <2>1. /\ pc[c] = "find" /\ pc' = [pc EXCEPT ![c] = "admit"]
        /\ conf' = Referenced(conf)
    BY <1>13 DEF Find, Has, Goto
  <2>2. /\ conf'.userlist = conf.userlist /\ conf'.users = conf.users
        /\ conf'.user_count = conf.user_count
    BY <1>0, <2>1, Referencing
  <2>3. Uncounted("find", "admit")
    BY DEF Uncounted, Joined
  <2> QED BY <1>a, <1>g, <2>1, <2>2, <2>3
<1>14. ASSUME NEW c \in Chan, BuildFound(c) PROVE Goal
  <2>1. /\ pc[c] = "build" /\ pc' = [pc EXCEPT ![c] = "admit"]
        /\ conf' = Referenced(conf)
    BY <1>14 DEF BuildFound, Has, Goto
  <2>2. /\ conf'.userlist = conf.userlist /\ conf'.users = conf.users
        /\ conf'.user_count = conf.user_count
    BY <1>0, <2>1, Referencing
  <2>3. Uncounted("build", "admit")
    BY DEF Uncounted, Joined
  <2> QED BY <1>a, <1>g, <2>1, <2>2, <2>3
<1>15. ASSUME NEW c \in Chan, Find(c), ~Exists PROVE Goal
  <2>1. /\ pc[c] = "find" /\ pc' = [pc EXCEPT ![c] = "build"]
        /\ conf' = conf
    BY <1>15 DEF Find, Goto
  <2>2. Uncounted("find", "build")
    BY DEF Uncounted, Joined
  <2> QED BY <1>a, <1>g, <2>1, <2>2
<1>16. ASSUME NEW c \in Chan, NEW m \in Number, Mute(c, m) PROVE Goal
  <2>1. pc' = pc /\ conf' = conf
    <3>1. pc' # [pc EXCEPT ![c] = "stray"]
      BY <1>0, <1>f
    <3> QED BY <1>16, <3>1 DEF Mute, Goto
  <2> QED BY <1>0, <1>a, <1>e, <1>f, <2>1, CountsKept DEF Goal
<1>17. ASSUME NEW c \in Chan, Query(c) PROVE Goal
  BY <1>0, <1>a, <1>e, <1>f, <1>17, CountsKept DEF Query, Goal
<1>18. ASSUME NEW c \in Chan, KickAll(c) PROVE Goal
  BY <1>0, <1>e, <1>f, <1>18, Flagging, CountsKept DEF KickAll, Goal
<1>19. ASSUME NEW c \in Chan, NEW m \in Number, Kick(c, m) PROVE Goal
  BY <1>0, <1>e, <1>f, <1>19, Flagging, CountsKept DEF Kick, Goal
<1>20. ASSUME AdminKickAll PROVE Goal
  <2>1. PICK which : conf' = Referenced(Flagged(which))
    BY <1>20 DEF AdminKickAll
  <2>2. /\ SameEntries(conf'.userlist) /\ conf'.users = conf.users
        /\ conf'.user_count = conf.user_count
    BY <1>0, <2>1, Flagging, Referencing
  <2> QED BY <1>0, <1>e, <1>f, <1>20, <2>2, CountsKept DEF AdminKickAll, Goal
<1>21. ASSUME AdminKick PROVE Goal
  <2>1. PICK which : conf' = Referenced(Flagged(which))
    BY <1>21 DEF AdminKick
  <2>2. /\ SameEntries(conf'.userlist) /\ conf'.users = conf.users
        /\ conf'.user_count = conf.user_count
    BY <1>0, <2>1, Flagging, Referencing
  <2> QED BY <1>0, <1>e, <1>f, <1>21, <2>2, CountsKept DEF AdminKick, Goal
<1>22. ASSUME NEW c \in Chan, Dispose(c) PROVE Goal
  <2>1. /\ conf.refcount > 0 /\ pc[c] = "dispose" /\ pc' = [pc EXCEPT ![c] = "gone"]
        /\ conf' = Disposed(conf)
    BY <1>0, <1>22, HoldersFind DEF Dispose, Goto, Holding, Exists
  <2>2. conf.refcount # 1
    BY <1>0, <1>d, <2>1, Disposing DEF NoConference, Exists
  <2>3. /\ conf'.userlist = conf.userlist /\ conf'.users = conf.users
        /\ conf'.user_count = conf.user_count
    BY <1>0, <2>1, <2>2, Disposing
  <2>4. Uncounted("dispose", "gone")
    BY DEF Uncounted, Joined
  <2> QED BY <1>a, <1>g, <2>1, <2>3, <2>4
<1>23. ASSUME AdminDone PROVE Goal
  <2>1. conf.refcount > 0 /\ pc' = pc /\ conf' = Disposed(conf)
    BY <1>0, <1>23, HoldersFind DEF AdminDone, Exists
  <2>2. conf.refcount # 1
    BY <1>0, <1>d, <2>1, Disposing DEF NoConference, Exists
  <2>3. /\ conf'.userlist = conf.userlist /\ conf'.users = conf.users
        /\ conf'.user_count = conf.user_count
    BY <1>0, <2>1, <2>2, Disposing
  <2> QED BY <1>0, <1>a, <1>e, <1>f, <2>1, <2>3, CountsKept DEF Goal
<1>32. ASSUME NEW c \in Chan, HalfText(c) PROVE Goal
  BY <1>0, <1>a, <1>e, <1>f, <1>32, CountsKept DEF HalfText, Goal
<1>24. ASSUME NEW c \in Chan, JoinLock(c) PROVE Goal
  <2>1. pc[c] = "join" /\ pc' = [pc EXCEPT ![c] = "scan"] /\ conf' = conf
    BY <1>24 DEF JoinLock, Goto
  <2>2. Uncounted("join", "scan")
    BY DEF Uncounted, Joined
  <2> QED BY <1>a, <1>g, <2>1, <2>2
<1>25. ASSUME NEW c \in Chan, JoinScan(c) PROVE Goal
  <2> DEFINE list == conf'.userlist
  <2>1. /\ pc[c] = "scan" /\ \A d \in Chan : pc'[d] = IF d = c THEN "insert" ELSE pc[d]
        /\ ~Leaving
    <3>1. pc' # [pc EXCEPT ![c] = "crashed"]
      BY <1>0, <1>f
    <3>2. pc[c] = "scan" /\ pc' = [pc EXCEPT ![c] = "insert"]
      BY <1>25, <3>1 DEF JoinScan, Goto
    <3>3. Joining
      BY <3>2 DEF Joining
    <3> QED BY <1>0, <1>c, <3>2, <3>3
  <2>2. /\ list \in Purged(num[c]) /\ conf'.users = conf.users
        /\ conf'.user_count = IF Absent(num[c]) = {} THEN conf.user_count
                                                     ELSE conf.user_count - 1
    <3>1. pc'[c] = "insert"
      BY <2>1
    <3>2. /\ list \in Purged(num[c]) /\ conf'.users = conf.users
          /\ conf'.user_count \in CountPurged(num[c])
      BY <1>0, <1>25, <3>1, Scanned
    <3> QED BY <1>c, <2>1, <3>2 DEF CountPurged, Counted
  <2>3. In' = In /\ ~Filling /\ ~Filling' /\ ~Leaving'
    BY <1>0, <1>b, <2>1 DEF In, Filling, Leaving, Joined
  <2>4. /\ conf.users = Cardinality(In) /\ conf.user_count = Cardinality(Kept)
    BY <1>c, <2>1, <2>3
  <2>5. conf'.user_count = Cardinality(Kept') /\ Cardinality(Kept') \in Int
    <3>1. CASE list = conf.userlist /\ Absent(num[c]) = {}
      <4>1. Kept' = Kept
        BY <3>1 DEF Kept, Listed
      <4> QED BY <1>c, <2>2, <2>4, <3>1, <4>1
    <3>2. CASE \E i \in Absent(num[c]) : list = RemoveAt(conf.userlist, i)
      <4>1. PICK i \in Absent(num[c]) : list = RemoveAt(conf.userlist, i)
        BY <3>2
      <4>2. i \in DOMAIN conf.userlist /\ Without(list, i)
        BY <1>0, <4>1, Removed DEF Absent
      <4> DEFINE d == conf.userlist[i].chan
      <4>3. d \in Kept
        BY <1>0, <4>2 DEF Kept, Listed, User
      <4>a. PICK short : short = list
        OBVIOUS
      <4>b. TypeOK /\ Without(short, i)
        BY <1>0, <4>2, <4>a
      <4>c. /\ \A k \in DOMAIN short : \E a \in DOMAIN conf.userlist :
                   short[k] = conf.userlist[a] /\ a # i
            /\ \A a \in DOMAIN conf.userlist : a # i =>
                   \E k \in DOMAIN short : short[k] = conf.userlist[a]
        BY <4>b, Shorter
      <4>4. Kept' = Kept \ {d}
        <5>1. ASSUME NEW x \in Chan, Listed(x)' PROVE Listed(x) /\ x # d
          <6>1. PICK k \in DOMAIN short : short[k].chan = x
            BY <4>a, <5>1 DEF Listed
          <6>2. PICK a \in DOMAIN conf.userlist : short[k] = conf.userlist[a] /\ a # i
            BY <4>c, <6>1
          <6>3. conf.userlist[a].chan = x
            BY <6>1, <6>2
          <6> QED BY <1>0, <4>2, <6>2, <6>3 DEF Listed, Entries
        <5>2. ASSUME NEW x \in Chan, Listed(x), x # d PROVE Listed(x)'
          <6>1. PICK a \in DOMAIN conf.userlist : conf.userlist[a].chan = x
            BY <5>2 DEF Listed
          <6>2. PICK k \in DOMAIN short : short[k] = conf.userlist[a]
            BY <4>c, <5>2, <6>1
          <6> QED BY <4>a, <6>1, <6>2 DEF Listed
        <5> QED BY <5>1, <5>2 DEF Kept
      <4> HIDE DEF d
      <4>5. Cardinality(Kept') = Cardinality(Kept) - 1
        BY <1>c, <4>3, <4>4, FS_RemoveElement
      <4>6. Absent(num[c]) # {}
        BY <4>1
      <4> QED BY <1>c, <2>2, <2>4, <4>5, <4>6
    <3> QED BY <1>0, <2>2, <3>1, <3>2, Purge
  <2>6. \A d \in Chan : pc'[d] # "leaving"
    BY <2>3 DEF Leaving
  <2> QED BY <1>c, <2>2, <2>3, <2>4, <2>5, <2>6 DEF Counts, Goal
<1>26. ASSUME NEW c \in Chan, JoinInsert(c) PROVE Goal
  <2> DEFINE list == conf'.userlist  k == Len(conf.userlist)
  <2>1. pc[c] = "insert" /\ Joining /\ ~Leaving /\ ~Removing
    <3>1. pc[c] = "insert" /\ Joining
      BY <1>26 DEF JoinInsert, Joining
    <3>2. ~Leaving
      BY <1>c, <3>1
    <3> QED BY <3>1, <3>2 DEF Leaving, Removing
  <2>2. Linked(c)
    <3>1. user_no > 0
      BY <1>0, <2>1 DEF Numbers
    <3> QED BY <1>0, <1>26, <2>1, <3>1, Inserted DEF Unlinked
  <2>3. /\ Len(list) = k + 1 /\ conf' \in Conference
        /\ \A i \in 1 .. k : list[i] = conf.userlist[i]
        /\ list[k + 1].chan = c
        /\ \A d \in Chan : pc'[d] = IF d = c THEN "fill" ELSE pc[d]
    BY <1>0, <2>2 DEF Linked, Goto
  <2>4. conf'.users = conf.users /\ conf'.user_count = conf.user_count
    BY <2>2 DEF Linked
  <2>5. k \in Nat /\ DOMAIN list = 1 .. k + 1 /\ DOMAIN conf.userlist = 1 .. k
    BY <1>0, <2>3 DEF Conference
  <2> HIDE DEF list, k
  <2>6. Kept' = Kept \cup {c} /\ c \notin Kept
    <3>1. \A x \in Chan : Listed(x)' <=> Listed(x) \/ x = c
      <4>1. \A x : (\E i \in 1 .. k + 1 : list[i].chan = x)
                      <=> (\E i \in 1 .. k : conf.userlist[i].chan = x) \/ x = c
        BY <2>3, <2>5
      <4> QED BY <2>5, <4>1 DEF Listed, list
    <3>2. ~Listed(c)
      BY <1>0, <2>1 DEF Listed, Entries, Joined
    <3> QED BY <3>1, <3>2 DEF Kept
  <2>7. Cardinality(Kept') = Cardinality(Kept) + 1
    BY <1>c, <2>6, FS_AddElement
  <2>8. In' = In /\ ~Filling /\ Filling' /\ ~Leaving'
    BY <1>b, <2>1, <2>3 DEF In, Filling, Leaving, Joined
  <2>9. \A d \in Chan : pc'[d] # "leaving"
    BY <2>8 DEF Leaving
  <2>10. conf.users = Cardinality(In) /\ conf.user_count = Cardinality(Kept)
    BY <1>c, <2>1, <2>8
  <2> QED BY <1>c, <2>4, <2>7, <2>8, <2>9, <2>10 DEF Counts, Goal
<1>27. ASSUME NEW c \in Chan, JoinFill(c) PROVE Goal
  <2>1. pc[c] = "fill" /\ \A d \in Chan : pc'[d] = IF d = c THEN "enter" ELSE pc[d]
    BY <1>0, <1>27 DEF JoinFill, Goto
  <2>2. Listed(c) /\ Filling /\ ~Leaving
    BY <1>0, <1>c, <1>e, <2>1 DEF Entries, Spoilt, Filling, Joining
  <2>3. conf'.users = conf.users + 1 /\ conf'.user_count = conf.user_count + 1
    <3>1. /\ conf'.users \in Counted(conf.users, 1, Leaving)
          /\ conf'.user_count \in Counted(conf.user_count, 1, Leaving)
      BY <1>0, <1>27, FilledIn
    <3> QED BY <1>c, <2>2, <3>1, Exactly
  <2>4. Kept' = Kept
    <3> DEFINE list == conf'.userlist
    <3>1. /\ conf' \in Conference /\ Len(list) = Len(conf.userlist)
      BY <1>0, <1>27, <2>2, FilledIn
    <3>3. ASSUME NEW i \in 1 .. Len(conf.userlist)
          PROVE  list[i].chan = conf.userlist[i].chan
      <4>1. CASE i = Entry(c)
        BY <1>0, <1>27, <2>2, <4>1, FilledIn, EntryOf
      <4>2. CASE i # Entry(c)
        BY <1>0, <1>27, <2>2, <4>2, FilledIn
      <4> QED BY <4>1, <4>2
    <3>2. DOMAIN list = DOMAIN conf.userlist
      BY <1>0, <3>1 DEF Conference
    <3> QED BY <1>0, <3>1, <3>2, <3>3 DEF Kept, Listed
  <2>5. In' = In \cup {c} /\ c \notin In
    BY <2>1 DEF In, Joined
  <2>6. Cardinality(In') = Cardinality(In) + 1
    BY <1>c, <2>5, FS_AddElement
  <2>7. ~Filling' /\ ~Leaving' /\ \A d \in Chan : pc'[d] # "leaving"
    BY <1>b, <2>1, <2>2 DEF Filling, Leaving
  <2>8. conf.users = Cardinality(In) /\ conf.user_count = Cardinality(Kept) - 1
    BY <1>c, <2>2
  <2> QED BY <1>c, <2>3, <2>4, <2>6, <2>7, <2>8 DEF Counts, Goal
<1>28. ASSUME NEW c \in Chan, LeaveMark(c) PROVE Goal
  <2>1. /\ pc[c] = "leave" /\ \A d \in Chan : pc'[d] = IF d = c THEN "leaving" ELSE pc[d]
        /\ Unlocked(c) /\ ~Joining
    BY <1>0, <1>d, <1>28 DEF LeaveMark, Goto
  <2>2. Listed(c)
    BY <1>0, <1>e, <2>1 DEF Entries, Spoilt, Joined
  <2>3. /\ conf'.users = conf.users /\ conf'.user_count = conf.user_count
        /\ Kept' = Kept /\ Listed(c)'
    <3> DEFINE list == conf'.userlist
    <3>a. /\ conf' \in Conference /\ Len(list) = Len(conf.userlist)
          /\ \A i \in 1 .. Len(conf.userlist) :
                 IF i = Entry(c) THEN list[i].chan = c ELSE list[i] = conf.userlist[i]
      BY <1>0, <1>28, <2>2, LeftMarked
    <3>b. conf.userlist[Entry(c)].chan = c
      BY <1>0, <2>2, EntryOf
    <3> HIDE DEF list
    <3>1. /\ conf' \in Conference /\ Len(list) = Len(conf.userlist)
          /\ \A i \in 1 .. Len(conf.userlist) : list[i].chan = conf.userlist[i].chan
      BY <3>a, <3>b
    <3>2. DOMAIN list = DOMAIN conf.userlist
      BY <1>0, <3>1 DEF Conference, list
    <3>3. conf'.users = conf.users /\ conf'.user_count = conf.user_count
      BY <1>0, <1>28, <2>2, LeftMarked
    <3>4. \A x \in Chan : Listed(x)' <=> Listed(x)
      <4>1. DOMAIN conf.userlist = 1 .. Len(conf.userlist)
        BY <1>0, ListType
      <4> QED BY <3>1, <3>2, <4>1, Zenon DEF Listed, list
    <3> QED BY <2>2, <3>3, <3>4 DEF Kept
  <2>4. In' = In \ {c} /\ c \in In
    BY <2>1 DEF In, Joined
  <2>5. Cardinality(In') = Cardinality(In) - 1
    BY <1>c, <2>4, FS_RemoveElement
  <2>6. ~Leaving /\ ~Filling
    BY <1>b, <1>0, <2>1 DEF Unlocked, Leaving, Filling, Joining
  <2>7. Leaving' /\ ~Filling' /\ \A d \in Chan : pc'[d] = "leaving" => d = c
    BY <2>1, <2>6 DEF Leaving, Filling
  <2>8. conf.users = Cardinality(In) /\ conf.user_count = Cardinality(Kept)
    BY <1>c, <2>6
  <2> QED BY <1>c, <2>3, <2>5, <2>7, <2>8 DEF Counts, Goal
<1>29. ASSUME NEW c \in Chan, LeaveStill(c) PROVE Goal
  <2>1. pc[c] = "leaving" /\ \A d \in Chan : pc'[d] = IF d = c THEN "dispose" ELSE pc[d]
    <3>1. pc' # [pc EXCEPT ![c] = "broken"]
      BY <1>0, <1>f
    <3> QED BY <1>0, <1>29, <3>1 DEF LeaveStill, Goto
  <2>2. Listed(c) /\ Leaving /\ ~Joining /\ ~Filling
    BY <1>c, <2>1 DEF Leaving, Joining, Filling
  <2>a. pc'[c] = "dispose"
    BY <2>1
  <2>3. conf'.users = conf.users - 1 /\ conf'.user_count = conf.user_count - 1
    BY <1>0, <1>c, <1>29, <2>a, <2>2, LeftStill, Exactly
  <2>4. Kept' = Kept \ {c} /\ c \in Kept
    <3> DEFINE list == conf'.userlist
    <3>1. /\ Entry(c) \in DOMAIN conf.userlist /\ conf.userlist[Entry(c)].chan = c
          /\ Without(list, Entry(c))
      BY <1>0, <1>29, <2>a, <2>2, LeftStill, EntryOf, Removed
    <3> HIDE DEF list
    <3>2. ASSUME NEW x \in Chan, Listed(x)' PROVE Listed(x) /\ x # c
      <4>1. PICK k \in DOMAIN list : list[k].chan = x
        BY <3>2 DEF Listed, list
      <4>2. PICK a \in DOMAIN conf.userlist : list[k] = conf.userlist[a] /\ a # Entry(c)
        BY <1>0, <3>1, Shorter
      <4> QED BY <1>0, <3>1, <4>1, <4>2 DEF Listed, Entries
    <3>3. ASSUME NEW x \in Chan, Listed(x), x # c PROVE Listed(x)'
      BY <1>0, <3>1, <3>3, Shorter DEF Listed, list
    <3> QED BY <2>2, <3>2, <3>3 DEF Kept
  <2>5. Cardinality(Kept') = Cardinality(Kept) - 1
    BY <1>c, <2>4, FS_RemoveElement
  <2>6. In' = In /\ ~Filling' /\ ~Leaving' /\ \A d \in Chan : pc'[d] # "leaving"
    BY <1>b, <2>1, <2>2 DEF In, Filling, Leaving, Joined
  <2>7. conf.users = Cardinality(In) + 1 /\ conf.user_count = Cardinality(Kept)
    BY <1>c, <2>2
  <2> QED BY <1>c, <2>3, <2>5, <2>6, <2>7 DEF Counts, Goal
<1>30. ASSUME NEW c \in Chan, LeaveLast(c) PROVE Goal
  <2>1. pc[c] = "leaving" /\ \A d \in Chan : pc'[d] = IF d = c THEN "dispose" ELSE pc[d]
    BY <1>0, <1>30 DEF LeaveLast, Goto
  <2>2. Leaving /\ ~Joining /\ ~Filling
    BY <1>c, <2>1 DEF Leaving, Joining, Filling
  <2>3. conf'.users = conf.users - 1
    BY <1>0, <1>c, <1>30, <2>2, LeftLast, Exactly
  <2>4. Kept' = Kept /\ conf'.user_count = conf.user_count
    BY <1>0, <1>30, LeftLast DEF Kept, Listed
  <2>5. In' = In /\ ~Filling' /\ ~Leaving' /\ \A d \in Chan : pc'[d] # "leaving"
    BY <1>b, <2>1, <2>2 DEF In, Filling, Leaving, Joined
  <2>6. conf.users = Cardinality(In) + 1 /\ conf.user_count = Cardinality(Kept)
    BY <1>c, <2>2
  <2> QED BY <1>c, <2>3, <2>4, <2>5, <2>6 DEF Counts, Goal
<1>31. ASSUME UNCHANGED vars PROVE Goal
  BY <1>0, <1>a, <1>e, <1>f, <1>31, CountsKept DEF vars, Goal
<1> QED
  BY <1>1, <1>2, <1>3, <1>4, <1>5, <1>6, <1>7, <1>8, <1>9, <1>10, <1>11, <1>12, <1>13,
     <1>14, <1>15, <1>16, <1>17, <1>18, <1>19, <1>20, <1>21, <1>22, <1>23, <1>24, <1>25,
     <1>26, <1>27, <1>28, <1>29, <1>30, <1>31, <1>32
  DEF Next, Work, Goal

-----------------------------------------------------------------------------
(* The invariant *)

\* No call has been made, and there is no conference.
LEMMA InitInv == Init => IInv
<1> SUFFICES ASSUME Init PROVE IInv
  OBVIOUS
<1> USE StateCtlAssumption
<1>1. NoConference \in Conference
  BY DEF NoConference, Conference
<1>2. TypeOK
  BY <1>1 DEF Init, TypeOK, Labels, Nothing
<1>3. /\ \A c \in Chan : pc[c] = "idle" /\ heard[c] = Nothing
      /\ conf.userlist = <<>> /\ conf.refcount = 0 /\ DOMAIN conf.userlist = {}
      /\ request = NoSession /\ admin = "idle" /\ leaked = Nobody /\ ~overlapped
  BY DEF Init, NoConference
<1>4. Holders = {}
  BY <1>3 DEF Holders, Holding
<1>5. References
  BY <1>3, <1>4, FS_EmptySet DEF References, Init
<1>6. Locks
  BY <1>3 DEF Locks, Exists
<1>7. Entries /\ Numbers
  BY <1>3 DEF Entries, Numbers, Joined
<1>8. CrashIsExplained
  BY <1>3 DEF CrashIsExplained
<1>9. Leavers /\ Statuses /\ Deaf
  BY <1>3 DEF Leavers, Statuses, Deaf, Listening
<1>10. Counts
  <2>1. In = {} /\ Kept = {} /\ ~Filling /\ ~Leaving
    BY <1>3 DEF In, Kept, Listed, Filling, Leaving, Joined
  <2>2. conf.users = 0 /\ conf.user_count = 0
    BY DEF Init, NoConference
  <2> QED BY <1>3, <2>1, <2>2, FS_EmptySet DEF Counts
<1>11. Overlaps
  BY <1>3 DEF Overlaps, Joining, Leaving
<1> QED BY <1>2, <1>5, <1>6, <1>7, <1>8, <1>9, <1>10, <1>11 DEF IInv

\* Every step keeps the invariant.
LEMMA NextInv == IInv /\ [Next]_vars => IInv'
<1> SUFFICES ASSUME IInv, [Next]_vars PROVE IInv'
  OBVIOUS
<1>1. /\ TypeOK /\ References /\ Locks /\ Overlaps /\ Entries /\ Numbers
      /\ CrashIsExplained
  BY DEF IInv
<1>2. /\ TypeOK' /\ References' /\ Locks' /\ Overlaps' /\ Entries' /\ Numbers'
      /\ CrashIsExplained'
  BY <1>1, TypeStep, ReferencesStep, LocksStep, OverlapsStep, EntriesStep, CrashStep
<1>3. Alive' => Alive
  BY NextAlive DEF Alive, vars
<1>4. ASSUME Alive' PROVE Deaf'
  <2>1. Alive /\ Deaf
    BY <1>3, <1>4 DEF IInv
  <2>2. CASE Next
    BY <1>1, <1>4, <2>1, <2>2, DeafStep
  <2>3. CASE UNCHANGED vars
    BY <2>1, <2>3 DEF vars, Deaf
  <2> QED BY <2>2, <2>3
<1>5. ASSUME Alive', ~torn' PROVE Leavers' /\ Statuses'
  <2>1. CASE ~Exists'
    <3>1. conf'.userlist = <<>> /\ \A d \in Chan : pc'[d] \notin Holding
      BY <1>2, <2>1, NothingHeld DEF NoConference
    <3>2. \A d \in Chan : pc'[d] # "leaving" /\ pc'[d] \notin Listening
      BY <3>1 DEF Holding, Listening
    <3> QED BY <3>1, <3>2 DEF Leavers, Statuses
  <2>2. CASE Exists'
    <3>1. Alive /\ ~torn /\ Deaf /\ Leavers /\ Statuses
      BY <1>1, <1>3, <1>5, <2>2, SpoiltKept DEF IInv
    <3>2. CASE Next
      BY <1>1, <1>5, <3>1, <3>2, LeaversStep, StatusesStep
    <3>3. CASE UNCHANGED vars
      <4>1. UNCHANGED <<pc, conf, still, heard>>
        BY <3>3 DEF vars
      <4>2. Leavers'
        BY <3>1, <4>1 DEF Leavers
      <4> QED BY <3>1, <4>1, <4>2 DEF Statuses
    <3> QED BY <3>2, <3>3
  <2> QED BY <2>1, <2>2
<1>6. Counts'
  BY <1>2, CountsStep
<1> QED BY <1>2, <1>4, <1>5, <1>6 DEF IInv

\* What holds in every reachable state: who holds references and locks, what the entries
\* of the list say of their calls, and what members have been told.
THEOREM InductiveInvariant == Spec => []IInv
BY InitInv, NextInv, PTL DEF Spec

\* The variables have their types.
THEOREM TypeCorrect == Spec => []TypeOK
BY InductiveInvariant, PTL DEF IInv

\* No call and no console command uses a conference that has been freed.  A member has its
\* entry, unless an insertion has met a removal; and the entries marked as present, to which
\* a walk sends statuses, have the channels of calls.
THEOREM ConferenceStays == Spec => []ConferenceOutlivesItsCalls
<1>1. IInv => ConferenceOutlivesItsCalls
  <2> SUFFICES ASSUME IInv PROVE ConferenceOutlivesItsCalls
    OBVIOUS
  <2>1. TypeOK /\ References /\ Entries
    BY DEF IInv
  <2>2. ASSUME NEW c \in Chan, pc[c] \in Joined
        PROVE  (torn /\ overlapped) \/ \E i \in Actives : conf.userlist[i].chan = c
    <3>1. SUFFICES ASSUME ~(torn /\ overlapped)
                   PROVE  \E i \in Actives : conf.userlist[i].chan = c
      OBVIOUS
    <3>2. PICK i \in DOMAIN conf.userlist : conf.userlist[i].chan = c
      BY <2>1, <2>2, <3>1 DEF Entries, Listed, Spoilt
    <3> QED BY <2>1, <2>2, <3>2 DEF Entries, Actives, Joined
  <2>3. ASSUME NEW i \in Actives PROVE HasChannel(i)
    <3> DEFINE d == conf.userlist[i].chan
    <3>1. i \in DOMAIN conf.userlist /\ conf.userlist[i].active
      BY DEF Actives
    <3>2. d \in Chan /\ num[d] # NoNumber
      BY <2>1, <3>1, ListType, StateCtlAssumption DEF User
    <3>3. pc[d] \in {"stray"} \cup Joined /\ conf.userlist[i].cid = num[d]
      BY <2>1, <3>1 DEF Entries, Joined
    <3> QED BY <3>2, <3>3 DEF HasChannel, Joined
  <2> QED BY <2>1, <2>2, <2>3, HoldersFind DEF ConferenceOutlivesItsCalls
<1> QED BY <1>1, InductiveInvariant, PTL

\* Only the redial of a number whose call has just left, alone with the conference, meets
\* an empty list where it looks for the last user number; a member would have an entry,
\* unless that was lost.
THEOREM CrashExplained == Spec => []CrashIsExplained
<1>1. IInv => CrashIsExplained
  BY DEF IInv
<1> QED BY <1>1, InductiveInvariant, PTL

\* However joining and leaving interleave, the last status a member was told of a number
\* is the right one, as long as no removal has cut a walk short; of "out" this holds for
\* the calls that have an entrance sound.
THEOREM StatusRight == Spec => []LastStatusIsRight
<1>1. IInv => LastStatusIsRight
  BY DEF IInv, Statuses, LastStatusIsRight, Listening
<1> QED BY <1>1, InductiveInvariant, PTL

\* The counters are exact unless a joining and a leaving section have overlapped, and
\* user numbers are given out once, whatever has happened to the list.
THEOREM CountsRight == Spec => []UsersAreCounted
<1>1. IInv => UsersAreCounted
  <2> SUFFICES ASSUME IInv PROVE UsersAreCounted
    OBVIOUS
  <2>1. TypeOK /\ References /\ Entries /\ Numbers /\ Counts
    BY DEF IInv
  <2>2. ASSUME Alive, ~overlapped, ~Joining, ~Leaving
        PROVE  /\ conf.users = Cardinality(Actives)
               /\ conf.user_count = Len(conf.userlist)
    <3>1. ~Filling
      BY <2>2 DEF Filling, Joining
    <3> QED BY <2>1, <2>2, <3>1, Sizes DEF Counts
  <2> QED BY <2>1, <2>2 DEF UsersAreCounted, Numbers
<1> QED BY <1>1, InductiveInvariant, PTL

-----------------------------------------------------------------------------
(* Refinement *)

\* What the conference server is asked for depends on three things.
LEMMA SameServer ==
    ASSUME asked' = asked, request' = request, conf'.session = conf.session
    PROVE  UNCHANGED ServerOf
BY DEF ServerOf

\* A step that concerns one session.
LEMMA OneSession ==
    ASSUME NEW k \in Session, NEW x, ServerOf'[k] = x,
           \A s \in Session : s # k => ServerOf'[s] = ServerOf[s]
    PROVE  ServerOf' = [ServerOf EXCEPT ![k] = x]
<1> DEFINE old == ServerOf  new == ServerOf'
<1>1. /\ DOMAIN old = Session /\ DOMAIN new = Session
      /\ old = [s \in Session |-> old[s]] /\ new = [s \in Session |-> new[s]]
  BY DEF ServerOf
<1>2. new[k] = x /\ \A s \in Session : s # k => new[s] = old[s]
  OBVIOUS
<1> HIDE DEF old, new
<1>3. new = [old EXCEPT ![k] = x]
  BY <1>1, <1>2
<1> QED BY <1>3 DEF old, new

\* The last reference hangs up the room.
LEMMA LastReference ==
    ASSUME TypeOK, References, Locks, Exists, conf' = Disposed(conf),
           UNCHANGED <<asked, request>>
    PROVE  [Caller!Next]_ServerOf
<1>0. conf \in Conference /\ conf.refcount > 0
  BY DEF TypeOK, Exists
<1>1. CASE conf.refcount # 1
  BY <1>0, <1>1, Disposing, SameServer
<1>2. CASE conf.refcount = 1
  <2> DEFINE k == conf.session
  <2>1. k \in asked /\ k \in Session /\ request = NoSession
    BY DEF Locks, TypeOK
  <2>2. conf'.session = NoSession
    BY <1>0, <1>2, Disposing DEF NoConference
  <2>3. ServerOf[k] = "open" /\ ServerOf'[k] = "closed"
    BY <2>1, <2>2, StateCtlAssumption DEF ServerOf
  <2>4. ASSUME NEW s \in Session, s # k PROVE ServerOf'[s] = ServerOf[s]
    BY <2>1, <2>2, <2>4, StateCtlAssumption DEF ServerOf
  <2>5. Caller!HangUp(k)
    BY <2>1, <2>3, <2>4, OneSession DEF Caller!HangUp
  <2> QED BY <2>1, <2>5 DEF Caller!Next
<1> QED BY <1>1, <1>2

\* Every step is one of the call server that the conference server expects, or none.
LEMMA CallerStep ==
    ASSUME TypeOK, References, Locks, Entries, Numbers, [Next]_vars
    PROVE  [Caller!Next]_ServerOf
<1> DEFINE Goal == [Caller!Next]_ServerOf
<1>0. /\ conf \in Conference /\ asked \subseteq Session
      /\ request \in Session \cup {NoSession} /\ NoSession \notin Session
      /\ ~Exists => conf.session = NoSession
  BY StateCtlAssumption DEF TypeOK, References, NoConference
<1>a. asked' = asked /\ request' = request /\ conf'.session = conf.session => Goal
  BY SameServer
<1> HIDE DEF Goal
<1>1. ASSUME NEW c \in Chan, Call(c) PROVE Goal
  BY <1>a, <1>1 DEF Call
<1>2. ASSUME NEW c \in Chan, NotConfigured(c) PROVE Goal
  BY <1>a, <1>2 DEF NotConfigured
<1>3. ASSUME NEW c \in Chan, Refuse(c) PROVE Goal
  BY <1>a, <1>3 DEF Refuse
<1>4. ASSUME NEW c \in Chan, Admit(c) PROVE Goal
  BY <1>a, <1>4 DEF Admit
<1>5. ASSUME NEW c \in Chan, Enter(c) PROVE Goal
  BY <1>a, <1>5 DEF Enter
<1>6. ASSUME NEW c \in Chan, Play(c) PROVE Goal
  BY <1>a, <1>6 DEF Play
<1>7. ASSUME NEW c \in Chan, Tell(c) PROVE Goal
  BY <1>a, <1>7 DEF Tell
<1>8. ASSUME NEW c \in Chan, HangUp(c) PROVE Goal
  BY <1>a, <1>8 DEF HangUp
<1>9. ASSUME NEW c \in Chan, Kicked(c) PROVE Goal
  BY <1>a, <1>9 DEF Kicked
<1>10. ASSUME NEW c \in Chan, Query(c) PROVE Goal
  BY <1>a, <1>10 DEF Query
<1>11. ASSUME NEW c \in Chan, NEW m \in Number, Mute(c, m) PROVE Goal
  BY <1>a, <1>11 DEF Mute
<1>12. ASSUME NEW c \in Chan, Find(c) PROVE Goal
  BY <1>0, <1>a, <1>12, Referencing DEF Find
<1>13. ASSUME NEW c \in Chan, BuildFound(c) PROVE Goal
  BY <1>0, <1>a, <1>13, Referencing DEF BuildFound
<1>14. ASSUME NEW c \in Chan, JoinScan(c) PROVE Goal
  <2>1. conf' = conf \/ pc' = [pc EXCEPT ![c] = "insert"]
    BY <1>14 DEF JoinScan, Goto
  <2>2. conf'.session = conf.session
    BY <1>14, <2>1, Scanned DEF TypeOK
  <2> QED BY <1>a, <1>14, <2>2 DEF JoinScan
<1>15. ASSUME NEW c \in Chan, JoinInsert(c) PROVE Goal
  <2>1. user_no > 0
    BY <1>15 DEF JoinInsert, Numbers
  <2>2. conf'.session = conf.session
    BY <1>15, <2>1, Inserted DEF Linked, Unlinked
  <2> QED BY <1>a, <1>15, <2>2 DEF JoinInsert
<1>16. ASSUME NEW c \in Chan, JoinFill(c) PROVE Goal
  BY <1>a, <1>16, FilledIn DEF JoinFill
<1>17. ASSUME NEW c \in Chan, LeaveMark(c) PROVE Goal
  BY <1>a, <1>17, LeftMarked DEF LeaveMark
<1>18. ASSUME NEW c \in Chan, LeaveStill(c) PROVE Goal
  <2>1. conf'.session = conf.session
    BY <1>18, LeftStill, LeftBroken
  <2> QED BY <1>a, <1>18, <2>1 DEF LeaveStill
<1>19. ASSUME NEW c \in Chan, LeaveLast(c) PROVE Goal
  BY <1>a, <1>19, LeftLast DEF LeaveLast
<1>20. ASSUME NEW c \in Chan, KickAll(c) PROVE Goal
  BY <1>a, <1>20, Flagging DEF KickAll
<1>21. ASSUME NEW c \in Chan, NEW m \in Number, Kick(c, m) PROVE Goal
  BY <1>a, <1>21, Flagging DEF Kick
<1>22. ASSUME AdminKickAll PROVE Goal
  BY <1>a, <1>22, Flagging, Referencing DEF AdminKickAll
<1>23. ASSUME AdminKick PROVE Goal
  BY <1>a, <1>23, Flagging, Referencing DEF AdminKick
<1>24. ASSUME NEW c \in Chan, Build(c) PROVE Goal
  <2> DEFINE k == Fresh
  <2>1. k \in Session /\ k \notin asked
    BY <1>0, <1>24 DEF Build, Fresh
  <2>2. \A d \in Chan : pc[d] # "ask"
    <3>1. SUFFICES ASSUME NEW d \in Chan, pc[d] = "ask" PROVE FALSE
      OBVIOUS
    <3>2. confs = d /\ confs \in {Nobody, c} /\ pc[c] = "build"
      BY <1>24, <3>1 DEF Build, Unlocked, Locks
    <3> QED BY <3>1, <3>2, StateCtlAssumption
  <2>3. request = NoSession /\ conf.session = NoSession
    BY <1>0, <1>24, <2>2 DEF Build, Locks
  <2>4. asked' = asked \cup {k} /\ request' = k /\ conf' = conf
    BY <1>24 DEF Build
  <2> HIDE DEF k
  <2>5. ServerOf[k] = "idle" /\ ServerOf'[k] = "waiting"
    BY <2>1, <2>4 DEF ServerOf
  <2>6. ASSUME NEW s \in Session, s # k PROVE ServerOf'[s] = ServerOf[s]
    BY <1>0, <2>3, <2>4, <2>6 DEF ServerOf
  <2>7. Caller!Ask(k)
    BY <2>1, <2>5, <2>6, OneSession DEF Caller!Ask
  <2> QED BY <2>1, <2>7 DEF Caller!Next, Goal
<1>25. ASSUME NEW c \in Chan, Answered(c) PROVE Goal
  <2> DEFINE k == request
  <2>1. k \in Session /\ k \in asked /\ conf.session = NoSession
    BY <1>0, <1>25 DEF Answered, Locks
  <2>2. asked' = asked /\ request' = NoSession /\ conf'.session = request
    BY <1>25, <2>1 DEF Answered, NoConference
  <2>3. ServerOf[k] = "waiting" /\ ServerOf'[k] = "open"
    BY <1>0, <2>1, <2>2 DEF ServerOf
  <2>4. ASSUME NEW s \in Session, s # k PROVE ServerOf'[s] = ServerOf[s]
    BY <1>0, <2>1, <2>2, <2>4 DEF ServerOf
  <2> HIDE DEF k
  <2>5. Caller!TakeReply(k)
    BY <2>1, <2>3, <2>4, OneSession DEF Caller!TakeReply
  <2> QED BY <2>1, <2>5 DEF Caller!Next, Goal
<1>26. ASSUME NEW c \in Chan, NoAnswer(c) PROVE Goal
  <2> DEFINE k == request
  <2>1. k \in Session /\ k \in asked /\ conf.session = NoSession
    BY <1>0, <1>26 DEF NoAnswer, Locks
  <2>2. asked' = asked /\ request' = NoSession /\ conf'.session = NoSession
    BY <1>26, <2>1 DEF NoAnswer, NoConference
  <2>3. ServerOf[k] = "waiting" /\ ServerOf'[k] = "closed"
    BY <1>0, <2>1, <2>2 DEF ServerOf
  <2>4. ASSUME NEW s \in Session, s # k PROVE ServerOf'[s] = ServerOf[s]
    BY <1>0, <2>1, <2>2, <2>4 DEF ServerOf
  <2> HIDE DEF k
  <2>5. Caller!GiveUp(k)
    BY <2>1, <2>3, <2>4, OneSession DEF Caller!GiveUp
  <2> QED BY <2>1, <2>5 DEF Caller!Next, Goal
<1>27. ASSUME NEW c \in Chan, Dispose(c) PROVE Goal
  <2>1. Exists
    BY <1>27, HoldersFind DEF Dispose, Holding
  <2> QED BY <1>27, <2>1, LastReference DEF Dispose, Goal
<1>28. ASSUME AdminDone PROVE Goal
  <2>1. Exists
    BY <1>28, HoldersFind DEF AdminDone
  <2> QED BY <1>28, <2>1, LastReference DEF AdminDone, Goal
<1>29. ASSUME UNCHANGED vars PROVE Goal
  BY <1>a, <1>29 DEF vars
<1>30. ASSUME NEW c \in Chan, JoinLock(c) PROVE Goal
  BY <1>a, <1>30 DEF JoinLock
<1>31. ASSUME NEW c \in Chan, HalfText(c) PROVE Goal
  BY <1>a, <1>31 DEF HalfText
<1> QED
  BY <1>1, <1>2, <1>3, <1>4, <1>5, <1>6, <1>7, <1>8, <1>9, <1>10, <1>11, <1>12, <1>13,
     <1>14, <1>15, <1>16, <1>17, <1>18, <1>19, <1>20, <1>21, <1>22, <1>23, <1>24, <1>25,
     <1>26, <1>27, <1>28, <1>29, <1>30, <1>31
  DEF Next, Work, Goal

\* The application asks for rooms, waits and hangs up as the conference server expects:
\* one request for a session, one reply or none, one hang-up of a room that was given.
THEOREM Implements == Spec => ImplementsRoomCaller
<1>1. Init => Caller!Init
  BY DEF Init, Caller!Init, ServerOf
<1>2. IInv /\ [Next]_vars => [Caller!Next]_ServerOf
  BY CallerStep DEF IInv
<1> QED
  BY <1>1, <1>2, InductiveInvariant, PTL DEF Spec, ImplementsRoomCaller, Caller!Spec

=============================================================================
