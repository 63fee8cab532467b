------------------------------- MODULE RoomCaller -------------------------------
(***************************************************************************)
(* What the conference server may rely on: the call server asks for a room *)
(* of each session at most once, either takes the reply or gives up, and   *)
(* hangs a room up once and only when it has taken its reply.              *)
(*                                                                         *)
(* Conference takes its call server from here; StateCtl, the call server's *)
(* own application, implements it.                                         *)
(***************************************************************************)
CONSTANT Key                    \* the sessions, one for each NEWCNF

VARIABLE server

Init == server = [k \in Key |-> "idle"]

Ask(k) ==
    /\ server[k] = "idle"
    /\ server' = [server EXCEPT ![k] = "waiting"]

TakeReply(k) ==
    /\ server[k] = "waiting"
    /\ server' = [server EXCEPT ![k] = "open"]

GiveUp(k) ==
    /\ server[k] = "waiting"
    /\ server' = [server EXCEPT ![k] = "closed"]

HangUp(k) ==
    /\ server[k] = "open"
    /\ server' = [server EXCEPT ![k] = "closed"]

Next == \E k \in Key : Ask(k) \/ TakeReply(k) \/ GiveUp(k) \/ HangUp(k)

Spec == Init /\ [][Next]_server

=============================================================================
