------------------------------- MODULE TcpLink -------------------------------
(***************************************************************************)
(* The memory BAR: front_end/membar.c, the client it calls (aurora_backend *)
(* /common/tcp_client.c) and the server at the other end of the connection *)
(* (utils/tcp_server/tcp_server.c).                                        *)
(*                                                                         *)
(* An access to the BAR runs under QEMU's big lock from its beginning to   *)
(* its end, so there is one at a time and t_mutex, which is initialised    *)
(* anew at each use, has nobody to exclude.  What goes wrong goes wrong on *)
(* the connection: it cannot be made, a call on it fails or is interrupted *)
(* by a signal, the server goes away.                                      *)
(*                                                                         *)
(* A message is one struct mem_rw_req and is received whole.  Its field id *)
(* is not in the code: it tells which access sent it.                      *)
(***************************************************************************)
EXTENDS Integers, Sequences

CONSTANTS
  Addr,       (* addresses in the BAR                                      *)
  Word,       (* contents of a field of a message, and of the BAR          *)
  Stack,      (* what an uninitialised field of a message may hold         *)
  ALL_ONES,   (* ~0ULL, what pciemu_membar_read starts from                *)
  DEADBEEF,   (* 0xdeadbeef                                                *)
  MaxAccess   (* accesses of the guest (bounds the runs)                   *)

MEM_RW_CMD_R == 1
MEM_RW_CMD_W == 2
MEM_RW_RESP_OK == 1

ASSUME LinkAssumption ==
  /\ Addr \subseteq Word /\ Stack \subseteq Word
  /\ {ALL_ONES, DEADBEEF, MEM_RW_RESP_OK} \subseteq Word
  /\ MaxAccess \in Nat

VARIABLES
  fd,         (* the client's socket: "none" (-1) or "open"                *)
  conn,       (* what it is connected to: "none", "up", "closed"           *)
  srv,        (* how far the server has come: "down", "socket", "bound",   *)
              (* "deaf" (listen failed), "listening"; and, with the one    *)
              (* connection accepted, "serving" or "orphaned" (no child)   *)
  pc,         (* where the access is                                       *)
  cmd, addr,  (* the arguments of the access                               *)
  req,        (* the message on the stack of the access                    *)
  up, down,   (* messages on their way to the server and back              *)
  guest,      (* what the last access gave: [ret, val]                     *)
  n,          (* number of the access (bounds the runs)                    *)
  eof,        (* this access met the end of the stream (history)           *)
  abandoned   (* requests whose reply nobody waited for (history)          *)

callVars == <<cmd, addr, n>>
vars == <<fd, conn, srv, pc, callVars, req, up, down, guest, eof, abandoned>>

Message == [cmd : {MEM_RW_CMD_R, MEM_RW_CMD_W}, addr : Addr, value : Word,
            resp : Word, id : Nat]

Init ==
  /\ fd = "none" /\ conn = "none" /\ srv = "down"
  /\ pc = "idle" /\ n = 0
  /\ cmd = MEM_RW_CMD_R /\ addr \in Addr
  /\ req = [cmd |-> cmd, addr |-> addr, value |-> ALL_ONES,
            resp |-> ALL_ONES, id |-> 0]
  /\ up = <<>> /\ down = <<>>
  /\ guest = [ret |-> -1, val |-> ALL_ONES]
  /\ eof = FALSE /\ abandoned = 0

-----------------------------------------------------------------------------
(* The client.                                                             *)

(* The request of an access; a read leaves value as the stack had it.      *)
NewRequest(c, a, v) ==
  /\ pc = "idle" /\ pc' = "send"
  /\ n < MaxAccess /\ n' = n + 1
  /\ cmd' = c /\ addr' = a
  /\ eof' = FALSE
  /\ \E r \in Stack :
       req' = [cmd |-> c, addr |-> a, value |-> v, resp |-> r, id |-> n + 1]
  /\ UNCHANGED <<fd, conn, srv, up, down, guest, abandoned>>

(* pciemu_membar_read, tcp_send_mem_read_req *)
ReadAccess == \E a \in Addr, v \in Stack : NewRequest(MEM_RW_CMD_R, a, v)

(* pciemu_membar_write, tcp_send_mem_write_req *)
WriteAccess == \E a \in Addr, v \in Word : NewRequest(MEM_RW_CMD_W, a, v)

(* The access is over; val is what a read shows the guest. *)
Return(ret, val) == pc' = "idle" /\ guest' = [ret |-> ret, val |-> val]

(* No socket; a socket that could not be connected, kept; a connection,    *)
(* which waits in the backlog of a server that listens.                    *)
link_emu_server ==
  \/ UNCHANGED <<fd, conn>>
  \/ fd' = "open" /\ conn' = "none"
  \/ srv = "listening" /\ fd' = "open" /\ conn' = "up"

(* send_to_server without a socket: what link_emu_server returns is not    *)
(* looked at, only whether there is a socket now.                          *)
SendLinks ==
  /\ pc = "send" /\ fd = "none"
  /\ link_emu_server
  /\ \/ fd' = "none" /\ Return(-1, ALL_ONES)
     \/ fd' = "open" /\ UNCHANGED <<pc, guest>>
  /\ UNCHANGED <<srv, callVars, req, up, down, eof, abandoned>>

(* A bug this code could have: the request is sent again.                  *)
SendTwice ==
  /\ pc = "send" /\ fd = "open" /\ conn # "none"
  /\ pc' = "recv"
  /\ up' = IF conn = "up" THEN Append(Append(up, req), req) ELSE up
  /\ UNCHANGED <<fd, conn, srv, callVars, req, down, guest, eof, abandoned>>

(* The message is sent, or buffered for a server that has gone. *)
SendMessage ==
  /\ pc = "send" /\ fd = "open" /\ conn # "none"
  /\ pc' = "recv"
  /\ up' = IF conn = "up" THEN Append(up, req) ELSE up
  /\ UNCHANGED <<fd, conn, srv, callVars, req, down, guest, eof, abandoned>>

(* A bug this code could have: a failed send does not end the access.      *)
SendFailureIgnored ==
  /\ pc = "send" /\ fd = "open"
  /\ pc' = "check"
  /\ UNCHANGED <<fd, conn, srv, callVars, req, up, down, guest, eof, abandoned>>

(* send() < 0: always without a connection, at any time with one. *)
SendFails ==
  /\ pc = "send" /\ fd = "open"
  /\ Return(-1, ALL_ONES)
  /\ UNCHANGED <<fd, conn, srv, callVars, req, up, down, eof, abandoned>>

(* recv_from_server: the oldest message that has arrived *)
RecvMessage ==
  /\ pc = "recv" /\ down # <<>>
  /\ pc' = "check"
  /\ req' = Head(down) /\ down' = Tail(down)
  /\ UNCHANGED <<fd, conn, srv, callVars, up, guest, eof, abandoned>>

(* recv() = 0 is no error: the request itself is taken for the reply. *)
RecvEof ==
  /\ pc = "recv" /\ down = <<>> /\ conn = "closed"
  /\ pc' = "check" /\ eof' = TRUE
  /\ UNCHANGED <<fd, conn, srv, callVars, req, up, down, guest, abandoned>>

(* recv() < 0: the reply, if there is one, stays in the stream. *)
RecvFails ==
  /\ pc = "recv"
  /\ Return(-1, ALL_ONES)
  /\ abandoned' = abandoned + 1
  /\ UNCHANGED <<fd, conn, srv, callVars, req, up, down, eof>>

(* A bug this code could have: the address of the reply is not compared.   *)
CheckIgnoresAddr ==
  /\ pc = "check"
  /\ IF req.resp = MEM_RW_RESP_OK
       THEN Return(0, IF cmd = MEM_RW_CMD_R THEN req.value ELSE ALL_ONES)
       ELSE Return(-1, IF cmd = MEM_RW_CMD_R THEN DEADBEEF ELSE ALL_ONES)
  /\ UNCHANGED <<fd, conn, srv, callVars, req, up, down, eof, abandoned>>

(* The end of tcp_send_mem_read_req and tcp_send_mem_write_req. *)
CheckReply ==
  /\ pc = "check"
  /\ IF req.addr = addr /\ req.resp = MEM_RW_RESP_OK
       THEN Return(0, IF cmd = MEM_RW_CMD_R THEN req.value ELSE ALL_ONES)
       ELSE Return(-1, IF cmd = MEM_RW_CMD_R THEN DEADBEEF ELSE ALL_ONES)
  /\ UNCHANGED <<fd, conn, srv, callVars, req, up, down, eof, abandoned>>

-----------------------------------------------------------------------------
(* The server.                                                             *)

Server(from, to) ==
  /\ srv = from /\ srv' = to
  /\ UNCHANGED <<fd, conn, pc, callVars, req, up, down, guest, eof, abandoned>>

(* socket, bind and listen; only a failure of listen is not fatal by itself. *)
ServerStarts ==
  \/ Server("down", "socket")
  \/ Server("socket", "bound") \/ Server("socket", "down")
  \/ Server("bound", "listening") \/ Server("bound", "deaf")

(* accept, then a child that serves the connection.  A failed fork is not  *)
(* looked at: nobody serves the connection and nobody closes it.           *)
ServerAccepts ==
  \/ conn = "up" /\ Server("listening", "serving")
  \/ conn = "up" /\ Server("listening", "orphaned")
  \/ Server("deaf", "down")

(* The child alone is stopped; the parent never closed its descriptor.     *)
ChildStops == Server("serving", "orphaned")

(* A bug this code could have: writes are not answered.                    *)
ServesReadsOnly ==
  /\ srv = "serving" /\ up # <<>>
  /\ up' = Tail(up)
  /\ down' = IF Head(up).cmd = MEM_RW_CMD_R
               THEN Append(down, [Head(up) EXCEPT !.value = Head(up).addr,
                                                  !.resp = MEM_RW_RESP_OK])
               ELSE down
  /\ UNCHANGED <<fd, conn, srv, pc, callVars, req, guest, eof, abandoned>>

(* Reads and writes alike: value becomes the address.                      *)
ServeRequest ==
  /\ srv = "serving" /\ up # <<>>
  /\ up' = Tail(up)
  /\ down' = Append(down, [Head(up) EXCEPT !.value = Head(up).addr,
                                           !.resp = MEM_RW_RESP_OK])
  /\ UNCHANGED <<fd, conn, srv, pc, callVars, req, guest, eof, abandoned>>

(* The server ends, stopped or because accept fails; what it has sent      *)
(* still arrives.                                                          *)
ServerStops ==
  /\ srv # "down" /\ srv' = "down"
  /\ conn' = IF conn = "up" THEN "closed" ELSE conn
  /\ up' = <<>>
  /\ UNCHANGED <<fd, pc, callVars, req, down, guest, eof, abandoned>>

-----------------------------------------------------------------------------
ClientStep ==
  \/ SendLinks \/ SendMessage \/ SendFails
  \/ RecvMessage \/ RecvEof \/ RecvFails \/ CheckReply

Next ==
  \/ ReadAccess \/ WriteAccess
  \/ SendLinks \/ SendMessage \/ SendFails
  \/ RecvMessage \/ RecvEof \/ RecvFails \/ CheckReply
  \/ ServerStarts \/ ServerAccepts \/ ServeRequest
  \/ ChildStops \/ ServerStops

(* QEMU runs the access it has begun and the server the loop it is in; no  *)
(* call is assumed to fail, so RecvFails has no fairness.                  *)
Fairness ==
  /\ WF_vars(SendLinks \/ SendMessage \/ SendFails)
  /\ WF_vars(RecvMessage \/ RecvEof)
  /\ WF_vars(CheckReply)
  /\ WF_vars(ServerAccepts)
  /\ WF_vars(ServeRequest)

Spec == Init /\ [][Next]_vars /\ Fairness

-----------------------------------------------------------------------------
(* Every variable holds a value of its C type. *)
TypeOK ==
  /\ fd \in {"none", "open"} /\ conn \in {"none", "up", "closed"}
  /\ srv \in {"down", "socket", "bound", "deaf", "listening", "serving", "orphaned"}
  /\ pc \in {"idle", "send", "recv", "check"}
  /\ cmd \in {MEM_RW_CMD_R, MEM_RW_CMD_W} /\ addr \in Addr
  /\ req \in Message
  /\ up \in Seq(Message) /\ down \in Seq(Message)
  /\ guest \in [ret : {0, -1}, val : Word]
  /\ n \in Nat /\ eof \in BOOLEAN /\ abandoned \in Nat

(* A thread that waits for a reply has a connection, and what it sent is   *)
(* its own request.                                                        *)
Linked ==
  /\ conn # "none" => fd = "open"
  /\ srv \in {"serving", "orphaned"} => conn = "up"
  /\ conn = "up" => srv \in {"listening", "serving", "orphaned"}
  /\ conn # "up" => up = <<>>
  /\ conn = "none" => down = <<>> /\ abandoned = 0
  /\ pc = "recv" => conn # "none"
  /\ pc \in {"send", "recv"} => req.id = n /\ req.addr = addr /\ ~eof

(* As long as no reply was abandoned, only this access's is on its way.    *)
AllOwn ==
  abandoned = 0 =>
    /\ \A i \in 1 .. Len(up) : up[i].id = n
    /\ \A i \in 1 .. Len(down) : down[i].id = n

(* What comes back from the server is an answer. *)
AllAnswers ==
  /\ \A i \in 1 .. Len(down) : down[i].value = down[i].addr
  /\ pc = "check" /\ ~eof => req.value = req.addr

-----------------------------------------------------------------------------
(* The connection never gets back in step: with a server that is up, the   *)
(* replies owed are those of every receive that ever failed, and the one   *)
(* this access waits for (tcp_client.c:103-107; nothing drains the socket). *)
RepliesOwed ==
  LET owed == abandoned + (IF pc = "recv" THEN 1 ELSE 0)
  IN  /\ Len(up) + Len(down) <= owed
      /\ conn = "up" => Len(up) + Len(down) = owed

(* As long as no receive has failed, the reply an access takes from the    *)
(* stream is the reply to its own request (tcp_client.c:123-137, 147-156). *)
ReplyIsOwn == pc = "check" /\ abandoned = 0 /\ ~eof => req.id = n

(* Even after failed receives, when replies are out of step with requests, *)
(* a read that succeeds shows the guest the server's answer for the        *)
(* address it asked for, unless the server has gone (tcp_client.c:129-134). *)
ReadGivesAnswer ==
  pc = "idle" /\ cmd = MEM_RW_CMD_R /\ guest.ret = 0 /\ ~eof => guest.val = addr

(* Without a connection every access fails and none gets to wait for a     *)
(* reply, with a socket that was refused at its first use and is never     *)
(* tried again as well as with none (tcp_client.c:30-63, 69-87).           *)
UnlinkedFails == conn = "none" => pc \in {"idle", "send"} /\ guest.ret = -1

LinkInv ==
  /\ TypeOK /\ Linked /\ RepliesOwed /\ UnlinkedFails
  /\ AllOwn /\ ReplyIsOwn /\ AllAnswers /\ ReadGivesAnswer

(* Every access to the BAR, which stops the whole machine while it lasts,  *)
(* returns: whether the connection was refused, failed, or lost its server *)
(* (tcp_client.c:65-111, tcp_server.c:62-76).  The exception is a server   *)
(* that lives on without the child for this connection.                    *)
AccessReturns == pc # "idle" ~> pc = "idle" \/ srv = "orphaned"
=============================================================================
