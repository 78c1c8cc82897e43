---------------------------- MODULE TcpLinkProofs ----------------------------
(***************************************************************************)
(* Proofs about module TcpLink: LinkInv is inductive, one lemma per group  *)
(* of actions, and what an access may rely on follows from it.             *)
(***************************************************************************)
EXTENDS TcpLink, TLAPS

USE DEF MEM_RW_CMD_R, MEM_RW_CMD_W, MEM_RW_RESP_OK

LEMMA InitLinkInv == Init => LinkInv
<1> SUFFICES ASSUME Init PROVE LinkInv
  OBVIOUS
<1>a. req \in Message
  BY LinkAssumption DEF Init, Message
<1>b. up \in Seq(Message) /\ down \in Seq(Message)
  BY DEF Init
<1>c. guest \in [ret : {0, -1}, val : Word]
  BY LinkAssumption DEF Init
<1>1. TypeOK
  BY <1>a, <1>b, <1>c DEF Init, TypeOK
<1>2. /\ Linked /\ RepliesOwed /\ AllOwn /\ ReplyIsOwn /\ AllAnswers
      /\ ReadGivesAnswer /\ UnlinkedFails
  BY DEF Init, Linked, RepliesOwed, AllOwn, ReplyIsOwn, AllAnswers, ReadGivesAnswer,
         UnlinkedFails
<1> QED
  BY <1>1, <1>2 DEF LinkInv

(* A new request starts when nothing but abandoned replies is on its way.  *)
LEMMA RequestStep ==
  ASSUME LinkInv, NEW c \in {MEM_RW_CMD_R, MEM_RW_CMD_W}, NEW a \in Addr,
         NEW v \in Word, NewRequest(c, a, v)
  PROVE  LinkInv'
<1>1. PICK r \in Stack :
        req' = [cmd |-> c, addr |-> a, value |-> v, resp |-> r, id |-> n + 1]
  BY DEF NewRequest
<1>2. /\ pc = "idle" /\ pc' = "send" /\ n' = n + 1 /\ cmd' = c /\ addr' = a
      /\ eof' = FALSE
      /\ UNCHANGED <<fd, conn, srv, up, down, guest, abandoned>>
  BY DEF NewRequest
<1>a. req' \in Message
  BY <1>1, LinkAssumption DEF LinkInv, TypeOK, Message
<1>b. n' \in Nat /\ pc' \in {"idle", "send", "recv", "check"}
  BY <1>2 DEF LinkInv, TypeOK
<1>c. eof' \in BOOLEAN
  BY <1>2, Zenon
<1>d. cmd' \in {MEM_RW_CMD_R, MEM_RW_CMD_W} /\ addr' \in Addr
  BY <1>2
<1>e. UNCHANGED <<fd, conn, srv, up, down, guest, abandoned>>
  BY <1>2
<1>3. TypeOK'
  BY <1>a, <1>b, <1>c, <1>d, <1>e DEF LinkInv, TypeOK
<1>4. Linked'
  BY <1>1, <1>2 DEF LinkInv, Linked
<1>5. RepliesOwed'
  BY <1>2 DEF LinkInv, RepliesOwed
<1>6. abandoned = 0 => Len(up) = 0 /\ Len(down) = 0
  BY <1>2 DEF LinkInv, RepliesOwed, TypeOK
<1>7. AllOwn'
  BY <1>2, <1>6 DEF AllOwn
<1>8. AllAnswers' /\ ReplyIsOwn' /\ ReadGivesAnswer' /\ UnlinkedFails'
  BY <1>2 DEF LinkInv, AllAnswers, ReplyIsOwn, ReadGivesAnswer, UnlinkedFails
<1> QED
  BY <1>3, <1>4, <1>5, <1>7, <1>8 DEF LinkInv

LEMMA LinksStep ==
  ASSUME LinkInv, SendLinks
  PROVE  LinkInv'
<1>1. /\ pc = "send" /\ fd = "none"
      /\ UNCHANGED <<srv, cmd, addr, n, req, up, down, eof, abandoned>>
  BY DEF SendLinks, callVars
<1>2. \/ fd' = "none" /\ conn' = conn /\ pc' = "idle"
           /\ guest' = [ret |-> -1, val |-> ALL_ONES]
      \/ fd' = "open" /\ conn' = "none" /\ UNCHANGED <<pc, guest>>
      \/ fd' = "open" /\ conn' = "up" /\ srv = "listening" /\ UNCHANGED <<pc, guest>>
  BY <1>1 DEF SendLinks, link_emu_server, Return
<1>3. conn = "none" /\ up = <<>> /\ down = <<>> /\ abandoned = 0
  BY <1>1 DEF LinkInv, Linked
<1>4. TypeOK'
  BY <1>1, <1>2, LinkAssumption DEF LinkInv, TypeOK
<1>5. Linked' /\ RepliesOwed'
  BY <1>1, <1>2, <1>3 DEF LinkInv, Linked, RepliesOwed
<1>6. AllOwn' /\ AllAnswers' /\ ReplyIsOwn' /\ ReadGivesAnswer' /\ UnlinkedFails'
  BY <1>1, <1>2, <1>3 DEF LinkInv, AllOwn, AllAnswers, ReplyIsOwn, ReadGivesAnswer, UnlinkedFails
<1> QED
  BY <1>4, <1>5, <1>6 DEF LinkInv

LEMMA SendStep ==
  ASSUME LinkInv, SendMessage
  PROVE  LinkInv'
<1>1. /\ pc = "send" /\ pc' = "recv" /\ fd = "open" /\ conn # "none"
      /\ up' = IF conn = "up" THEN Append(up, req) ELSE up
      /\ UNCHANGED <<fd, conn, srv, cmd, addr, n, req, down, guest, eof, abandoned>>
  BY DEF SendMessage, callVars
<1>2. TypeOK'
  BY <1>1 DEF LinkInv, TypeOK
<1>3. Linked'
  BY <1>1 DEF LinkInv, Linked
<1>4. RepliesOwed'
  BY <1>1 DEF LinkInv, TypeOK, RepliesOwed
<1>5. \A i \in 1 .. Len(up') : up'[i] = req \/ (i \in 1 .. Len(up) /\ up'[i] = up[i])
  BY <1>1 DEF LinkInv, TypeOK
<1>6. AllOwn'
  BY <1>1, <1>5 DEF LinkInv, Linked, AllOwn
<1>7. AllAnswers' /\ ReplyIsOwn' /\ ReadGivesAnswer' /\ UnlinkedFails'
  BY <1>1 DEF LinkInv, AllAnswers, ReplyIsOwn, ReadGivesAnswer, UnlinkedFails
<1> QED
  BY <1>2, <1>3, <1>4, <1>6, <1>7 DEF LinkInv

(* The two ways in which an access gives up. *)
LEMMA FailStep ==
  ASSUME LinkInv, SendFails \/ RecvFails
  PROVE  LinkInv'
<1>1. /\ pc' = "idle" /\ guest' = [ret |-> -1, val |-> ALL_ONES]
      /\ UNCHANGED <<fd, conn, srv, cmd, addr, n, req, up, down, eof>>
      /\ \/ pc = "send" /\ abandoned' = abandoned
         \/ pc = "recv" /\ abandoned' = abandoned + 1
  BY DEF SendFails, RecvFails, Return, callVars
<1>2. TypeOK'
  BY <1>1, LinkAssumption DEF LinkInv, TypeOK
<1>3. Linked'
  BY <1>1 DEF LinkInv, Linked
<1>4. RepliesOwed'
  BY <1>1 DEF LinkInv, TypeOK, RepliesOwed
<1>5. abandoned' = 0 => abandoned = 0
  BY <1>1 DEF LinkInv, TypeOK
<1>6. AllOwn'
  BY <1>1, <1>5 DEF LinkInv, AllOwn
<1>7. AllAnswers' /\ ReplyIsOwn' /\ ReadGivesAnswer' /\ UnlinkedFails'
  BY <1>1 DEF LinkInv, AllAnswers, ReplyIsOwn, ReadGivesAnswer, UnlinkedFails
<1> QED
  BY <1>2, <1>3, <1>4, <1>6, <1>7 DEF LinkInv

LEMMA RecvStep ==
  ASSUME LinkInv, RecvMessage
  PROVE  LinkInv'
<1>1. /\ pc = "recv" /\ pc' = "check" /\ down # <<>>
      /\ req' = Head(down) /\ down' = Tail(down)
      /\ UNCHANGED <<fd, conn, srv, cmd, addr, n, up, guest, eof, abandoned>>
  BY DEF RecvMessage, callVars
<1>2. /\ down \in Seq(Message) /\ Len(down) \in Nat \ {0}
      /\ Head(down) = down[1] /\ 1 \in 1 .. Len(down)
      /\ Len(down') = Len(down) - 1
      /\ \A i \in 1 .. Len(down') : down'[i] = down[i + 1] /\ i + 1 \in 1 .. Len(down)
  BY <1>1 DEF LinkInv, TypeOK
<1>3. TypeOK'
  BY <1>1, <1>2 DEF LinkInv, TypeOK
<1>4. Linked'
  BY <1>1, <1>2 DEF LinkInv, Linked
<1>5. RepliesOwed'
  BY <1>1, <1>2 DEF LinkInv, TypeOK, RepliesOwed
<1>6. AllOwn' /\ ReplyIsOwn'
  BY <1>1, <1>2 DEF LinkInv, AllOwn, ReplyIsOwn
<1>7. AllAnswers' /\ ReadGivesAnswer' /\ UnlinkedFails'
  BY <1>1, <1>2 DEF LinkInv, AllAnswers, ReadGivesAnswer, UnlinkedFails
<1> QED
  BY <1>3, <1>4, <1>5, <1>6, <1>7 DEF LinkInv

LEMMA EofStep ==
  ASSUME LinkInv, RecvEof
  PROVE  LinkInv'
<1>1. /\ pc = "recv" /\ pc' = "check" /\ conn = "closed" /\ down = <<>> /\ eof' = TRUE
      /\ UNCHANGED <<fd, conn, srv, cmd, addr, n, req, up, down, guest, abandoned>>
  BY DEF RecvEof, callVars
<1>2. RepliesOwed'
  BY <1>1 DEF LinkInv, TypeOK, Linked, RepliesOwed
<1>3. TypeOK' /\ Linked'
  BY <1>1 DEF LinkInv, TypeOK, Linked
<1>4. AllOwn' /\ ReplyIsOwn' /\ AllAnswers' /\ ReadGivesAnswer' /\ UnlinkedFails'
  BY <1>1 DEF LinkInv, AllOwn, ReplyIsOwn, AllAnswers, ReadGivesAnswer, UnlinkedFails
<1> QED
  BY <1>2, <1>3, <1>4 DEF LinkInv

LEMMA CheckStep ==
  ASSUME LinkInv, CheckReply
  PROVE  LinkInv'
<1>1. /\ pc = "check" /\ pc' = "idle"
      /\ UNCHANGED <<fd, conn, srv, cmd, addr, n, req, up, down, eof, abandoned>>
      /\ guest' \in [ret : {0, -1}, val : {req.value, ALL_ONES, DEADBEEF}]
      /\ guest'.ret = 0 /\ cmd = MEM_RW_CMD_R => guest'.val = req.value /\ req.addr = addr
  BY DEF CheckReply, Return, callVars
<1>2. TypeOK'
  BY <1>1, LinkAssumption DEF LinkInv, TypeOK, Message
<1>3. Linked' /\ RepliesOwed' /\ AllOwn' /\ ReplyIsOwn' /\ AllAnswers'
  BY <1>1 DEF LinkInv, Linked, RepliesOwed, AllOwn, ReplyIsOwn, AllAnswers
<1>4. ReadGivesAnswer' /\ UnlinkedFails'
  BY <1>1 DEF LinkInv, AllAnswers, ReadGivesAnswer, UnlinkedFails
<1> QED
  BY <1>2, <1>3, <1>4 DEF LinkInv

LEMMA ServeStep ==
  ASSUME LinkInv, ServeRequest
  PROVE  LinkInv'
<1> DEFINE m == [Head(up) EXCEPT !.value = Head(up).addr, !.resp = MEM_RW_RESP_OK]
<1>1. /\ srv = "serving" /\ up # <<>> /\ up' = Tail(up) /\ down' = Append(down, m)
      /\ UNCHANGED <<fd, conn, srv, pc, cmd, addr, n, req, guest, eof, abandoned>>
  BY DEF ServeRequest, callVars
<1>2. /\ up \in Seq(Message) /\ Len(up) \in Nat \ {0}
      /\ Head(up) = up[1] /\ 1 \in 1 .. Len(up) /\ up[1] \in Message
      /\ Len(up') = Len(up) - 1
      /\ \A i \in 1 .. Len(up') : up'[i] = up[i + 1] /\ i + 1 \in 1 .. Len(up)
  BY <1>1 DEF LinkInv, TypeOK
<1>3. m \in Message /\ m.value = m.addr /\ m.id = up[1].id
  BY <1>2, LinkAssumption DEF Message
<1> HIDE DEF m
<1>4. TypeOK'
  BY <1>1, <1>2, <1>3 DEF LinkInv, TypeOK
<1>5. Linked'
  BY <1>1 DEF LinkInv, Linked
<1>6. RepliesOwed'
  <2>1. Len(down') = Len(down) + 1 /\ Len(down) \in Nat
    BY <1>1, <1>3 DEF LinkInv, TypeOK
  <2>2. Len(up') + Len(down') = Len(up) + Len(down)
    BY <1>2, <2>1
  <2> QED
    BY <1>1, <2>2 DEF LinkInv, RepliesOwed
<1>7. \A i \in 1 .. Len(down') :
         down'[i] = m \/ (i \in 1 .. Len(down) /\ down'[i] = down[i])
  BY <1>1, <1>3 DEF LinkInv, TypeOK
<1>8. AllOwn'
  BY <1>1, <1>2, <1>3, <1>7 DEF LinkInv, AllOwn
<1>9. AllAnswers' /\ ReplyIsOwn' /\ ReadGivesAnswer' /\ UnlinkedFails'
  BY <1>1, <1>3, <1>7 DEF LinkInv, AllAnswers, ReplyIsOwn, ReadGivesAnswer, UnlinkedFails
<1> QED
  BY <1>4, <1>5, <1>6, <1>8, <1>9 DEF LinkInv

LEMMA StopStep ==
  ASSUME LinkInv, ServerStops
  PROVE  LinkInv'
<1>1. /\ srv # "down" /\ srv' = "down" /\ up' = <<>>
      /\ conn' = IF conn = "up" THEN "closed" ELSE conn
      /\ UNCHANGED <<fd, pc, cmd, addr, n, req, down, guest, eof, abandoned>>
  BY DEF ServerStops, callVars
<1>2. TypeOK' /\ Linked'
  BY <1>1 DEF LinkInv, TypeOK, Linked
<1>3. RepliesOwed'
  BY <1>1 DEF LinkInv, TypeOK, Linked, RepliesOwed
<1>4. AllOwn' /\ AllAnswers' /\ ReplyIsOwn' /\ ReadGivesAnswer' /\ UnlinkedFails'
  BY <1>1 DEF LinkInv, AllOwn, AllAnswers, ReplyIsOwn, ReadGivesAnswer, UnlinkedFails
<1> QED
  BY <1>2, <1>3, <1>4 DEF LinkInv

(* Starting, accepting and losing the child change only where the server is. *)
LEMMA ServerStep ==
  ASSUME LinkInv, ServerStarts \/ ServerAccepts \/ ChildStops
  PROVE  LinkInv'
<1>1. UNCHANGED <<fd, conn, pc, cmd, addr, n, req, up, down, guest, eof, abandoned>>
  BY DEF ServerStarts, ServerAccepts, ChildStops, Server, callVars
<1>2. /\ srv' \in {"down", "socket", "bound", "deaf", "listening", "serving", "orphaned"}
      /\ srv' \in {"serving", "orphaned"} => conn = "up"
      /\ conn = "up" => srv' \in {"listening", "serving", "orphaned"}
  BY DEF ServerStarts, ServerAccepts, ChildStops, Server, LinkInv, Linked
<1>3. TypeOK' /\ Linked'
  BY <1>1, <1>2 DEF LinkInv, TypeOK, Linked
<1>4. /\ RepliesOwed' /\ AllOwn' /\ AllAnswers' /\ ReplyIsOwn' /\ ReadGivesAnswer'
      /\ UnlinkedFails'
  BY <1>1 DEF LinkInv, RepliesOwed, AllOwn, AllAnswers, ReplyIsOwn, ReadGivesAnswer, UnlinkedFails
<1> QED
  BY <1>3, <1>4 DEF LinkInv

LEMMA StutterLink ==
  ASSUME LinkInv, UNCHANGED vars
  PROVE  LinkInv'
<1>1. UNCHANGED <<fd, conn, srv, pc, cmd, addr, n, req, up, down, guest, eof, abandoned>>
  BY DEF vars, callVars
<1> QED
  BY <1>1 DEF LinkInv, TypeOK, Linked, RepliesOwed, AllOwn, AllAnswers, ReplyIsOwn,
              ReadGivesAnswer, UnlinkedFails

(* The invariant of client, connection and server (tcp_client.c,           *)
(* tcp_server.c): what is on its way belongs to the access that waits, or  *)
(* to one that gave up.                                                    *)
THEOREM LinkInvHolds == Spec => []LinkInv
<1>1. ASSUME LinkInv, Next PROVE LinkInv'
  <2>1. CASE ReadAccess \/ WriteAccess
    BY <1>1, <2>1, RequestStep, LinkAssumption DEF ReadAccess, WriteAccess
  <2>2. CASE SendLinks \/ SendMessage \/ SendFails
    BY <1>1, <2>2, LinksStep, SendStep, FailStep
  <2>3. CASE RecvMessage \/ RecvEof \/ RecvFails \/ CheckReply
    BY <1>1, <2>3, RecvStep, EofStep, FailStep, CheckStep
  <2>4. CASE ServeRequest \/ ServerStops
    BY <1>1, <2>4, ServeStep, StopStep
  <2>5. CASE ServerStarts \/ ServerAccepts \/ ChildStops
    BY <1>1, <2>5, ServerStep
  <2> QED
    BY <1>1, <2>1, <2>2, <2>3, <2>4, <2>5 DEF Next
<1>2. LinkInv /\ [Next]_vars => LinkInv'
  BY <1>1, StutterLink
<1> QED
  BY InitLinkInv, <1>2, PTL DEF Spec

(* No receive having failed, an access takes its own reply. *)
THEOREM OwnReply == Spec => []ReplyIsOwn
<1>1. LinkInv => ReplyIsOwn
  BY DEF LinkInv
<1> QED
  BY LinkInvHolds, <1>1, PTL

(* A read that succeeds gives the server's answer for its address, however *)
(* far replies are behind requests (tcp_client.c:129-134).                 *)
THEOREM AnswerRead == Spec => []ReadGivesAnswer
<1>1. LinkInv => ReadGivesAnswer
  BY DEF LinkInv
<1> QED
  BY LinkInvHolds, <1>1, PTL

(* Without a connection nothing waits and nothing succeeds                 *)
(* (tcp_client.c:30-63, 69-87).                                            *)
THEOREM UnlinkedFail == Spec => []UnlinkedFails
<1>1. LinkInv => UnlinkedFails
  BY DEF LinkInv
<1> QED
  BY LinkInvHolds, <1>1, PTL

(* Failed receives are owed for ever (tcp_client.c:103-107). *)
THEOREM OwedForEver == Spec => []RepliesOwed
<1>1. LinkInv => RepliesOwed
  BY DEF LinkInv
<1> QED
  BY LinkInvHolds, <1>1, PTL
=============================================================================
