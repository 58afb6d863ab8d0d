---------------------------- MODULE WorkerProofs ----------------------------
(***************************************************************************)
(* Proofs about module Worker, for every number of connections and of      *)
(* descriptors, every length of requests, responses, reads and buffers.    *)
(***************************************************************************)
EXTENDS Worker, SequenceTheorems, TLAPS

(* A mask of connection c: what it says of the client's end is true for good,
   since nobody takes back a FIN or a reset; and EPOLLRDHUP comes with EPOLLIN. *)
Masks == [in : BOOLEAN, out : BOOLEAN, rdhup : BOOLEAN, hup : BOOLEAN]
Says(m, c) ==
  /\ m \in Masks
  /\ m.hup => rst[c]
  /\ m.rdhup => m.in /\ (fin[c] \/ rst[c])

(* Where the worker is at work on the connection of descriptor cur. *)
AtWork == pc \in {"read", "flush", "armOut", "rdhup", "drop"}

(* A batch has at most one event of each descriptor, and none is stale: the
   worker only closes the descriptor whose event it has taken out. *)
BatchOK ==
  /\ pc \in {"start", "wait"} => batch = {}
  /\ \A e \in batch : \/ e = [fd |-> ctl]
                      \/ e.fd \in DOMAIN conns /\ Says(e.mask, fdt[e.fd])
  /\ \A e, f \in batch : e.fd = f.fd => e = f

(* So the event being handled is one of a connection the worker still has, and
   a connection is only dropped when its client reset it, or finished and was
   read to the end. *)
EventOK ==
  /\ AtWork => /\ cur \in DOMAIN conns
               /\ Says(ev.mask, sock)
               /\ \A e \in batch : e.fd # cur
  /\ pc = "rdhup" => ~ ev.mask.rdhup
  /\ pc = "drop" => rst[sock] \/ (fin[sock] /\ inq[sock] = 0)

(* A connection is queued once, and only after it was passed. *)
QueueOK ==
  /\ \A m, n \in 1..Len(ctlq) : ctlq[m] = ctlq[n] => m = n
  /\ \A c \in Conns : Queued(c) \/ Open(c) => c \in passed

(* Nothing is read from or written to a connection before it is adopted. *)
Untouched ==
  \A c \in Conns :
    /\ inq[c] <= sent[c]
    /\ c \notin passed \/ Queued(c) => got[c] = 0 /\ outq[c] = 0 /\ inq[c] = sent[c]

(* The worker will read the connection of fd, or drop it, before it waits. *)
WillRead(fd) ==
  \/ \E e \in batch : e.fd = fd /\ e.mask.in
  \/ cur = fd /\ pc \in {"read", "drop"}
  \/ cur = fd /\ pc \in {"flush", "armOut"} /\ (back = "read" \/ ev.mask.in)

(* Input, a FIN or a reset the worker has not seen to is on the ready list or in
   its hands. *)
InputSeen ==
  \A fd \in DOMAIN conns :
    inq[fdt[fd]] > 0 \/ fin[fdt[fd]] \/ rst[fdt[fd]] =>
      Reg(fd, fdt[fd]) \in ready \/ WillRead(fd)

(* It will write to the connection of fd, or drop it, before it waits. *)
WillWrite(fd) == cur = fd /\ pc \in {"flush", "armOut", "drop"}
WillFlush(fd) == \E e \in batch : e.fd = fd /\ (e.mask.out \/ e.mask.hup)

(* Output it is not about to write has EPOLLOUT armed, and room for it will be
   an edge, is on the ready list, or is an event in the batch. *)
OutputSeen ==
  \A fd \in DOMAIN conns :
    conns[fd].wn < conns[fd].wb /\ ~ WillWrite(fd) =>
      /\ Reg(fd, fdt[fd]) \in armed
      /\ nospace[fdt[fd]] \/ Reg(fd, fdt[fd]) \in ready \/ WillFlush(fd)

IInv ==
  /\ TypeOK /\ TableOK /\ QueueOK /\ BatchOK /\ EventOK
  /\ Untouched /\ Conserved /\ InputSeen /\ OutputSeen

-----------------------------------------------------------------------------
(* What the assumptions say of the numbers. *)
LEMMA Sizes ==
  /\ ReqLen \in Nat /\ ReqLen > 0 /\ RespLen \in Nat /\ RespLen > 0
  /\ SndBuf \in Nat /\ SndBuf > 0 /\ Buf \in Nat /\ Buf > 0
  /\ \A l \in Limits : l \in Nat
  BY WorkerAssumption

LEMMA FdsAreNumbers == ASSUME TypeOK PROVE Fds \subseteq Nat /\ ctl \notin Fds
  BY Sizes DEF TypeOK, Fds, ctl

(* The head of a queue and what follows it. *)
LEMMA TailOfQueue ==
  ASSUME NEW q \in Seq(Conns), q # <<>>
  PROVE  /\ Head(q) = q[1] /\ Head(q) \in Conns
         /\ Tail(q) \in Seq(Conns)
         /\ Len(q) \in Nat /\ Len(q) >= 1 /\ Len(Tail(q)) = Len(q) - 1
         /\ \A i \in 1..Len(Tail(q)) : Tail(q)[i] = q[i + 1]
  BY HeadTailProperties, LenProperties, EmptySeq

-----------------------------------------------------------------------------
(* Types *)

LEMMA InitTypes == ASSUME Init PROVE TypeOK
  <1> USE Sizes DEF Init
  <1>1. DOMAIN conns = {} /\ ctlq \in Seq(Conns)
    OBVIOUS
  <1>2. outq \in [Conns -> 0..SndBuf]
    OBVIOUS
  <1> QED
    BY <1>1, <1>2 DEF TypeOK, Fds

LEMMA EnvTypes ==
  ASSUME TypeOK, NEW c \in Conns,
         Send(c) \/ Finish(c) \/ Reset(c) \/ Receive(c) \/ Pass(c) \/ LbClose(c)
  PROVE  TypeOK'
  <1> USE DEF TypeOK, config, clientVars, lbVars, epollVars, workerVars, Fds
  <1>1. CASE Send(c)
    BY <1>1 DEF Send, wakeIn
  <1>2. CASE Finish(c)
    BY <1>2 DEF Finish, wakeIn
  <1>3. CASE Reset(c)
    BY <1>3 DEF Reset, wakeIn
  <1>4. CASE Receive(c)
    <2>1. outq' \in [Conns -> 0..SndBuf]
      BY <1>4, Sizes DEF Receive
    <2>2. got' \in [Conns -> Nat] /\ nospace' \in [Conns -> BOOLEAN] /\ ready' \subseteq regs
      BY <1>4 DEF Receive, wakeOut
    <2> QED
      BY <1>4, <2>1, <2>2 DEF Receive
  <1>5. CASE Pass(c)
    BY <1>5, AppendProperties DEF Pass
  <1>6. CASE LbClose(c)
    BY <1>6 DEF LbClose, Forget
  <1> QED
    BY <1>1, <1>2, <1>3, <1>4, <1>5, <1>6

ConnState == [rb : 0..(ReqLen - 1), wb : Nat, wn : Nat]

(* A connection read from or written to. *)
LEMMA AtWorkFacts ==
  ASSUME TypeOK, TableOK, EventOK, AtWork
  PROVE  /\ cur \in DOMAIN conns /\ cur \in Fds /\ sock \in Conns
         /\ Reg(cur, sock) \in regs
         /\ conns[cur] \in ConnState
  BY DEF TypeOK, TableOK, EventOK, AtWork, sock, ConnState

LEMMA WrittenTypes ==
  ASSUME NEW o \in ConnState, NEW n \in Nat
  PROVE  /\ [o EXCEPT !.wn = o.wn + n] \in ConnState
         /\ [o EXCEPT !.wn = o.wn + n].wn = o.wn + n
  <1> DEFINE m == o.wn + n
  <1>1. m \in Nat
    BY DEF ConnState
  <1> HIDE DEF m
  <1>2. [o EXCEPT !.wn = m] \in ConnState /\ [o EXCEPT !.wn = m].wn = m
    BY <1>1 DEF ConnState
  <1> QED
    BY <1>2 DEF m

LEMMA ConnTypes ==
  ASSUME NEW o \in ConnState, NEW n \in Nat
  PROVE  /\ Handled(o, n) \in ConnState
         /\ Handled(o, n).rb = (o.rb + n) % ReqLen
         /\ Handled(o, n).wb = o.wb + RespLen * ((o.rb + n) \div ReqLen)
         /\ Handled(o, n).wn = o.wn
  <1> USE DEF ConnState
  <1>1. o.rb \in Nat /\ o.wb \in Nat /\ o.wn \in Nat /\ o.rb + n \in Nat
    BY Sizes
  <1>2. (o.rb + n) % ReqLen \in 0..(ReqLen - 1) /\ (o.rb + n) \div ReqLen \in Nat
    BY <1>1, Sizes
  <1>3. RespLen * ((o.rb + n) \div ReqLen) \in Nat
    BY <1>2, Sizes
  <1> DEFINE r == (o.rb + n) % ReqLen
             b == o.wb + RespLen * ((o.rb + n) \div ReqLen)
  <1>4. Handled(o, n) = [[o EXCEPT !.rb = r] EXCEPT !.wb = b]
    BY DEF Handled
  <1>5. r \in 0..(ReqLen - 1) /\ b \in Nat
    BY <1>1, <1>2, <1>3
  <1> HIDE DEF r, b
  <1>6. /\ [[o EXCEPT !.rb = r] EXCEPT !.wb = b] \in ConnState
        /\ [[o EXCEPT !.rb = r] EXCEPT !.wb = b].rb = r
        /\ [[o EXCEPT !.rb = r] EXCEPT !.wb = b].wb = b
        /\ [[o EXCEPT !.rb = r] EXCEPT !.wb = b].wn = o.wn
    BY <1>5
  <1> QED
    BY <1>4, <1>6 DEF r, b

LEMMA ServerTypes ==
  ASSUME TypeOK, TableOK, EventOK, Server
  PROVE  TypeOK'
  <1> USE DEF TypeOK, config, clientVars, lbVars, epollVars, workerVars, Fds, ConnState
  <1>1. CASE Run
    BY <1>1 DEF Run
  <1>2. CASE EpollWait
    BY <1>2 DEF EpollWait
  <1>3. CASE \E e \in batch : Dispatch(e)
    BY <1>3 DEF Dispatch, Handling
  <1>4. CASE BatchDone
    BY <1>4 DEF BatchDone
  <1>5. CASE RdHup
    BY <1>5 DEF RdHup
  <1>6. CASE Drop
    BY <1>6 DEF Drop, Unregister, Forget, ConnsWithout
  <1>7. CASE ReadData
    <2> DEFINE n == Min2(inq[sock], Buf)
               o == Handled(conns[cur], n)
    <2>1. sock \in Conns /\ cur \in DOMAIN conns
          /\ conns[cur] \in ConnState
      BY <1>7, AtWorkFacts DEF ReadData, AtWork
    <2>2. n \in Nat /\ n <= inq[sock]
      BY <2>1, Sizes DEF Min2
    <2>3. o \in ConnState
      BY <2>1, <2>2, ConnTypes
    <2>4. inq' \in [Conns -> Nat]
      BY <1>7, <2>1, <2>2 DEF ReadData
    <2>5. pc' \in {"flush", "read"} /\ back' \in {"out", "read"}
      BY <1>7 DEF ReadData, ReadsAgain
    <2>6. conns' = [conns EXCEPT ![cur] = o]
      BY <1>7 DEF ReadData
    <2>7. \A fd \in DOMAIN conns' : conns'[fd] \in ConnState
      BY <2>3, <2>6
    <2> QED
      BY <1>7, <2>4, <2>5, <2>7 DEF ReadData
  <1>8. CASE ReadBlocks \/ ReadEnds
    BY <1>8 DEF ReadBlocks, ReadEnds
  <1>9. CASE Write
    <2> DEFINE n == Min2(room(sock), conns[cur].wb - conns[cur].wn)
    <2>1. sock \in Conns /\ cur \in DOMAIN conns
          /\ conns[cur] \in ConnState
      BY <1>9, AtWorkFacts DEF Write, AtWork
    <2>2. outq[sock] \in Nat /\ n \in Nat /\ outq[sock] + n <= SndBuf
      <3>1. outq[sock] \in 0..SndBuf /\ conns[cur].wb \in Nat /\ conns[cur].wn \in Nat
        BY <2>1
      <3>2. room(sock) \in Nat /\ outq[sock] + room(sock) = SndBuf
        BY <3>1, Sizes DEF room
      <3>3. conns[cur].wb - conns[cur].wn \in Nat
        BY <1>9, <3>1 DEF Write
      <3>4. n \in Nat /\ n <= room(sock)
        BY <3>2, <3>3 DEF Min2
      <3>5. outq[sock] \in Nat
        BY <3>1
      <3> HIDE DEF n
      <3> QED
        BY <3>2, <3>4, <3>5, Sizes
    <2>3. outq' \in [Conns -> 0..SndBuf]
      BY <1>9, <2>1, <2>2 DEF Write
    <2>4. conns' = [conns EXCEPT ![cur].wn = @ + n]
      BY <1>9 DEF Write
    <2>5. \A fd \in DOMAIN conns' : conns'[fd] \in ConnState
      <3> HIDE DEF n
      <3>1. [conns[cur] EXCEPT !.wn = conns[cur].wn + n] \in ConnState
        BY <2>1, <2>2, WrittenTypes
      <3> QED
        BY <2>4, <3>1 DEF ConnState
    <2> QED
      BY <1>9, <2>3, <2>5 DEF Write
  <1>10. CASE WriteBlocks \/ WriteFails
    BY <1>10 DEF WriteBlocks, WriteFails
  <1>11. CASE ArmOut
    <2>1. Reg(cur, sock) \in regs
      BY <1>11, AtWorkFacts DEF ArmOut, AtWork
    <2>2. armed' \subseteq regs /\ ready' \subseteq regs /\ regs' = regs /\ ctlReady' = ctlReady
      BY <1>11, <2>1 DEF ArmOut, Modify, sock
    <2> QED
      BY <1>11, <2>2 DEF ArmOut, AfterFlush
  <1>12. CASE FlushDone
    <2>1. Reg(cur, sock) \in regs /\ conns[cur] \in ConnState
      BY <1>12, AtWorkFacts DEF FlushDone, AtWork
    <2>2. armed' \subseteq regs /\ ready' \subseteq regs /\ regs' = regs /\ ctlReady' = ctlReady
      BY <1>12, <2>1 DEF FlushDone, Modify, sock
    <2>3. WbReset(conns[cur]) \in ConnState
      BY <2>1 DEF WbReset
    <2>4. \A fd \in DOMAIN conns' : conns'[fd] \in ConnState
      BY <1>12, <2>3 DEF FlushDone
    <2> QED
      BY <1>12, <2>2, <2>4 DEF FlushDone, AfterFlush
  <1>13. CASE Recv
    <2>1. PICK fd \in Free :
            /\ fdt' = [fdt EXCEPT ![fd] = Head(ctlq)]
            /\ regs' = regs \cup {Reg(fd, Head(ctlq))}
            /\ ready' \subseteq regs'
            /\ conns' = [f \in DOMAIN conns \cup {fd} |->
                           IF f = fd THEN [rb |-> 0, wb |-> 0, wn |-> 0] ELSE conns[f]]
      BY <1>13 DEF Recv
    <2>2. Head(ctlq) \in Conns /\ ctlq' \in Seq(Conns)
      BY <1>13, TailOfQueue DEF Recv
    <2>3. \A f \in DOMAIN conns' : conns'[f] \in ConnState
      BY <2>1, Sizes
    <2> QED
      BY <1>13, <2>1, <2>2, <2>3 DEF Recv, TakesMore
  <1>14. CASE RecvFails \/ RecvBlocks
    <2>1. ctlq' \in Seq(Conns)
      BY <1>14, TailOfQueue DEF RecvFails, RecvBlocks
    <2> QED
      BY <1>14, <2>1 DEF RecvFails, RecvBlocks
  <1> QED
    BY <1>1, <1>2, <1>3, <1>4, <1>5, <1>6, <1>7, <1>8, <1>9, <1>10, <1>11, <1>12,
       <1>13, <1>14 DEF Server

-----------------------------------------------------------------------------
(* The table and the queue *)

LEMMA QueuedAfterTake ==
  ASSUME TypeOK, QueueOK, ctlq # <<>>, ctlq' = Tail(ctlq)
  PROVE  /\ \A m, n \in 1..Len(ctlq') : ctlq'[m] = ctlq'[n] => m = n
         /\ \A c : Queued(c)' <=> Queued(c) /\ c # Head(ctlq)
         /\ Queued(Head(ctlq))
  <1> DEFINE q == Tail(ctlq)
  <1>1. /\ Head(ctlq) = ctlq[1]
        /\ Len(ctlq) \in Nat /\ Len(ctlq) >= 1 /\ Len(q) = Len(ctlq) - 1
        /\ \A i \in 1..Len(q) : q[i] = ctlq[i + 1]
    BY TailOfQueue DEF TypeOK
  <1>2. \A m, n \in 1..Len(ctlq) : ctlq[m] = ctlq[n] => m = n
    BY DEF QueueOK
  <1>3. \A c : Queued(c)' <=> \E i \in 1..Len(q) : q[i] = c
    BY DEF Queued
  <1> HIDE DEF q
  <1>4. \A i \in 1..Len(q) : i + 1 \in 1..Len(ctlq)
    BY <1>1
  <1>5. \A i \in 1..Len(ctlq) : i = 1 \/ i - 1 \in 1..Len(q)
    BY <1>1
  <1>6. \A m, n \in 1..Len(q) : q[m] = q[n] => m = n
    BY <1>1, <1>2, <1>4
  <1>7. ASSUME NEW c PROVE Queued(c)' <=> Queued(c) /\ c # Head(ctlq)
    <2>1. ASSUME NEW i \in 1..Len(q), q[i] = c PROVE Queued(c) /\ c # Head(ctlq)
      BY <1>1, <1>2, <1>4, <2>1 DEF Queued
    <2>2. ASSUME NEW i \in 1..Len(ctlq), ctlq[i] = c, c # Head(ctlq)
          PROVE  \E j \in 1..Len(q) : q[j] = c
      <3>1. i # 1 /\ i - 1 \in 1..Len(q)
        BY <1>1, <1>5, <2>2
      <3>2. q[i - 1] = ctlq[i - 1 + 1] /\ i - 1 + 1 = i
        BY <1>1, <3>1
      <3> QED
        BY <2>2, <3>1, <3>2
    <2> QED
      BY <1>3, <2>1, <2>2 DEF Queued
  <1>8. Queued(Head(ctlq))
    BY <1>1 DEF Queued
  <1> QED
    BY <1>6, <1>7, <1>8 DEF q

LEMMA QueuedAfterPass ==
  ASSUME TypeOK, QueueOK, NEW c \in Conns, c \notin passed, ctlq' = Append(ctlq, c)
  PROVE  /\ \A m, n \in 1..Len(ctlq') : ctlq'[m] = ctlq'[n] => m = n
         /\ \A d : Queued(d)' <=> Queued(d) \/ d = c
  <1> DEFINE q == Append(ctlq, c)
  <1>1. /\ Len(ctlq) \in Nat /\ Len(q) = Len(ctlq) + 1
        /\ \A i \in 1..Len(ctlq) : q[i] = ctlq[i]
        /\ q[Len(ctlq) + 1] = c
    BY AppendProperties, LenProperties DEF TypeOK
  <1>2. \A m, n \in 1..Len(ctlq) : ctlq[m] = ctlq[n] => m = n
    BY DEF QueueOK
  <1>3. \A i \in 1..Len(ctlq) : ctlq[i] # c
    BY DEF QueueOK, Queued
  <1>4. \A d : Queued(d)' <=> \E i \in 1..Len(q) : q[i] = d
    BY DEF Queued
  <1> HIDE DEF q
  <1>5. \A i \in 1..Len(q) : i \in 1..Len(ctlq) \/ i = Len(ctlq) + 1
    BY <1>1
  <1>6. \A i \in 1..Len(ctlq) : i \in 1..Len(q)
    BY <1>1
  <1>7. \A m, n \in 1..Len(q) : q[m] = q[n] => m = n
    BY <1>1, <1>2, <1>3, <1>5
  <1>8. Len(ctlq) + 1 \in 1..Len(q)
    BY <1>1
  <1> QED
    BY <1>1, <1>4, <1>5, <1>6, <1>7, <1>8 DEF q, Queued

(* A step that adopts and drops nothing. *)
LEMMA TableKept ==
  ASSUME TableOK, QueueOK, UNCHANGED <<limit, fdt, regs, ctlq, passed>>,
         DOMAIN conns' = DOMAIN conns
  PROVE  TableOK' /\ QueueOK'
  BY DEF TableOK, QueueOK, Open, Queued, Fds

LEMMA PassTable ==
  ASSUME TypeOK, TableOK, QueueOK, NEW c \in Conns, Pass(c)
  PROVE  TableOK' /\ QueueOK'
  <1>1. /\ \A m, n \in 1..Len(ctlq') : ctlq'[m] = ctlq'[n] => m = n
        /\ \A d : Queued(d)' <=> Queued(d) \/ d = c
    BY QueuedAfterPass DEF Pass
  <1>2. \A d : Open(d)' <=> Open(d)
    BY DEF Pass, Open, Fds, config
  <1>3. ~ Open(c)
    BY DEF Pass, QueueOK
  <1> QED
    BY <1>1, <1>2, <1>3 DEF Pass, TableOK, QueueOK, Fds, config, workerVars

LEMMA LbCloseTable ==
  ASSUME TypeOK, TableOK, QueueOK, NEW c \in Conns, LbClose(c)
  PROVE  TableOK' /\ QueueOK'
  <1>1. regs' = regs
    <2>1. CASE Open(c) \/ Queued(c)
      BY <2>1 DEF LbClose
    <2>2. CASE ~ (Open(c) \/ Queued(c))
      <3>1. \A r \in regs : r.conn # c
        BY <2>2 DEF TableOK, Open, Reg
      <3> QED
        BY <2>2, <3>1 DEF LbClose, Forget
    <2> QED
      BY <2>1, <2>2
  <1> QED
    BY <1>1, TableKept DEF LbClose, config, workerVars

LEMMA DropTable ==
  ASSUME TypeOK, TableOK, QueueOK, EventOK, Drop
  PROVE  /\ TableOK' /\ QueueOK'
         /\ Fds' = Fds /\ DOMAIN conns' = DOMAIN conns \ {cur}
         /\ \A fd \in DOMAIN conns' : conns'[fd] = conns[fd] /\ fdt'[fd] = fdt[fd]
         /\ \A fd \in DOMAIN conns' : fdt[fd] # sock
         /\ armed' = {r \in armed : r.conn # sock}
         /\ ready' = {r \in ready : r.conn # sock}
         /\ Open(sock)
         /\ \A c \in Conns : Open(c)' <=> Open(c) /\ c # sock
  <1>1. cur \in DOMAIN conns /\ cur \in Fds /\ sock \in Conns /\ fdt[cur] = sock
    BY AtWorkFacts DEF Drop, AtWork, sock
  <1>2. Fds' = Fds /\ conns' = [f \in DOMAIN conns \ {cur} |-> conns[f]]
        /\ fdt' = [fdt EXCEPT ![cur] = None]
    BY DEF Drop, Fds, config, ConnsWithout
  <1>3. \A fd \in DOMAIN conns : fd # cur => fdt[fd] # sock
    BY <1>1 DEF TableOK
  <1>4. \A r \in regs : r.conn = sock <=> r = Reg(cur, sock)
    BY <1>1, <1>3 DEF TableOK, Reg
  <1>5. /\ regs'  = {r \in regs  : r.conn # sock}
        /\ armed' = {r \in armed : r.conn # sock}
        /\ ready' = {r \in ready : r.conn # sock}
    <2>1. CASE sock \in lbHolds
      <3>1. regs' = regs \ {Reg(cur, sock)} /\ armed' = armed \ {Reg(cur, sock)}
              /\ ready' = ready \ {Reg(cur, sock)}
        BY <2>1 DEF Drop, Unregister, Reg
      <3> QED
        BY <3>1, <1>4 DEF TypeOK
    <2>2. CASE sock \notin lbHolds
      BY <2>2 DEF Drop, Unregister, Forget, Reg
    <2> QED
      BY <2>1, <2>2
  <1>6. DOMAIN conns' = {fd \in Fds' : fdt'[fd] # None}
    BY <1>1, <1>2 DEF TableOK, TypeOK
  <1>7. \A fd \in DOMAIN conns' : fdt'[fd] = fdt[fd] /\ fd \in DOMAIN conns /\ fd # cur
    BY <1>1, <1>2 DEF TableOK, TypeOK
  <1>8. regs' = {Reg(fd, fdt'[fd]) : fd \in DOMAIN conns'}
    <2>1. regs = {Reg(fd, fdt[fd]) : fd \in DOMAIN conns}
      BY DEF TableOK
    <2>2. \A fd \in DOMAIN conns : Reg(fd, fdt[fd]).conn = fdt[fd]
      BY DEF Reg
    <2>3. \A fd \in DOMAIN conns : fd \in DOMAIN conns' <=> fd # cur
      BY <1>2
    <2> QED
      BY <1>1, <1>3, <1>5, <1>7, <2>1, <2>2, <2>3
  <1>9. \A c \in Conns : Open(c)' <=> Open(c) /\ c # sock
    <2>1. \A c \in Conns : Open(c) <=> \E fd \in DOMAIN conns : fdt[fd] = c
      BY NoneAssumption DEF Open, TableOK
    <2>2. \A c \in Conns : Open(c)' <=> \E fd \in DOMAIN conns' : fdt'[fd] = c
      BY <1>6, NoneAssumption DEF Open
    <2>3. \A fd \in DOMAIN conns : fd = cur \/ fd \in DOMAIN conns'
      BY <1>2
    <2> QED
      BY <1>1, <1>3, <1>7, <2>1, <2>2, <2>3
  <1>10. Open(sock)
    BY <1>1 DEF Open
  <1>11. ctlq' = ctlq /\ passed' = passed
    BY DEF Drop, lbVars
  <1>12. \A c : Queued(c)' <=> Queued(c)
    BY <1>11 DEF Queued
  <1>13. TableOK'
    BY <1>6, <1>7, <1>8, <1>9, <1>12 DEF TableOK
  <1>14. QueueOK'
    BY <1>9, <1>11, <1>12 DEF QueueOK
  <1> QED
    BY <1>2, <1>3, <1>5, <1>7, <1>9, <1>10, <1>13, <1>14

LEMMA RecvTable ==
  ASSUME TypeOK, TableOK, QueueOK, NEW fd \in Free, NEW c, c = Head(ctlq), ctlq # <<>>,
         fdt' = [fdt EXCEPT ![fd] = c], regs' = regs \cup {Reg(fd, c)},
         DOMAIN conns' = DOMAIN conns \cup {fd}, ctlq' = Tail(ctlq),
         UNCHANGED <<limit, passed>>
  PROVE  /\ TableOK' /\ QueueOK'
         /\ Fds' = Fds /\ fd \notin DOMAIN conns /\ c \in Conns
         /\ Queued(c) /\ ~ Open(c)
         /\ \A f \in DOMAIN conns : fdt'[f] = fdt[f] /\ fdt[f] # c /\ f # fd
         /\ fdt'[fd] = c
         /\ \A d \in Conns : Open(d)' <=> Open(d) \/ d = c
  <1>1. /\ \A m, n \in 1..Len(ctlq') : ctlq'[m] = ctlq'[n] => m = n
        /\ \A d : Queued(d)' <=> Queued(d) /\ d # c
        /\ Queued(c)
    BY QueuedAfterTake
  <1>2. c \in Conns
    BY TailOfQueue DEF TypeOK
  <1>3. ~ Open(c)
    BY <1>1, <1>2 DEF TableOK
  <1>4. fd \in Fds /\ fdt[fd] = None /\ fd \notin DOMAIN conns /\ Fds' = Fds
    BY DEF Free, TableOK, Fds
  <1>5. \A f \in DOMAIN conns : fdt'[f] = fdt[f] /\ fdt[f] # c /\ f # fd /\ f \in Fds
    BY <1>3, <1>4 DEF TableOK, TypeOK, Open
  <1>6. fdt'[fd] = c
    BY <1>4 DEF TypeOK
  <1>7. c # None
    BY <1>2, NoneAssumption
  <1>8. DOMAIN conns' = {f \in Fds' : fdt'[f] # None}
    BY <1>4, <1>6, <1>7 DEF TableOK, TypeOK
  <1>9. regs' = {Reg(f, fdt'[f]) : f \in DOMAIN conns'}
    BY <1>5, <1>6 DEF TableOK
  <1>10. \A d \in Conns : Open(d)' <=> Open(d) \/ d = c
    <2>1. \A d \in Conns : Open(d) <=> \E f \in DOMAIN conns : fdt[f] = d
      BY NoneAssumption DEF Open, TableOK
    <2>2. \A d \in Conns : Open(d)' <=> \E f \in DOMAIN conns' : fdt'[f] = d
      BY <1>8, NoneAssumption DEF Open
    <2> QED
      BY <1>5, <1>6, <2>1, <2>2
  <1>11. \A f, g \in DOMAIN conns' : fdt'[f] = fdt'[g] => f = g
    BY <1>5, <1>6 DEF TableOK
  <1>12. \A d \in Conns : ~ (Open(d)' /\ Queued(d)')
    BY <1>1, <1>10 DEF TableOK
  <1>13. TableOK'
    BY <1>8, <1>9, <1>11, <1>12 DEF TableOK
  <1>14. QueueOK'
    BY <1>1, <1>2, <1>10 DEF QueueOK
  <1> QED
    BY <1>1, <1>2, <1>3, <1>4, <1>5, <1>6, <1>10, <1>13, <1>14

-----------------------------------------------------------------------------
(* Events *)

EventOf(fd) == [fd |-> fd, mask |-> Mask(fdt[fd], Reg(fd, fdt[fd]) \in armed)]

LEMMA MaskFacts ==
  ASSUME TypeOK, NEW c \in Conns, NEW out
  PROVE  Says(Mask(c, out), c)
  BY DEF TypeOK, Says, Masks, Mask

(* What EpollWait returns: the events of connections on the ready list that have
   something to report. *)
LEMMA EpollFacts ==
  ASSUME TypeOK, TableOK, EpollWait
  PROVE  /\ \A e \in batch' :
              \/ e = [fd |-> ctl]
              \/ \E fd \in DOMAIN conns :
                   e = EventOf(fd) /\ Reg(fd, fdt[fd]) \in ready /\ Reported(e.mask)
         /\ \A fd \in DOMAIN conns :
              Reg(fd, fdt[fd]) \in ready /\ Reported(EventOf(fd).mask) => EventOf(fd) \in batch'
  <1> DEFINE event(r) == [fd |-> r.fd, mask |-> Mask(r.conn, r \in armed)]
  <1>1. batch' = {e \in {event(r) : r \in ready} : Reported(e.mask)}
                   \cup (IF ctlReady THEN {[fd |-> ctl]} ELSE {})
    BY DEF EpollWait
  <1>2. \A fd \in DOMAIN conns : event(Reg(fd, fdt[fd])) = EventOf(fd)
    BY DEF Reg, EventOf
  <1>3. \A r \in ready : \E fd \in DOMAIN conns : r = Reg(fd, fdt[fd])
    BY DEF TypeOK, TableOK
  <1> HIDE DEF event
  <1>4. ASSUME NEW e \in batch', e # [fd |-> ctl]
        PROVE  \E fd \in DOMAIN conns :
                 e = EventOf(fd) /\ Reg(fd, fdt[fd]) \in ready /\ Reported(e.mask)
    <2>1. PICK r \in ready : e = event(r) /\ Reported(e.mask)
      BY <1>1, <1>4
    <2>2. PICK fd \in DOMAIN conns : r = Reg(fd, fdt[fd])
      BY <1>3
    <2> QED
      BY <1>2, <2>1, <2>2
  <1>5. ASSUME NEW fd \in DOMAIN conns, Reg(fd, fdt[fd]) \in ready,
               Reported(EventOf(fd).mask)
        PROVE  EventOf(fd) \in batch'
    BY <1>1, <1>2, <1>5
  <1> QED
    BY <1>4, <1>5

(* The table as the worker's steps find it. *)
LEMMA ConnFacts ==
  ASSUME TypeOK, TableOK, NEW fd \in DOMAIN conns
  PROVE  /\ fd \in Fds /\ fd \in Nat /\ fd # ctl
         /\ fdt[fd] \in Conns /\ Open(fdt[fd])
         /\ conns[fd] \in ConnState
         /\ Reg(fd, fdt[fd]) \in regs
  BY FdsAreNumbers DEF TypeOK, TableOK, ConnState, Open

LEMMA EnvEvents ==
  ASSUME TypeOK, TableOK, BatchOK, EventOK, NEW c \in Conns,
         Send(c) \/ Finish(c) \/ Reset(c) \/ Receive(c) \/ Pass(c) \/ LbClose(c)
  PROVE  BatchOK' /\ EventOK'
  <1>1. UNCHANGED <<limit, fdt, conns, batch, ev, pc, back>>
    BY DEF Send, Finish, Reset, Receive, Pass, LbClose, config, workerVars
  <1>2. \A d \in Conns : (fin[d] => fin'[d]) /\ (rst[d] => rst'[d])
    BY DEF TypeOK, Send, Finish, Reset, Receive, Pass, LbClose, clientVars
  <1>3. \A d \in Conns : fin[d] => inq'[d] = inq[d]
    BY DEF TypeOK, Send, Finish, Reset, Receive, Pass, LbClose
  <1>4. \A d \in Conns : \A m : Says(m, d) => Says(m, d)'
    BY <1>2 DEF Says
  <1>5. \A fd \in DOMAIN conns : fdt[fd] \in Conns
    BY ConnFacts
  <1>6. BatchOK'
    BY <1>1, <1>4, <1>5 DEF BatchOK
  <1>7. cur' = cur /\ sock' = sock /\ (AtWork' <=> AtWork)
    BY <1>1 DEF cur, sock, AtWork
  <1>8. pc = "drop" => sock \in Conns
    BY AtWorkFacts DEF AtWork
  <1>9. AtWork => sock \in Conns
    BY AtWorkFacts
  <1> QED
    BY <1>1, <1>2, <1>3, <1>4, <1>6, <1>7, <1>8, <1>9 DEF EventOK

(* A step that keeps the batch, the table and what clients have said. *)
LEMMA BatchKept ==
  ASSUME BatchOK, UNCHANGED <<fdt, batch, fin, rst>>, DOMAIN conns' = DOMAIN conns,
         pc' \in {"start", "wait"} => batch = {}
  PROVE  BatchOK'
  BY DEF BatchOK, Says

LEMMA EventKept ==
  ASSUME EventOK, AtWork, UNCHANGED <<fdt, batch, ev, fin, rst>>, DOMAIN conns' = DOMAIN conns
  PROVE  /\ cur' = cur /\ sock' = sock /\ cur \in DOMAIN conns' /\ Says(ev.mask, sock)'
         /\ ev'.mask = ev.mask
         /\ \A e \in batch' : e.fd # cur'
  BY DEF EventOK, Says, cur, sock

LEMMA ServerEvents ==
  ASSUME TypeOK, TableOK, QueueOK, BatchOK, EventOK, Server
  PROVE  BatchOK' /\ EventOK'
  <1> USE DEF config, clientVars, lbVars, epollVars, workerVars
  <1>1. CASE Run
    BY <1>1, BatchKept DEF Run, EventOK, AtWork, BatchOK
  <1>2. CASE EpollWait
    <2>1. \A fd \in DOMAIN conns : /\ fdt[fd] \in Conns /\ fd # ctl
                                   /\ EventOf(fd).fd = fd
                                   /\ Says(EventOf(fd).mask, fdt[fd])
      <3> TAKE fd \in DOMAIN conns
      <3>1. fdt[fd] \in Conns /\ fd # ctl
        BY ConnFacts
      <3>2. EventOf(fd).fd = fd
            /\ EventOf(fd).mask = Mask(fdt[fd], Reg(fd, fdt[fd]) \in armed)
        BY DEF EventOf
      <3>3. Says(Mask(fdt[fd], Reg(fd, fdt[fd]) \in armed), fdt[fd])
        BY <3>1, MaskFacts
      <3> QED
        BY <3>1, <3>2, <3>3
    <2>2. UNCHANGED <<fdt, conns, fin, rst>> /\ pc' = "next"
      BY <1>2 DEF EpollWait
    <2>3. \A e \in batch' : e = [fd |-> ctl] \/ (e.fd \in DOMAIN conns /\ Says(e.mask, fdt[e.fd]))
      BY <1>2, <2>1, EpollFacts
    <2>4. \A e \in batch' : e = [fd |-> ctl] \/ (e.fd \in DOMAIN conns /\ e = EventOf(e.fd))
      BY <1>2, <2>1, EpollFacts
    <2>5. \A e, f \in batch' : e.fd = f.fd => e = f
      BY <2>1, <2>4
    <2> QED
      BY <2>2, <2>3, <2>5 DEF BatchOK, EventOK, AtWork, Says
  <1>3. ASSUME NEW e \in batch, Dispatch(e) PROVE BatchOK' /\ EventOK'
    <2>1. /\ UNCHANGED <<fdt, conns, fin, rst, inq>> /\ pc' = Handling(e)
          /\ batch' = batch \ {e} /\ ev' = e /\ pc = "next"
      BY <1>3 DEF Dispatch
    <2>2. BatchOK'
      BY <2>1 DEF BatchOK, Says, Handling
    <2>3. CASE e.fd \notin DOMAIN conns
      BY <2>1, <2>2, <2>3 DEF Handling, EventOK, AtWork
    <2>4. CASE e.fd \in DOMAIN conns
      <3>1. e.fd # ctl
        BY <2>4, ConnFacts
      <3>2. Says(e.mask, fdt[e.fd])
        BY <3>1 DEF BatchOK
      <3>3. cur' = e.fd /\ sock' = fdt[e.fd]
        BY <2>1 DEF cur, sock
      <3>4. \A f \in batch' : f.fd # e.fd
        BY <2>1 DEF BatchOK
      <3>5. pc' = IF e.mask.hup THEN "drop" ELSE IF e.mask.out THEN "flush"
                  ELSE IF e.mask.in THEN "read" ELSE "rdhup"
        BY <2>1, <2>4, <3>1 DEF Handling
      <3>6. Says(ev.mask, sock)'
        BY <2>1, <3>2, <3>3 DEF Says
      <3>7. pc' = "rdhup" => ~ (ev.mask.rdhup)'
        BY <2>1, <3>2, <3>5 DEF Says
      <3>8. pc' = "drop" => (rst[sock])'
        BY <2>1, <3>2, <3>3, <3>5 DEF Says
      <3> QED
        BY <2>1, <2>2, <2>4, <3>3, <3>4, <3>6, <3>7, <3>8 DEF EventOK
    <2> QED
      BY <2>3, <2>4
  <1>4. CASE BatchDone
    BY <1>4, BatchKept DEF BatchDone, EventOK, AtWork
  <1>5. CASE RdHup
    <2>1. pc' = "next"
      BY <1>5 DEF RdHup, EventOK
    <2> QED
      BY <1>5, <2>1, BatchKept DEF RdHup, EventOK, AtWork
  <1>6. CASE Drop
    <2>1. /\ DOMAIN conns' = DOMAIN conns \ {cur}
          /\ \A fd \in DOMAIN conns' : fdt'[fd] = fdt[fd]
      BY <1>6, DropTable
    <2>2. \A e \in batch : e.fd # cur
      BY <1>6 DEF Drop, AtWork, EventOK
    <2>3. UNCHANGED <<batch, fin, rst>> /\ pc' = "next"
      BY <1>6 DEF Drop
    <2> QED
      BY <2>1, <2>2, <2>3 DEF BatchOK, EventOK, AtWork, Says
  <1>7. CASE ReadData
    <2>1. AtWork /\ UNCHANGED <<fdt, batch, ev, fin, rst>> /\ DOMAIN conns' = DOMAIN conns
          /\ pc' \in {"flush", "read"}
      BY <1>7 DEF ReadData, AtWork, ReadsAgain
    <2> QED
      BY <2>1, BatchKept, EventKept DEF EventOK
  <1>8. CASE ReadBlocks
    <2>1. AtWork /\ UNCHANGED <<fdt, batch, ev, fin, rst, conns>> /\ pc' = "rdhup"
      BY <1>8 DEF ReadBlocks, AtWork
    <2>2. ~ ev.mask.rdhup
      BY <1>8, <2>1 DEF ReadBlocks, EventOK, Says
    <2> QED
      BY <2>1, <2>2, BatchKept, EventKept DEF EventOK
  <1>9. CASE ReadEnds
    <2>1. /\ AtWork /\ UNCHANGED <<fdt, batch, ev, fin, rst, conns, inq>> /\ pc' = "drop"
          /\ inq[sock] = 0 /\ (fin[sock] \/ rst[sock])
      BY <1>9 DEF ReadEnds, AtWork
    <2> QED
      BY <2>1, BatchKept, EventKept DEF EventOK
  <1>10. CASE Write \/ WriteBlocks
    <2>1. AtWork /\ UNCHANGED <<fdt, batch, ev, fin, rst>> /\ DOMAIN conns' = DOMAIN conns
          /\ pc' \in {"flush", "armOut"}
      BY <1>10 DEF Write, WriteBlocks, AtWork
    <2> QED
      BY <2>1, BatchKept, EventKept DEF EventOK
  <1>11. CASE WriteFails
    <2>1. /\ AtWork /\ UNCHANGED <<fdt, batch, ev, fin, rst, conns>> /\ pc' = "drop"
          /\ rst[sock]
      BY <1>11 DEF WriteFails, AtWork
    <2> QED
      BY <2>1, BatchKept, EventKept DEF EventOK
  <1>12. CASE ArmOut \/ FlushDone
    <2>1. AtWork /\ UNCHANGED <<fdt, batch, ev, fin, rst>> /\ DOMAIN conns' = DOMAIN conns
          /\ pc' = AfterFlush
      BY <1>12 DEF ArmOut, FlushDone, AtWork
    <2>2. pc' = "read" \/ (pc' = "rdhup" /\ ~ ev.mask.rdhup)
      BY <2>1 DEF AfterFlush, EventOK, Says
    <2> QED
      BY <2>1, <2>2, BatchKept, EventKept DEF EventOK
  <1>13. CASE Recv
    <2>1. PICK fd \in Free : \E c :
            /\ c = Head(ctlq) /\ ctlq # <<>> /\ ctlq' = Tail(ctlq)
            /\ fdt' = [fdt EXCEPT ![fd] = c] /\ regs' = regs \cup {Reg(fd, c)}
            /\ DOMAIN conns' = DOMAIN conns \cup {fd}
            /\ UNCHANGED <<limit, passed>>
      BY <1>13 DEF Recv
    <2>2. \A f \in DOMAIN conns : fdt'[f] = fdt[f] /\ f \in DOMAIN conns'
      BY <2>1, RecvTable
    <2>3. UNCHANGED <<batch, fin, rst>> /\ pc' = "recv"
      BY <1>13 DEF Recv, TakesMore
    <2> QED
      BY <2>2, <2>3 DEF BatchOK, EventOK, AtWork, Says
  <1>14. CASE RecvFails \/ RecvBlocks
    BY <1>14, BatchKept DEF RecvFails, RecvBlocks, EventOK, AtWork
  <1> QED
    BY <1>1, <1>2, <1>3, <1>4, <1>5, <1>6, <1>7, <1>8, <1>9, <1>10, <1>11, <1>12,
       <1>13, <1>14 DEF Server

LEMMA TableStep ==
  ASSUME TypeOK, TableOK, QueueOK, EventOK, Next
  PROVE  TableOK' /\ QueueOK'
  <1> USE DEF config, clientVars, lbVars, epollVars, workerVars
  <1>1. ASSUME NEW c \in Conns,
               Send(c) \/ Finish(c) \/ Reset(c) \/ Receive(c) \/ Pass(c) \/ LbClose(c)
        PROVE  TableOK' /\ QueueOK'
    <2>1. CASE Send(c) \/ Finish(c) \/ Reset(c) \/ Receive(c)
      BY <2>1, TableKept DEF Send, Finish, Reset, Receive
    <2> QED
      BY <1>1, <2>1, PassTable, LbCloseTable
  <1>2. CASE Run \/ EpollWait \/ BatchDone \/ RdHup
    BY <1>2, TableKept DEF Run, EpollWait, BatchDone, RdHup
  <1>3. CASE \E e \in batch : Dispatch(e)
    BY <1>3, TableKept DEF Dispatch
  <1>4. CASE Drop
    BY <1>4, DropTable
  <1>5. CASE ReadData
    BY <1>5, TableKept DEF ReadData
  <1>6. CASE ReadBlocks \/ ReadEnds \/ WriteBlocks \/ WriteFails \/ RecvBlocks
    BY <1>6, TableKept DEF ReadBlocks, ReadEnds, WriteBlocks, WriteFails, RecvBlocks
  <1>7. CASE Write
    BY <1>7, TableKept DEF Write
  <1>8. CASE ArmOut \/ FlushDone
    <2>1. UNCHANGED <<limit, fdt, regs, ctlq, passed>> /\ DOMAIN conns' = DOMAIN conns
      BY <1>8 DEF ArmOut, FlushDone, Modify
    <2> QED
      BY <2>1, TableKept
  <1>9. CASE Recv
    <2>1. PICK fd \in Free : \E c :
            /\ c = Head(ctlq) /\ ctlq # <<>> /\ ctlq' = Tail(ctlq)
            /\ fdt' = [fdt EXCEPT ![fd] = c] /\ regs' = regs \cup {Reg(fd, c)}
            /\ DOMAIN conns' = DOMAIN conns \cup {fd}
            /\ UNCHANGED <<limit, passed>>
      BY <1>9 DEF Recv
    <2> QED
      BY <2>1, RecvTable
  <1>10. CASE RecvFails
    <2>1. CASE listener
      BY <1>10, <2>1, TableKept DEF RecvFails
    <2>2. CASE ~ listener
      <3>1. /\ \A m, n \in 1..Len(ctlq') : ctlq'[m] = ctlq'[n] => m = n
            /\ \A c : Queued(c)' => Queued(c)
        BY <1>10, <2>2, QueuedAfterTake DEF RecvFails
      <3>2. UNCHANGED <<limit, fdt, regs, passed, conns>>
        BY <1>10 DEF RecvFails
      <3>3. \A c : Open(c)' <=> Open(c)
        BY <3>2 DEF Open, Fds
      <3> QED
        BY <3>1, <3>2, <3>3 DEF TableOK, QueueOK, Fds
    <2> QED
      BY <2>1, <2>2
  <1> QED
    BY <1>1, <1>2, <1>3, <1>4, <1>5, <1>6, <1>7, <1>8, <1>9, <1>10
       DEF Next, Environment, Server

-----------------------------------------------------------------------------
(* Division *)

LEMMA DivMod ==
  ASSUME NEW L \in Nat, L > 0, NEW x \in Nat
  PROVE /\ x \div L \in Nat /\ x % L \in Nat /\ x % L < L
        /\ x = L * (x \div L) + (x % L)
  OBVIOUS
(* The quotient and the remainder are unique. *)
LEMMA DivModUnique ==
  ASSUME NEW L \in Nat, L > 0, NEW q \in Int, NEW p \in Int, NEW r \in Nat, NEW s \in Nat, r < L, s < L,
    L * q + r = L * p + s
  PROVE q = p /\ r = s
  <1>1. ~(q < p)
    <2>1. ASSUME q < p PROVE FALSE
      <3>1. p - q >= 1 
        BY <2>1
      <3>2. L * (p - q) >= L * 1
        BY <3>1
      <3>3. L * (p - q) = L * p - L * q
        OBVIOUS
      <3> QED BY <3>2, <3>3
    <2> QED BY <2>1
  <1>2. ~(p < q)
    <2>1. ASSUME p < q PROVE FALSE
      <3>1. q - p >= 1 
        BY <2>1
      <3>2. L * (q - p) >= L * 1
        BY <3>1
      <3>3. L * (q - p) = L * q - L * p
        OBVIOUS
      <3> QED BY <3>2, <3>3
    <2> QED BY <2>1
  <1> QED BY <1>1, <1>2
(* Dividing a sum: what was left over takes part again. *)
LEMMA DivAdd ==
  ASSUME NEW L \in Nat, L > 0, NEW s \in Nat, NEW n \in Nat
  PROVE /\ (s + n) \div L = s \div L + ((s % L) + n) \div L
        /\ (s + n) % L = ((s % L) + n) % L
  <1> DEFINE q == s \div L
             r == s % L
             p == (r + n) \div L
             t == (r + n) % L
             u == (s + n) \div L
             v == (s + n) % L
  <1>1. q \in Nat /\ r \in Nat /\ s = L * q + r
    BY DivMod
  <1>2. p \in Nat /\ t \in Nat /\ t < L /\ r + n = L * p + t
    <2>1. r + n \in Nat
      BY <1>1
    <2> HIDE DEF r
    <2> QED BY <2>1, DivMod
  <1>3. u \in Nat /\ v \in Nat /\ v < L /\ s + n = L * u + v
    <2>1. s + n \in Nat
      OBVIOUS
    <2> QED BY <2>1, DivMod
  <1> HIDE DEF q, r, p, t, u, v
  <1>4. L * (q + p) = L * q + L * p
    BY <1>1, <1>2
  <1>5. L * u + v = L * (q + p) + t
    <2>1. L * u \in Nat /\ L * q \in Nat /\ L * p \in Nat
      BY <1>1, <1>2, <1>3
    <2>2. L * u + v = L * q + r + n
      BY <1>1, <1>3
    <2> QED
      BY <1>1, <1>2, <1>3, <1>4, <2>1, <2>2
  <1>6. q + p \in Int /\ u \in Int
    BY <1>1, <1>2, <1>3
  <1>7. u = q + p /\ v = t
    BY <1>2, <1>3, <1>5, <1>6, DivModUnique
  <1> QED
    BY <1>7 DEF q, r, p, t, u, v

-----------------------------------------------------------------------------
(* The stream of each connection *)

(* Conserved, of connection c with the buffers o. *)
Account(c, o) ==
  /\ o.wn <= o.wb
  /\ got[c] + outq[c] + (o.wb - o.wn) = RespLen * ((sent[c] - inq[c]) \div ReqLen)
  /\ o.rb = (sent[c] - inq[c]) % ReqLen

LEMMA Accounts == Conserved <=> \A fd \in DOMAIN conns : Account(fdt[fd], conns[fd])
  BY DEF Conserved, Account

(* A step that moves no data. *)
LEMMA StreamKept ==
  ASSUME Untouched, Conserved, UNCHANGED <<sent, got, inq, outq, fdt, conns>>,
         \A c \in Conns : c \notin passed' \/ Queued(c)' => c \notin passed \/ Queued(c)
  PROVE  Untouched' /\ Conserved'
  <1>1. Untouched'
    BY DEF Untouched
  <1>2. Conserved'
    BY DEF Conserved
  <1> QED
    BY <1>1, <1>2

LEMMA EnvStream ==
  ASSUME TypeOK, TableOK, QueueOK, Untouched, Conserved, NEW c \in Conns,
         Send(c) \/ Finish(c) \/ Reset(c) \/ Receive(c) \/ Pass(c) \/ LbClose(c)
  PROVE  Untouched' /\ Conserved'
  <1> USE DEF config, clientVars, lbVars, epollVars, workerVars
  <1>1. CASE Finish(c) \/ Reset(c) \/ LbClose(c)
    BY <1>1, StreamKept DEF Finish, Reset, LbClose, Queued
  <1>2. CASE Pass(c)
    <2>1. \A d : Queued(d)' <=> Queued(d) \/ d = c
      BY <1>2, QueuedAfterPass DEF Pass
    <2> QED
      BY <1>2, <2>1, StreamKept DEF Pass
  <1>3. CASE Send(c) \/ Receive(c)
    <2>1. UNCHANGED <<conns, fdt, ctlq, passed>>
      BY <1>3 DEF Send, Receive
    <2>2. \A d \in Conns : Queued(d)' <=> Queued(d)
      BY <2>1 DEF Queued
    <2>3. \A d \in Conns : /\ inq'[d] <= sent'[d]
                           /\ sent'[d] - inq'[d] = sent[d] - inq[d]
                           /\ got'[d] + outq'[d] = got[d] + outq[d]
                           /\ d \notin passed \/ Queued(d) =>
                                got'[d] = 0 /\ outq'[d] = 0 /\ inq'[d] = sent'[d]
      <3>1. \A d \in Conns :
              /\ sent[d] \in Nat /\ inq[d] \in Nat /\ got[d] \in Nat /\ outq[d] \in Nat
              /\ inq[d] <= sent[d]
              /\ d \notin passed \/ Queued(d) => got[d] = 0 /\ outq[d] = 0 /\ inq[d] = sent[d]
        BY Sizes DEF TypeOK, Untouched
      <3>2. CASE Send(c)
        <4>1. /\ got' = got /\ outq' = outq
              /\ \A d \in Conns : /\ sent'[d] = sent[d] + (IF d = c THEN 1 ELSE 0)
                                  /\ inq'[d] = inq[d] + (IF d = c THEN 1 ELSE 0)
          BY <3>2 DEF Send, TypeOK
        <4> QED
          BY <3>1, <4>1
      <3>3. CASE Receive(c)
        <4>1. /\ sent' = sent /\ inq' = inq /\ outq[c] > 0
              /\ \A d \in Conns : /\ outq'[d] = outq[d] - (IF d = c THEN 1 ELSE 0)
                                  /\ got'[d] = got[d] + (IF d = c THEN 1 ELSE 0)
          BY <3>3, <3>1 DEF Receive, TypeOK
        <4> QED
          BY <3>1, <4>1
      <3> QED
        BY <1>3, <3>2, <3>3
    <2>4. Untouched'
      BY <2>1, <2>2, <2>3 DEF Untouched
    <2>5. \A fd \in DOMAIN conns : fdt[fd] \in Conns
      BY ConnFacts
    <2>6. \A fd \in DOMAIN conns : Account(fdt[fd], conns[fd])
      BY Accounts
    <2>7. \A fd \in DOMAIN conns : Account(fdt[fd], conns[fd])'
      BY <2>1, <2>3, <2>5, <2>6 DEF Account
    <2>8. Conserved'
      BY <2>1, <2>7 DEF Conserved, Account
    <2> QED
      BY <2>4, <2>8
  <1> QED
    BY <1>1, <1>2, <1>3

(* A step that changes the stream of the current connection only. *)
LEMMA StreamOfCur ==
  ASSUME TypeOK, TableOK, QueueOK, EventOK, AtWork, Untouched, Conserved,
         UNCHANGED <<sent, got, fdt, ctlq, passed, ev>>, DOMAIN conns' = DOMAIN conns,
         \A fd \in DOMAIN conns : fd # cur => conns'[fd] = conns[fd],
         \A c \in Conns : c # sock => inq'[c] = inq[c] /\ outq'[c] = outq[c],
         inq'[sock] <= sent[sock],
         Account(sock, conns[cur]) => Account(sock, conns[cur])'
  PROVE  Untouched' /\ Conserved'
  <1>1. cur \in DOMAIN conns /\ sock = fdt[cur] /\ sock \in Conns
    BY AtWorkFacts DEF sock
  <1>2. sock \in passed /\ ~ Queued(sock)
    BY <1>1, ConnFacts DEF TableOK, QueueOK
  <1>3. \A c \in Conns : Queued(c)' <=> Queued(c)
    BY DEF Queued
  <1>4. Untouched'
    BY <1>2, <1>3 DEF Untouched
  <1>5. \A fd \in DOMAIN conns : fd # cur => fdt[fd] # sock /\ fdt[fd] \in Conns
    BY <1>1, ConnFacts DEF TableOK
  <1>6. \A fd \in DOMAIN conns : Account(fdt[fd], conns[fd])
    BY Accounts
  <1>7. \A fd \in DOMAIN conns : fd # cur => Account(fdt[fd], conns[fd])'
    BY <1>5, <1>6 DEF Account
  <1>8. cur' = cur /\ sock' = sock
    BY DEF cur, sock
  <1>9. Account(fdt[cur], conns[cur])'
    BY <1>1, <1>6, <1>8 DEF Account
  <1>10. Conserved'
    BY <1>7, <1>8, <1>9 DEF Conserved, Account
  <1> QED
    BY <1>4, <1>10

LEMMA ReadStream ==
  ASSUME TypeOK, TableOK, QueueOK, EventOK, Untouched, Conserved, ReadData
  PROVE  Untouched' /\ Conserved'
  <1> DEFINE n == Min2(inq[sock], Buf)
             o == Handled(conns[cur], n)
             s == sent[sock] - inq[sock]
  <1>1. AtWork
    BY DEF ReadData, AtWork
  <1>2. cur \in DOMAIN conns /\ sock = fdt[cur] /\ sock \in Conns /\ conns[cur] \in ConnState
    BY <1>1, AtWorkFacts DEF sock
  <1>3. /\ sent[sock] \in Nat /\ inq[sock] \in Nat /\ inq[sock] <= sent[sock]
        /\ got[sock] \in Nat /\ outq[sock] \in Nat
    BY <1>2, Sizes DEF TypeOK, Untouched
  <1>4. n \in Nat /\ n <= inq[sock] /\ s \in Nat
    BY <1>3, Sizes DEF Min2
  <1>5. /\ conns' = [conns EXCEPT ![cur] = o]
        /\ inq' = [inq EXCEPT ![sock] = inq[sock] - n]
        /\ UNCHANGED <<sent, got, outq, fdt, ctlq, passed, ev>>
    BY DEF ReadData, config, clientVars, lbVars
  <1>6. /\ cur' = cur /\ sock' = sock /\ conns'[cur] = o
        /\ inq'[sock] = inq[sock] - n
        /\ \A c \in Conns : c # sock => inq'[c] = inq[c]
    BY <1>2, <1>5 DEF cur, sock, TypeOK
  <1>7. /\ o.rb = (conns[cur].rb + n) % ReqLen
        /\ o.wb = conns[cur].wb + RespLen * ((conns[cur].rb + n) \div ReqLen)
        /\ o.wn = conns[cur].wn
    BY <1>2, <1>4, ConnTypes
  <1> HIDE DEF o, n
  <1>8. ASSUME Account(sock, conns[cur]) PROVE Account(sock, conns[cur])'
    <2> DEFINE k == s \div ReqLen
               j == (conns[cur].rb + n) \div ReqLen
    <2>1. conns[cur].rb = s % ReqLen
      BY <1>8 DEF Account
    <2>2. (s + n) \div ReqLen = k + j /\ (s + n) % ReqLen = (conns[cur].rb + n) % ReqLen
      BY <1>4, <2>1, Sizes, DivAdd
    <2>3. sent'[sock] - inq'[sock] = s + n
      BY <1>3, <1>4, <1>5, <1>6
    <2>4. /\ conns[cur].wb \in Nat /\ conns[cur].wn \in Nat /\ conns[cur].rb \in Nat
          /\ conns[cur].wn <= conns[cur].wb
          /\ got[sock] + outq[sock] + (conns[cur].wb - conns[cur].wn) = RespLen * k
      BY <1>2, <1>8, Sizes DEF ConnState, Account
    <2>5. k \in Nat
      BY <1>4, Sizes, DivMod
    <2>6. j \in Nat
      <3>1. conns[cur].rb + n \in Nat
        BY <1>4, <2>4
      <3> QED
        BY <3>1, Sizes, DivMod
    <2> HIDE DEF k, j
    <2>7. RespLen * (k + j) = RespLen * k + RespLen * j /\ RespLen * j \in Nat /\ RespLen * k \in Nat
      BY <2>5, <2>6, Sizes
    <2>8. o.wb = conns[cur].wb + RespLen * j
      BY <1>7 DEF j
    <2>9. o.wn <= o.wb
      BY <1>7, <2>4, <2>7, <2>8
    <2>10. got[sock] + outq[sock] + (o.wb - o.wn) = RespLen * (k + j)
      BY <1>3, <1>7, <2>4, <2>7, <2>8
    <2>11. o.rb = (s + n) % ReqLen
      BY <1>7, <2>2
    <2> QED
      BY <1>5, <1>6, <2>2, <2>3, <2>9, <2>10, <2>11 DEF Account
  <1>9. inq'[sock] <= sent[sock]
    BY <1>3, <1>4, <1>6
  <1> QED
    BY <1>1, <1>5, <1>6, <1>8, <1>9, StreamOfCur

LEMMA WriteStream ==
  ASSUME TypeOK, TableOK, QueueOK, EventOK, Untouched, Conserved, Write
  PROVE  Untouched' /\ Conserved'
  <1> DEFINE w == conns[cur].wb - conns[cur].wn
             n == Min2(room(sock), w)
             o == [conns[cur] EXCEPT !.wn = conns[cur].wn + n]
  <1>1. AtWork
    BY DEF Write, AtWork
  <1>2. cur \in DOMAIN conns /\ sock = fdt[cur] /\ sock \in Conns /\ conns[cur] \in ConnState
    BY <1>1, AtWorkFacts DEF sock
  <1>3. /\ sent[sock] \in Nat /\ inq[sock] \in Nat /\ inq[sock] <= sent[sock]
        /\ got[sock] \in Nat /\ outq[sock] \in 0..SndBuf
        /\ conns[cur].wb \in Nat /\ conns[cur].wn \in Nat
    BY <1>2, Sizes DEF TypeOK, Untouched, ConnState
  <1>4. n \in Nat /\ n <= w
    <2>1. room(sock) \in Nat
      BY <1>3, Sizes DEF room
    <2>2. w \in Nat
      BY <1>3 DEF Write
    <2> QED
      BY <2>1, <2>2 DEF Min2
  <1>5. /\ conns' = [conns EXCEPT ![cur] = o]
        /\ outq' = [outq EXCEPT ![sock] = outq[sock] + n]
        /\ UNCHANGED <<sent, got, inq, fdt, ctlq, passed, ev>>
    BY DEF Write, config, clientVars, lbVars
  <1>6. /\ cur' = cur /\ sock' = sock /\ conns'[cur] = o
        /\ outq'[sock] = outq[sock] + n
        /\ \A c \in Conns : c # sock => outq'[c] = outq[c]
    BY <1>2, <1>5 DEF cur, sock, TypeOK
  <1>7. o.rb = conns[cur].rb /\ o.wb = conns[cur].wb /\ o.wn = conns[cur].wn + n
    BY <1>2 DEF ConnState
  <1>8. ASSUME Account(sock, conns[cur]) PROVE Account(sock, conns[cur])'
    <2> HIDE DEF o, n
    <2>1. o.wn <= o.wb
      BY <1>3, <1>4, <1>7
    <2>2. got[sock] + outq[sock] + n + (o.wb - o.wn) = got[sock] + outq[sock] + w
      BY <1>3, <1>4, <1>7
    <2>3. got'[sock] + outq'[sock] + (o.wb - o.wn) = got[sock] + outq[sock] + w
      BY <1>3, <1>4, <1>5, <1>6, <1>7, <2>2
    <2> QED
      BY <1>5, <1>6, <1>7, <1>8, <2>1, <2>3 DEF Account
  <1>9. inq'[sock] <= sent[sock]
    BY <1>3, <1>5
  <1> HIDE DEF o, n
  <1> QED
    BY <1>1, <1>5, <1>6, <1>8, <1>9, StreamOfCur

LEMMA ServerStream ==
  ASSUME TypeOK, TableOK, QueueOK, EventOK, Untouched, Conserved, Server
  PROVE  Untouched' /\ Conserved'
  <1> USE DEF config, clientVars, lbVars, epollVars, workerVars
  <1>1. CASE Run \/ EpollWait \/ BatchDone \/ RdHup
    BY <1>1, StreamKept DEF Run, EpollWait, BatchDone, RdHup, Queued
  <1>2. CASE \E e \in batch : Dispatch(e)
    BY <1>2, StreamKept DEF Dispatch, Queued
  <1>3. CASE Drop
    <2>1. /\ DOMAIN conns' \subseteq DOMAIN conns
          /\ \A fd \in DOMAIN conns' : conns'[fd] = conns[fd] /\ fdt'[fd] = fdt[fd]
      BY <1>3, DropTable
    <2>2. UNCHANGED <<sent, got, inq, outq, passed, ctlq>>
      BY <1>3 DEF Drop
    <2>3. Untouched'
      BY <2>2 DEF Untouched, Queued
    <2>4. Conserved'
      BY <2>1, <2>2 DEF Conserved
    <2> QED
      BY <2>3, <2>4
  <1>4. CASE ReadData
    BY <1>4, ReadStream
  <1>5. CASE ReadBlocks \/ ReadEnds \/ WriteBlocks \/ WriteFails \/ RecvBlocks \/ ArmOut
    BY <1>5, StreamKept DEF ReadBlocks, ReadEnds, WriteBlocks, WriteFails, RecvBlocks, ArmOut, Queued
  <1>6. CASE Write
    BY <1>6, WriteStream
  <1>7. CASE FlushDone
    <2>1. AtWork /\ UNCHANGED <<sent, got, inq, outq, fdt, ctlq, passed, ev>>
          /\ conns' = [conns EXCEPT ![cur] = WbReset(conns[cur])]
      BY <1>7 DEF FlushDone, AtWork
    <2>2. cur \in DOMAIN conns /\ sock \in Conns /\ conns[cur] \in ConnState
      BY <2>1, AtWorkFacts
    <2>3. /\ WbReset(conns[cur]).rb = conns[cur].rb
          /\ WbReset(conns[cur]).wb = 0 /\ WbReset(conns[cur]).wn = 0
      BY <2>2 DEF WbReset, ConnState
    <2>4. cur' = cur /\ sock' = sock /\ conns'[cur] = WbReset(conns[cur])
      BY <2>1, <2>2 DEF cur, sock
    <2>5. conns[cur].wb \in Nat /\ conns[cur].wn = conns[cur].wb
          /\ conns[cur].wb - conns[cur].wn = 0
      BY <1>7, <2>2 DEF FlushDone, ConnState
    <2>6. ASSUME Account(sock, conns[cur]) PROVE Account(sock, conns[cur])'
      BY <2>1, <2>3, <2>4, <2>5, <2>6 DEF Account
    <2>7. inq[sock] <= sent[sock]
      BY <2>2 DEF Untouched
    <2> QED
      BY <2>1, <2>6, <2>7, StreamOfCur
  <1>8. CASE Recv
    <2>1. PICK fd \in Free : \E c :
            /\ c = Head(ctlq) /\ ctlq # <<>> /\ ctlq' = Tail(ctlq)
            /\ fdt' = [fdt EXCEPT ![fd] = c] /\ regs' = regs \cup {Reg(fd, c)}
            /\ conns' = [f \in DOMAIN conns \cup {fd} |->
                           IF f = fd THEN [rb |-> 0, wb |-> 0, wn |-> 0] ELSE conns[f]]
            /\ UNCHANGED <<limit, passed>>
      BY <1>8 DEF Recv
    <2> DEFINE c == Head(ctlq)
    <2>2. /\ c \in Conns /\ Queued(c) /\ fdt'[fd] = c
          /\ \A f \in DOMAIN conns : fdt'[f] = fdt[f] /\ f # fd
      BY <2>1, RecvTable
    <2>3. \A d : Queued(d)' => Queued(d)
      BY <2>1, QueuedAfterTake
    <2>4. UNCHANGED <<sent, got, inq, outq, passed>>
      BY <1>8 DEF Recv
    <2>5. Untouched'
      BY <2>3, <2>4 DEF Untouched
    <2>6. got[c] = 0 /\ outq[c] = 0 /\ inq[c] = sent[c] /\ sent[c] \in Nat
      BY <2>2 DEF Untouched, TypeOK
    <2>7. sent[c] - inq[c] = 0 /\ 0 \div ReqLen = 0 /\ 0 % ReqLen = 0 /\ RespLen * 0 = 0
      BY <2>6, Sizes
    <2>8. /\ conns'[fd] = [rb |-> 0, wb |-> 0, wn |-> 0]
          /\ \A f \in DOMAIN conns : conns'[f] = conns[f]
          /\ DOMAIN conns' = DOMAIN conns \cup {fd}
      BY <2>1, <2>2
    <2>9. Account(fdt[fd], conns[fd])'
      <3> HIDE DEF c
      <3> QED
        BY <2>2, <2>4, <2>6, <2>7, <2>8 DEF Account
    <2>10. \A f \in DOMAIN conns : Account(fdt[f], conns[f])'
      BY <2>2, <2>4, <2>8, Accounts DEF Account
    <2>11. Conserved'
      BY <2>8, <2>9, <2>10 DEF Conserved, Account
    <2> QED
      BY <2>5, <2>11
  <1>9. CASE RecvFails
    <2>1. \A c : Queued(c)' => Queued(c)
      BY <1>9, QueuedAfterTake DEF RecvFails, Queued
    <2> QED
      BY <1>9, <2>1, StreamKept DEF RecvFails
  <1> QED
    BY <1>1, <1>2, <1>3, <1>4, <1>5, <1>6, <1>7, <1>8, <1>9 DEF Server


-----------------------------------------------------------------------------
(* No edge is lost *)

(* A step that keeps the connections and takes nothing out of the worker's
   hands. *)
LEMMA SeenKept ==
  ASSUME InputSeen, OutputSeen, UNCHANGED <<fdt, conns, inq, fin, rst, ready, armed, nospace>>,
         \A fd \in DOMAIN conns : /\ WillRead(fd) => WillRead(fd)'
                                  /\ WillWrite(fd) => WillWrite(fd)'
                                  /\ WillFlush(fd) => WillFlush(fd)'
  PROVE  InputSeen' /\ OutputSeen'
  BY DEF InputSeen, OutputSeen

LEMMA LbCloseForgetsNothing ==
  ASSUME TypeOK, TableOK, NEW c \in Conns, LbClose(c)
  PROVE  UNCHANGED <<armed, ready>>
  <1>1. CASE Open(c) \/ Queued(c)
    BY <1>1 DEF LbClose
  <1>2. CASE ~ (Open(c) \/ Queued(c))
    <2>1. \A r \in regs : r.conn # c
      BY <1>2 DEF TableOK, Open, Reg
    <2> QED
      BY <1>2, <2>1 DEF LbClose, Forget, TypeOK
  <1> QED
    BY <1>1, <1>2

LEMMA EnvSeen ==
  ASSUME TypeOK, TableOK, InputSeen, OutputSeen, NEW c \in Conns,
         Send(c) \/ Finish(c) \/ Reset(c) \/ Receive(c) \/ Pass(c) \/ LbClose(c)
  PROVE  InputSeen' /\ OutputSeen'
  <1> USE DEF config, clientVars, lbVars, epollVars, workerVars
  <1>1. UNCHANGED <<fdt, conns, batch, ev, pc, back, armed>>
    BY LbCloseForgetsNothing DEF Send, Finish, Reset, Receive, Pass, LbClose
  <1>2. \A fd : /\ WillRead(fd)' <=> WillRead(fd)
                /\ WillWrite(fd)' <=> WillWrite(fd)
                /\ WillFlush(fd)' <=> WillFlush(fd)
    BY <1>1 DEF WillRead, WillWrite, WillFlush, cur
  <1>3. \A fd \in DOMAIN conns : /\ fdt[fd] \in Conns /\ Reg(fd, fdt[fd]) \in regs
                                 /\ Reg(fd, fdt[fd]).conn = fdt[fd]
    BY ConnFacts DEF Reg
  <1>4. ready \subseteq ready'
    BY LbCloseForgetsNothing DEF Send, Finish, Reset, Receive, Pass, LbClose
  <1>5. \A d \in Conns : \/ inq'[d] = inq[d] /\ fin'[d] = fin[d] /\ rst'[d] = rst[d]
                         \/ wakeIn(d) \subseteq ready'
    BY DEF Send, Finish, Reset, Receive, Pass, LbClose, TypeOK
  <1>6. InputSeen'
    <2> SUFFICES ASSUME NEW fd \in DOMAIN conns, inq'[fdt[fd]] > 0 \/ fin'[fdt[fd]] \/ rst'[fdt[fd]]
                 PROVE  Reg(fd, fdt[fd]) \in ready' \/ WillRead(fd)
      BY <1>1, <1>2 DEF InputSeen, Reg
    <2>1. CASE /\ inq'[fdt[fd]] = inq[fdt[fd]] /\ fin'[fdt[fd]] = fin[fdt[fd]]
               /\ rst'[fdt[fd]] = rst[fdt[fd]]
      BY <1>4, <2>1 DEF InputSeen
    <2>2. CASE wakeIn(fdt[fd]) \subseteq ready'
      BY <1>3, <2>2 DEF wakeIn
    <2> QED
      BY <1>3, <1>5, <2>1, <2>2
  <1>7. \A d \in Conns : nospace[d] => nospace'[d] \/ wakeOut(d) \subseteq ready'
    BY DEF Send, Finish, Reset, Receive, Pass, LbClose, TypeOK
  <1>8. OutputSeen'
    <2> SUFFICES ASSUME NEW fd \in DOMAIN conns, conns[fd].wn < conns[fd].wb, ~ WillWrite(fd)
                 PROVE  /\ Reg(fd, fdt[fd]) \in armed
                        /\ nospace'[fdt[fd]] \/ Reg(fd, fdt[fd]) \in ready' \/ WillFlush(fd)
      BY <1>1, <1>2 DEF OutputSeen, Reg
    <2>1. /\ Reg(fd, fdt[fd]) \in armed
          /\ nospace[fdt[fd]] \/ Reg(fd, fdt[fd]) \in ready \/ WillFlush(fd)
      BY DEF OutputSeen
    <2>2. Reg(fd, fdt[fd]) \in wakeOut(fdt[fd])
      BY <1>3, <2>1 DEF wakeOut
    <2> QED
      BY <1>3, <1>4, <1>7, <2>1, <2>2
  <1> QED
    BY <1>6, <1>8

LEMMA EpollSeen ==
  ASSUME TypeOK, TableOK, BatchOK, InputSeen, OutputSeen, EpollWait
  PROVE  InputSeen' /\ OutputSeen'
  <1>1. /\ pc = "wait" /\ batch = {} /\ pc' = "next"
        /\ UNCHANGED <<fdt, conns, inq, outq, fin, rst, regs, armed>>
    BY DEF EpollWait, BatchOK, clientVars
  <1> SUFFICES ASSUME NEW fd \in DOMAIN conns
               PROVE  /\ inq[fdt[fd]] > 0 \/ fin[fdt[fd]] \/ rst[fdt[fd]] => WillRead(fd)'
                      /\ conns[fd].wn < conns[fd].wb =>
                           /\ Reg(fd, fdt[fd]) \in armed
                           /\ nospace'[fdt[fd]] \/ WillFlush(fd)'
    BY <1>1 DEF InputSeen, OutputSeen
  <1> DEFINE c == fdt[fd]
             r == Reg(fd, c)
  <1>2. c \in Conns /\ r.conn = c
    BY ConnFacts DEF Reg
  <1>3. ~ WillRead(fd) /\ ~ WillWrite(fd) /\ ~ WillFlush(fd)
    BY <1>1 DEF WillRead, WillWrite, WillFlush
  <1>4. /\ EventOf(fd).fd = fd /\ EventOf(fd).mask = Mask(c, r \in armed)
        /\ r \in ready /\ Reported(EventOf(fd).mask) => EventOf(fd) \in batch'
    BY EpollFacts DEF EventOf
  <1>5. ASSUME inq[c] > 0 \/ fin[c] \/ rst[c] PROVE WillRead(fd)'
    <2>1. r \in ready
      BY <1>3, <1>5 DEF InputSeen
    <2>2. Mask(c, r \in armed).in
      BY <1>5 DEF Mask
    <2> QED
      BY <1>4, <2>1, <2>2 DEF Reported, WillRead
  <1>6. ASSUME conns[fd].wn < conns[fd].wb
        PROVE  r \in armed /\ (nospace'[c] \/ WillFlush(fd)')
    <2>1. r \in armed /\ (nospace[c] \/ r \in ready)
      BY <1>3, <1>6 DEF OutputSeen
    <2>2. nospace'[c] <=> nospace[c] \/ \E s \in ready \cap armed : s.conn = c /\ room(c) = 0
      BY <1>2 DEF EpollWait
    <2>3. CASE room(c) = 0
      BY <1>2, <2>1, <2>2, <2>3
    <2>4. CASE room(c) # 0 /\ r \in ready
      <3>1. room(c) > 0
        BY <1>2, <2>4, Sizes DEF room, TypeOK
      <3>2. Mask(c, r \in armed).out
        BY <2>1, <3>1 DEF Mask
      <3> QED
        BY <1>4, <2>1, <2>4, <3>2 DEF Reported, WillFlush
    <2> QED
      BY <2>1, <2>2, <2>3, <2>4
  <1> QED
    BY <1>5, <1>6

LEMMA DispatchSeen ==
  ASSUME TypeOK, TableOK, BatchOK, InputSeen, OutputSeen, NEW e \in batch, Dispatch(e)
  PROVE  InputSeen' /\ OutputSeen'
  <1>1. /\ pc = "next" /\ batch' = batch \ {e} /\ ev' = e /\ pc' = Handling(e) /\ cur' = e.fd
        /\ UNCHANGED <<fdt, conns, inq, fin, rst, ready, armed, nospace>>
        /\ back' = IF e.fd # ctl /\ e.mask.out THEN "out" ELSE back
    BY DEF Dispatch, clientVars, epollVars, cur
  <1> SUFFICES ASSUME NEW fd \in DOMAIN conns
               PROVE  /\ WillRead(fd) => WillRead(fd)'
                      /\ WillFlush(fd) => WillFlush(fd)' \/ WillWrite(fd)'
                      /\ ~ WillWrite(fd)
    BY <1>1 DEF InputSeen, OutputSeen
  <1>2. ~ WillWrite(fd) /\ (WillRead(fd) => \E f \in batch : f.fd = fd /\ f.mask.in)
    BY <1>1 DEF WillWrite, WillRead
  <1>3. CASE e.fd # fd
    BY <1>1, <1>2, <1>3 DEF WillRead, WillFlush
  <1>4. CASE e.fd = fd
    <2>1. fd # ctl /\ \A f \in batch : f.fd = fd => f = e
      BY <1>4, ConnFacts DEF BatchOK
    <2>2. pc' = IF e.mask.hup THEN "drop" ELSE IF e.mask.out THEN "flush"
                ELSE IF e.mask.in THEN "read" ELSE "rdhup"
      BY <1>1, <1>4, <2>1 DEF Handling
    <2>3. WillRead(fd) => WillRead(fd)'
      BY <1>1, <1>2, <1>4, <2>1, <2>2 DEF WillRead
    <2>4. WillFlush(fd) => WillWrite(fd)'
      BY <1>1, <1>4, <2>1, <2>2 DEF WillWrite, WillFlush
    <2> QED
      BY <1>2, <2>3, <2>4
  <1> QED
    BY <1>3, <1>4

(* A step on the connection of cur leaves the others as they are. *)
LEMMA OthersSeen ==
  ASSUME TypeOK, TableOK, EventOK, AtWork, InputSeen, OutputSeen,
         UNCHANGED <<fdt, batch, ev, fin, rst>>, DOMAIN conns' = DOMAIN conns,
         \A fd \in DOMAIN conns : fd # cur => conns'[fd] = conns[fd],
         \A c \in Conns : c # sock => inq'[c] = inq[c] /\ nospace'[c] = nospace[c],
         \A r \in armed : r.fd # cur => r \in armed',
         ready \subseteq ready',
         inq'[sock] > 0 \/ fin[sock] \/ rst[sock] => Reg(cur, sock) \in ready' \/ WillRead(cur)',
         conns'[cur].wn < conns'[cur].wb /\ ~ WillWrite(cur)' =>
           /\ Reg(cur, sock) \in armed'
           /\ nospace'[sock] \/ Reg(cur, sock) \in ready' \/ WillFlush(cur)'
  PROVE  InputSeen' /\ OutputSeen'
  <1>1. cur \in DOMAIN conns /\ sock = fdt[cur] /\ cur' = cur
    BY DEF EventOK, sock, cur
  <1> SUFFICES ASSUME NEW fd \in DOMAIN conns, fd # cur
               PROVE  /\ inq'[fdt[fd]] > 0 \/ fin[fdt[fd]] \/ rst[fdt[fd]] =>
                           Reg(fd, fdt[fd]) \in ready' \/ WillRead(fd)'
                      /\ conns[fd].wn < conns[fd].wb /\ ~ WillWrite(fd)' =>
                           /\ Reg(fd, fdt[fd]) \in armed'
                           /\ nospace'[fdt[fd]] \/ Reg(fd, fdt[fd]) \in ready' \/ WillFlush(fd)'
    BY <1>1 DEF InputSeen, OutputSeen
  <1>2. fdt[fd] # sock /\ fdt[fd] \in Conns /\ Reg(fd, fdt[fd]).fd # cur
    BY <1>1, ConnFacts DEF TableOK, Reg
  <1>3. /\ WillRead(fd) => WillRead(fd)'
        /\ ~ WillWrite(fd)
        /\ WillFlush(fd) => WillFlush(fd)'
    BY DEF WillRead, WillWrite, WillFlush
  <1>4. inq[fdt[fd]] > 0 \/ fin[fdt[fd]] \/ rst[fdt[fd]] =>
          Reg(fd, fdt[fd]) \in ready \/ WillRead(fd)
    BY DEF InputSeen
  <1>5. conns[fd].wn < conns[fd].wb =>
          /\ Reg(fd, fdt[fd]) \in armed
          /\ nospace[fdt[fd]] \/ Reg(fd, fdt[fd]) \in ready \/ WillFlush(fd)
    BY <1>3 DEF OutputSeen
  <1> QED
    BY <1>2, <1>3, <1>4, <1>5


LEMMA DropSeen ==
  ASSUME TypeOK, TableOK, QueueOK, EventOK, InputSeen, OutputSeen, Drop
  PROVE  InputSeen' /\ OutputSeen'
  <1>1. /\ DOMAIN conns' = DOMAIN conns \ {cur}
        /\ \A fd \in DOMAIN conns' : conns'[fd] = conns[fd] /\ fdt'[fd] = fdt[fd]
                                     /\ fdt[fd] # sock
        /\ armed' = {r \in armed : r.conn # sock}
        /\ ready' = {r \in ready : r.conn # sock}
    BY DropTable
  <1>2. \A fd : Reg(fd, fdt[fd]).conn = fdt[fd]
    BY DEF Reg
  <1>3. UNCHANGED <<inq, fin, rst, nospace, batch, ev>> /\ pc = "drop" /\ pc' = "next"
    BY DEF Drop, clientVars
  <1> SUFFICES ASSUME NEW fd \in DOMAIN conns'
               PROVE  /\ inq[fdt[fd]] > 0 \/ fin[fdt[fd]] \/ rst[fdt[fd]] =>
                           Reg(fd, fdt[fd]) \in ready' \/ WillRead(fd)'
                      /\ conns[fd].wn < conns[fd].wb /\ ~ WillWrite(fd)' =>
                           /\ Reg(fd, fdt[fd]) \in armed'
                           /\ nospace[fdt[fd]] \/ Reg(fd, fdt[fd]) \in ready' \/ WillFlush(fd)'
    BY <1>1, <1>3 DEF InputSeen, OutputSeen
  <1>4. fd \in DOMAIN conns /\ fd # cur
    BY <1>1
  <1>5. /\ WillRead(fd) => WillRead(fd)'
        /\ ~ WillWrite(fd)
        /\ WillFlush(fd) => WillFlush(fd)'
    BY <1>3, <1>4 DEF WillRead, WillWrite, WillFlush
  <1>6. inq[fdt[fd]] > 0 \/ fin[fdt[fd]] \/ rst[fdt[fd]] =>
          Reg(fd, fdt[fd]) \in ready \/ WillRead(fd)
    BY <1>4 DEF InputSeen
  <1>7. conns[fd].wn < conns[fd].wb =>
          /\ Reg(fd, fdt[fd]) \in armed
          /\ nospace[fdt[fd]] \/ Reg(fd, fdt[fd]) \in ready \/ WillFlush(fd)
    BY <1>4, <1>5 DEF OutputSeen
  <1> QED
    BY <1>1, <1>2, <1>5, <1>6, <1>7

LEMMA WorkSeen ==
  ASSUME TypeOK, TableOK, EventOK, InputSeen, OutputSeen,
         ReadData \/ ReadBlocks \/ Write \/ ArmOut \/ FlushDone
  PROVE  InputSeen' /\ OutputSeen'
  <1> USE DEF config, clientVars, lbVars, epollVars, workerVars
  <1>1. AtWork
    BY DEF ReadData, ReadBlocks, Write, ArmOut, FlushDone, AtWork
  <1>2. /\ cur \in DOMAIN conns /\ sock = fdt[cur] /\ sock \in Conns
        /\ conns[cur] \in ConnState
    BY <1>1, AtWorkFacts DEF sock
  <1>3. InputSeen /\ OutputSeen =>
          /\ inq[sock] > 0 \/ fin[sock] \/ rst[sock] =>
               Reg(cur, sock) \in ready \/ WillRead(cur)
          /\ conns[cur].wn < conns[cur].wb /\ ~ WillWrite(cur) =>
               /\ Reg(cur, sock) \in armed
               /\ nospace[sock] \/ Reg(cur, sock) \in ready \/ WillFlush(cur)
    BY <1>2 DEF InputSeen, OutputSeen
  <1>4. \A e \in batch : e.fd # cur
    BY <1>1 DEF EventOK
  <1>5. UNCHANGED <<fdt, batch, ev, fin, rst>> /\ cur' = cur
    BY DEF ReadData, ReadBlocks, Write, ArmOut, FlushDone, cur
  <1>6. CASE ReadData
    <2> DEFINE o == Handled(conns[cur], Min2(inq[sock], Buf))
    <2>1. /\ inq' = [inq EXCEPT ![sock] = inq[sock] - Min2(inq[sock], Buf)]
          /\ conns' = [conns EXCEPT ![cur] = o]
          /\ IF o.wb > o.wn THEN pc' = "flush" /\ back' = "read" ELSE pc' = "read"
          /\ UNCHANGED <<armed, ready, nospace>>
      BY <1>6 DEF ReadData, ReadsAgain
    <2> HIDE DEF o
    <2>2. WillRead(cur)'
      BY <1>5, <2>1 DEF WillRead
    <2>3. conns'[cur] = o /\ (o.wb > o.wn => WillWrite(cur)')
      BY <1>2, <1>5, <2>1 DEF WillWrite
    <2>4. o.wn < o.wb => o.wb > o.wn
      <3>1. o.wn \in Nat /\ o.wb \in Nat
        <4>1. Min2(inq[sock], Buf) \in Nat
          BY <1>2, Sizes DEF Min2, TypeOK
        <4> QED
          BY <1>2, <4>1, ConnTypes DEF o, ConnState
      <3> QED
        BY <3>1
    <2>5. \A c \in Conns : c # sock => inq'[c] = inq[c] /\ nospace'[c] = nospace[c]
      BY <2>1 DEF TypeOK
    <2>6. DOMAIN conns' = DOMAIN conns /\ \A fd \in DOMAIN conns : fd # cur => conns'[fd] = conns[fd]
      BY <2>1
    <2> QED
      BY <1>1, <1>5, <2>1, <2>2, <2>3, <2>4, <2>5, <2>6, OthersSeen
  <1>7. CASE ReadBlocks
    <2>1. /\ inq[sock] = 0 /\ ~ fin[sock] /\ ~ rst[sock] /\ pc = "read"
          /\ UNCHANGED <<inq, conns, armed, ready, nospace>>
      BY <1>7 DEF ReadBlocks
    <2>2. ~ WillWrite(cur) /\ (WillFlush(cur) => WillFlush(cur)')
      BY <1>5, <2>1 DEF WillWrite, WillFlush
    <2> QED
      BY <1>1, <1>3, <1>5, <2>1, <2>2, OthersSeen
  <1>8. CASE Write
    <2>1. /\ pc = "flush" /\ UNCHANGED <<inq, armed, ready, nospace, pc, back>>
          /\ DOMAIN conns' = DOMAIN conns
          /\ \A fd \in DOMAIN conns : fd # cur => conns'[fd] = conns[fd]
      BY <1>8 DEF Write
    <2>2. WillWrite(cur)' /\ (WillRead(cur) => WillRead(cur)')
      BY <1>5, <2>1 DEF WillWrite, WillRead
    <2> QED
      BY <1>1, <1>3, <1>5, <2>1, <2>2, OthersSeen
  <1>9. CASE ArmOut \/ FlushDone
    <2>1. pc' = AfterFlush /\ UNCHANGED <<inq, back>> /\ pc \in {"flush", "armOut"}
          /\ DOMAIN conns' = DOMAIN conns
          /\ \A fd \in DOMAIN conns : fd # cur => conns'[fd] = conns[fd]
      BY <1>9 DEF ArmOut, FlushDone
    <2>2. WillRead(cur) => WillRead(cur)'
      BY <1>4, <1>5, <2>1 DEF WillRead, AfterFlush
    <2>3. ready \subseteq ready' /\ \A r \in armed : r.fd # cur => r \in armed'
      <3>1. Reg(cur, sock).fd = cur
        BY DEF Reg
      <3>2. ready \subseteq ready' /\ armed \ {Reg(cur, sock)} \subseteq armed'
        BY <1>9 DEF ArmOut, FlushDone, Modify, sock
      <3> QED
        BY <3>1, <3>2
    <2>4. \A c \in Conns : c # sock => inq'[c] = inq[c] /\ nospace'[c] = nospace[c]
      BY <1>9, <2>1 DEF ArmOut, FlushDone, TypeOK
    <2>5. CASE ArmOut
      <3>1. Reg(cur, sock) \in armed'
        BY <2>5 DEF ArmOut, Modify, sock
      <3>2. nospace'[sock] <=> nospace[sock] \/ room(sock) = 0
        BY <1>2, <2>5 DEF ArmOut, TypeOK
      <3>3. room(sock) # 0 => Reg(cur, sock) \in ready'
        <4>1. room(sock) # 0 => room(sock) > 0
          <5>1. outq[sock] \in 0..SndBuf
            BY <1>2 DEF TypeOK
          <5> QED
            BY <5>1, Sizes DEF room
        <4>2. room(sock) > 0 => Reported(Mask(sock, TRUE))
          BY DEF Reported, Mask
        <4> QED
          BY <2>5, <4>1, <4>2 DEF ArmOut, Modify, sock
      <3>4. conns' = conns
        BY <2>5 DEF ArmOut
      <3> QED
        BY <1>1, <1>3, <1>5, <2>1, <2>2, <2>3, <2>4, <3>1, <3>2, <3>3, <3>4, OthersSeen
    <2>6. CASE FlushDone
      <3>1. conns'[cur].wn = 0 /\ conns'[cur].wb = 0
        BY <1>2, <2>6 DEF FlushDone, WbReset, ConnState
      <3> QED
        BY <1>1, <1>3, <1>5, <2>1, <2>2, <2>3, <2>4, <3>1, OthersSeen
    <2> QED
      BY <1>9, <2>5, <2>6
  <1> QED
    BY <1>6, <1>7, <1>8, <1>9

LEMMA RecvSeen ==
  ASSUME TypeOK, TableOK, QueueOK, InputSeen, OutputSeen, Recv
  PROVE  InputSeen' /\ OutputSeen'
  <1>1. PICK fd \in Free : \E c :
          /\ c = Head(ctlq) /\ ctlq # <<>> /\ ctlq' = Tail(ctlq)
          /\ fdt' = [fdt EXCEPT ![fd] = c] /\ regs' = regs \cup {Reg(fd, c)}
          /\ ready' = IF Reported(Mask(c, FALSE)) THEN ready \cup {Reg(fd, c)} ELSE ready
          /\ conns' = [f \in DOMAIN conns \cup {fd} |->
                         IF f = fd THEN [rb |-> 0, wb |-> 0, wn |-> 0] ELSE conns[f]]
          /\ UNCHANGED <<limit, passed>>
    BY DEF Recv, config
  <1> DEFINE c == Head(ctlq)
  <1>2. /\ fdt'[fd] = c
        /\ \A f \in DOMAIN conns : fdt'[f] = fdt[f] /\ f # fd
    BY <1>1, RecvTable
  <1>3. UNCHANGED <<inq, fin, rst, nospace, armed, batch, ev, back, pc>>
    BY DEF Recv, clientVars, TakesMore
  <1>4. \A f : /\ WillRead(f)' <=> WillRead(f)
               /\ WillWrite(f)' <=> WillWrite(f)
               /\ WillFlush(f)' <=> WillFlush(f)
    BY <1>3 DEF WillRead, WillWrite, WillFlush, cur
  <1>5. /\ DOMAIN conns' = DOMAIN conns \cup {fd}
        /\ conns'[fd].wn = 0 /\ conns'[fd].wb = 0
        /\ \A f \in DOMAIN conns : conns'[f] = conns[f]
    BY <1>1, <1>2
  <1>6. ready \subseteq ready'
    BY <1>1
  <1>7. inq[c] > 0 \/ fin[c] \/ rst[c] => Reg(fd, c) \in ready'
    <2>1. inq[c] > 0 \/ fin[c] \/ rst[c] => Reported(Mask(c, FALSE))
      BY DEF Reported, Mask
    <2> QED
      BY <1>1, <2>1
  <1> HIDE DEF c
  <1>8. InputSeen'
    BY <1>2, <1>3, <1>4, <1>5, <1>6, <1>7 DEF InputSeen, Reg
  <1>9. OutputSeen'
    BY <1>2, <1>3, <1>4, <1>5, <1>6 DEF OutputSeen, Reg
  <1> QED
    BY <1>8, <1>9

LEMMA ServerSeen ==
  ASSUME TypeOK, TableOK, QueueOK, BatchOK, EventOK, InputSeen, OutputSeen, Server
  PROVE  InputSeen' /\ OutputSeen'
  <1> USE DEF config, clientVars, lbVars, epollVars, workerVars
  <1>1. CASE Run \/ BatchDone \/ RecvFails \/ RecvBlocks \/ RdHup
    BY <1>1, SeenKept DEF Run, BatchDone, RecvFails, RecvBlocks, RdHup,
                          WillRead, WillWrite, WillFlush, cur
  <1>2. CASE ReadEnds \/ WriteFails
    BY <1>2, SeenKept DEF ReadEnds, WriteFails, WillRead, WillWrite, WillFlush, cur
  <1>3. CASE WriteBlocks
    <2>1. UNCHANGED <<fdt, conns, inq, fin, rst, ready, armed, batch, ev, back>>
          /\ pc = "flush" /\ pc' = "armOut"
      BY <1>3 DEF WriteBlocks
    <2>2. \A c \in Conns : nospace[c] => nospace'[c]
      BY <1>3 DEF WriteBlocks, TypeOK
    <2>3. \A fd : /\ WillRead(fd) <=> WillRead(fd)'
                  /\ WillWrite(fd) <=> WillWrite(fd)'
                  /\ WillFlush(fd) <=> WillFlush(fd)'
      BY <2>1 DEF WillRead, WillWrite, WillFlush, cur
    <2>4. \A fd \in DOMAIN conns : fdt[fd] \in Conns
      BY ConnFacts
    <2> QED
      BY <2>1, <2>2, <2>3, <2>4 DEF InputSeen, OutputSeen
  <1>4. CASE EpollWait
    BY <1>4, EpollSeen
  <1>5. CASE \E e \in batch : Dispatch(e)
    BY <1>5, DispatchSeen
  <1>6. CASE Drop
    BY <1>6, DropSeen
  <1>7. CASE ReadData \/ ReadBlocks \/ Write \/ ArmOut \/ FlushDone
    BY <1>7, WorkSeen
  <1>8. CASE Recv
    BY <1>8, RecvSeen
  <1> QED
    BY <1>1, <1>2, <1>3, <1>4, <1>5, <1>6, <1>7, <1>8 DEF Server


-----------------------------------------------------------------------------
(* The inductive invariant *)

LEMMA InitIInv == ASSUME Init PROVE IInv
  <1>1. TypeOK
    BY InitTypes
  <1>2. DOMAIN conns = {} /\ Len(ctlq) = 0
    BY DEF Init
  <1>3. \A c \in Conns : ~ Open(c) /\ ~ Queued(c)
    BY <1>2, NoneAssumption DEF Init, Open, Queued
  <1>4. TableOK
    BY <1>2, <1>3 DEF Init, TableOK
  <1>5. QueueOK
    BY <1>2, <1>3 DEF QueueOK
  <1>6. BatchOK /\ EventOK /\ Untouched
    BY <1>3 DEF Init, BatchOK, EventOK, AtWork, Untouched
  <1>7. Conserved /\ InputSeen /\ OutputSeen
    BY <1>2 DEF Conserved, InputSeen, OutputSeen
  <1> QED
    BY <1>1, <1>4, <1>5, <1>6, <1>7 DEF IInv

LEMMA StepIInv == ASSUME IInv, [Next]_vars PROVE IInv'
  <1> USE DEF IInv
  <1>1. ASSUME NEW c \in Conns,
               Send(c) \/ Finish(c) \/ Reset(c) \/ Receive(c) \/ Pass(c) \/ LbClose(c)
        PROVE  IInv'
    <2>1. TableOK' /\ QueueOK'
      BY <1>1, TableStep DEF Next, Environment
    <2> QED
      BY <1>1, <2>1, EnvTypes, EnvEvents, EnvStream, EnvSeen
  <1>2. CASE Server
    <2>1. TableOK' /\ QueueOK'
      BY <1>2, TableStep DEF Next
    <2> QED
      BY <1>2, <2>1, ServerTypes, ServerEvents, ServerStream, ServerSeen
  <1>3. CASE UNCHANGED vars
    <2> USE <1>3 DEF vars, config, clientVars, lbVars, epollVars, workerVars
    <2>1. TypeOK'
      BY DEF TypeOK, Fds
    <2>2. TableOK' /\ QueueOK'
      BY TableKept
    <2>3. BatchOK' /\ EventOK'
      BY DEF BatchOK, EventOK, AtWork, Says, cur, sock
    <2>4. Untouched' /\ Conserved'
      BY StreamKept DEF Queued
    <2>5. InputSeen' /\ OutputSeen'
      BY SeenKept DEF WillRead, WillWrite, WillFlush, cur
    <2> QED
      BY <2>1, <2>2, <2>3, <2>4, <2>5
  <1> QED
    BY <1>1, <1>2, <1>3 DEF Next, Environment

LEMMA Invariance == Spec => []IInv
  BY InitIInv, StepIInv, PTL DEF Spec

-----------------------------------------------------------------------------
(* Every state is well typed. *)
THEOREM TypeCorrect == Spec => []TypeOK
  <1>1. IInv => TypeOK
    BY DEF IInv
  <1> QED
    BY <1>1, Invariance, PTL

(* Server.conns, the descriptor table and epoll's registrations agree in every
   state of add, drop and the loops between them, and a connection is adopted
   at most once. *)
THEOREM TablesAgree == Spec => []TableOK
  <1>1. IInv => TableOK
    BY DEF IInv
  <1> QED
    BY <1>1, Invariance, PTL

(* readDrain, handle and flush lose and repeat nothing: what was read of a
   connection is answered, or waits in wb, exactly once, whatever the lengths of
   reads and writes, however often flush gave up on a full buffer. *)
THEOREM NothingLost == Spec => []Conserved
  <1>1. IInv => Conserved
    BY DEF IInv
  <1> QED
    BY <1>1, Invariance, PTL

(* Run never goes back to EpollWait with something of a connection that neither
   epoll's ready list nor an edge to come will tell it of. *)
THEOREM EveryEdgeSeen == Spec => []NoLostEdge
  <1>1. ASSUME IInv PROVE NoLostEdge
    <2> SUFFICES ASSUME pc = "wait", NEW fd \in DOMAIN conns
                 PROVE  LET c == fdt[fd]
                            r == Reg(fd, c)
                        IN  /\ inq[c] > 0 \/ fin[c] \/ rst[c] => r \in ready
                            /\ conns[fd].wn < conns[fd].wb =>
                                 r \in armed /\ (nospace[c] \/ r \in ready)
      BY DEF NoLostEdge
    <2>1. batch = {}
      BY <1>1 DEF IInv, BatchOK
    <2>2. ~ WillRead(fd) /\ ~ WillWrite(fd) /\ ~ WillFlush(fd)
      BY <2>1 DEF WillRead, WillWrite, WillFlush
    <2> QED
      BY <1>1, <2>2 DEF IInv, InputSeen, OutputSeen
  <1> QED
    BY <1>1, Invariance, PTL

(* The only step that closes the worker's descriptor of a connection. *)
LEMMA OnlyDropCloses ==
  ASSUME IInv, [Next]_vars, NEW c \in Conns, Open(c), ~ Open(c)'
  PROVE  Drop /\ c = sock
  <1> USE DEF IInv, config, clientVars, lbVars, epollVars, workerVars
  <1>1. CASE Drop
    BY <1>1, DropTable
  <1>2. CASE Recv
    <2>1. PICK fd \in Free : \E d :
            /\ d = Head(ctlq) /\ ctlq # <<>> /\ ctlq' = Tail(ctlq)
            /\ fdt' = [fdt EXCEPT ![fd] = d] /\ regs' = regs \cup {Reg(fd, d)}
            /\ DOMAIN conns' = DOMAIN conns \cup {fd}
            /\ UNCHANGED <<limit, passed>>
      BY <1>2 DEF Recv
    <2>2. Open(c)'
      BY <2>1, RecvTable
    <2> QED
      BY <2>2
  <1>3. CASE UNCHANGED <<limit, fdt>>
    BY <1>3 DEF Open, Fds
  <1>4. Drop \/ Recv \/ UNCHANGED <<limit, fdt>>
    BY DEF Next, Environment, Server, vars, Send, Finish, Reset, Receive, Pass, LbClose,
           Run, EpollWait, Dispatch, BatchDone, RdHup, ReadData, ReadBlocks, ReadEnds,
           Write, WriteBlocks, WriteFails, ArmOut, FlushDone, RecvFails, RecvBlocks
  <1> QED
    BY <1>1, <1>2, <1>3, <1>4

(* drop closes only what its client finished or reset: an event is never handled
   with a descriptor that has meanwhile been given to another connection. *)
THEOREM ClosesOnlyFinished == Spec => DropsOnlyFinished
  <1>1. ASSUME IInv, [Next]_vars, NEW c \in Conns, Open(c), ~ Open(c)'
        PROVE  fin[c] \/ rst[c]
    BY <1>1, OnlyDropCloses DEF IInv, EventOK, Drop
  <1>2. IInv /\ [Next]_vars => [\A c \in Conns : Open(c) /\ ~ Open(c)' => fin[c] \/ rst[c]]_vars
    BY <1>1
  <1> QED
    BY <1>2, Invariance, PTL DEF Spec, DropsOnlyFinished

(* A client that half-closes gets every response, but for what flush had no room
   for when readDrain met the end of its input. *)
THEOREM FinishedGetsAll == Spec => FinishedIsAnswered
  <1>1. ASSUME IInv, [Next]_vars, NEW c \in Conns, Open(c), ~ Open(c)', ~ rst[c]
        PROVE  \/ got[c] + outq[c] = RespLen * (sent[c] \div ReqLen)
               \/ \E fd \in DOMAIN conns : fdt[fd] = c /\ conns[fd].wn < conns[fd].wb
    <2>1. Drop /\ c = sock
      BY <1>1, OnlyDropCloses
    <2>2. cur \in DOMAIN conns /\ fdt[cur] = c /\ conns[cur] \in ConnState
      BY <1>1, <2>1, AtWorkFacts DEF IInv, Drop, AtWork, sock
    <2>3. inq[c] = 0
      BY <1>1, <2>1 DEF IInv, EventOK, Drop
    <2>4. Account(c, conns[cur])
      BY <1>1, <2>2, Accounts DEF IInv
    <2>5. /\ conns[cur].wn \in Nat /\ conns[cur].wb \in Nat
          /\ got[c] \in Nat /\ outq[c] \in Nat /\ sent[c] \in Nat
      BY <1>1, <2>2, Sizes DEF IInv, TypeOK, ConnState
    <2>6. CASE conns[cur].wn < conns[cur].wb
      BY <2>2, <2>6
    <2>7. CASE conns[cur].wn = conns[cur].wb
      <3>1. sent[c] - inq[c] = sent[c] /\ conns[cur].wb - conns[cur].wn = 0
        BY <2>3, <2>5, <2>7
      <3>2. got[c] + outq[c] + 0 = got[c] + outq[c]
        BY <2>5
      <3> QED
        BY <2>4, <3>1, <3>2 DEF Account
    <2> QED
      BY <2>4, <2>5, <2>6, <2>7 DEF Account
  <1>2. IInv /\ [Next]_vars =>
          [\A c \in Conns :
             Open(c) /\ ~ Open(c)' /\ ~ rst[c] =>
               \/ got[c] + outq[c] = RespLen * (sent[c] \div ReqLen)
               \/ \E fd \in DOMAIN conns : fdt[fd] = c /\ conns[fd].wn < conns[fd].wb]_vars
    BY <1>1
  <1> QED
    BY <1>2, Invariance, PTL DEF Spec, FinishedIsAnswered
=============================================================================
