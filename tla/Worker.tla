------------------------------- MODULE Worker -------------------------------
(***************************************************************************)
(* One API worker (internal/server/server.go): an edge-triggered epoll     *)
(* loop over specialFD and over the connections it has adopted. specialFD  *)
(* is the control socket, on which the load balancer passes connections it *)
(* accepted, or in tcp mode the listening socket itself.                   *)
(*                                                                         *)
(* A step of the worker is one system call with the code up to the next    *)
(* one; the peers, the load balancer and the kernel act between any two.   *)
(* A request is ReqLen units long and its response RespLen units, so a     *)
(* read may end inside a request and a write inside a response; framing is *)
(* the subject of module HttpFraming.                                      *)
(***************************************************************************)
EXTENDS Integers, Sequences, FiniteSets

CONSTANTS
  Conns,    (* the connections clients open                                 *)
  Limits,   (* the numbers of connection descriptors a worker may have      *)
  ReqLen, RespLen,  (* units of a request, of a response                    *)
  SndBuf,   (* units the kernel buffers towards a client                    *)
  Buf,      (* units one read returns at most, 64 KiB in the code           *)
  MaxSend   (* bound: units a client sends                                  *)

ASSUME WorkerAssumption ==
  /\ Limits \subseteq Nat \ {0} /\ ReqLen \in Nat \ {0} /\ RespLen \in Nat \ {0}
  /\ SndBuf \in Nat \ {0} /\ Buf \in Nat \ {0} /\ MaxSend \in Nat

ctl  == 0          \* specialFD
None == 0          \* no connection has this name
ASSUME NoneAssumption == None \notin Conns

VARIABLES
  (* how the worker was started *)
  listener,      (* tcp mode: specialFD is a listening socket               *)
  limit,         (* the descriptors for connections are 1..limit            *)
  (* the client's end of each connection *)
  sent, got,     (* units sent, response units read                         *)
  fin, rst,      (* it has closed its sending side, it has reset            *)
  (* the kernel *)
  inq, outq,     (* units queued for the worker, for the client             *)
  nospace,       (* a write was refused, or a poll found no room            *)
  ctlq,          (* the connections specialFD has queued for the worker     *)
  lbHolds,       (* the connections whose descriptor the load balancer still has *)
  fdt,           (* the worker's descriptor table                           *)
  regs, armed,   (* epoll: registrations, and those that include EPOLLOUT   *)
  ready,         (* epoll's ready list                                      *)
  ctlReady,      (* specialFD is on it                                      *)
  (* the worker *)
  passed,        (* connections that have been queued for it                *)
  conns,         (* Server.conns: descriptor -> rb, wb, wn                  *)
  batch,         (* events of the last EpollWait not yet handled            *)
  ev,            (* the event being handled                                 *)
  pc, back       (* where the worker is; where flush returns to             *)

config     == <<listener, limit>>
clientVars == <<sent, got, fin, rst>>
epollVars  == <<regs, armed, ready, ctlReady>>
lbVars     == <<ctlq, lbHolds, passed>>
workerVars == <<conns, batch, ev, pc, back>>
vars == <<config, clientVars, inq, outq, nospace, lbVars, fdt, epollVars, workerVars>>

Fds        == 1..limit
Min2(a, b) == IF a <= b THEN a ELSE b
room(c)    == SndBuf - outq[c]
Reg(fd, c) == [fd |-> fd, conn |-> c]
Open(c)    == \E fd \in Fds : fdt[fd] = c        \* the worker has a descriptor of c
Queued(c)  == \E i \in 1..Len(ctlq) : ctlq[i] = c
(* Every descriptor of c is closed: the worker sees nothing of it any more. *)
Closed(c)  == c \in passed \ lbHolds /\ ~ Open(c) /\ ~ Queued(c)

-----------------------------------------------------------------------------
(* epoll *)

(* What polling connection c reports, for a registration with or without
   EPOLLOUT. *)
Mask(c, out) ==
  [in    |-> inq[c] > 0 \/ fin[c] \/ rst[c],
   out   |-> out /\ (room(c) > 0 \/ rst[c]),
   rdhup |-> fin[c] \/ rst[c],
   hup   |-> rst[c]]

Reported(m) == m.in \/ m.out \/ m.hup

(* An edge on c puts its registrations on the ready list. *)
wakeIn(c)  == {r \in regs  : r.conn = c}
wakeOut(c) == {r \in armed : r.conn = c}

(* EPOLL_CTL_MOD of fd, with EPOLLOUT or not: it polls at once, so what became
   ready before the call is not missed. *)
Modify(fd, out) ==
  LET c == fdt[fd]
      r == Reg(fd, c)
  IN  /\ armed' = IF out THEN armed \cup {r} ELSE armed \ {r}
      /\ ready' = IF Reported(Mask(c, out)) THEN ready \cup {r} ELSE ready
      /\ UNCHANGED <<regs, ctlReady>>

(* Closing the last descriptor of c removes what epoll still has of it. *)
Forget(c) == /\ regs'  = {r \in regs  : r.conn # c}
             /\ armed' = {r \in armed : r.conn # c}
             /\ ready' = {r \in ready : r.conn # c}

-----------------------------------------------------------------------------
(* The clients and the load balancer. *)

Send(c) ==
  /\ ~ fin[c] /\ ~ rst[c] /\ ~ Closed(c) /\ sent[c] < MaxSend
  /\ sent' = [sent EXCEPT ![c] = @ + 1]
  /\ inq' = [inq EXCEPT ![c] = @ + 1]
  /\ ready' = ready \cup wakeIn(c)
  /\ UNCHANGED <<config, got, fin, rst, outq, nospace, lbVars, fdt, regs, armed,
                 ctlReady, workerVars>>

(* The client has no more to send; it may still read. *)
Finish(c) ==
  /\ ~ fin[c] /\ ~ rst[c] /\ ~ Closed(c)
  /\ fin' = [fin EXCEPT ![c] = TRUE]
  /\ ready' = ready \cup wakeIn(c)
  /\ UNCHANGED <<config, sent, got, rst, inq, outq, nospace, lbVars, fdt, regs,
                 armed, ctlReady, workerVars>>

Reset(c) ==
  /\ ~ rst[c] /\ ~ Closed(c)
  /\ rst' = [rst EXCEPT ![c] = TRUE]
  /\ ready' = ready \cup wakeIn(c)
  /\ UNCHANGED <<config, sent, got, fin, inq, outq, nospace, lbVars, fdt, regs,
                 armed, ctlReady, workerVars>>

(* The client reads a unit; if the worker was refused room, there is an edge. *)
Receive(c) ==
  /\ outq[c] > 0 /\ ~ rst[c]
  /\ outq' = [outq EXCEPT ![c] = @ - 1]
  /\ got' = [got EXCEPT ![c] = @ + 1]
  /\ nospace' = [nospace EXCEPT ![c] = FALSE]
  /\ ready' = IF nospace[c] THEN ready \cup wakeOut(c) ELSE ready
  /\ UNCHANGED <<config, sent, fin, rst, inq, lbVars, fdt, regs, armed, ctlReady,
                 workerVars>>

(* lb.c: sendmsg of the descriptor, then close(cfd). In tcp mode the kernel
   queues an established connection, and nobody else has a descriptor of it. *)
Pass(c) ==
  /\ c \notin passed
  /\ passed' = passed \cup {c}
  /\ lbHolds' = IF listener THEN lbHolds ELSE lbHolds \cup {c}
  /\ ctlq' = Append(ctlq, c)
  /\ ctlReady' = (ctlReady \/ pc # "start")
  /\ UNCHANGED <<config, clientVars, inq, outq, nospace, fdt, regs, armed, ready,
                 workerVars>>

LbClose(c) ==
  /\ c \in lbHolds
  /\ lbHolds' = lbHolds \ {c}
  /\ IF Open(c) \/ Queued(c)
     THEN UNCHANGED <<regs, armed, ready>>
     ELSE Forget(c)
  /\ UNCHANGED <<config, clientVars, inq, outq, nospace, ctlq, passed, fdt, ctlReady,
                 workerVars>>

-----------------------------------------------------------------------------
(* Run *)

(* EPOLL_CTL_ADD of specialFD. *)
Run ==
  /\ pc = "start"
  /\ ctlReady' = (ctlq # <<>>)
  /\ pc' = "wait"
  /\ UNCHANGED <<config, clientVars, inq, outq, nospace, lbVars, fdt, regs, armed, ready,
                 conns, batch, ev, back>>

(* EpollWait: everything on the ready list that still has something to report
   (fewer than the 256 events the call takes). *)
EpollWait ==
  /\ pc = "wait"
  /\ ready # {} \/ ctlReady
  /\ LET event(r) == [fd |-> r.fd, mask |-> Mask(r.conn, r \in armed)]
     IN  batch' = {e \in {event(r) : r \in ready} : Reported(e.mask)}
                  \cup (IF ctlReady THEN {[fd |-> ctl]} ELSE {})
  /\ nospace' = [c \in Conns |-> nospace[c] \/ \E r \in ready \cap armed : r.conn = c /\ room(c) = 0]
  /\ ready' = {} /\ ctlReady' = FALSE
  /\ pc' = "next"
  /\ UNCHANGED <<config, clientVars, inq, outq, lbVars, fdt, regs, armed, conns, ev, back>>

(* What Run does first with event e: drop, flush, read, or ignore it. *)
HandlingRdHupFirst(e) ==                             \* bug: RDHUP before input
  IF e.fd = ctl THEN "recv"
  ELSE IF e.fd \notin DOMAIN conns THEN "next"
  ELSE IF e.mask.hup \/ e.mask.rdhup THEN "drop"
  ELSE IF e.mask.out THEN "flush"
  ELSE "read"

Handling(e) ==
  CASE e.fd = ctl -> "recv"
    [] e.fd # ctl /\ e.fd \notin DOMAIN conns -> "next"
    [] e.fd # ctl /\ e.fd \in DOMAIN conns ->
         IF e.mask.hup THEN "drop"
         ELSE IF e.mask.out THEN "flush"
         ELSE IF e.mask.in THEN "read"
         ELSE "rdhup"

(* The next event of the batch. *)
Dispatch(e) ==
  /\ pc = "next" /\ e \in batch
  /\ batch' = batch \ {e}
  /\ ev' = e
  /\ pc' = Handling(e)
  /\ back' = IF e.fd # ctl /\ e.mask.out THEN "out" ELSE back
  /\ UNCHANGED <<config, clientVars, inq, outq, nospace, lbVars, fdt, epollVars, conns>>

BatchDone ==
  /\ pc = "next" /\ batch = {}
  /\ pc' = "wait"
  /\ UNCHANGED <<config, clientVars, inq, outq, nospace, lbVars, fdt, epollVars,
                 conns, batch, ev, back>>

cur == ev.fd
sock == fdt[cur]

(* e&EPOLLRDHUP != 0 && c.wn == len(c.wb) *)
RdHup ==
  /\ pc = "rdhup"
  /\ pc' = IF ev.mask.rdhup /\ conns[cur].wn = conns[cur].wb THEN "drop" ELSE "next"
  /\ UNCHANGED <<config, clientVars, inq, outq, nospace, lbVars, fdt, epollVars,
                 conns, batch, ev, back>>

(* EPOLL_CTL_DEL of r, then Close. Close alone would leave r registered while
   the load balancer has a descriptor of the connection. *)
UnregisterByClose(r) ==                              \* bug: no EPOLL_CTL_DEL
  IF r.conn \in lbHolds THEN UNCHANGED <<regs, armed, ready>> ELSE Forget(r.conn)

Unregister(r) ==
  IF r.conn \in lbHolds
  THEN regs' = regs \ {r} /\ armed' = armed \ {r} /\ ready' = ready \ {r}
  ELSE Forget(r.conn)

ConnsKept(fd)    == conns                            \* bug: no delete
ConnsWithout(fd) == [f \in DOMAIN conns \ {fd} |-> conns[f]]

(* drop: EPOLL_CTL_DEL, Close, delete. *)
Drop ==
  /\ pc = "drop"
  /\ Unregister(Reg(cur, sock))
  /\ fdt' = [fdt EXCEPT ![cur] = None]
  /\ conns' = ConnsWithout(cur)
  /\ pc' = "next"
  /\ UNCHANGED <<config, clientVars, inq, outq, nospace, lbVars, ctlReady, batch, ev, back>>

-----------------------------------------------------------------------------
(* readDrain and handle *)

(* Connection o after n more units: each request they complete is answered, and
   what is left over is moved to the front of rb. *)
HandledKeepingRb(o, n) ==                            \* bug: rb is not shifted
  [o EXCEPT !.rb = o.rb + n, !.wb = @ + RespLen * ((o.rb + n) \div ReqLen)]

Handled(o, n) ==
  [o EXCEPT !.rb = (o.rb + n) % ReqLen,
            !.wb = @ + RespLen * ((o.rb + n) \div ReqLen)]

(* Where readDrain goes on when there is nothing to flush. *)
ReadsOnce  == "rdhup"                                \* bug: no loop
ReadsAgain == "read"

(* Read returned n > 0 units; what handle appends to wb is flushed at once. *)
ReadData ==
  /\ pc = "read" /\ inq[sock] > 0
  /\ LET n == Min2(inq[sock], Buf)
         o == Handled(conns[cur], n)
     IN  /\ inq' = [inq EXCEPT ![sock] = @ - n]
         /\ conns' = [conns EXCEPT ![cur] = o]
         /\ IF o.wb > o.wn
            THEN pc' = "flush" /\ back' = "read"
            ELSE pc' = ReadsAgain /\ UNCHANGED back
  /\ UNCHANGED <<config, clientVars, outq, nospace, lbVars, fdt, epollVars, batch, ev>>

(* Read returned EAGAIN. *)
ReadBlocks ==
  /\ pc = "read" /\ inq[sock] = 0 /\ ~ fin[sock] /\ ~ rst[sock]
  /\ pc' = "rdhup"
  /\ UNCHANGED <<config, clientVars, inq, outq, nospace, lbVars, fdt, epollVars,
                 conns, batch, ev, back>>

(* Read returned 0 or an error. *)
ReadEnds ==
  /\ pc = "read" /\ inq[sock] = 0 /\ (fin[sock] \/ rst[sock])
  /\ pc' = "drop"
  /\ UNCHANGED <<config, clientVars, inq, outq, nospace, lbVars, fdt, epollVars,
                 conns, batch, ev, back>>

-----------------------------------------------------------------------------
(* flush *)

(* Where the loop goes on after flush returned true. *)
AfterFlush ==
  IF back = "read" THEN "read" ELSE IF ev.mask.in THEN "read" ELSE "rdhup"

Write ==
  /\ pc = "flush" /\ conns[cur].wn < conns[cur].wb
  /\ ~ rst[sock] /\ room(sock) > 0
  /\ LET n == Min2(room(sock), conns[cur].wb - conns[cur].wn)
     IN  /\ outq' = [outq EXCEPT ![sock] = @ + n]
         /\ conns' = [conns EXCEPT ![cur].wn = @ + n]
  /\ UNCHANGED <<config, clientVars, inq, nospace, lbVars, fdt, epollVars, batch, ev,
                 pc, back>>

WriteBlocks ==
  /\ pc = "flush" /\ conns[cur].wn < conns[cur].wb
  /\ ~ rst[sock] /\ room(sock) = 0
  /\ nospace' = [nospace EXCEPT ![sock] = TRUE]
  /\ pc' = "armOut"
  /\ UNCHANGED <<config, clientVars, inq, outq, lbVars, fdt, epollVars, conns, batch,
                 ev, back>>

WriteFails ==
  /\ pc = "flush" /\ conns[cur].wn < conns[cur].wb
  /\ rst[sock]
  /\ pc' = "drop"
  /\ UNCHANGED <<config, clientVars, inq, outq, nospace, lbVars, fdt, epollVars,
                 conns, batch, ev, back>>

ArmOutForInput ==                                    \* bug: EPOLLOUT not asked for
  /\ pc = "armOut"
  /\ Modify(cur, FALSE)
  /\ pc' = AfterFlush
  /\ UNCHANGED <<config, clientVars, inq, outq, nospace, lbVars, fdt, conns, batch,
                 ev, back>>

(* The EPOLL_CTL_MOD that waits for room. *)
ArmOut ==
  /\ pc = "armOut"
  /\ Modify(cur, TRUE)
  /\ nospace' = [nospace EXCEPT ![sock] = @ \/ room(sock) = 0]
  /\ pc' = AfterFlush
  /\ UNCHANGED <<config, clientVars, inq, outq, lbVars, fdt, conns, batch, ev, back>>

WbResetOnly(o) == [o EXCEPT !.wb = 0]                \* bug: wn is kept
WbReset(o)     == [o EXCEPT !.wb = 0, !.wn = 0]

(* All written: reset the buffer and wait for input only. *)
FlushDone ==
  /\ pc = "flush" /\ conns[cur].wn = conns[cur].wb
  /\ conns' = [conns EXCEPT ![cur] = WbReset(@)]
  /\ Modify(cur, FALSE)
  /\ pc' = AfterFlush
  /\ UNCHANGED <<config, clientVars, inq, outq, nospace, lbVars, fdt, batch, ev, back>>

-----------------------------------------------------------------------------
(* recvLoop and recvFDs, or acceptLoop; and add *)

Free == {fd \in Fds : fdt[fd] = None}

(* Whether the loop takes another one after it. *)
TakesOne  == "next"                                  \* bug: no loop
TakesMore == "recv"

(* One message, or one accept4: the kernel installs the connection at the lowest
   free number, and add registers it, which polls it at once. *)
Recv ==
  /\ pc = "recv" /\ ctlq # <<>>
  /\ \E fd \in Free :
       /\ \A other \in Free : fd <= other
       /\ LET c == Head(ctlq)
              r == Reg(fd, c)
          IN  /\ fdt' = [fdt EXCEPT ![fd] = c]
              /\ regs' = regs \cup {r}
              /\ ready' = IF Reported(Mask(c, FALSE)) THEN ready \cup {r} ELSE ready
              /\ conns' = [f \in DOMAIN conns \cup {fd} |->
                             IF f = fd THEN [rb |-> 0, wb |-> 0, wn |-> 0] ELSE conns[f]]
  /\ ctlq' = Tail(ctlq)
  /\ pc' = TakesMore
  /\ UNCHANGED <<config, clientVars, inq, outq, nospace, lbHolds, passed, armed, ctlReady,
                 batch, ev, back>>

(* The descriptor table is full. The message is consumed without its descriptor
   (MSG_CTRUNC), while accept4 fails and leaves the connection queued (EMFILE);
   either loop returns, whatever else is queued. *)
RecvFails ==
  /\ pc = "recv" /\ ctlq # <<>> /\ Free = {}
  /\ ctlq' = IF listener THEN ctlq ELSE Tail(ctlq)
  /\ pc' = "next"
  /\ UNCHANGED <<config, clientVars, inq, outq, nospace, lbHolds, passed, fdt, epollVars,
                 conns, batch, ev, back>>

RecvBlocks ==
  /\ pc = "recv" /\ ctlq = <<>>
  /\ pc' = "next"
  /\ UNCHANGED <<config, clientVars, inq, outq, nospace, lbVars, fdt, epollVars,
                 conns, batch, ev, back>>

-----------------------------------------------------------------------------
Init ==
  /\ listener \in BOOLEAN /\ limit \in Limits
  /\ sent = [c \in Conns |-> 0] /\ got = [c \in Conns |-> 0]
  /\ fin = [c \in Conns |-> FALSE] /\ rst = [c \in Conns |-> FALSE]
  /\ inq = [c \in Conns |-> 0] /\ outq = [c \in Conns |-> 0]
  /\ nospace = [c \in Conns |-> FALSE]
  /\ ctlq = <<>> /\ lbHolds = {} /\ passed = {}
  /\ fdt = [fd \in Fds |-> None]
  /\ regs = {} /\ armed = {} /\ ready = {} /\ ctlReady = FALSE
  /\ conns = <<>> /\ batch = {} /\ ev = [fd |-> ctl]
  /\ pc = "start" /\ back = "out"

Environment ==
  \E c \in Conns : Send(c) \/ Finish(c) \/ Reset(c) \/ Receive(c) \/ Pass(c) \/ LbClose(c)

Server ==
  \/ Run \/ EpollWait \/ (\E e \in batch : Dispatch(e)) \/ BatchDone \/ RdHup \/ Drop
  \/ ReadData \/ ReadBlocks \/ ReadEnds
  \/ Write \/ WriteBlocks \/ WriteFails \/ ArmOut \/ FlushDone
  \/ Recv \/ RecvFails \/ RecvBlocks

Next == Environment \/ Server

Spec == Init /\ [][Next]_vars

(* The worker's thread runs, and clients read what they are sent. *)
FairSpec == /\ Spec /\ WF_vars(Server)
            /\ \A c \in Conns : WF_vars(Receive(c))

-----------------------------------------------------------------------------
(* Types. *)
TypeOK ==
  /\ listener \in BOOLEAN /\ limit \in Limits
  /\ sent \in [Conns -> Nat] /\ got \in [Conns -> Nat]
  /\ inq \in [Conns -> Nat] /\ outq \in [Conns -> 0..SndBuf]
  /\ fin \in [Conns -> BOOLEAN] /\ rst \in [Conns -> BOOLEAN]
  /\ nospace \in [Conns -> BOOLEAN]
  /\ ctlq \in Seq(Conns) /\ lbHolds \subseteq passed /\ passed \subseteq Conns
  /\ fdt \in [Fds -> Conns \cup {None}]
  /\ armed \subseteq regs /\ ready \subseteq regs /\ ctlReady \in BOOLEAN
  /\ \A fd \in DOMAIN conns : conns[fd] \in [rb : 0..(ReqLen - 1), wb : Nat, wn : Nat]
  /\ pc \in {"start", "wait", "next", "recv", "read", "flush", "armOut", "rdhup", "drop"}
  /\ back \in {"out", "read"}

(* The worker's map, its descriptors and epoll's registrations agree, and a
   connection is adopted at most once: no descriptor leaks, no registration
   outlives its descriptor even while the load balancer keeps its copy. *)
TableOK ==
  /\ DOMAIN conns = {fd \in Fds : fdt[fd] # None}
  /\ regs = {Reg(fd, fdt[fd]) : fd \in DOMAIN conns}
  /\ \A f, g \in DOMAIN conns : fdt[f] = fdt[g] => f = g
  /\ \A c \in Conns : ~ (Open(c) /\ Queued(c))

(* Whatever was read has been answered or is waiting to be, nothing twice: the
   units read by or queued for the client and those still in wb are exactly
   the responses to the complete requests taken from the socket. *)
Conserved ==
  \A fd \in DOMAIN conns :
    LET c == fdt[fd]
        o == conns[fd]
    IN  /\ o.wn <= o.wb
        /\ got[c] + outq[c] + (o.wb - o.wn) = RespLen * ((sent[c] - inq[c]) \div ReqLen)
        /\ o.rb = (sent[c] - inq[c]) % ReqLen

(* Edge-triggered epoll tells the worker each thing once: when it waits, each
   connection with something to read, finished or reset is on the ready list,
   and unwritten output has EPOLLOUT armed and an edge coming. *)
NoLostEdge ==
  pc = "wait" =>
    \A fd \in DOMAIN conns :
      LET c == fdt[fd]
          r == Reg(fd, c)
      IN  /\ inq[c] > 0 \/ fin[c] \/ rst[c] => r \in ready
          /\ conns[fd].wn < conns[fd].wb =>
               r \in armed /\ (nospace[c] \/ r \in ready)

(* The worker closes a connection only if its client finished or reset it,
   never because of an event of the descriptor's previous owner. *)
DropsOnlyFinished ==
  [][\A c \in Conns : Open(c) /\ ~ Open(c)' => fin[c] \/ rst[c]]_vars

(* A client that finishes sending and stays to read gets every response: the
   worker closes its connection before that only with output it could not
   write. *)
FinishedIsAnswered ==
  [][\A c \in Conns :
       Open(c) /\ ~ Open(c)' /\ ~ rst[c] =>
         \/ got[c] + outq[c] = RespLen * (sent[c] \div ReqLen)
         \/ \E fd \in DOMAIN conns : fdt[fd] = c /\ conns[fd].wn < conns[fd].wb]_vars

(* Each complete request of a client that stays is answered. *)
Answered ==
  \A c \in Conns : \A n \in 1..(MaxSend \div ReqLen) :
    (c \in passed /\ sent[c] >= n * ReqLen) ~> (got[c] >= n * RespLen \/ fin[c] \/ rst[c])

(* Each queued connection is adopted, by a worker with descriptors enough. *)
Adopted == \A c \in Conns : (limit >= Cardinality(Conns) /\ Queued(c)) ~> Open(c)
=============================================================================
