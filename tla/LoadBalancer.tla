---------------------------- MODULE LoadBalancer ----------------------------
(***************************************************************************)
(* lb/lb.c with the start of its workers (cmd/api/main.go in fd mode,      *)
(* internal/server/listen.go). The load balancer waits for the control     *)
(* socket of each worker, connects to it, and then hands every connection  *)
(* it accepts to one of them with SCM_RIGHTS, in turn.                     *)
(*                                                                         *)
(* A step is one system call. Time is counted in the 100 ms naps of        *)
(* connect_worker. Workers may die at any time and are not restarted; a    *)
(* worker serves what it adopts as module Worker describes.                *)
(***************************************************************************)
EXTENDS Integers, Sequences, FiniteSets

CONSTANTS
  nb,           (* the number of workers, 2 in the code                     *)
  Clients,      (* the connections clients open                             *)
  StatTries,    (* naps connect_worker spends waiting for the file, 600     *)
  ConnTries,    (* its attempts to connect, 100                             *)
  AcceptBatch,  (* ACCEPT_BATCH, 1024                                       *)
  QueueCap,     (* descriptors a control socket's send buffer holds         *)
  BootNaps      (* naps after which every living worker listens             *)

ASSUME LBAssumption ==
  /\ nb \in Nat \ {0} /\ StatTries \in Nat /\ ConnTries \in Nat \ {0}
  /\ AcceptBatch \in Nat \ {0} /\ QueueCap \in Nat \ {0} /\ BootNaps \in Nat

Workers == 0..(nb - 1)

VARIABLES
  (* the workers *)
  wpc,        (* boot, removed, bound, listening, run or dead               *)
  file,       (* the file of its socket exists                              *)
  queue,      (* the connections in its control socket                      *)
  served,     (* those it has received                                      *)
  (* the clients *)
  backlog,    (* established, waiting for accept                            *)
  lost,       (* closed before or while a worker served them                *)
  (* the load balancer *)
  pc,         (* where it is                                                *)
  i,          (* the worker it connects to                                  *)
  t,          (* naps or attempts spent on it                               *)
  naps,       (* naps so far, up to BootNaps                                *)
  linked,     (* workers it has connected to                                *)
  rr, first, off, ok, accepted,   (* main's variables                       *)
  open,       (* client descriptors it has open                             *)
  cfd,        (* the connection it is handing over                          *)
  (* history *)
  handed,     (* descriptors sent, per worker                               *)
  diverted    (* connections not sent to the worker whose turn it was       *)

workerVars == <<wpc, file, queue, served>>
startVars  == <<i, t, naps, linked>>
sendVars   == <<rr, first, off, ok, accepted, open, cfd>>
history    == <<handed, diverted>>
vars == <<workerVars, backlog, lost, pc, startVars, sendVars, history>>

Members(s) == {s[n] : n \in 1..Len(s)}
Alive(w)   == wpc[w] # "dead"
Listens(w) == wpc[w] \in {"listening", "run"}
NoOne      == 0      \* no connection has this name
ASSUME NoOneAssumption == NoOne \notin Clients

-----------------------------------------------------------------------------
(* The workers: main loads the index, SeqpacketListen removes a file left over
   from an earlier start, binds and listens, AcceptControl takes the load
   balancer's connection and Run receives what it sends. *)

Remove(w) ==
  /\ wpc[w] = "boot"
  /\ wpc' = [wpc EXCEPT ![w] = "removed"]
  /\ file' = [file EXCEPT ![w] = FALSE]
  /\ UNCHANGED <<queue, served, backlog, lost, pc, startVars, sendVars, history>>

Bind(w) ==
  /\ wpc[w] = "removed"
  /\ wpc' = [wpc EXCEPT ![w] = "bound"]
  /\ file' = [file EXCEPT ![w] = TRUE]
  /\ UNCHANGED <<queue, served, backlog, lost, pc, startVars, sendVars, history>>

ListenThenRemove(w) ==                               \* bug: removes its own file
  /\ wpc[w] = "bound"
  /\ wpc' = [wpc EXCEPT ![w] = "listening"]
  /\ file' = [file EXCEPT ![w] = FALSE]
  /\ UNCHANGED <<queue, served, backlog, lost, pc, startVars, sendVars, history>>

ListenControl(w) ==
  /\ wpc[w] = "bound"
  /\ wpc' = [wpc EXCEPT ![w] = "listening"]
  /\ UNCHANGED <<file, queue, served, backlog, lost, pc, startVars, sendVars, history>>

AcceptControl(w) ==
  /\ wpc[w] = "listening" /\ w \in linked
  /\ wpc' = [wpc EXCEPT ![w] = "run"]
  /\ UNCHANGED <<file, queue, served, backlog, lost, pc, startVars, sendVars, history>>

ReceiveFd(w) ==
  /\ wpc[w] = "run" /\ queue[w] # <<>>
  /\ served' = [served EXCEPT ![w] = @ \cup {Head(queue[w])}]
  /\ queue' = [queue EXCEPT ![w] = Tail(@)]
  /\ UNCHANGED <<wpc, file, backlog, lost, pc, startVars, sendVars, history>>

(* log.Fatal, a panic or the out-of-memory killer; the file stays. *)
Die(w) ==
  /\ Alive(w)
  /\ wpc' = [wpc EXCEPT ![w] = "dead"]
  /\ lost' = lost \cup ((served[w] \cup Members(queue[w])) \ open)
  /\ queue' = [queue EXCEPT ![w] = <<>>]
  /\ served' = [served EXCEPT ![w] = {}]
  /\ UNCHANGED <<file, backlog, pc, startVars, sendVars, history>>

-----------------------------------------------------------------------------
(* connect_worker *)

(* 100 ms pass: workers that live make progress. *)
Nap == /\ naps < BootNaps \/ \A w \in Workers : Alive(w) => Listens(w)
       /\ naps' = IF naps < BootNaps THEN naps + 1 ELSE naps

StatWaits ==
  /\ pc = "stat" /\ t < StatTries /\ ~ file[i]
  /\ Nap
  /\ t' = t + 1
  /\ UNCHANGED <<workerVars, backlog, lost, pc, i, linked, sendVars, history>>

(* The file is there, or it has waited long enough. *)
StatDone ==
  /\ pc = "stat" /\ (file[i] \/ t >= StatTries)
  /\ pc' = "connect" /\ t' = 0
  /\ UNCHANGED <<workerVars, backlog, lost, i, naps, linked, sendVars, history>>

Connected ==
  /\ pc = "connect" /\ t < ConnTries
  /\ file[i] /\ Listens(i)
  /\ linked' = linked \cup {i}
  /\ t' = 0
  /\ IF i + 1 < nb THEN i' = i + 1 /\ pc' = "stat" ELSE pc' = "listen" /\ UNCHANGED i
  /\ UNCHANGED <<workerVars, backlog, lost, naps, sendVars, history>>

Refused ==
  /\ pc = "connect" /\ t < ConnTries
  /\ ~ (file[i] /\ Listens(i))
  /\ Nap
  /\ t' = t + 1
  /\ UNCHANGED <<workerVars, backlog, lost, pc, i, linked, sendVars, history>>

(* main returns 3. *)
GivesUp ==
  /\ pc = "connect" /\ t >= ConnTries
  /\ pc' = "exit"
  /\ UNCHANGED <<workerVars, backlog, lost, startVars, sendVars, history>>

-----------------------------------------------------------------------------
(* main *)

Listen ==
  /\ pc = "listen"
  /\ pc' = "accept"
  /\ UNCHANGED <<workerVars, backlog, lost, startVars, sendVars, history>>

(* A client connects: the kernel completes it while the socket listens. *)
Arrive(c) ==
  /\ pc \in {"accept", "try", "block", "close", "poll"}
  /\ c \notin Members(backlog) \cup lost \cup open
  /\ \A w \in Workers : c \notin served[w] \cup Members(queue[w])
  /\ backlog' = Append(backlog, c)
  /\ UNCHANGED <<workerVars, lost, pc, startVars, sendVars, history>>

TurnPast  == rr + 1                                  \* bug: no wrap-around
TurnStays == rr                                      \* bug: rr is not advanced
TurnNext  == (rr + 1) % nb

Accept ==
  /\ pc = "accept" /\ accepted < AcceptBatch /\ backlog # <<>>
  /\ backlog' = Tail(backlog)
  /\ cfd' = Head(backlog)
  /\ open' = open \cup {Head(backlog)}
  /\ accepted' = accepted + 1
  /\ first' = rr /\ rr' = TurnNext
  /\ off' = 0 /\ ok' = FALSE
  /\ pc' = "try"
  /\ UNCHANGED <<workerVars, lost, startVars, history>>

(* The batch is full or accept4 says EAGAIN; poll only if nothing was accepted. *)
BatchEnds ==
  /\ pc = "accept" /\ (accepted >= AcceptBatch \/ backlog = <<>>)
  /\ pc' = IF accepted = 0 THEN "poll" ELSE "accept"
  /\ accepted' = 0
  /\ UNCHANGED <<workerVars, backlog, lost, startVars, rr, first, off, ok, open, cfd, history>>

Poll ==
  /\ pc = "poll" /\ backlog # <<>>
  /\ pc' = "accept"
  /\ UNCHANGED <<workerVars, backlog, lost, startVars, sendVars, history>>

target  == (first + off) % nb
Room(w) == Alive(w) /\ Len(queue[w]) < QueueCap

(* sendmsg to w puts the descriptor on its control socket. *)
Send(w) ==
  /\ queue' = [queue EXCEPT ![w] = Append(@, cfd)]
  /\ handed' = [handed EXCEPT ![w] = @ + 1]
  /\ diverted' = IF w = first THEN diverted ELSE diverted + 1
  /\ ok' = TRUE

(* Where main goes on after a successful send. *)
SendsToAll  == IF off + 1 < nb THEN "try" ELSE "close"     \* bug: no break
SendsToOne  == "close"

TrySend ==
  /\ pc = "try" /\ Room(target)
  /\ Send(target)
  /\ pc' = SendsToOne
  /\ off' = IF pc' = "try" THEN off + 1 ELSE off
  /\ UNCHANGED <<wpc, file, served, backlog, lost, startVars, rr, first, accepted, open, cfd>>

(* Where main goes on after worker w refused the descriptor: EAGAIN, or EPIPE
   without a signal. *)
DiesOfSigpipe(w) ==                                  \* bug: SIGPIPE not ignored
  IF ~ Alive(w) THEN "exit" ELSE IF off + 1 < nb THEN "try" ELSE "block"
NextWorker(w) == IF off + 1 < nb THEN "try" ELSE "block"

TryFails ==
  /\ pc = "try" /\ ~ Room(target)
  /\ pc' = NextWorker(target)
  /\ off' = off + 1
  /\ UNCHANGED <<workerVars, backlog, lost, startVars, rr, first, ok, accepted, open, cfd, history>>

BlockingSend ==
  /\ pc = "block" /\ Room(first)
  /\ Send(first)
  /\ pc' = "close"
  /\ UNCHANGED <<wpc, file, served, backlog, lost, startVars, rr, first, off, accepted, open, cfd>>

DropsWhenFull ==                                     \* bug: no blocking send
  /\ pc = "block"
  /\ pc' = "close"
  /\ diverted' = diverted + 1
  /\ UNCHANGED <<workerVars, backlog, lost, startVars, sendVars, handed>>

(* sendmsg fails, at once or when the worker it waits for dies. *)
BlockingSendFails ==
  /\ pc = "block" /\ ~ Alive(first)
  /\ pc' = "close"
  /\ diverted' = diverted + 1
  /\ UNCHANGED <<workerVars, backlog, lost, startVars, sendVars, handed>>

(* A connection that no worker has any more is closed with cfd. *)
Held(c) == \E w \in Workers : c \in served[w] \cup Members(queue[w])

ClosedIfSent == IF ok THEN open \ {cfd} ELSE open    \* bug: closed only if ok
ClosedCfd    == open \ {cfd}

Close ==
  /\ pc = "close"
  /\ open' = ClosedCfd
  /\ lost' = IF Held(cfd) THEN lost ELSE lost \cup {cfd}
  /\ cfd' = NoOne
  /\ pc' = "accept"
  /\ UNCHANGED <<workerVars, backlog, startVars, rr, first, off, ok, accepted, history>>

-----------------------------------------------------------------------------
Init ==
  /\ wpc = [w \in Workers |-> "boot"]
  /\ file \in [Workers -> BOOLEAN]
  /\ queue = [w \in Workers |-> <<>>]
  /\ served = [w \in Workers |-> {}]
  /\ backlog = <<>> /\ lost = {}
  /\ pc = "stat" /\ i = 0 /\ t = 0 /\ naps = 0 /\ linked = {}
  /\ rr = 0 /\ first = 0 /\ off = 0 /\ ok = FALSE /\ accepted = 0
  /\ open = {} /\ cfd = NoOne
  /\ handed = [w \in Workers |-> 0] /\ diverted = 0

Worker(w) ==
  \/ Remove(w) \/ Bind(w) \/ ListenControl(w) \/ AcceptControl(w) \/ ReceiveFd(w)

Balancer ==
  \/ StatWaits \/ StatDone \/ Connected \/ Refused \/ GivesUp
  \/ Listen \/ Accept \/ BatchEnds \/ Poll
  \/ TrySend \/ TryFails \/ BlockingSend \/ BlockingSendFails \/ Close

Next ==
  \/ Balancer
  \/ \E w \in Workers : Worker(w) \/ Die(w)
  \/ \E c \in Clients : Arrive(c)

Spec == Init /\ [][Next]_vars

(* The load balancer's process and the workers run; nothing makes a worker die
   or a client connect. *)
FairSpec == Spec /\ WF_vars(Balancer) /\ \A w \in Workers : WF_vars(Worker(w))

-----------------------------------------------------------------------------
(* Types. *)
TypeOK ==
  /\ wpc \in [Workers -> {"boot", "removed", "bound", "listening", "run", "dead"}]
  /\ file \in [Workers -> BOOLEAN]
  /\ queue \in [Workers -> Seq(Clients)]
  /\ served \in [Workers -> SUBSET Clients]
  /\ backlog \in Seq(Clients) /\ lost \in SUBSET Clients
  /\ pc \in {"stat", "connect", "listen", "accept", "try", "block", "close", "poll", "exit"}
  /\ i \in Workers /\ t \in Nat /\ naps \in 0..BootNaps /\ linked \in SUBSET Workers
  /\ rr \in Workers /\ first \in Workers /\ off \in 0..nb /\ ok \in BOOLEAN
  /\ accepted \in 0..AcceptBatch
  /\ open \in SUBSET Clients /\ cfd \in Clients \cup {NoOne}
  /\ handed \in [Workers -> Nat] /\ diverted \in Nat

(* Between two connections the load balancer has no descriptor of a client:
   it is out of the path, and a worker's close reaches the client. *)
StepsOut == pc \in {"accept", "poll"} => open = {}

(* Round robin: apart from the connections not sent to the worker whose turn it
   was, the workers are given the same number, give or take one. *)
Balanced == \A v, w \in Workers : handed[v] - handed[w] <= 1 + 2 * diverted

(* The load balancer closes a connection it has not handed over only when the
   worker whose turn it was is dead. *)
ClosesOnlyForTheDead ==
  [][\A c \in open : pc = "close" /\ c \in lost' \ lost /\ ~ ok => ~ Alive(first)]_vars

(* The load balancer does not give up on workers that live: if each listens
   after fewer naps than the connect loop makes attempts, no file left over
   from an earlier start can make it, although it cuts the stat loop short. *)
NeverGivesUp == pc = "exit" => \E w \in Workers : ~ Alive(w)

(* Where a connection is. The load balancer's own descriptor counts until it has
   sent it or given up; one that no worker has then is closed with it. *)
InHand(at) == IF pc \in at THEN open \cap {cfd} ELSE {}
Places(c) ==
  {<<"given", w>>  : w \in {v \in Workers : c \in Members(queue[v])}} \cup
  {<<"served", w>> : w \in {v \in Workers : c \in served[v]}} \cup
  {<<"waiting", NoOne>> : x \in {c} \cap (Members(backlog) \cup InHand({"try", "block"}))} \cup
  {<<"closed", NoOne>>  : x \in {c} \cap (lost \cup {y \in InHand({"close"}) : ~ Held(y)})}

(* The hand-off keeps its promise, with queues that fill, workers that die between
   two sends and a send that blocks: no connection is given to two workers or to
   one twice, none is closed that a living worker was given, and each is served or
   closed in the end. *)
Promise == INSTANCE Handoff WITH place <- [c \in Clients |-> Places(c)]
HandsOff == Promise!Spec
=============================================================================
