------------------------- MODULE LoadBalancerProofs -------------------------
(***************************************************************************)
(* Proofs about module LoadBalancer, for every number of workers and of    *)
(* connections and every limit of the loops and queues.                    *)
(***************************************************************************)
EXTENDS LoadBalancer, SequenceTheorems, TLAPS

(* The loop over the workers has one left to try. *)
Trying == pc = "try" => off < nb

(* It has a descriptor of a client only while it hands it over. *)
InTheMiddle == pc \in {"try", "block", "close"}
HandOK ==
  /\ InTheMiddle => cfd \in Clients /\ open = {cfd}
  /\ ~ InTheMiddle => open = {}

(* The worker whose turn is next, or is now. *)
turn == IF pc \in {"try", "block"} THEN first ELSE rr
TurnOK == pc \in {"try", "block"} => rr = (first + 1) % nb

(* After q rounds and the turns of the workers before `turn`, each worker was
   given what its turns come to, but for the diverted connections. *)
Turns(q, w) == q + (IF w < turn THEN 1 ELSE 0)
RoundsOK == \E q \in Nat : \A w \in Workers :
  Turns(q, w) - diverted <= handed[w] /\ handed[w] <= Turns(q, w) + diverted

(* Why the connection in hand was not sent. *)
RefusedOK == pc = "close" /\ ~ ok => ~ Alive(first)

(* A worker that binds finds its file from then on; and while all workers live,
   connect_worker has only napped because they were starting. *)
FileOK == \A w \in Workers : wpc[w] \in {"bound", "listening", "run"} => file[w]
NapsOK == (pc = "connect" /\ \A w \in Workers : Alive(w)) => t <= naps

IInv == TypeOK /\ Trying /\ HandOK /\ TurnOK /\ RoundsOK /\ RefusedOK /\ FileOK /\ NapsOK

-----------------------------------------------------------------------------
LEMMA Sizes ==
  /\ nb \in Nat /\ nb > 0 /\ StatTries \in Nat /\ ConnTries \in Nat /\ ConnTries > 0
  /\ AcceptBatch \in Nat /\ AcceptBatch > 0 /\ QueueCap \in Nat /\ BootNaps \in Nat
  BY LBAssumption

LEMMA WorkerNumbers == \A w \in Workers : w \in Nat /\ w >= 0 /\ w < nb
  BY Sizes DEF Workers

(* Counting round the workers. *)
LEMMA NextTurn ==
  ASSUME NEW w \in Workers
  PROVE  (w + 1) % nb = IF w + 1 < nb THEN w + 1 ELSE 0
  <1>1. CASE w + 1 < nb
    BY <1>1, Sizes DEF Workers
  <1>2. CASE w + 1 = nb
    BY <1>2, Sizes
  <1> QED
    BY <1>1, <1>2, Sizes DEF Workers

LEMMA RoundTheWorkers ==
  ASSUME NEW a \in Nat
  PROVE  a % nb \in Workers
  BY Sizes DEF Workers

LEMMA TargetIsWorker == ASSUME TypeOK PROVE target \in Workers
  <1>1. first + off \in Nat
    BY Sizes DEF TypeOK, Workers
  <1> QED
    BY <1>1, RoundTheWorkers DEF target

(* The head of a queue and what follows it. *)
LEMMA TailOfQueue ==
  ASSUME NEW q \in Seq(Clients), q # <<>>
  PROVE  /\ Head(q) = q[1] /\ Head(q) \in Clients
         /\ Tail(q) \in Seq(Clients)
         /\ Len(q) \in Nat /\ Len(q) >= 1 /\ Len(Tail(q)) = Len(q) - 1
         /\ \A n \in 1..Len(Tail(q)) : Tail(q)[n] = q[n + 1]
  BY HeadTailProperties, LenProperties, EmptySeq

LEMMA MembersOfQueue ==
  ASSUME NEW q \in Seq(Clients)
  PROVE  Members(q) \subseteq Clients
  BY LenProperties, ElementOfSeq DEF Members

-----------------------------------------------------------------------------
(* Types *)

LEMMA InitTypes == ASSUME Init PROVE TypeOK
  <1>1. 0 \in Workers /\ 0 \in 0..nb /\ 0 \in 0..AcceptBatch /\ 0 \in 0..BootNaps
    BY Sizes DEF Workers
  <1> QED
    BY <1>1 DEF Init, TypeOK

LEMMA WorkerTypes ==
  ASSUME TypeOK, NEW w \in Workers, Worker(w) \/ Die(w)
  PROVE  TypeOK'
  <1> USE DEF TypeOK, workerVars, startVars, sendVars, history
  <1>1. CASE Remove(w) \/ Bind(w) \/ ListenControl(w) \/ AcceptControl(w)
    BY <1>1 DEF Remove, Bind, ListenControl, AcceptControl
  <1>2. CASE ReceiveFd(w)
    <2>1. queue[w] \in Seq(Clients) /\ queue[w] # <<>>
      BY <1>2 DEF ReceiveFd
    <2>2. Head(queue[w]) \in Clients /\ Tail(queue[w]) \in Seq(Clients)
      BY <2>1, TailOfQueue
    <2> QED
      BY <1>2, <2>2 DEF ReceiveFd
  <1>3. CASE Die(w)
    <2>1. Members(queue[w]) \subseteq Clients
      BY MembersOfQueue
    <2> QED
      BY <1>3, <2>1 DEF Die
  <1> QED
    BY <1>1, <1>2, <1>3 DEF Worker

LEMMA NapTypes == ASSUME TypeOK, Nap PROVE naps' \in 0..BootNaps
  BY Sizes DEF TypeOK, Nap

LEMMA SendTypes ==
  ASSUME TypeOK, HandOK, InTheMiddle, NEW w \in Workers, Send(w)
  PROVE  /\ queue' \in [Workers -> Seq(Clients)] /\ handed' \in [Workers -> Nat]
         /\ diverted' \in Nat /\ ok' = TRUE
  <1>1. Append(queue[w], cfd) \in Seq(Clients)
    BY AppendProperties DEF TypeOK, HandOK
  <1>2. queue' \in [Workers -> Seq(Clients)]
    BY <1>1 DEF Send, TypeOK
  <1>3. handed' \in [Workers -> Nat] /\ diverted' \in Nat /\ ok' = TRUE
    BY DEF Send, TypeOK
  <1> QED
    BY <1>2, <1>3

LEMMA BalancerTypes ==
  ASSUME TypeOK, Trying, HandOK, Balancer
  PROVE  TypeOK' /\ Trying'
  <1> USE DEF TypeOK, Trying, workerVars, startVars, sendVars, history
  <1>1. CASE StatWaits \/ Refused
    <2>1. naps' \in 0..BootNaps
      BY <1>1, NapTypes DEF StatWaits, Refused
    <2>2. /\ t' \in Nat /\ pc' = pc
          /\ UNCHANGED <<workerVars, backlog, lost, i, linked, sendVars, history>>
      BY <1>1 DEF StatWaits, Refused
    <2> QED
      BY <2>1, <2>2
  <1>2. CASE StatDone \/ GivesUp \/ Listen \/ Poll
    <2>1. /\ t' \in Nat /\ pc' \in {"connect", "exit", "accept"}
          /\ UNCHANGED <<workerVars, backlog, lost, i, naps, linked, sendVars, history>>
      BY <1>2 DEF StatDone, GivesUp, Listen, Poll
    <2> QED
      BY <2>1
  <1>3. CASE Connected
    <2>1. i' \in Workers /\ pc' \in {"stat", "listen"}
      <3>1. i \in Workers /\ (i + 1 < nb => i + 1 \in Workers)
        BY Sizes DEF Workers
      <3>2. IF i + 1 < nb THEN i' = i + 1 /\ pc' = "stat" ELSE pc' = "listen" /\ i' = i
        BY <1>3 DEF Connected
      <3> QED
        BY <3>1, <3>2
    <2>2. /\ linked' \in SUBSET Workers /\ t' \in Nat
          /\ UNCHANGED <<workerVars, backlog, lost, naps, sendVars, history>>
      BY <1>3 DEF Connected
    <2> QED
      BY <2>1, <2>2
  <1>4. CASE Accept
    <2>1. rr' \in Workers
      BY <1>4, NextTurn, Sizes DEF Accept, TurnNext, Workers
    <2>2. backlog' \in Seq(Clients) /\ cfd' \in Clients /\ open' \in SUBSET Clients
      BY <1>4, TailOfQueue DEF Accept
    <2>3. accepted' \in 0..AcceptBatch /\ off' \in 0..nb /\ off' < nb
      BY <1>4, Sizes DEF Accept
    <2> QED
      BY <1>4, <2>1, <2>2, <2>3 DEF Accept
  <1>5. CASE BatchEnds
    BY <1>5, Sizes DEF BatchEnds
  <1>6. CASE TrySend
    <2>1. /\ queue' \in [Workers -> Seq(Clients)] /\ handed' \in [Workers -> Nat]
          /\ diverted' \in Nat /\ ok' = TRUE
      BY <1>6, TargetIsWorker, SendTypes DEF TrySend, InTheMiddle
    <2> QED
      BY <1>6, <2>1 DEF TrySend, SendsToOne
  <1>7. CASE TryFails
    BY <1>7, Sizes DEF TryFails, NextWorker
  <1>8. CASE BlockingSend
    <2>1. /\ queue' \in [Workers -> Seq(Clients)] /\ handed' \in [Workers -> Nat]
          /\ diverted' \in Nat /\ ok' = TRUE
      BY <1>8, SendTypes DEF BlockingSend, InTheMiddle
    <2> QED
      BY <1>8, <2>1 DEF BlockingSend
  <1>9. CASE BlockingSendFails
    BY <1>9 DEF BlockingSendFails
  <1>10. CASE Close
    BY <1>10 DEF Close, ClosedCfd, HandOK, InTheMiddle
  <1> QED
    BY <1>1, <1>2, <1>3, <1>4, <1>5, <1>6, <1>7, <1>8, <1>9, <1>10 DEF Balancer

LEMMA ArriveTypes ==
  ASSUME TypeOK, NEW c \in Clients, Arrive(c)
  PROVE  TypeOK'
  <1>1. backlog' \in Seq(Clients)
    BY AppendProperties DEF Arrive, TypeOK
  <1> QED
    BY <1>1 DEF Arrive, TypeOK, workerVars, startVars, sendVars, history


-----------------------------------------------------------------------------
(* The descriptor in hand, and turns *)

LEMMA HandStep ==
  ASSUME TypeOK, HandOK, Next
  PROVE  HandOK'
  <1> USE DEF HandOK, InTheMiddle, workerVars, startVars, sendVars, history
  <1>1. CASE Accept
    <2>1. Head(backlog) \in Clients
      BY <1>1, TailOfQueue DEF Accept, TypeOK
    <2> QED
      BY <1>1, <2>1 DEF Accept
  <1>2. CASE Close
    BY <1>2 DEF Close, ClosedCfd
  <1>3. CASE TrySend \/ TryFails \/ BlockingSend \/ BlockingSendFails
    BY <1>3 DEF TrySend, TryFails, BlockingSend, BlockingSendFails, SendsToOne, NextWorker
  <1>4. CASE StatWaits \/ StatDone \/ Connected \/ Refused \/ GivesUp \/ Listen \/ BatchEnds \/ Poll
    BY <1>4 DEF StatWaits, StatDone, Connected, Refused, GivesUp, Listen, BatchEnds, Poll
  <1>5. CASE \E w \in Workers : Worker(w) \/ Die(w)
    BY <1>5 DEF Worker, Remove, Bind, ListenControl, AcceptControl, ReceiveFd, Die
  <1>6. CASE \E c \in Clients : Arrive(c)
    BY <1>6 DEF Arrive
  <1> QED
    BY <1>1, <1>2, <1>3, <1>4, <1>5, <1>6 DEF Next, Balancer

(* When the connection in hand leaves the loop, one more turn is complete. *)
LEMMA TurnPasses ==
  ASSUME TypeOK, TurnOK, pc \in {"try", "block"}, pc' = "close",
         UNCHANGED <<rr, first>>, NEW q \in Nat
  PROVE  \E p \in Nat : \A w \in Workers :
           Turns(p, w)' = Turns(q, w) + (IF w = first THEN 1 ELSE 0)
  <1>1. /\ first \in Nat /\ first < nb
        /\ \A w \in Workers : w \in Nat /\ w < nb
    BY WorkerNumbers DEF TypeOK
  <1>2. turn = first /\ turn' = rr /\ rr = IF first + 1 < nb THEN first + 1 ELSE 0
    BY NextTurn DEF turn, TurnOK, TypeOK
  <1>3. CASE first + 1 < nb
    <2>1. \A w \in Workers : Turns(q, w)' = Turns(q, w) + (IF w = first THEN 1 ELSE 0)
      BY <1>1, <1>2, <1>3 DEF Turns
    <2> QED
      BY <2>1
  <1>4. CASE ~ (first + 1 < nb)
    <2>1. \A w \in Workers : Turns(q + 1, w)' = Turns(q, w) + (IF w = first THEN 1 ELSE 0)
      BY <1>1, <1>2, <1>4, Sizes DEF Turns
    <2> QED
      BY <2>1
  <1> QED
    BY <1>3, <1>4

(* It is sent to worker k, whose turn it may not have been. *)
LEMMA SendRounds ==
  ASSUME TypeOK, HandOK, TurnOK, RoundsOK, pc \in {"try", "block"}, pc' = "close",
         UNCHANGED <<rr, first>>, NEW k \in Workers, Send(k)
  PROVE  RoundsOK'
  <1>1. PICK q \in Nat : \A w \in Workers :
          Turns(q, w) - diverted <= handed[w] /\ handed[w] <= Turns(q, w) + diverted
    BY DEF RoundsOK
  <1>2. PICK p \in Nat : \A w \in Workers :
          Turns(p, w)' = Turns(q, w) + (IF w = first THEN 1 ELSE 0)
    BY TurnPasses
  <1>3. /\ \A w \in Workers : handed'[w] = handed[w] + (IF w = k THEN 1 ELSE 0)
        /\ diverted' = diverted + (IF k = first THEN 0 ELSE 1)
    <2>1. handed \in [Workers -> Nat] /\ diverted \in Nat
      BY DEF TypeOK
    <2>2. /\ handed' = [handed EXCEPT ![k] = @ + 1]
          /\ diverted' = IF k = first THEN diverted ELSE diverted + 1
      BY DEF Send
    <2> QED
      BY <2>1, <2>2
  <1>4. /\ diverted \in Nat /\ \A w \in Workers : handed[w] \in Nat /\ Turns(q, w) \in Nat
    BY DEF TypeOK, Turns
  <1>5. \A w \in Workers : Turns(p, w)' - diverted' <= handed'[w]
                           /\ handed'[w] <= Turns(p, w)' + diverted'
    BY <1>1, <1>2, <1>3, <1>4
  <1> QED
    BY <1>5 DEF RoundsOK

(* Or it is not sent at all. *)
LEMMA DropRounds ==
  ASSUME TypeOK, TurnOK, RoundsOK, BlockingSendFails
  PROVE  RoundsOK'
  <1>1. PICK q \in Nat : \A w \in Workers :
          Turns(q, w) - diverted <= handed[w] /\ handed[w] <= Turns(q, w) + diverted
    BY DEF RoundsOK
  <1>2. PICK p \in Nat : \A w \in Workers :
          Turns(p, w)' = Turns(q, w) + (IF w = first THEN 1 ELSE 0)
    BY TurnPasses DEF BlockingSendFails, sendVars
  <1>3. handed' = handed /\ diverted' = diverted + 1
    BY DEF BlockingSendFails
  <1>4. /\ diverted \in Nat /\ \A w \in Workers : handed[w] \in Nat /\ Turns(q, w) \in Nat
    BY DEF TypeOK, Turns
  <1>5. \A w \in Workers : Turns(p, w)' - diverted' <= handed'[w]
                           /\ handed'[w] <= Turns(p, w)' + diverted'
    BY <1>1, <1>2, <1>3, <1>4
  <1> QED
    BY <1>5 DEF RoundsOK

LEMMA RoundsKept ==
  ASSUME RoundsOK, UNCHANGED <<turn, handed, diverted>>
  PROVE  RoundsOK'
  <1>1. PICK q \in Nat : \A w \in Workers :
          Turns(q, w) - diverted <= handed[w] /\ handed[w] <= Turns(q, w) + diverted
    BY DEF RoundsOK
  <1>2. \A w \in Workers : Turns(q, w)' = Turns(q, w)
    BY DEF Turns
  <1> QED
    BY <1>1, <1>2 DEF RoundsOK

LEMMA TurnStep ==
  ASSUME TypeOK, HandOK, TurnOK, RoundsOK, RefusedOK, Next
  PROVE  TurnOK' /\ RoundsOK' /\ RefusedOK'
  <1> USE DEF workerVars, startVars, sendVars, history
  <1>1. CASE Accept
    <2>1. turn' = turn /\ TurnOK' /\ RefusedOK'
      BY <1>1 DEF Accept, TurnOK, turn, TurnNext, RefusedOK
    <2> QED
      BY <1>1, <2>1, RoundsKept DEF Accept
  <1>2. CASE TrySend
    <2>1. pc = "try" /\ pc' = "close" /\ UNCHANGED <<rr, first>> /\ Send(target) /\ ok'
      BY <1>2 DEF TrySend, SendsToOne, Send
    <2>2. RoundsOK'
      BY <2>1, SendRounds, TargetIsWorker
    <2> QED
      BY <2>1, <2>2 DEF TurnOK, RefusedOK
  <1>3. CASE BlockingSend
    <2>1. pc = "block" /\ pc' = "close" /\ UNCHANGED <<rr, first>> /\ Send(first) /\ ok'
      BY <1>3 DEF BlockingSend, Send
    <2>2. RoundsOK'
      BY <2>1, SendRounds DEF TypeOK
    <2> QED
      BY <2>1, <2>2 DEF TurnOK, RefusedOK
  <1>4. CASE BlockingSendFails
    BY <1>4, DropRounds DEF BlockingSendFails, TurnOK, RefusedOK, Alive
  <1>5. CASE TryFails
    BY <1>5, RoundsKept DEF TryFails, NextWorker, TurnOK, RefusedOK, turn
  <1>6. CASE Close
    BY <1>6, RoundsKept DEF Close, TurnOK, RefusedOK, turn
  <1>7. CASE StatWaits \/ StatDone \/ Connected \/ Refused \/ GivesUp \/ Listen \/ BatchEnds \/ Poll
    <2>1. UNCHANGED <<turn, handed, diverted>> /\ TurnOK' /\ RefusedOK'
      BY <1>7 DEF StatWaits, StatDone, Connected, Refused, GivesUp, Listen, BatchEnds, Poll,
                  TurnOK, RefusedOK, turn
    <2> QED
      BY <2>1, RoundsKept
  <1>8. ASSUME NEW w \in Workers, Worker(w) \/ Die(w) PROVE TurnOK' /\ RoundsOK' /\ RefusedOK'
    <2>1. UNCHANGED <<pc, rr, first, ok, handed, diverted>>
      BY <1>8 DEF Worker, Remove, Bind, ListenControl, AcceptControl, ReceiveFd, Die
    <2>2. \A v \in Workers : ~ Alive(v) => ~ Alive(v)'
      BY <1>8 DEF Worker, Remove, Bind, ListenControl, AcceptControl, ReceiveFd, Die, Alive, TypeOK
    <2>3. RefusedOK'
      BY <2>1, <2>2 DEF RefusedOK, TypeOK, Alive
    <2> QED
      BY <2>1, <2>3, RoundsKept DEF TurnOK, turn
  <1>9. CASE \E c \in Clients : Arrive(c)
    BY <1>9, RoundsKept DEF Arrive, TurnOK, RefusedOK, turn, Alive
  <1> QED
    BY <1>1, <1>2, <1>3, <1>4, <1>5, <1>6, <1>7, <1>8, <1>9 DEF Next, Balancer


-----------------------------------------------------------------------------
(* The start *)

LEMMA FileStep ==
  ASSUME TypeOK, FileOK, Next
  PROVE  FileOK'
  <1> USE DEF workerVars
  <1>1. CASE Balancer
    BY <1>1 DEF Balancer, StatWaits, StatDone, Connected, Refused, GivesUp, Listen, Accept,
                BatchEnds, Poll, TrySend, TryFails, BlockingSend, BlockingSendFails, Close, FileOK
  <1>2. ASSUME NEW w \in Workers, Worker(w) \/ Die(w) PROVE FileOK'
    BY <1>2 DEF Worker, Remove, Bind, ListenControl, AcceptControl, ReceiveFd, Die, FileOK, TypeOK
  <1>3. CASE \E c \in Clients : Arrive(c)
    BY <1>3 DEF Arrive, FileOK
  <1> QED
    BY <1>1, <1>2, <1>3 DEF Next

LEMMA NapsStep ==
  ASSUME TypeOK, FileOK, NapsOK, Next
  PROVE  NapsOK'
  <1> USE DEF workerVars, startVars, Alive
  <1>1. t \in Nat /\ naps \in Nat /\ i \in Workers
    BY Sizes DEF TypeOK
  <1>2. CASE Refused
    <2> SUFFICES ASSUME \A w \in Workers : Alive(w) PROVE t' <= naps'
      BY <1>2 DEF NapsOK, Refused
    <2>1. t <= naps /\ t' = t + 1
      BY <1>2 DEF NapsOK, Refused
    <2>2. naps < BootNaps
      <3>1. ASSUME \A w \in Workers : Listens(w) PROVE FALSE
        BY <1>1, <1>2, <3>1 DEF Refused, FileOK, Listens
      <3> QED
        BY <1>2, <3>1 DEF Refused, Nap
    <2>3. naps' = naps + 1
      BY <1>2, <2>2 DEF Refused, Nap
    <2> QED
      BY <1>1, <2>1, <2>3
  <1>3. CASE StatDone \/ Connected
    BY <1>1, <1>3 DEF StatDone, Connected, NapsOK
  <1>4. CASE Balancer /\ ~ Refused /\ ~ StatDone /\ ~ Connected
    BY <1>4 DEF Balancer, StatWaits, GivesUp, Listen, Accept, BatchEnds, Poll, TrySend, TryFails,
                BlockingSend, BlockingSendFails, Close, NapsOK, SendsToOne, NextWorker
  <1>5. ASSUME NEW w \in Workers, Worker(w) \/ Die(w) PROVE NapsOK'
    <2>1. UNCHANGED <<pc, t, naps>>
      BY <1>5 DEF Worker, Remove, Bind, ListenControl, AcceptControl, ReceiveFd, Die
    <2>2. \A v \in Workers : Alive(v)' => Alive(v)
      BY <1>5 DEF Worker, Remove, Bind, ListenControl, AcceptControl, ReceiveFd, Die, TypeOK
    <2> QED
      BY <2>1, <2>2 DEF NapsOK
  <1>6. CASE \E c \in Clients : Arrive(c)
    BY <1>6 DEF Arrive, NapsOK
  <1> QED
    BY <1>2, <1>3, <1>4, <1>5, <1>6 DEF Next

-----------------------------------------------------------------------------
(* The inductive invariant *)

LEMMA InitIInv == ASSUME Init PROVE IInv
  <1>1. TypeOK
    BY InitTypes
  <1>2. Trying /\ HandOK /\ TurnOK /\ RefusedOK /\ FileOK /\ NapsOK
    BY DEF Init, Trying, HandOK, InTheMiddle, TurnOK, RefusedOK, FileOK, NapsOK
  <1>3. RoundsOK
    <2>1. \A w \in Workers : ~ (w < turn)
      BY WorkerNumbers DEF Init, turn
    <2>2. \A w \in Workers : Turns(0, w) = 0
      BY <2>1 DEF Turns
    <2>3. diverted = 0 /\ \A w \in Workers : handed[w] = 0
      BY DEF Init
    <2> QED
      BY <2>2, <2>3 DEF RoundsOK
  <1> QED
    BY <1>1, <1>2, <1>3 DEF IInv

LEMMA StepIInv == ASSUME IInv, [Next]_vars PROVE IInv'
  <1> USE DEF IInv
  <1>1. CASE Next
    <2>1. TypeOK' /\ Trying'
      <3>1. CASE Balancer
        BY <3>1, BalancerTypes
      <3>2. ASSUME NEW w \in Workers, Worker(w) \/ Die(w) PROVE TypeOK' /\ Trying'
        BY <3>2, WorkerTypes DEF Worker, Remove, Bind, ListenControl, AcceptControl,
                                 ReceiveFd, Die, Trying, sendVars
      <3>3. ASSUME NEW c \in Clients, Arrive(c) PROVE TypeOK' /\ Trying'
        BY <3>3, ArriveTypes DEF Arrive, Trying, sendVars
      <3> QED
        BY <1>1, <3>1, <3>2, <3>3 DEF Next
    <2> QED
      BY <1>1, <2>1, HandStep, TurnStep, FileStep, NapsStep
  <1>2. CASE UNCHANGED vars
    <2> USE <1>2 DEF vars, workerVars, startVars, sendVars, history
    <2>1. TypeOK' /\ Trying' /\ HandOK' /\ TurnOK'
      BY DEF TypeOK, Trying, HandOK, InTheMiddle, TurnOK
    <2>2. RoundsOK'
      BY RoundsKept DEF turn
    <2>3. RefusedOK' /\ FileOK' /\ NapsOK'
      BY DEF RefusedOK, FileOK, NapsOK, Alive
    <2> QED
      BY <2>1, <2>2, <2>3
  <1> QED
    BY <1>1, <1>2

LEMMA Invariance == Spec => []IInv
  BY InitIInv, StepIInv, PTL DEF Spec

-----------------------------------------------------------------------------
(* Every state is well typed: in particular first and rr name workers. *)
THEOREM TypeCorrect == Spec => []TypeOK
  <1>1. IInv => TypeOK
    BY DEF IInv
  <1> QED
    BY <1>1, Invariance, PTL

(* When main waits for the next connection it has no descriptor of an earlier
   one, whichever way it left the loop over the workers. *)
THEOREM OutOfThePath == Spec => []StepsOut
  <1>1. IInv => StepsOut
    BY DEF IInv, HandOK, InTheMiddle, StepsOut
  <1> QED
    BY <1>1, Invariance, PTL

(* rr deals the connections out evenly, to any number of workers: only those
   that were diverted make a difference of more than one. *)
THEOREM RoundRobin == Spec => []Balanced
  <1>1. ASSUME IInv PROVE Balanced
    <2>1. PICK q \in Nat : \A w \in Workers :
            Turns(q, w) - diverted <= handed[w] /\ handed[w] <= Turns(q, w) + diverted
      BY <1>1 DEF IInv, RoundsOK
    <2>2. diverted \in Nat /\ \A w \in Workers : handed[w] \in Nat
      BY <1>1 DEF IInv, TypeOK
    <2>3. \A w \in Workers : Turns(q, w) = q \/ Turns(q, w) = q + 1
      BY DEF Turns
    <2> QED
      BY <2>1, <2>2, <2>3 DEF Balanced
  <1> QED
    BY <1>1, Invariance, PTL

(* close(cfd) without a successful sendmsg closes a connection whose worker has
   died; a full queue alone never does. *)
THEOREM FullQueuesRefuseNobody == Spec => ClosesOnlyForTheDead
  <1>1. IInv /\ [Next]_vars =>
          [\A c \in open : pc = "close" /\ c \in lost' \ lost /\ ~ ok => ~ Alive(first)]_vars
    BY DEF IInv, RefusedOK
  <1> QED
    BY <1>1, Invariance, PTL DEF Spec, ClosesOnlyForTheDead

(* connect_worker succeeds with every living worker, provided a worker listens
   after fewer naps than the connect loop makes attempts (100): the stat loop
   need not have waited at all, as when an earlier start left the file behind. *)
THEOREM ConnectsToTheLiving ==
  ASSUME BootNaps < ConnTries
  PROVE  Spec => []NeverGivesUp
  <1>1. ASSUME IInv, NeverGivesUp, [Next]_vars PROVE NeverGivesUp'
    <2>1. \A w \in Workers : ~ Alive(w) => ~ Alive(w)'
      BY <1>1 DEF IInv, Next, vars, workerVars, Balancer, StatWaits, StatDone, Connected,
                  Refused, GivesUp, Listen, Accept, BatchEnds, Poll, TrySend, TryFails,
                  BlockingSend, BlockingSendFails, Close, Worker, Remove, Bind, ListenControl,
                  AcceptControl, ReceiveFd, Die, Arrive, Alive, TypeOK
    <2>2. CASE pc = "exit"
      BY <1>1, <2>1, <2>2 DEF NeverGivesUp
    <2>3. CASE GivesUp
      <3>1. pc = "connect" /\ t >= ConnTries /\ wpc' = wpc
        BY <2>3 DEF GivesUp, workerVars
      <3>2. t \in Nat /\ naps \in Nat /\ naps <= BootNaps
        BY <1>1, Sizes DEF IInv, TypeOK
      <3>3. ~ \A w \in Workers : Alive(w)
        BY <1>1, <3>1, <3>2, Sizes DEF IInv, NapsOK
      <3> QED
        BY <3>1, <3>3 DEF NeverGivesUp, Alive
    <2>4. CASE pc # "exit" /\ ~ GivesUp
      <3>1. pc' # "exit"
        BY <1>1, <2>4 DEF Next, vars, Balancer, StatWaits, StatDone, Connected,
                  Refused, Listen, Accept, BatchEnds, Poll, TrySend, TryFails,
                  BlockingSend, BlockingSendFails, Close, Worker, Remove, Bind, ListenControl,
                  AcceptControl, ReceiveFd, Die, Arrive, SendsToOne, NextWorker
      <3> QED
        BY <3>1 DEF NeverGivesUp
    <2> QED
      BY <2>2, <2>3, <2>4
  <1>2. Init => NeverGivesUp
    BY DEF Init, NeverGivesUp
  <1> QED
    BY <1>1, <1>2, Invariance, PTL DEF Spec


-----------------------------------------------------------------------------
(* The hand-off *)

(* Where connection c is, by the state that says so. *)
GivenTo(c, w)  == c \in Members(queue[w])
ServedBy(c, w) == c \in served[w]
HasIt(c, w)    == GivenTo(c, w) \/ ServedBy(c, w)
InHands(c)     == c \in open /\ c = cfd
Waits(c)       == c \in Members(backlog) \/ (pc \in {"try", "block"} /\ InHands(c))
Gone(c)        == c \in lost \/ (pc = "close" /\ InHands(c) /\ ~ Held(c))

(* It is in one place, once. *)
OnePlace == \A c \in Clients :
  /\ \A v, w \in Workers : HasIt(c, v) /\ HasIt(c, w) => v = w
  /\ \A w \in Workers : ~ (GivenTo(c, w) /\ ServedBy(c, w))
  /\ (\E w \in Workers : HasIt(c, w)) => ~ Waits(c) /\ ~ Gone(c)
  /\ Waits(c) => ~ Gone(c)
  /\ c \in Members(backlog) => c \notin open

Once(q) == \A m, n \in 1..Len(q) : q[m] = q[n] => m = n
Queues  == Once(backlog) /\ \A w \in Workers : Once(queue[w])

HInv == IInv /\ OnePlace /\ Queues

LEMMA HeldByWorkers == ASSUME NEW c PROVE Held(c) <=> \E w \in Workers : HasIt(c, w)
  BY DEF Held, HasIt, GivenTo, ServedBy

(* Places, place by place. *)
LEMMA PlacesAre ==
  ASSUME NEW c
  PROVE  Places(c) = {<<"given", w>> : w \in {v \in Workers : GivenTo(c, v)}} \cup
                     {<<"served", w>> : w \in {v \in Workers : ServedBy(c, v)}} \cup
                     (IF Waits(c) THEN Promise!Waiting ELSE {}) \cup
                     (IF Gone(c) THEN Promise!Closed ELSE {})
  <1>1. {<<"given", w>> : w \in {v \in Workers : c \in Members(queue[v])}}
          = {<<"given", w>> : w \in {v \in Workers : GivenTo(c, v)}}
    BY DEF GivenTo
  <1>2. {<<"served", w>> : w \in {v \in Workers : c \in served[v]}}
          = {<<"served", w>> : w \in {v \in Workers : ServedBy(c, v)}}
    BY DEF ServedBy
  <1>3. {<<"waiting", NoOne>> : x \in {c} \cap (Members(backlog) \cup InHand({"try", "block"}))}
          = IF Waits(c) THEN Promise!Waiting ELSE {}
    BY DEF Waits, InHand, InHands, Promise!Waiting, Promise!At
  <1>4. {<<"closed", NoOne>> : x \in {c} \cap (lost \cup {y \in InHand({"close"}) : ~ Held(y)})}
          = IF Gone(c) THEN Promise!Closed ELSE {}
    BY DEF Gone, InHand, InHands, Promise!Closed, Promise!At
  <1> QED
    BY <1>1, <1>2, <1>3, <1>4 DEF Places

(* A connection of which none of it changes. *)
LEMMA PlaceKept ==
  ASSUME NEW c,
         \A w \in Workers : (GivenTo(c, w)' <=> GivenTo(c, w)) /\ (ServedBy(c, w)' <=> ServedBy(c, w)),
         Waits(c)' <=> Waits(c), Gone(c)' <=> Gone(c)
  PROVE  Places(c)' = Places(c)
  <1>1. {v \in Workers : c \in Members(queue[v])}' = {v \in Workers : c \in Members(queue[v])}
    BY DEF GivenTo
  <1>2. {v \in Workers : c \in served[v]}' = {v \in Workers : c \in served[v]}
    BY DEF ServedBy
  <1>3. ({c} \cap (Members(backlog) \cup InHand({"try", "block"})))'
          = {c} \cap (Members(backlog) \cup InHand({"try", "block"}))
    BY DEF Waits, InHand, InHands
  <1>4. ({c} \cap (lost \cup {y \in InHand({"close"}) : ~ Held(y)}))'
          = {c} \cap (lost \cup {y \in InHand({"close"}) : ~ Held(y)})
    BY DEF Gone, InHand, InHands
  <1> QED
    BY <1>1, <1>2, <1>3, <1>4 DEF Places

(* The place of a connection that is in one place. *)
PlaceFacts == \A c \in Clients :
  /\ \A w \in Workers : GivenTo(c, w) => Places(c) = Promise!At("given", w)
  /\ \A w \in Workers : ServedBy(c, w) => Places(c) = Promise!At("served", w)
  /\ Waits(c) => Places(c) = Promise!Waiting
  /\ Gone(c) => Places(c) = Promise!Closed

LEMMA PlaceOf == OnePlace => PlaceFacts
  <1> SUFFICES ASSUME OnePlace, NEW c \in Clients
               PROVE  /\ \A w \in Workers : GivenTo(c, w) => Places(c) = Promise!At("given", w)
                      /\ \A w \in Workers : ServedBy(c, w) => Places(c) = Promise!At("served", w)
                      /\ Waits(c) => Places(c) = Promise!Waiting
                      /\ Gone(c) => Places(c) = Promise!Closed
    BY DEF PlaceFacts
  <1> USE PlacesAre DEF OnePlace, HasIt
  <1>1. ASSUME NEW w \in Workers, GivenTo(c, w) PROVE Places(c) = Promise!At("given", w)
    <2>1. {v \in Workers : GivenTo(c, v)} = {w} /\ {v \in Workers : ServedBy(c, v)} = {}
          /\ ~ Waits(c) /\ ~ Gone(c)
      BY <1>1
    <2> QED
      BY <2>1 DEF Promise!At
  <1>2. ASSUME NEW w \in Workers, ServedBy(c, w) PROVE Places(c) = Promise!At("served", w)
    <2>1. {v \in Workers : ServedBy(c, v)} = {w} /\ {v \in Workers : GivenTo(c, v)} = {}
          /\ ~ Waits(c) /\ ~ Gone(c)
      BY <1>2
    <2> QED
      BY <2>1 DEF Promise!At
  <1>3. ASSUME Waits(c) \/ Gone(c)
        PROVE  Places(c) = IF Waits(c) THEN Promise!Waiting ELSE Promise!Closed
    <2>1. {v \in Workers : GivenTo(c, v)} = {} /\ {v \in Workers : ServedBy(c, v)} = {}
          /\ ~ (Waits(c) /\ Gone(c))
      BY <1>3
    <2> QED
      BY <1>3, <2>1
  <1> QED
    BY <1>1, <1>2, <1>3


LEMMA MembersOfTail ==
  ASSUME NEW q \in Seq(Clients), q # <<>>, Once(q)
  PROVE  /\ Members(Tail(q)) = Members(q) \ {Head(q)} /\ Once(Tail(q))
         /\ Head(q) \in Members(q) /\ Head(q) \in Clients
  <1> DEFINE r == Tail(q)
             h == Head(q)
  <1>1. /\ h = q[1] /\ h \in Clients /\ Len(q) \in Nat /\ Len(q) >= 1
        /\ Len(r) = Len(q) - 1 /\ \A n \in 1..Len(r) : r[n] = q[n + 1]
    BY TailOfQueue
  <1>2. \A m, n \in 1..Len(q) : q[m] = q[n] => m = n
    BY DEF Once
  <1> HIDE DEF r, h
  <1>3. \A n \in 1..Len(r) : n + 1 \in 1..Len(q)
    BY <1>1
  <1>4. \A n \in 1..Len(q) : n # 1 => n - 1 \in 1..Len(r) /\ q[n] = r[n - 1]
    <2> TAKE n \in 1..Len(q)
    <2> HAVE n # 1
    <2>1. n - 1 \in 1..Len(r) /\ (n - 1) + 1 = n
      BY <1>1
    <2> QED
      BY <1>1, <2>1
  <1>5. Once(r)
    BY <1>1, <1>2, <1>3 DEF Once
  <1>6. 1 \in 1..Len(q)
    BY <1>1
  <1>7. h \in Members(q)
    BY <1>1, <1>6 DEF Members
  <1>8. \A n \in 1..Len(r) : r[n] \in Members(q) \ {h}
    BY <1>1, <1>2, <1>3, <1>6 DEF Members
  <1>9. \A n \in 1..Len(q) : q[n] # h => q[n] \in Members(r)
    BY <1>1, <1>4 DEF Members
  <1>10. Members(r) = Members(q) \ {h}
    BY <1>8, <1>9 DEF Members
  <1> QED
    BY <1>1, <1>5, <1>7, <1>10 DEF r, h

LEMMA MembersOfAppend ==
  ASSUME NEW q \in Seq(Clients), NEW c \in Clients
  PROVE  /\ Members(Append(q, c)) = Members(q) \cup {c}
         /\ Once(q) /\ c \notin Members(q) => Once(Append(q, c))
  <1> DEFINE r == Append(q, c)
  <1>1. /\ Len(q) \in Nat /\ Len(r) = Len(q) + 1 /\ r[Len(q) + 1] = c
        /\ \A n \in 1..Len(q) : r[n] = q[n]
    BY AppendProperties, LenProperties
  <1> HIDE DEF r
  <1>2. \A n \in 1..Len(r) : n \in 1..Len(q) \/ n = Len(q) + 1
    BY <1>1
  <1>3. Len(q) + 1 \in 1..Len(r) /\ \A n \in 1..Len(q) : n \in 1..Len(r)
    BY <1>1
  <1>4. Members(r) = Members(q) \cup {c}
    BY <1>1, <1>2, <1>3 DEF Members
  <1>5. ASSUME Once(q), c \notin Members(q) PROVE Once(r)
    BY <1>1, <1>2, <1>5 DEF Once, Members
  <1> QED
    BY <1>4, <1>5 DEF r

(* A connection moves, the others stay. *)
LEMMA MovesOne ==
  ASSUME NEW c \in Clients, NEW from, NEW to, Places(c) = from, Places(c)' = to,
         \A d \in Clients : d # c => Places(d)' = Places(d)
  PROVE  Promise!Move(c, from, to)
  BY DEF Promise!Move

(* A step that moves none. *)
LEMMA PlacesKept ==
  ASSUME OnePlace,
         \A c \in Clients :
           /\ \A w \in Workers : /\ GivenTo(c, w)' <=> GivenTo(c, w)
                                 /\ ServedBy(c, w)' <=> ServedBy(c, w)
           /\ Waits(c)' <=> Waits(c)
           /\ Gone(c)' <=> Gone(c)
           /\ c \in Members(backlog') => c \notin open'
  PROVE  OnePlace' /\ \A c \in Clients : Places(c)' = Places(c)
  <1>1. \A c \in Clients : Places(c)' = Places(c)
    BY PlaceKept
  <1>2. OnePlace'
    BY DEF OnePlace, HasIt
  <1> QED
    BY <1>1, <1>2

LEMMA QuietPlaces ==
  ASSUME HInv, UNCHANGED <<queue, served, backlog, lost, open, cfd>>,
         pc' \in {"try", "block"} <=> pc \in {"try", "block"},
         pc' = "close" <=> pc = "close"
  PROVE  OnePlace' /\ Queues' /\ \A c \in Clients : Places(c)' = Places(c)
  <1>1. \A c : /\ \A w : /\ GivenTo(c, w)' <=> GivenTo(c, w)
                         /\ ServedBy(c, w)' <=> ServedBy(c, w)
               /\ Waits(c)' <=> Waits(c)
               /\ Gone(c)' <=> Gone(c)
    BY DEF GivenTo, ServedBy, Waits, Gone, InHands, Held
  <1>2. Queues'
    BY DEF HInv, Queues
  <1> QED
    BY <1>1, <1>2, PlacesKept DEF HInv, OnePlace


(* accept4 and close keep every connection where it is: the load balancer's
   descriptor counts as waiting, and what is closed with it was gone before. *)
LEMMA AcceptPlaces ==
  ASSUME HInv, Accept
  PROVE  OnePlace' /\ Queues' /\ \A c \in Clients : Places(c)' = Places(c)
  <1> DEFINE c == Head(backlog)
  <1>1. /\ backlog \in Seq(Clients) /\ backlog # <<>> /\ Once(backlog)
        /\ backlog' = Tail(backlog) /\ cfd' = c /\ open' = open \cup {c}
        /\ pc = "accept" /\ pc' = "try" /\ open = {}
        /\ UNCHANGED <<queue, served, lost>>
    BY DEF Accept, HInv, IInv, TypeOK, HandOK, InTheMiddle, Queues, workerVars
  <1>2. /\ Members(backlog') = Members(backlog) \ {c} /\ Once(backlog') /\ c \in Members(backlog)
    BY <1>1, MembersOfTail
  <1>3. Queues'
    BY <1>1, <1>2 DEF HInv, Queues
  <1> HIDE DEF c
  <1>4. \A d : /\ \A w : /\ GivenTo(d, w)' <=> GivenTo(d, w)
                         /\ ServedBy(d, w)' <=> ServedBy(d, w)
               /\ Waits(d)' <=> Waits(d)
               /\ Gone(d)' <=> Gone(d)
               /\ d \in Members(backlog') => d \notin open'
    BY <1>1, <1>2 DEF GivenTo, ServedBy, Waits, Gone, InHands
  <1> QED
    BY <1>3, <1>4, PlacesKept DEF HInv

LEMMA ClosePlaces ==
  ASSUME HInv, Close
  PROVE  OnePlace' /\ Queues' /\ \A c \in Clients : Places(c)' = Places(c)
  <1>1. /\ pc = "close" /\ pc' = "accept" /\ open = {cfd} /\ open' = {}
        /\ lost' = IF Held(cfd) THEN lost ELSE lost \cup {cfd}
        /\ UNCHANGED <<queue, served, backlog>>
    BY DEF Close, ClosedCfd, HInv, IInv, HandOK, InTheMiddle, workerVars
  <1>2. Queues'
    BY <1>1 DEF HInv, Queues
  <1>3. \A d : /\ \A w : /\ GivenTo(d, w)' <=> GivenTo(d, w)
                         /\ ServedBy(d, w)' <=> ServedBy(d, w)
               /\ Waits(d)' <=> Waits(d)
               /\ Gone(d)' <=> Gone(d)
               /\ d \notin open'
    BY <1>1 DEF GivenTo, ServedBy, Waits, Gone, InHands
  <1> QED
    BY <1>2, <1>3, PlacesKept DEF HInv

(* A connection arrives: it was nowhere. *)
LEMMA ArrivePlaces ==
  ASSUME HInv, NEW c \in Clients, Arrive(c)
  PROVE  OnePlace' /\ Queues' /\ Promise!Connect(c)
  <1>1. /\ backlog \in Seq(Clients) /\ Once(backlog) /\ backlog' = Append(backlog, c)
        /\ c \notin Members(backlog) /\ c \notin lost /\ c \notin open
        /\ \A w \in Workers : c \notin served[w] /\ c \notin Members(queue[w])
        /\ UNCHANGED <<queue, served, lost, open, cfd, pc>>
    BY DEF Arrive, HInv, IInv, TypeOK, Queues, workerVars, sendVars
  <1>2. Members(backlog') = Members(backlog) \cup {c} /\ Once(backlog')
    BY <1>1, MembersOfAppend
  <1>3. Queues'
    BY <1>1, <1>2 DEF HInv, Queues
  <1>4. \A d : /\ \A w : /\ GivenTo(d, w)' <=> GivenTo(d, w)
                         /\ ServedBy(d, w)' <=> ServedBy(d, w)
               /\ Waits(d)' <=> Waits(d) \/ d = c
               /\ Gone(d)' <=> Gone(d)
    BY <1>1, <1>2 DEF GivenTo, ServedBy, Waits, Gone, InHands, Held
  <1>5. /\ \A w \in Workers : ~ GivenTo(c, w) /\ ~ ServedBy(c, w)
        /\ ~ Waits(c) /\ ~ Gone(c)
    BY <1>1 DEF GivenTo, ServedBy, Waits, Gone, InHands
  <1>6. OnePlace'
    BY <1>1, <1>2, <1>4, <1>5 DEF HInv, OnePlace, HasIt
  <1>7. Places(c) = {}
    BY <1>5, PlacesAre
  <1>8. Places(c)' = Promise!Waiting
    <2>1. PlaceFacts'
      BY <1>6, PlaceOf, PTL
    <2> QED
      BY <1>4, <2>1 DEF PlaceFacts
  <1>9. \A d \in Clients : d # c => Places(d)' = Places(d)
    BY <1>4, PlaceKept
  <1> QED
    BY <1>3, <1>6, <1>7, <1>8, <1>9, MovesOne DEF Promise!Connect

(* sendmsg gives the connection in hand to a worker. *)
LEMMA SendPlaces ==
  ASSUME HInv, pc \in {"try", "block"}, pc' = "close", NEW w \in Workers, Send(w),
         UNCHANGED <<served, backlog, lost, open, cfd>>
  PROVE  OnePlace' /\ Queues' /\ Promise!Give(cfd, w)
  <1>1. /\ cfd \in Clients /\ open = {cfd} /\ queue \in [Workers -> Seq(Clients)]
        /\ queue' = [queue EXCEPT ![w] = Append(queue[w], cfd)]
    BY DEF Send, HInv, IInv, TypeOK, HandOK, InTheMiddle
  <1>2. Waits(cfd) /\ ~ Gone(cfd) /\ \A v \in Workers : ~ GivenTo(cfd, v) /\ ~ ServedBy(cfd, v)
    BY <1>1 DEF Waits, InHands, HInv, OnePlace, HasIt
  <1>3. Once(queue[w]) /\ cfd \notin Members(queue[w])
    BY <1>2 DEF HInv, Queues, GivenTo
  <1>4. /\ Members(queue'[w]) = Members(queue[w]) \cup {cfd} /\ Once(queue'[w])
        /\ \A v \in Workers : v # w => queue'[v] = queue[v]
    BY <1>1, <1>3, MembersOfAppend
  <1>5. Queues'
    BY <1>4 DEF HInv, Queues
  <1>6. \A d : \A v \in Workers : /\ GivenTo(d, v)' <=> GivenTo(d, v) \/ (d = cfd /\ v = w)
                                  /\ ServedBy(d, v)' <=> ServedBy(d, v)
    BY <1>4 DEF GivenTo, ServedBy
  <1>7. cfd \notin Members(backlog)
    BY <1>1 DEF HInv, OnePlace
  <1>8. \A d : /\ Waits(d)' <=> Waits(d) /\ d # cfd
               /\ Gone(d)' <=> Gone(d)
    <2>1. Held(cfd)'
      BY <1>4 DEF Held
    <2> QED
      BY <1>7, <2>1 DEF Waits, Gone, InHands
  <1>9. OnePlace'
    BY <1>1, <1>2, <1>6, <1>7, <1>8 DEF HInv, OnePlace, HasIt
  <1>10. Places(cfd) = Promise!Waiting
    BY <1>1, <1>2, PlaceOf DEF PlaceFacts, HInv
  <1>11. Places(cfd)' = Promise!At("given", w)
    <2>1. PlaceFacts'
      BY <1>9, PlaceOf, PTL
    <2> QED
      BY <1>1, <1>6, <2>1 DEF PlaceFacts
  <1>12. \A d \in Clients : d # cfd => Places(d)' = Places(d)
    BY <1>6, <1>8, PlaceKept
  <1>13. \A c \in Clients : Places(c)' = Places(c) \/ c = cfd
    BY <1>12
  <1> QED
    BY <1>1, <1>5, <1>9, <1>10, <1>11, <1>12, MovesOne DEF Promise!Give

(* A send that fails for good closes it. *)
LEMMA RefusePlaces ==
  ASSUME HInv, BlockingSendFails
  PROVE  OnePlace' /\ Queues' /\ cfd \in Clients /\ Promise!Refuse(cfd)
  <1>1. /\ cfd \in Clients /\ open = {cfd} /\ pc = "block" /\ pc' = "close"
        /\ UNCHANGED <<queue, served, backlog, lost, open, cfd>>
    BY DEF BlockingSendFails, HInv, IInv, HandOK, InTheMiddle, workerVars, sendVars
  <1>2. Waits(cfd) /\ ~ Gone(cfd) /\ \A v \in Workers : ~ GivenTo(cfd, v) /\ ~ ServedBy(cfd, v)
    BY <1>1 DEF Waits, InHands, HInv, OnePlace, HasIt
  <1>3. Queues' /\ cfd \notin Members(backlog)
    BY <1>1 DEF HInv, Queues, OnePlace
  <1>4. \A d : \A v \in Workers : /\ GivenTo(d, v)' <=> GivenTo(d, v)
                                  /\ ServedBy(d, v)' <=> ServedBy(d, v)
    BY <1>1 DEF GivenTo, ServedBy
  <1>5. \A d : /\ Waits(d)' <=> Waits(d) /\ d # cfd
               /\ Gone(d)' <=> Gone(d) \/ d = cfd
    <2>1. ~ Held(cfd)'
      BY <1>1, <1>2 DEF Held, GivenTo, ServedBy
    <2> QED
      BY <1>1, <1>3, <2>1 DEF Waits, Gone, InHands
  <1>6. OnePlace'
    BY <1>1, <1>2, <1>3, <1>4, <1>5 DEF HInv, OnePlace, HasIt
  <1>7. Places(cfd) = Promise!Waiting
    BY <1>1, <1>2, PlaceOf DEF PlaceFacts, HInv
  <1>8. Places(cfd)' = Promise!Closed
    <2>1. PlaceFacts'
      BY <1>6, PlaceOf, PTL
    <2> QED
      BY <1>1, <1>5, <2>1 DEF PlaceFacts
  <1>9. \A d \in Clients : d # cfd => Places(d)' = Places(d)
    BY <1>4, <1>5, PlaceKept
  <1> QED
    BY <1>1, <1>3, <1>6, <1>7, <1>8, <1>9, MovesOne DEF Promise!Refuse

(* recvmsg moves the oldest connection of the worker's queue to it. *)
LEMMA ReceivePlaces ==
  ASSUME HInv, NEW w \in Workers, ReceiveFd(w)
  PROVE  OnePlace' /\ Queues' /\ \E c \in Clients : Promise!Serve(c, w)
  <1>0. PICK c : c = Head(queue[w])
    OBVIOUS
  <1>1. /\ queue \in [Workers -> Seq(Clients)] /\ queue[w] # <<>> /\ Once(queue[w])
        /\ queue' = [queue EXCEPT ![w] = Tail(queue[w])]
        /\ served' = [served EXCEPT ![w] = served[w] \cup {c}]
        /\ served \in [Workers -> SUBSET Clients]
        /\ UNCHANGED <<backlog, lost, open, cfd, pc>>
    BY <1>0 DEF ReceiveFd, HInv, IInv, TypeOK, Queues, sendVars
  <1>2. /\ Members(queue'[w]) = Members(queue[w]) \ {c} /\ Once(queue'[w])
        /\ c \in Members(queue[w]) /\ c \in Clients
        /\ \A v \in Workers : v # w => queue'[v] = queue[v]
    BY <1>0, <1>1, MembersOfTail
  <1>3. Queues'
    BY <1>1, <1>2 DEF HInv, Queues
  <1>4. \A d : \A v \in Workers : /\ GivenTo(d, v)' <=> GivenTo(d, v) /\ ~ (d = c /\ v = w)
                                  /\ ServedBy(d, v)' <=> ServedBy(d, v) \/ (d = c /\ v = w)
    BY <1>1, <1>2 DEF GivenTo, ServedBy
  <1>5. GivenTo(c, w)
    BY <1>2 DEF GivenTo
  <1>6. \A d : Held(d)' <=> Held(d)
    BY <1>4, <1>5 DEF Held, GivenTo, ServedBy
  <1>7. \A d : (Waits(d)' <=> Waits(d)) /\ (Gone(d)' <=> Gone(d))
    BY <1>1, <1>6 DEF Waits, Gone, InHands
  <1>8. OnePlace'
    BY <1>1, <1>4, <1>5, <1>7 DEF HInv, OnePlace, HasIt
  <1>9. Places(c) = Promise!At("given", w)
    BY <1>2, <1>5, PlaceOf DEF PlaceFacts, HInv
  <1>10. Places(c)' = Promise!At("served", w)
    <2>1. PlaceFacts'
      BY <1>8, PlaceOf, PTL
    <2> QED
      BY <1>2, <1>4, <2>1 DEF PlaceFacts
  <1>11. \A d \in Clients : d # c => Places(d)' = Places(d)
    BY <1>4, <1>7, PlaceKept
  <1>12. Promise!Serve(c, w)
    BY <1>2, <1>9, <1>10, <1>11, MovesOne DEF Promise!Serve
  <1> QED
    BY <1>2, <1>3, <1>8, <1>12


(* Only a worker's own connections are in its places. *)
LEMMA PlacesOfWorker ==
  ASSUME OnePlace, NEW c \in Clients, NEW w \in Workers
  PROVE  Places(c) \in Promise!Of(w) <=> HasIt(c, w)
  <1>1. ASSUME Places(c) \in Promise!Of(w) PROVE HasIt(c, w)
    <2>1. <<"given", w>> \in Places(c) \/ <<"served", w>> \in Places(c)
      BY <1>1 DEF Promise!Of, Promise!At
    <2>2. <<"given", w>> \in Places(c) => GivenTo(c, w)
      BY PlacesAre DEF Promise!At, Promise!Waiting, Promise!Closed
    <2>3. <<"served", w>> \in Places(c) => ServedBy(c, w)
      BY PlacesAre DEF Promise!At, Promise!Waiting, Promise!Closed
    <2> QED
      BY <2>1, <2>2, <2>3 DEF HasIt
  <1>2. ASSUME HasIt(c, w) PROVE Places(c) \in Promise!Of(w)
    BY <1>2, PlaceOf DEF PlaceFacts, HasIt, Promise!Of
  <1> QED
    BY <1>1, <1>2

(* A worker that dies takes with it what it has, and nothing else. *)
LEMMA DiePlaces ==
  ASSUME HInv, NEW w \in Workers, Die(w)
  PROVE  OnePlace' /\ Queues' /\ Promise!Die(w)
  <1>1. /\ lost' = lost \cup ((served[w] \cup Members(queue[w])) \ open)
        /\ queue' = [queue EXCEPT ![w] = <<>>] /\ served' = [served EXCEPT ![w] = {}]
        /\ queue \in [Workers -> Seq(Clients)] /\ served \in [Workers -> SUBSET Clients]
        /\ UNCHANGED <<backlog, open, cfd, pc>>
    BY DEF Die, HInv, IInv, TypeOK, sendVars
  <1>2. /\ queue'[w] = <<>> /\ Members(queue'[w]) = {} /\ Once(queue'[w])
        /\ served'[w] = {}
        /\ \A v \in Workers : v # w => queue'[v] = queue[v] /\ served'[v] = served[v]
    BY <1>1 DEF Members, Once
  <1>3. Queues'
    BY <1>1, <1>2 DEF HInv, Queues
  <1>4. \A d : \A v \in Workers : /\ GivenTo(d, v)' <=> GivenTo(d, v) /\ v # w
                                  /\ ServedBy(d, v)' <=> ServedBy(d, v) /\ v # w
    BY <1>2 DEF GivenTo, ServedBy
  <1>5. \A d : Waits(d)' <=> Waits(d)
    BY <1>1 DEF Waits, InHands
  <1>6. ASSUME NEW d \in Clients PROVE Gone(d)' <=> Gone(d) \/ HasIt(d, w)
    <2>1. d \in lost' <=> d \in lost \/ (HasIt(d, w) /\ d \notin open)
      BY <1>1 DEF HasIt, GivenTo, ServedBy
    <2>2. Held(d)' <=> \E v \in Workers : HasIt(d, v) /\ v # w
      BY <1>4 DEF Held, HasIt, GivenTo, ServedBy
    <2>3. Held(d) <=> \E v \in Workers : HasIt(d, v)
      BY HeldByWorkers
    <2>4. /\ \A v \in Workers : HasIt(d, v) /\ HasIt(d, w) => v = w
          /\ HasIt(d, w) => ~ Waits(d)
      BY DEF HInv, OnePlace
    <2>5. d \in open => d = cfd /\ pc \in {"try", "block", "close"}
      BY DEF HInv, IInv, HandOK, InTheMiddle
    <2>6. InHands(d)' <=> InHands(d)
      BY <1>1 DEF InHands
    <2>7. CASE HasIt(d, w)
      BY <1>1, <2>1, <2>2, <2>4, <2>5, <2>6, <2>7 DEF Gone, Waits, InHands
    <2>8. CASE ~ HasIt(d, w)
      <3>1. Held(d)' <=> Held(d)
        BY <2>2, <2>3, <2>8
      <3> QED
        BY <1>1, <2>1, <2>6, <2>8, <3>1 DEF Gone
    <2> QED
      BY <2>7, <2>8
  <1>7. OnePlace'
    BY <1>1, <1>4, <1>5, <1>6 DEF HInv, OnePlace, HasIt
  <1>8. ASSUME NEW c \in Clients
        PROVE  Places(c)' = IF Places(c) \in Promise!Of(w) THEN Promise!Closed ELSE Places(c)
    <2>1. CASE HasIt(c, w)
      <3>1. PlaceFacts'
        BY <1>7, PlaceOf, PTL
      <3>2. Gone(c)'
        BY <1>6, <2>1
      <3>3. Places(c)' = Promise!Closed
        BY <3>1, <3>2 DEF PlaceFacts
      <3> QED
        BY <2>1, <3>3, PlacesOfWorker DEF HInv
    <2>2. CASE ~ HasIt(c, w)
      <3>1. Places(c)' = Places(c)
        BY <1>4, <1>5, <1>6, <2>2, PlaceKept DEF HasIt
      <3> QED
        BY <2>2, <3>1, PlacesOfWorker DEF HInv
    <2> QED
      BY <2>1, <2>2
  <1>9. Promise!Die(w)
    BY <1>8 DEF Promise!Die
  <1> QED
    BY <1>3, <1>7, <1>9

LEMMA HandoffStep ==
  ASSUME HInv, [Next]_vars
  PROVE  /\ OnePlace' /\ Queues'
         /\ Promise!Next \/ \A c \in Clients : Places(c)' = Places(c)
  <1> USE DEF workerVars, startVars, sendVars, history
  <1>1. CASE Accept \/ Close
    BY <1>1, AcceptPlaces, ClosePlaces
  <1>2. CASE TrySend
    <2>1. /\ pc = "try" /\ pc' = "close" /\ target \in Workers /\ Send(target)
          /\ UNCHANGED <<served, backlog, lost, open, cfd>> /\ cfd \in Clients
      BY <1>2, TargetIsWorker DEF TrySend, SendsToOne, HInv, IInv, HandOK, InTheMiddle
    <2>2. OnePlace' /\ Queues' /\ Promise!Give(cfd, target)
      BY <2>1, SendPlaces
    <2> QED
      BY <2>1, <2>2 DEF Promise!Next
  <1>3. CASE BlockingSend
    <2>1. /\ pc = "block" /\ pc' = "close" /\ first \in Workers /\ Send(first)
          /\ UNCHANGED <<served, backlog, lost, open, cfd>> /\ cfd \in Clients
      BY <1>3 DEF BlockingSend, HInv, IInv, TypeOK, HandOK, InTheMiddle
    <2>2. OnePlace' /\ Queues' /\ Promise!Give(cfd, first)
      BY <2>1, SendPlaces
    <2> QED
      BY <2>1, <2>2 DEF Promise!Next
  <1>4. CASE BlockingSendFails
    BY <1>4, RefusePlaces DEF Promise!Next
  <1>5. CASE TryFails \/ StatWaits \/ StatDone \/ Connected \/ Refused \/ GivesUp \/ Listen
             \/ BatchEnds \/ Poll
    BY <1>5, QuietPlaces DEF TryFails, StatWaits, StatDone, Connected, Refused, GivesUp,
                             Listen, BatchEnds, Poll, NextWorker
  <1>6. ASSUME NEW w \in Workers, Worker(w) \/ Die(w)
        PROVE  /\ OnePlace' /\ Queues'
               /\ Promise!Next \/ \A c \in Clients : Places(c)' = Places(c)
    <2>1. CASE Remove(w) \/ Bind(w) \/ ListenControl(w) \/ AcceptControl(w)
      BY <2>1, QuietPlaces DEF Remove, Bind, ListenControl, AcceptControl
    <2>2. CASE ReceiveFd(w)
      BY <2>2, ReceivePlaces DEF Promise!Next
    <2>3. CASE Die(w)
      BY <2>3, DiePlaces DEF Promise!Next
    <2> QED
      BY <1>6, <2>1, <2>2, <2>3 DEF Worker
  <1>7. ASSUME NEW c \in Clients, Arrive(c)
        PROVE  OnePlace' /\ Queues' /\ Promise!Next
    BY <1>7, ArrivePlaces DEF Promise!Next
  <1>8. CASE UNCHANGED vars
    BY <1>8, QuietPlaces DEF vars
  <1> QED
    BY <1>1, <1>2, <1>3, <1>4, <1>5, <1>6, <1>7, <1>8 DEF Next, Balancer

(* The load balancer and the workers keep the promise of module Handoff, step by
   step: a connection is given to one worker, once, and served by that one, or
   it is closed, and a closed one was refused or its worker has died. *)
THEOREM KeepsThePromise == Spec => Promise!Safety
  <1> DEFINE place == [c \in Clients |-> Places(c)]
  <1>1. Init => OnePlace /\ Queues /\ Promise!Init
    <2> SUFFICES ASSUME Init PROVE OnePlace /\ Queues /\ Promise!Init
      OBVIOUS
    <2>1. \A c : /\ \A w \in Workers : ~ GivenTo(c, w) /\ ~ ServedBy(c, w)
                 /\ ~ Waits(c) /\ ~ Gone(c) /\ c \notin Members(backlog)
      BY DEF Init, GivenTo, ServedBy, Waits, Gone, InHands, Members
    <2>2. OnePlace /\ Queues
      <3>1. OnePlace
        BY <2>1 DEF OnePlace, HasIt
      <3>2. Once(<<>>)
        BY DEF Once
      <3> QED
        BY <3>1, <3>2 DEF Init, Queues
    <2>3. \A c : Places(c) = {}
      BY <2>1, PlacesAre
    <2> QED
      BY <2>2, <2>3 DEF Promise!Init
  <1>2. Init => HInv
    BY <1>1, InitIInv DEF HInv
  <1>3. HInv /\ [Next]_vars => HInv'
    BY HandoffStep, StepIInv DEF HInv
  <1>4. HInv /\ [Next]_vars => [Promise!Next]_place
    <2> SUFFICES ASSUME HInv, [Next]_vars, ~ Promise!Next PROVE place' = place
      OBVIOUS
    <2>1. \A c \in Clients : Places(c)' = Places(c)
      BY HandoffStep
    <2> QED
      BY <2>1
  <1> QED
    BY <1>1, <1>2, <1>3, <1>4, PTL DEF Spec, Promise!Safety
=============================================================================
