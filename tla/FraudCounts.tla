---------------------------- MODULE FraudCounts ----------------------------
(***************************************************************************)
(* Refs.FraudCounts of internal/index/brute.go, the oracle of the          *)
(* validation commands: the queries are cut into chunks, and a goroutine   *)
(* per chunk writes its part of one slice. A WaitGroup joins them.         *)
(***************************************************************************)
EXTENDS Naturals

CONSTANTS
  MaxQueries,   \* most queries of a call
  MaxCPU        \* most processors runtime.NumCPU reports

ASSUME BoundsAssumption == MaxQueries \in Nat /\ MaxCPU \in Nat \ {0}

VARIABLES
  n,         (* len(queries)                                                *)
  workers,   (* runtime.NumCPU()                                            *)
  w,         (* the loop variable                                           *)
  caller,    (* "spawn", "wait" or "returned"                               *)
  wg,        (* the counter of the WaitGroup                                *)
  span,      (* i and hi of the goroutine of each w; hi = 0 if it has none  *)
  written    (* how often each element of out has been written              *)

chunkVars == <<n, workers, w, caller, wg, span, written>>

NoSpan == [i |-> 0, hi |-> 0]

ChunkFloor == n \div workers                          \* bug: rounds down
Chunk      == (n + workers - 1) \div workers

HiUnclamped(lo) == lo + Chunk                         \* bug: not clamped
Hi(lo)          == IF lo + Chunk > n THEN n ELSE lo + Chunk

ChunksInit ==
  /\ n \in 0 .. MaxQueries
  /\ workers \in 1 .. MaxCPU
  /\ w = 0
  /\ caller = "spawn"
  /\ wg = 0
  /\ span = [g \in 0 .. MaxCPU - 1 |-> NoSpan]
  /\ written = [q \in 0 .. MaxQueries - 1 |-> 0]

(* The body of the loop for a chunk that is not empty. *)
Spawn ==
  /\ caller = "spawn" /\ w < workers
  /\ LET lo == w * Chunk
     IN  /\ lo < Hi(lo)
         /\ span' = [span EXCEPT ![w] = [i |-> lo, hi |-> Hi(lo)]]
  /\ wg' = wg + 1
  /\ w' = w + 1
  /\ UNCHANGED <<n, workers, caller, written>>

LeavesLoop == w = workers \/ w * Chunk >= Hi(w * Chunk)

SpawnedCounted == /\ caller = "spawn" /\ LeavesLoop   \* bug: wg.Add before the break
                  /\ caller' = "wait"
                  /\ wg' = IF w = workers THEN wg ELSE wg + 1
                  /\ UNCHANGED <<n, workers, w, span, written>>

(* The break, or the end of the loop. *)
Spawned ==
  /\ caller = "spawn" /\ LeavesLoop
  /\ caller' = "wait"
  /\ UNCHANGED <<n, workers, w, wg, span, written>>

Compute(g) ==
  /\ span[g].i < span[g].hi
  /\ written' = [written EXCEPT ![span[g].i] = @ + 1]
  /\ span' = [span EXCEPT ![g].i = @ + 1]
  /\ UNCHANGED <<n, workers, w, caller, wg>>

Done(g) ==
  /\ span[g].hi > 0 /\ span[g].i = span[g].hi
  /\ span' = [span EXCEPT ![g] = NoSpan]
  /\ wg' = wg - 1
  /\ UNCHANGED <<n, workers, w, caller, written>>

Return ==
  /\ caller = "wait" /\ wg = 0
  /\ caller' = "returned"
  /\ UNCHANGED <<n, workers, w, wg, span, written>>

Caller       == Spawn \/ Spawned \/ Return
Goroutine(g) == Compute(g) \/ Done(g)

ChunksNext == Caller \/ \E g \in DOMAIN span : Goroutine(g)
ChunksSpec == ChunksInit /\ [][ChunksNext]_chunkVars

(* The runtime runs every goroutine that can run. *)
FairSpec ==
  ChunksSpec /\ WF_chunkVars(Caller)
             /\ \A g \in 0 .. MaxCPU - 1 : WF_chunkVars(Goroutine(g))

-----------------------------------------------------------------------------
(* The goroutines need no lock: no element is written twice, none beyond the slice
   of the call, and when FraudCounts returns each one has been, by a goroutine that
   has ended, for every number of queries and processors. *)
WrittenOnce ==
  /\ \A q \in DOMAIN written : written[q] <= IF q < n THEN 1 ELSE 0
  /\ caller = "returned" => /\ \A q \in 0 .. n - 1 : written[q] = 1
                            /\ \A g \in DOMAIN span : span[g] = NoSpan

(* wg.Wait() is let go, also when there are fewer chunks than processors. *)
Returns == <>(caller = "returned")
=============================================================================
