----------------------------- MODULE IndexFile ------------------------------
(***************************************************************************)
(* The two files the references go through (internal/index/refs.go,        *)
(* mmap.go): the cache that Load reads or rebuilds, and the index that     *)
(* WriteKD writes and Open maps. preprocess loads, builds and writes the   *)
(* index; cmd/api opens it, or loads and builds itself when INDEX_BIN is   *)
(* not set. One program runs at a time and may be killed between any two   *)
(* writes, or end because a call fails; what it has written stays.         *)
(*                                                                         *)
(* The cache is a sequence of fields: the magic, n, a vector for every     *)
(* reference, a label for every reference. The index is a size and the     *)
(* slices copied to it, in order: where no slice is, there are zeros.      *)
(***************************************************************************)
EXTENDS KDIndex, Sequences, FiniteSetsExt

CONSTANTS
  Tables,      (* what references.json.gz may decode to: n, vec, fraud      *)
  BuiltKD(_),  (* the index of a table; RefsBuild makes it step by step     *)
  NoFile       (* a file that is not there                                  *)

ASSUME TablesAssumption == \A t \in Tables :
  /\ t = [n |-> t.n, vec |-> t.vec, fraud |-> t.fraud]
  /\ t.n \in Nat /\ t.vec = [g \in Ids(t) |-> t.vec[g]] /\ t.fraud \in [Ids(t) -> BOOLEAN]
ASSUME BuiltKDAssumption == \A t \in Tables :
  BuiltKD(t).n = t.n /\ BuiltKD(t).fraud = t.fraud /\ SlicesOK(BuiltKD(t))

VARIABLES
  gz,       (* the references that can be decoded now, or NoFile if none    *)
  bin, idx, (* the cache and the index                                      *)
  program,  (* "preprocess", "api" or, with INDEX_BIN set, "mmap"           *)
  pc,       (* where it is; "off" when none runs                            *)
  refs, kd, (* its table and its index                                      *)
  dir,      (* dir of WriteKD                                               *)
  todo,     (* the copies WriteKD has still to make, by their numbers       *)
  faults    (* (history) what has happened to the files, and whether a call
               of this start has failed                                     *)

vars == <<gz, bin, idx, program, pc, refs, kd, dir, todo, faults>>

-----------------------------------------------------------------------------
(* The cache. *)

binMagic == "RNHREF01"

Fields(t) == <<binMagic, t.n>>
             \o [i \in 1..t.n |-> t.vec[i - 1]]
             \o [i \in 1..t.n |-> IF t.fraud[i - 1] THEN 1 ELSE 0]

BadMagicIfLong(b) == b = NoFile \/ (Len(b) >= 2 /\ b[1] # binMagic)  \* bug: a short file passes
BadMagic(b)       == b = NoFile \/ Len(b) < 2 \/ b[1] # binMagic

(* A file that ends before its last label: an index out of range. *)
Panics(b) == Len(b) < 2 \/ Len(b) < 2 + 2 * b[2]

LoadBin(b) ==
  LET n == b[2]
  IN  [n |-> n, vec   |-> [i \in 0..(n - 1) |-> b[3 + i]],
                fraud |-> [i \in 0..(n - 1) |-> b[3 + n + i] = 1]]

-----------------------------------------------------------------------------
(* The layout of the index. *)

kdMagic == "RNHKD003"
Align4(n) == 4 * ((n + 3) \div 4)                    \* bug: aligned for an int32 only
align8(n) == 8 * ((n + 7) \div 8)
partDir == 48   \* unsafe.Sizeof: six int64
kdNode  == 12   \* an int16, a byte, a gap and two int32
kdBox   == 64   \* two vectors of int16

numBuckets == 16
dirSize    == partDir * numBuckets
labelsBase == align8(16 + dirSize)

(* The slices of a part, the size of an element, and the bytes copied. *)
Sections(p)   == <<p.nodes, p.boxes, p.vec, p.gidx>>
Element       == <<kdNode, kdBox, 2 * 16, 4>>
asBytes(p, s) == Element[s] * Cardinality(DOMAIN Sections(p)[s])

LayoutVecShort(p, off) ==                            \* bug: an int16 counted as a byte
  LET boxes == align8(off   + kdNode * Cardinality(Nodes(p)))
      vec   == align8(boxes + kdBox  * Cardinality(DOMAIN p.boxes))
      gidx  == align8(vec   + 16     * Cardinality(DOMAIN p.vec))
  IN  <<off, boxes, vec, gidx, align8(gidx + 4 * Cardinality(DOMAIN p.gidx))>>

(* The body of the loop over the parts: the offsets of the slices of p, which begins
   at off, and where the next part begins. *)
Layout(p, off) ==
  LET boxes == align8(off   + kdNode * Cardinality(Nodes(p)))
      vec   == align8(boxes + kdBox  * Cardinality(DOMAIN p.boxes))
      gidx  == align8(vec   + 2 * 16 * Cardinality(DOMAIN p.vec))
  IN  <<off, boxes, vec, gidx, align8(gidx + 4 * Cardinality(DOMAIN p.gidx))>>

(* Where the parts begin, in the order of their keys. *)
Offsets(x) ==
  LET off[j \in 0..(numBuckets - 1)] == IF j = 0 THEN align8(labelsBase + x.n)
                                  ELSE Layout(x.parts[Key(j - 1)], off[j - 1])[5]
  IN  off

Dir(x) ==
  LET off == Offsets(x) IN
  [j \in 0..(numBuckets - 1) |->
     [Count  |-> x.parts[Key(j)].count,
      NNodes |-> Cardinality(Nodes(x.parts[Key(j)])),
      Off    |-> Layout(x.parts[Key(j)], off[j])]]

Slice(at, len, data) == [at |-> at, len |-> len, data |-> data]

(* What WriteKD copies, in order. Of the labels only those of frauds, and of an empty
   slice nothing: those are copies of no bytes. *)
Copies(x, d) ==
  LET section(j, s) == LET p == x.parts[Key(j)]
                       IN  Slice(d[j].Off[s], asBytes(p, s), Sections(p)[s])
  IN  <<Slice(0, 8, kdMagic), Slice(8, 8, x.n), Slice(16, dirSize, d)>>
      \o [i \in 1..x.n |-> Slice(labelsBase + i - 1, IF x.fraud[i - 1] THEN 1 ELSE 0, 1)]
      \o [i \in 1..(4 * numBuckets) |-> section((i - 1) \div 4, 1 + ((i - 1) % 4))]

-----------------------------------------------------------------------------
(* Open. *)

Overlaps(a, b) == a.at < b.at + b.len /\ b.at < a.at + a.len

(* The bytes at..at+len-1: what was copied exactly there and not overwritten
   since, or else what zeros stand for. *)
ReadAt(f, at, len, zeros) ==
  LET over == {i \in DOMAIN f.slices : Overlaps(f.slices[i], Slice(at, len, 0))}
      last == f.slices[Max(over)]
  IN  IF over # {} /\ last.at = at /\ last.len = len /\ at + len <= f.size
      THEN last.data ELSE zeros

(* No file, one that cannot be mapped for it is empty, and one without magic. *)
Refused(f) == f = NoFile \/ f.size < 16 \/ ReadAt(f, 0, 8, "") # kdMagic

Open(f) ==
  LET n   == ReadAt(f, 8, 8, 0)
      ds  == ReadAt(f, 16, dirSize, [j \in 0..(numBuckets - 1) |-> [Count |-> 0, NNodes |-> 0]])
      section(d, s, m) ==
        IF m > 0 THEN ReadAt(f, d.Off[s], Element[s] * m, [r \in 0..(m - 1) |-> 0]) ELSE <<>>
      part(d) == [count |-> d.Count,
                  nodes |-> section(d, 1, d.NNodes), boxes |-> section(d, 2, d.NNodes),
                  vec   |-> section(d, 3, d.Count),  gidx  |-> section(d, 4, d.Count)]
  IN  [fraud |-> [i \in 0..(n - 1) |-> ReadAt(f, labelsBase + i, 1, 0) = 1],
       parts |-> [k \in Keys |-> part(ds[CHOOSE j \in 0..(numBuckets - 1) : Key(j) = k])]]

-----------------------------------------------------------------------------
(* The programs. *)

Start(name) ==
  /\ pc = "off"
  /\ program' = name
  /\ pc' = IF name = "mmap" THEN "open" ELSE "load"
  /\ faults' = faults \ {"failed call"}
  /\ UNCHANGED <<gz, bin, idx, refs, kd, dir, todo>>

(* What is left half written, after the header of the cache or within the index, by a
   program that stops here. *)
TornCache == IF pc = "write" /\ Len(bin) >= 2 /\ bin # Fields(refs) THEN {"torn cache"} ELSE {}
TornIndex == IF pc = "truncate" \/ (pc = "copy" /\ DOMAIN todo # {}) THEN {"torn index"} ELSE {}

(* A call fails, and with it the start. *)
Fail ==
  /\ pc' = "failed"
  /\ faults' = faults \cup {"failed call"} \cup TornCache \cup TornIndex
  /\ UNCHANGED <<gz, bin, program, refs, kd, dir, todo>>

Load ==
  /\ pc = "load"
  /\ IF BadMagic(bin) THEN pc' = "decode" /\ UNCHANGED refs
     ELSE IF Panics(bin) THEN pc' = "failed" /\ UNCHANGED refs
     ELSE pc' = "build" /\ refs' = LoadBin(bin)
  /\ UNCHANGED <<gz, bin, idx, program, kd, dir, todo, faults>>

(* A cache that cannot be read is rebuilt. *)
LoadFails ==
  /\ pc = "load" /\ bin # NoFile
  /\ pc' = "decode"
  /\ faults' = faults \cup {"failed call"}
  /\ UNCHANGED <<gz, bin, idx, program, refs, kd, dir, todo>>

(* Build up to the os.Create of writeBin. *)
Decode ==
  /\ pc = "decode" /\ gz # NoFile
  /\ refs' = gz
  /\ bin' = <<>>
  /\ pc' = "write"
  /\ faults' = faults \ {"torn cache", "old cache"}
  /\ UNCHANGED <<gz, idx, program, kd, dir, todo>>

(* The references are missing, or not what they should be. *)
NotDecoded ==
  /\ pc = "decode" /\ gz = NoFile
  /\ pc' = "failed"
  /\ UNCHANGED <<gz, bin, idx, program, refs, kd, dir, todo, faults>>

DecodeFails == pc = "decode" /\ gz # NoFile /\ Fail /\ UNCHANGED idx

Flush ==
  /\ pc = "write" /\ Len(bin) < Len(Fields(refs))
  /\ bin' = SubSeq(Fields(refs), 1, Len(bin) + 1)
  /\ UNCHANGED <<gz, idx, program, pc, refs, kd, dir, todo, faults>>

WriteFails == pc = "write" /\ bin # Fields(refs) /\ Fail /\ UNCHANGED idx

Written ==
  /\ pc = "write" /\ bin = Fields(refs)
  /\ pc' = "build"
  /\ UNCHANGED <<gz, bin, idx, program, refs, kd, dir, todo, faults>>

Build ==
  /\ pc = "build"
  /\ kd' = BuiltKD(refs)
  /\ pc' = IF program = "preprocess" THEN "create" ELSE "serve"
  /\ UNCHANGED <<gz, bin, idx, program, refs, dir, todo, faults>>

CreatedKeeping == IF idx = NoFile THEN [size |-> 0, slices |-> <<>>] ELSE idx   \* bug: not emptied
Created        == [size |-> 0, slices |-> <<>>]

(* WriteKD up to os.Create. *)
Create ==
  /\ pc = "create"
  /\ dir' = Dir(kd)
  /\ idx' = Created
  /\ pc' = "truncate"
  /\ UNCHANGED <<gz, bin, program, refs, kd, todo, faults>>

CreateFails == pc = "create" /\ Fail /\ UNCHANGED idx

Truncated == [idx EXCEPT !.size = dir[numBuckets - 1].Off[5]]
Truncate ==
  /\ pc = "truncate"
  /\ idx' = Truncated
  /\ LET all == Copies(kd, dir)
     IN  todo' = [c \in {i \in DOMAIN all : all[i].len > 0} |-> all[c]]
  /\ pc' = "copy"
  /\ faults' = faults \ {"torn index"}
  /\ UNCHANGED <<gz, bin, program, refs, kd, dir>>

(* f.Truncate, or unix.Mmap behind it. *)
TruncateFails == pc = "truncate" /\ Fail /\ idx' \in {idx, Truncated}

Copy ==
  /\ pc = "copy" /\ DOMAIN todo # {}
  /\ LET c == Min(DOMAIN todo)
     IN  /\ idx' = [idx EXCEPT !.slices = Append(@, todo[c])]
         /\ todo' = [i \in DOMAIN todo \ {c} |-> todo[i]]
  /\ UNCHANGED <<gz, bin, program, pc, refs, kd, dir, faults>>

Copied ==
  /\ pc = "copy" /\ DOMAIN todo = {}
  /\ pc' = "off"
  /\ refs' = NoFile /\ kd' = NoFile /\ dir' = NoFile
  /\ UNCHANGED <<gz, bin, idx, program, todo, faults>>

OpenIndex ==
  /\ pc = "open"
  /\ IF Refused(idx) THEN pc' = "failed" /\ UNCHANGED kd
     ELSE pc' = "serve" /\ kd' = Open(idx)
  /\ UNCHANGED <<gz, bin, idx, program, refs, dir, todo, faults>>

OpenFails == pc = "open" /\ Fail /\ UNCHANGED idx

(* A program is killed, or ends; copies it has not made are lost. *)
Kill ==
  /\ pc # "off"
  /\ pc' = "off"
  /\ todo' = <<>>
  /\ faults' = faults \cup TornCache \cup TornIndex
  /\ refs' = NoFile /\ kd' = NoFile /\ dir' = NoFile
  /\ UNCHANGED <<gz, bin, idx, program>>

(* There are other references to decode, or none; the cache is removed, or forgotten. *)
NewReferences(t) ==
  /\ pc = "off" /\ gz # t
  /\ gz' = t
  /\ \/ bin' = NoFile /\ faults' = faults \ {"torn cache", "old cache"}
     \/ bin # NoFile /\ UNCHANGED bin /\ faults' = faults \cup {"old cache"}
  /\ UNCHANGED <<idx, program, pc, refs, kd, dir, todo>>

Init ==
  /\ gz \in Tables \cup {NoFile}
  /\ bin = NoFile /\ idx = NoFile
  /\ program = "preprocess" /\ pc = "off"
  /\ refs = NoFile /\ kd = NoFile /\ dir = NoFile
  /\ todo = <<>>
  /\ faults = {}

Next ==
  \/ \E name \in {"preprocess", "api", "mmap"} : Start(name)
  \/ Load \/ LoadFails
  \/ Decode \/ NotDecoded \/ DecodeFails
  \/ Flush \/ WriteFails \/ Written \/ Build
  \/ Create \/ CreateFails \/ Truncate \/ TruncateFails \/ Copy \/ Copied
  \/ OpenIndex \/ OpenFails
  \/ Kill
  \/ \E t \in Tables \cup {NoFile} : NewReferences(t)

Spec == Init /\ [][Next]_vars

-----------------------------------------------------------------------------
(* What of an index the search uses: the spans of its nodes are history. *)
Used(x) ==
  [fraud |-> x.fraud,
   parts |-> [k \in Keys |-> LET p == x.parts[k] IN
                [count |-> p.count, nodes |-> p.nodes, boxes |-> p.boxes,
                 vec |-> p.vec, gidx |-> p.gidx]]]

(* What cmd/api serves from is the index of one table, whole, never parts of two or
   a table cut short: through the index unless its last writer was stopped, by a kill or
   a failing call, through the cache whatever has stopped, and then of the present
   references unless an older cache was kept. *)
ServesReferences ==
  pc = "serve" =>
    IF program = "mmap"
    THEN "torn index" \in faults \/ \E t \in Tables : Used(kd) = Used(BuiltKD(t))
    ELSE \E t \in Tables : /\ Used(kd) = Used(BuiltKD(t))
                          /\ (t = gz \/ "old cache" \in faults)

(* A start in which no call fails is not stopped by anything the cache or the index may
   hold, other than what a program stopped in the middle has left, after the header of
   the cache or within the index. It takes an index, or references to decode when there
   is no cache. *)
FailsWithCause ==
  pc = "failed" /\ "failed call" \notin faults =>
    IF program = "mmap" THEN idx = NoFile \/ "torn index" \in faults
    ELSE "torn cache" \in faults \/ (gz = NoFile /\ BadMagic(bin))

(* The offsets WriteKD computes: sections are aligned for the types they are read
   as, do not overlap one another or the labels, and lie within the file. *)
SectionsApart ==
  pc = "copy" /\ idx.slices = <<>> =>
    \A i \in DOMAIN todo :
      /\ todo[i].at + todo[i].len <= idx.size
      /\ \/ todo[i].at % 8 = 0
         \/ todo[i].at \in labelsBase..(labelsBase + kd.n - 1)
      /\ \A j \in DOMAIN todo : i # j => ~ Overlaps(todo[i], todo[j])
=============================================================================
