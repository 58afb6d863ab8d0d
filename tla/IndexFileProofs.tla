-------------------------- MODULE IndexFileProofs --------------------------
(***************************************************************************)
(* The files between preprocess and cmd/api: for any tables and any builds *)
(* of them, wherever programs are killed and whichever of their calls      *)
(* fail, what is served is the index of one table, and a start in which    *)
(* no call fails fails only on what a stopped program has left, or for     *)
(* want of references or of an index.                                      *)
(*                                                                         *)
(* The cache is at all times the beginning of what writeBin writes for     *)
(* some table (CacheInv), and from a whole one LoadBin gets that table     *)
(* back (LoadsBack). For the index, WriteKD places its copies one behind   *)
(* the other (Extents): so no two overlap (Apart), each can be read back   *)
(* where it was made, whatever was copied after it (ReadsCopy), and where  *)
(* nothing was copied there are zeros, which is what the label of a        *)
(* reference that is no fraud and an empty slice stand for (ReadsLabels,   *)
(* ReadsSection). Open of an index that has all its copies is then the     *)
(* index that was written (OpensWhole). IndexInv says which copies the     *)
(* file has at each step, a new one starting from an empty file.           *)
(***************************************************************************)
EXTENDS IndexFile, KDIndexProofs, SequenceTheorems

(* Natural numbers up to some bound: the least of a set of them. *)
LEMMA LeastOf ==
  ASSUME NEW n \in Nat, NEW S, S \subseteq 0..n, S # {}
  PROVE  \E x \in S : \A y \in S : x <= y
  <1> DEFINE R == {ss \in (0..n) \X (0..n) : ss[1] < ss[2]}
  <1>1. \A a, b \in S : <<a, b>> \in R <=> a < b
    OBVIOUS
  <1>2. IsFiniteSet(S)
    <2>1. IsFiniteSet(0..n) /\ S \in SUBSET (0..n)
      BY FS_Interval
    <2> QED
      BY <2>1, FS_Subset, Zenon
  <1> HIDE DEF R
  <1>3. PICK x \in S : \A y \in S : <<y, x>> \notin R
    <2>1. /\ \A a \in S : <<a, a>> \notin R
          /\ \A a, b, c \in S : <<a, b>> \in R /\ <<b, c>> \in R => <<a, c>> \in R
      BY <1>1
    <2> QED
      BY <1>2, <2>1, HasFirst
  <1>4. \A y \in S : x \in 0..n /\ y \in 0..n /\ ~ (y < x)
    BY <1>1, <1>3
  <1> QED
    BY <1>4

LEMMA GreatestOf ==
  ASSUME NEW n \in Nat, NEW S, S \subseteq 0..n, S # {}
  PROVE  \E x \in S : \A y \in S : x >= y
  <1> DEFINE T == {n - x : x \in S}
  <1>1. T \subseteq 0..n /\ T # {}
    <2>1. \A x \in S : n - x \in 0..n
      OBVIOUS
    <2> QED
      BY <2>1
  <1> HIDE DEF T
  <1>2. PICK z \in T : \A y \in T : z <= y
    BY <1>1, LeastOf
  <1>3. PICK x \in S : z = n - x
    BY DEF T
  <1>4. \A y \in S : n - y \in T
    BY DEF T
  <1>5. \A y \in S : n - x <= n - y /\ x \in Int /\ y \in Int
    BY <1>2, <1>3, <1>4
  <1> QED
    BY <1>5

LEMMA MinIn == ASSUME NEW n \in Nat, NEW S, S \subseteq 0..n, S # {} PROVE Min(S) \in S
  BY LeastOf DEF Min

LEMMA MaxIn == ASSUME NEW n \in Nat, NEW S, S \subseteq 0..n, S # {} PROVE Max(S) \in S
  BY GreatestOf DEF Max

LEMMA IsSeq ==
  ASSUME NEW s, NEW a \in Nat, s = [i \in 1..a |-> s[i]], NEW S, \A i \in 1..a : s[i] \in S
  PROVE  s \in Seq(S) /\ Len(s) = a
  <1>1. s \in [1..a -> S]
    OBVIOUS
  <1> QED
    BY <1>1, SeqDef, LenProperties

(* Two functions from 1..a and 1..b, one after the other. *)
LEMMA Joined ==
  ASSUME NEW s, NEW t, NEW a \in Nat, NEW b \in Nat,
         s = [i \in 1..a |-> s[i]], t = [i \in 1..b |-> t[i]]
  PROVE  /\ s \o t = [i \in 1..(a + b) |-> (s \o t)[i]]
         /\ Len(s \o t) = a + b
         /\ \A i \in 1..a : (s \o t)[i] = s[i]
         /\ \A i \in 1..b : (s \o t)[a + i] = t[i]
  <1> DEFINE S == {s[i] : i \in 1..a} \cup {t[i] : i \in 1..b}
  <1>1. s \in Seq(S) /\ Len(s) = a /\ t \in Seq(S) /\ Len(t) = b
    <2>1. /\ \A i \in 1..a : s[i] \in S
          /\ \A i \in 1..b : t[i] \in S
      OBVIOUS
    <2> HIDE DEF S
    <2> QED
      BY <2>1, IsSeq
  <1> HIDE DEF S
  <1>2. s \o t \in Seq(S) /\ Len(s \o t) = a + b
    BY <1>1, ConcatProperties
  <1>3. \A i \in 1..(a + b) : (s \o t)[i] = IF i <= a THEN s[i] ELSE t[i - a]
    BY <1>1, ConcatProperties
  <1>4. s \o t = [i \in 1..(a + b) |-> (s \o t)[i]]
    BY <1>2, LenProperties
  <1>5. \A i \in 1..a : i \in 1..(a + b) /\ i <= a
    OBVIOUS
  <1>6. \A i \in 1..b : a + i \in 1..(a + b) /\ ~ (a + i <= a) /\ a + i - a = i
    OBVIOUS
  <1>7. \A i \in 1..a : (s \o t)[i] = s[i]
    BY <1>3, <1>5
  <1>8. \A i \in 1..b : (s \o t)[a + i] = t[i]
    <2>1. ASSUME NEW i \in 1..b PROVE (s \o t)[a + i] = t[i]
      <3>1. a + i \in 1..(a + b) /\ ~ (a + i <= a) /\ a + i - a = i
        BY <1>6
      <3> QED
        BY <1>3, <3>1
    <2> QED
      BY <2>1
  <1> QED
    BY <1>2, <1>4, <1>7, <1>8

-----------------------------------------------------------------------------
(* The cache. *)

LEMMA TableFacts ==
  ASSUME NEW t \in Tables
  PROVE  /\ t = [n |-> t.n, vec |-> t.vec, fraud |-> t.fraud]
         /\ t.n \in Nat /\ t.vec = [g \in 0..(t.n - 1) |-> t.vec[g]]
         /\ t.fraud \in [0..(t.n - 1) -> BOOLEAN]
  BY TablesAssumption DEF Ids

LEMMA FieldsFacts ==
  ASSUME NEW t \in Tables
  PROVE  LET n == t.n IN
         /\ Fields(t) = [i \in 1..(2 + 2 * n) |-> Fields(t)[i]] /\ Len(Fields(t)) = 2 + 2 * n
         /\ Fields(t)[1] = binMagic /\ Fields(t)[2] = n
         /\ \A g \in 0..(n - 1) : /\ Fields(t)[3 + g] = t.vec[g]
                                  /\ Fields(t)[3 + n + g] = IF t.fraud[g] THEN 1 ELSE 0
  <1> DEFINE n == t.n
             s1 == <<binMagic, t.n>>
             s2 == [i \in 1..n |-> t.vec[i - 1]]
             s3 == [i \in 1..n |-> IF t.fraud[i - 1] THEN 1 ELSE 0]
  <1>1. n \in Nat
    BY TableFacts
  <1>2. Fields(t) = (s1 \o s2) \o s3
    BY DEF Fields
  <1>3. s1 = [i \in 1..2 |-> s1[i]] /\ s1[1] = binMagic /\ s1[2] = n
    OBVIOUS
  <1>4. s2 = [i \in 1..n |-> s2[i]] /\ \A g \in 0..(n - 1) : 1 + g \in 1..n /\ s2[1 + g] = t.vec[g]
    BY <1>1
  <1>5. /\ s3 = [i \in 1..n |-> s3[i]]
        /\ \A g \in 0..(n - 1) : 1 + g \in 1..n /\ s3[1 + g] = IF t.fraud[g] THEN 1 ELSE 0
    BY <1>1
  <1> HIDE DEF n, s1, s2, s3
  <1> DEFINE u == s1 \o s2
  <1>6. /\ u = [i \in 1..(2 + n) |-> u[i]]
        /\ \A i \in 1..2 : u[i] = s1[i]
        /\ \A i \in 1..n : u[2 + i] = s2[i]
    BY <1>1, <1>3, <1>4, Joined, 2 \in Nat
  <1>11. Fields(t) = u \o s3
    BY <1>2
  <1> HIDE DEF u
  <1>7. /\ Fields(t) = [i \in 1..(2 + n + n) |-> Fields(t)[i]] /\ Len(Fields(t)) = 2 + n + n
        /\ \A i \in 1..(2 + n) : Fields(t)[i] = u[i]
        /\ \A i \in 1..n : Fields(t)[2 + n + i] = s3[i]
    <2>1. PICK w : w = 2 + n /\ w \in Nat
      BY <1>1
    <2>2. u = [i \in 1..w |-> u[i]] /\ s3 = [i \in 1..n |-> s3[i]]
      BY ONLY <1>5, <1>6, <2>1
    <2>3. /\ u \o s3 = [i \in 1..(w + n) |-> (u \o s3)[i]] /\ Len(u \o s3) = w + n
          /\ \A i \in 1..w : (u \o s3)[i] = u[i]
          /\ \A i \in 1..n : (u \o s3)[w + i] = s3[i]
      BY ONLY <1>1, <2>1, <2>2, Joined, SMTT(60)
    <2> QED
      BY ONLY <1>11, <2>1, <2>3
  <1>8. 2 + n + n = 2 + 2 * n
    BY <1>1
  <1>9. Fields(t)[1] = binMagic /\ Fields(t)[2] = n
    <2>1. 1 \in 1..(2 + n) /\ 2 \in 1..(2 + n) /\ 1 \in 1..2 /\ 2 \in 1..2
      BY <1>1
    <2>2. Fields(t)[1] = u[1] /\ Fields(t)[2] = u[2]
      BY <1>7, <2>1
    <2>3. u[1] = s1[1] /\ u[2] = s1[2]
      BY <1>6, <2>1
    <2> QED
      BY <1>3, <2>2, <2>3
  <1>10. ASSUME NEW g \in 0..(n - 1)
         PROVE  /\ Fields(t)[3 + g] = t.vec[g]
                /\ Fields(t)[3 + n + g] = IF t.fraud[g] THEN 1 ELSE 0
    <2>1. 1 + g \in 1..n /\ 2 + (1 + g) = 3 + g /\ 3 + g \in 1..(2 + n) /\ 2 + n + (1 + g) = 3 + n + g
      BY <1>1
    <2>2. u[2 + (1 + g)] = s2[1 + g] /\ s2[1 + g] = t.vec[g] /\ Fields(t)[3 + g] = u[3 + g]
      BY <1>4, <1>6, <1>7, <2>1
    <2>3. Fields(t)[2 + n + (1 + g)] = s3[1 + g]
      BY <1>7, <2>1
    <2>4. s3[1 + g] = IF t.fraud[g] THEN 1 ELSE 0
      BY <1>5
    <2> QED
      BY <2>1, <2>2, <2>3, <2>4
  <1> QED
    BY <1>7, <1>8, <1>9, <1>10 DEF n

(* What has been written of the cache of t: m fields. *)
Cached(b, t, m) == m \in 0..Len(Fields(t)) /\ b = [i \in 1..m |-> Fields(t)[i]]

LEMMA CachedFacts ==
  ASSUME NEW t \in Tables, NEW m, NEW b, Cached(b, t, m)
  PROVE  /\ m \in Nat /\ Len(b) = m
         /\ m >= 2 => b[1] = binMagic /\ b[2] = t.n
         /\ b = Fields(t) <=> m = 2 + 2 * t.n
  <1>1. t.n \in Nat /\ m \in 0..(2 + 2 * t.n) /\ Len(Fields(t)) = 2 + 2 * t.n
    BY TableFacts, FieldsFacts DEF Cached
  <1>2. Len(b) = m
    <2>1. m \in Nat /\ b = [i \in 1..m |-> b[i]] /\ \A i \in 1..m : b[i] \in {b[j] : j \in 1..m}
      BY <1>1 DEF Cached
    <2> QED
      BY <2>1, IsSeq
  <1>3. m >= 2 => b[1] = binMagic /\ b[2] = t.n
    BY <1>1, FieldsFacts DEF Cached
  <1>4. m = 2 + 2 * t.n => b = Fields(t)
    BY FieldsFacts DEF Cached
  <1> QED
    BY <1>1, <1>2, <1>3, <1>4

(* The whole cache gives the table back. *)
LEMMA LoadsBack ==
  ASSUME NEW t \in Tables
  PROVE  LoadBin(Fields(t)) = t
  <1> DEFINE n == t.n  b == Fields(t)
  <1>1. b[2] = n /\ n \in Nat
    BY FieldsFacts, TableFacts
  <1>2. [i \in 0..(n - 1) |-> b[3 + i]] = t.vec
    BY FieldsFacts, TableFacts
  <1>3. [i \in 0..(n - 1) |-> b[3 + n + i] = 1] = t.fraud
    <2>1. \A i \in 0..(n - 1) : (b[3 + n + i] = 1) = t.fraud[i]
      <3>1. ASSUME NEW i \in 0..(n - 1) PROVE (b[3 + n + i] = 1) = t.fraud[i]
        <4>1. t.fraud[i] \in BOOLEAN
          BY TableFacts
        <4>2. b[3 + n + i] = IF t.fraud[i] THEN 1 ELSE 0
          BY FieldsFacts
        <4> QED
          BY <4>1, <4>2
      <3> QED
        BY <3>1
    <2>2. t.fraud = [i \in 0..(n - 1) |-> t.fraud[i]]
      BY TableFacts
    <2> QED
      BY <2>1, <2>2, Zenon
  <1>4. LoadBin(b) = [n |-> n, vec |-> [i \in 0..(n - 1) |-> b[3 + i]],
                      fraud |-> [i \in 0..(n - 1) |-> b[3 + n + i] = 1]]
    BY <1>1 DEF LoadBin
  <1> QED
    BY <1>2, <1>3, <1>4, TableFacts

-----------------------------------------------------------------------------
(* The layout. *)

LEMMA Numbers == dirSize = 768 /\ labelsBase = 784 /\ numBuckets = 16
  BY DEF dirSize, partDir, numBuckets, labelsBase, align8

LEMMA Aligned == \A m \in Nat : align8(m) \in Nat /\ m <= align8(m) /\ align8(m) % 8 = 0
  BY DEF align8

(* The lengths of the slices of a part. *)
Lengths(p) == <<Cardinality(Nodes(p)), Cardinality(DOMAIN p.boxes),
                Cardinality(DOMAIN p.vec), Cardinality(DOMAIN p.gidx)>>

LEMMA PartFacts ==
  ASSUME NEW t \in Tables, NEW k \in Keys
  PROVE  LET p == BuiltKD(t).parts[k] IN
         /\ p.count \in Nat /\ Cardinality(Nodes(p)) \in Nat
         /\ Cardinality(DOMAIN p.boxes) = Cardinality(Nodes(p))
         /\ Cardinality(DOMAIN p.vec) = p.count /\ Cardinality(DOMAIN p.gidx) = p.count
         /\ p.nodes = [r \in 0..(Cardinality(Nodes(p)) - 1) |-> p.nodes[r]]
         /\ p.boxes = [r \in 0..(Cardinality(Nodes(p)) - 1) |-> p.boxes[r]]
         /\ p.vec = [r \in 0..(p.count - 1) |-> p.vec[r]]
         /\ p.gidx = [r \in 0..(p.count - 1) |-> p.gidx[r]]
  <1> DEFINE p == BuiltKD(t).parts[k]
  <1>1. /\ p.count \in Nat /\ IsFiniteSet(Nodes(p))
        /\ p.nodes = [r \in 0..(Cardinality(Nodes(p)) - 1) |-> p.nodes[r]]
        /\ p.boxes = [r \in 0..(Cardinality(Nodes(p)) - 1) |-> p.boxes[r]]
        /\ p.vec = [r \in 0..(p.count - 1) |-> p.vec[r]]
        /\ p.gidx = [r \in 0..(p.count - 1) |-> p.gidx[r]]
    BY BuiltKDAssumption DEF SlicesOK
  <1>2. \A m \in Nat : Cardinality(0..(m - 1)) = m
    BY FS_Interval
  <1>3. Cardinality(Nodes(p)) \in Nat
    BY <1>1, FS_CardinalityType
  <1>4. /\ DOMAIN p.boxes = 0..(Cardinality(Nodes(p)) - 1)
        /\ DOMAIN p.vec = 0..(p.count - 1) /\ DOMAIN p.gidx = 0..(p.count - 1)
    BY <1>1
  <1> QED
    BY <1>1, <1>2, <1>3, <1>4

LEMMA LayoutFacts ==
  ASSUME NEW p, \A s \in 1..4 : Lengths(p)[s] \in Nat,
         NEW off \in Nat, off % 8 = 0, NEW L, L = Layout(p, off)
  PROVE  /\ L[1] = off /\ L[5] \in Nat /\ L[5] % 8 = 0
         /\ \A s \in 1..4 : /\ L[s] \in Nat /\ L[s] % 8 = 0
                            /\ asBytes(p, s) \in Nat /\ L[s] + asBytes(p, s) <= L[s + 1]
  <1> DEFINE a == Cardinality(Nodes(p))      b == Cardinality(DOMAIN p.boxes)
             c == Cardinality(DOMAIN p.vec)  d == Cardinality(DOMAIN p.gidx)
  <1>1. a \in Nat /\ b \in Nat /\ c \in Nat /\ d \in Nat
    BY DEF Lengths
  <1>2. /\ asBytes(p, 1) = 12 * a /\ asBytes(p, 2) = 64 * b
        /\ asBytes(p, 3) = 32 * c /\ asBytes(p, 4) = 4 * d
    BY DEF asBytes, Element, Sections, kdNode, kdBox, Nodes
  <1>3. /\ L[1] = off /\ L[2] = align8(L[1] + 12 * a) /\ L[3] = align8(L[2] + 64 * b)
        /\ L[4] = align8(L[3] + 32 * c) /\ L[5] = align8(L[4] + 4 * d)
    BY <1>1 DEF Layout, kdNode, kdBox
  <1> HIDE DEF a, b, c, d
  <1>4. L[2] \in Nat /\ L[2] % 8 = 0 /\ L[1] + 12 * a <= L[2]
    <2>1. L[1] + 12 * a \in Nat
      BY <1>1, <1>3
    <2> QED
      BY <1>3, <2>1, Aligned
  <1>5. L[3] \in Nat /\ L[3] % 8 = 0 /\ L[2] + 64 * b <= L[3]
    <2>1. L[2] + 64 * b \in Nat
      BY <1>1, <1>4
    <2> QED
      BY <1>3, <2>1, Aligned
  <1>6. L[4] \in Nat /\ L[4] % 8 = 0 /\ L[3] + 32 * c <= L[4]
    <2>1. L[3] + 32 * c \in Nat
      BY <1>1, <1>5
    <2> QED
      BY <1>3, <2>1, Aligned
  <1>7. L[5] \in Nat /\ L[5] % 8 = 0 /\ L[4] + 4 * d <= L[5]
    <2>1. L[4] + 4 * d \in Nat
      BY <1>1, <1>6
    <2> QED
      BY <1>3, <2>1, Aligned
  <1>8. ASSUME NEW s \in 1..4
        PROVE  /\ L[s] \in Nat /\ L[s] % 8 = 0
               /\ asBytes(p, s) \in Nat /\ L[s] + asBytes(p, s) <= L[s + 1]
    <2>1. s = 1 \/ s = 2 \/ s = 3 \/ s = 4
      OBVIOUS
    <2>2. CASE s = 1
      BY <1>1, <1>2, <1>3, <1>4, <2>2
    <2>3. CASE s = 2
      BY <1>1, <1>2, <1>4, <1>5, <2>3
    <2>4. CASE s = 3
      BY <1>1, <1>2, <1>5, <1>6, <2>4
    <2>5. CASE s = 4
      BY <1>1, <1>2, <1>6, <1>7, <2>5
    <2> QED
      BY <2>1, <2>2, <2>3, <2>4, <2>5
  <1> QED
    BY <1>3, <1>7, <1>8

(* The recursion that places the parts does define a function. *)
LEMMA OffsetsDef ==
  ASSUME NEW x
  PROVE  \A j \in 0..15 : Offsets(x)[j] = IF j = 0 THEN align8(labelsBase + x.n)
                                          ELSE Layout(x.parts[Key(j - 1)], Offsets(x)[j - 1])[5]
  <1> DEFINE Body(f, j) == IF j = 0 THEN align8(labelsBase + x.n)
                           ELSE Layout(x.parts[Key(j - 1)], f[j - 1])[5]
             Good(m) == \E f : f = [j \in 0..m |-> Body(f, j)]
             Bad == {m \in 0..15 : ~ Good(m)}
  <1>1. Bad = {}
    <2>1. ASSUME Bad # {} PROVE FALSE
      <3>1. PICK m \in Bad : \A y \in Bad : m <= y
        <4>1. Bad \subseteq 0..15 /\ 15 \in Nat
          OBVIOUS
        <4> HIDE DEF Bad
        <4> QED
          BY <2>1, <4>1, LeastOf
      <3>2. m \in 0..15 /\ ~ Good(m)
        OBVIOUS
      <3>3. m # 0
        <4>1. ASSUME m = 0 PROVE FALSE
          <5> DEFINE f0 == [j \in 0..0 |-> align8(labelsBase + x.n)]
          <5>1. f0 = [j \in 0..0 |-> Body(f0, j)]
            OBVIOUS
          <5> QED
            BY <3>2, <4>1, <5>1
        <4> QED
          BY <4>1
      <3>4. Good(m - 1)
        <4>1. m - 1 \in 0..15 /\ ~ (m <= m - 1)
          BY <3>2, <3>3
        <4> QED
          BY <3>1, <4>1
      <3>5. PICK f : f = [j \in 0..(m - 1) |-> Body(f, j)]
        BY <3>4
      <3> DEFINE g == [j \in 0..m |-> IF j < m THEN f[j] ELSE Body(f, m)]
      <3>6. \A j \in 0..m : g[j] = Body(g, j)
        <4>1. ASSUME NEW j \in 0..m PROVE g[j] = Body(g, j)
          <5>1. j > 0 => g[j - 1] = f[j - 1]
            <6>1. j > 0 => j - 1 \in 0..m /\ j - 1 < m
              BY <3>2
            <6> HIDE DEF Body
            <6> QED
              BY <6>1
          <5>2. Body(g, j) = Body(f, j)
            BY <5>1
          <5>3. j < m => j \in 0..(m - 1) /\ f[j] = Body(f, j)
            <6>1. j < m => j \in 0..(m - 1)
              BY <3>2
            <6> HIDE DEF Body
            <6>2. \A i \in 0..(m - 1) : f[i] = Body(f, i)
              BY <3>5, Zenon
            <6> QED
              BY <6>1, <6>2
          <5>4. g[j] = Body(f, j)
            <6> HIDE DEF Body
            <6> QED
              BY <3>2, <5>3
          <5> QED
            BY <5>2, <5>4
        <4> QED
          BY <4>1
      <3>7. g = [j \in 0..m |-> Body(g, j)]
        <4>1. g = [j \in 0..m |-> g[j]]
          OBVIOUS
        <4> HIDE DEF g, Body
        <4> QED
          BY <3>6, <4>1
      <3> QED
        BY <3>2, <3>7
    <2> QED
      BY <2>1
  <1>2. Good(15)
    <2> HIDE DEF Good
    <2> QED
      BY <1>1
  <1> DEFINE F == CHOOSE f : f = [j \in 0..15 |-> Body(f, j)]
  <1>3. F = [j \in 0..15 |-> Body(F, j)]
    <2> HIDE DEF Body
    <2> QED
      BY <1>2
  <1>4. Offsets(x) = F
    BY Numbers DEF Offsets, numBuckets
  <1>5. \A j \in 0..15 : F[j] = Body(F, j)
    <2> HIDE DEF Body, F
    <2> QED
      BY <1>3
  <1> QED
    <2> HIDE DEF F
    <2> QED
      BY <1>4, <1>5

LEMMA LengthsFacts ==
  ASSUME NEW t \in Tables, NEW k \in Keys
  PROVE  \A s \in 1..4 : Lengths(BuiltKD(t).parts[k])[s] \in Nat
  <1> DEFINE p == BuiltKD(t).parts[k]
  <1>1. /\ Cardinality(Nodes(p)) \in Nat /\ Cardinality(DOMAIN p.boxes) \in Nat
        /\ Cardinality(DOMAIN p.vec) \in Nat /\ Cardinality(DOMAIN p.gidx) \in Nat
    <2>1. /\ p.count \in Nat /\ Cardinality(Nodes(p)) \in Nat
          /\ Cardinality(DOMAIN p.boxes) = Cardinality(Nodes(p))
          /\ Cardinality(DOMAIN p.vec) = p.count /\ Cardinality(DOMAIN p.gidx) = p.count
      BY PartFacts, Zenon
    <2> QED
      BY <2>1
  <1> HIDE DEF p
  <1>2. \A s \in 1..4 : Lengths(p)[s] \in Nat
    <2>1. ASSUME NEW s \in 1..4 PROVE Lengths(p)[s] \in Nat
      <3>1. s = 1 \/ s = 2 \/ s = 3 \/ s = 4
        OBVIOUS
      <3> QED
        BY <1>1, <3>1 DEF Lengths
    <2> QED
      BY <2>1
  <1> QED
    BY <1>2 DEF p

(* Each part begins at a multiple of 8, the first after the labels. *)
LEMMA OffsetsFacts ==
  ASSUME NEW t \in Tables, NEW x, x = BuiltKD(t)
  PROVE  /\ \A j \in 0..15 : Offsets(x)[j] \in Nat /\ Offsets(x)[j] % 8 = 0
         /\ Offsets(x)[0] >= 784 + t.n
         /\ \A j \in 1..15 : Offsets(x)[j] = Layout(x.parts[Key(j - 1)], Offsets(x)[j - 1])[5]
  <1>1. x.n = t.n /\ t.n \in Nat
    BY BuiltKDAssumption, TablesAssumption
  <1>2. Offsets(x)[0] = align8(784 + t.n)
    <2>1. 0 \in 0..15
      OBVIOUS
    <2>2. Offsets(x)[0] = IF 0 = 0 THEN align8(labelsBase + x.n)
                          ELSE Layout(x.parts[Key(0 - 1)], Offsets(x)[0 - 1])[5]
      BY <2>1, OffsetsDef, Zenon
    <2> QED
      BY <1>1, <2>2, Numbers
  <1>3. Offsets(x)[0] \in Nat /\ Offsets(x)[0] % 8 = 0 /\ Offsets(x)[0] >= 784 + t.n
    <2>1. 784 + t.n \in Nat
      BY <1>1
    <2> QED
      BY <1>2, <2>1, Aligned
  <1>4. \A j \in 1..15 : Offsets(x)[j] = Layout(x.parts[Key(j - 1)], Offsets(x)[j - 1])[5]
    <2>1. ASSUME NEW j \in 1..15
          PROVE  Offsets(x)[j] = Layout(x.parts[Key(j - 1)], Offsets(x)[j - 1])[5]
      <3>1. j \in 0..15 /\ ~ (j = 0)
        OBVIOUS
      <3>2. Offsets(x)[j] = IF j = 0 THEN align8(labelsBase + x.n)
                            ELSE Layout(x.parts[Key(j - 1)], Offsets(x)[j - 1])[5]
        BY <3>1, OffsetsDef, Zenon
      <3> QED
        BY ONLY <3>1, <3>2
    <2> QED
      BY <2>1
  <1> DEFINE Good(j) == Offsets(x)[j] \in Nat /\ Offsets(x)[j] % 8 = 0
             Bad == {j \in 0..15 : ~ Good(j)}
  <1>5. ASSUME Bad # {} PROVE FALSE
    <2>1. PICK j \in Bad : \A y \in Bad : j <= y
      <3>1. Bad \subseteq 0..15 /\ 15 \in Nat
        OBVIOUS
      <3> HIDE DEF Bad
      <3> QED
        BY <1>5, <3>1, LeastOf
    <2>2. j \in 0..15 /\ ~ Good(j)
      OBVIOUS
    <2>3. j # 0
      BY <1>3, <2>2
    <2>4. j - 1 \in 0..15 /\ ~ (j <= j - 1) /\ j \in 1..15
      BY <2>2, <2>3
    <2>5. Good(j - 1)
      BY <2>1, <2>4
    <2>6. Key(j - 1) \in Keys
      BY <2>4, KeyNumber
    <2>7. /\ Layout(x.parts[Key(j - 1)], Offsets(x)[j - 1])[5] \in Nat
          /\ Layout(x.parts[Key(j - 1)], Offsets(x)[j - 1])[5] % 8 = 0
      BY <2>5, <2>6, LengthsFacts, LayoutFacts
    <2> QED
      BY <1>4, <2>2, <2>4, <2>7
  <1>6. \A j \in 0..15 : Good(j)
    <2> HIDE DEF Good
    <2> QED
      BY <1>5
  <1> QED
    BY <1>3, <1>4, <1>6

(* Slice number m of the 64, and where it begins; the file ends where the 65th would. *)
Begin(x, m) == IF m = 64 THEN Dir(x)[15].Off[5] ELSE Dir(x)[m \div 4].Off[1 + (m % 4)]
Piece(x, m) == asBytes(x.parts[Key(m \div 4)], 1 + (m % 4))

LEMMA DirFacts ==
  ASSUME NEW x, NEW j \in 0..15
  PROVE  /\ Dir(x)[j].Count = x.parts[Key(j)].count
         /\ Dir(x)[j].NNodes = Cardinality(Nodes(x.parts[Key(j)]))
         /\ Dir(x)[j].Off = Layout(x.parts[Key(j)], Offsets(x)[j])
  BY Numbers DEF Dir

LEMMA Consecutive ==
  ASSUME NEW t \in Tables, NEW x, x = BuiltKD(t), NEW m \in 0..63
  PROVE  /\ Begin(x, m) \in Nat /\ Begin(x, m) % 8 = 0 /\ Piece(x, m) \in Nat
         /\ Begin(x, m + 1) \in Nat /\ Begin(x, m) + Piece(x, m) <= Begin(x, m + 1)
  <1> DEFINE j == m \div 4  s == 1 + (m % 4)  L == Layout(x.parts[Key(j)], Offsets(x)[j])
  <1>1. j \in 0..15 /\ s \in 1..4 /\ m = 4 * j + (s - 1)
    OBVIOUS
  <1>2. /\ L[1] = Offsets(x)[j] /\ L[5] \in Nat
        /\ \A r \in 1..4 : /\ L[r] \in Nat /\ L[r] % 8 = 0
                           /\ asBytes(x.parts[Key(j)], r) \in Nat
                           /\ L[r] + asBytes(x.parts[Key(j)], r) <= L[r + 1]
    <2> HIDE DEF j
    <2>1. Key(j) \in Keys
      BY <1>1, KeyNumber
    <2>2. Offsets(x)[j] \in Nat /\ Offsets(x)[j] % 8 = 0
      BY <1>1, OffsetsFacts
    <2> QED
      BY <2>1, <2>2, LengthsFacts, LayoutFacts
  <1>3. Begin(x, m) = L[s] /\ Piece(x, m) = asBytes(x.parts[Key(j)], s)
    <2>1. m # 64
      OBVIOUS
    <2>2. Dir(x)[j].Off = L
      <3> HIDE DEF j
      <3> QED
        BY <1>1, DirFacts
    <2> QED
      BY <2>1, <2>2 DEF Begin, Piece
  <1>4. Begin(x, m + 1) = L[s + 1]
    <2>1. CASE s < 4
      <3>1. m + 1 # 64 /\ (m + 1) \div 4 = j /\ 1 + ((m + 1) % 4) = s + 1
        BY <1>1, <2>1
      <3>2. Dir(x)[j].Off = L
        BY <1>1, DirFacts
      <3> QED
        BY <3>1, <3>2 DEF Begin
    <2>2. CASE s = 4 /\ j = 15
      <3>1. m + 1 = 64
        BY <1>1, <2>2
      <3>2. Dir(x)[15].Off = L
        BY <1>1, <2>2, DirFacts
      <3> QED
        BY <2>2, <3>1, <3>2 DEF Begin
    <2>3. CASE s = 4 /\ j < 15
      <3>1. m + 1 # 64 /\ (m + 1) \div 4 = j + 1 /\ 1 + ((m + 1) % 4) = 1
        BY <1>1, <2>3
      <3>2. j + 1 \in 1..15 /\ j + 1 \in 0..15 /\ (j + 1) - 1 = j
        BY <1>1, <2>3
      <3> HIDE DEF j, s
      <3>3. Dir(x)[j + 1].Off = Layout(x.parts[Key(j + 1)], Offsets(x)[j + 1])
        BY <3>2, DirFacts
      <3>4. Offsets(x)[j + 1] = L[5]
        <4>1. PICK l : l \in 1..15 /\ l = j + 1
          BY <3>2
        <4>2. Offsets(x)[l] = Layout(x.parts[Key(l - 1)], Offsets(x)[l - 1])[5] /\ l - 1 = j
          BY <1>1, <3>2, <4>1, OffsetsFacts
        <4> QED
          BY <4>1, <4>2
      <3>5. Layout(x.parts[Key(j + 1)], Offsets(x)[j + 1])[1] = Offsets(x)[j + 1]
        BY DEF Layout
      <3> QED
        BY <2>3, <3>1, <3>3, <3>4, <3>5 DEF Begin
    <2> QED
      BY <1>1, <2>1, <2>2, <2>3
  <1>5. L[s + 1] \in Nat
    BY <1>1, <1>2
  <1> QED
    BY <1>1, <1>2, <1>3, <1>4, <1>5

LEMMA InOrder ==
  ASSUME NEW t \in Tables, NEW x, x = BuiltKD(t), NEW i \in 0..64, NEW j \in 0..64, i <= j
  PROVE  Begin(x, i) \in Nat /\ Begin(x, j) \in Nat /\ Begin(x, i) <= Begin(x, j)
  <1> DEFINE B(m) == Begin(x, m)
             Bad == {m \in 0..64 : i <= m /\ ~ (B(i) <= B(m))}
  <1>1. \A m \in 0..64 : B(m) \in Nat
    <2>1. \A m \in 0..63 : B(m) \in Nat
      BY Consecutive
    <2>2. B(64) \in Nat
      <3>1. 63 \in 0..63 /\ 63 + 1 = 64
        OBVIOUS
      <3> HIDE DEF B
      <3>2. B(63 + 1) \in Nat
        BY <3>1, Consecutive DEF B
      <3> QED
        BY <3>1, <3>2
    <2>3. \A m \in 0..64 : m = 64 \/ m \in 0..63
      OBVIOUS
    <2> HIDE DEF B
    <2> QED
      BY <2>1, <2>2, <2>3
  <1>2. \A m \in 0..63 : B(m) <= B(m + 1)
    <2>1. ASSUME NEW m \in 0..63 PROVE B(m) <= B(m + 1)
      BY Consecutive
    <2> QED
      BY <2>1
  <1> HIDE DEF B
  <1>3. ASSUME Bad # {} PROVE FALSE
    <2>1. PICK m \in Bad : \A y \in Bad : m <= y
      <3>1. Bad \subseteq 0..64 /\ 64 \in Nat
        OBVIOUS
      <3> HIDE DEF Bad
      <3> QED
        BY <1>3, <3>1, LeastOf
    <2>2. m \in 0..64 /\ i <= m /\ ~ (B(i) <= B(m))
      OBVIOUS
    <2>3. i < m
      BY <1>1, <2>2
    <2>4. m - 1 \in 0..63 /\ i <= m - 1 /\ ~ (m <= m - 1) /\ m - 1 + 1 = m /\ m - 1 \in 0..64
      BY <2>2, <2>3
    <2>5. B(i) <= B(m - 1)
      BY <2>1, <2>4
    <2>6. B(m - 1) <= B(m)
      BY <1>2, <2>4
    <2> QED
      BY <1>1, <2>2, <2>4, <2>5, <2>6
  <1>4. B(i) <= B(j)
    BY <1>3
  <1> QED
    BY <1>1, <1>4 DEF B

-----------------------------------------------------------------------------
(* The copies. *)

All(x) == Copies(x, Dir(x))

HeaderCopies(x) == <<Slice(0, 8, kdMagic), Slice(8, 8, x.n), Slice(16, dirSize, Dir(x))>>
LabelCopies(x)  == [i \in 1..x.n |-> Slice(labelsBase + i - 1, IF x.fraud[i - 1] THEN 1 ELSE 0, 1)]
SliceOf(x, m)   == Slice(Begin(x, m), Piece(x, m), Sections(x.parts[Key(m \div 4)])[1 + (m % 4)])
SliceCopies(x)  == [i \in 1..64 |-> SliceOf(x, i - 1)]

LEMMA CopiesAre ==
  ASSUME NEW x, x.n \in Nat
  PROVE  All(x) = (HeaderCopies(x) \o LabelCopies(x)) \o SliceCopies(x)
  <1> DEFINE d == Dir(x)
             sec(j, s) == Slice(d[j].Off[s], asBytes(x.parts[Key(j)], s), Sections(x.parts[Key(j)])[s])
             s3 == [i \in 1..64 |-> sec((i - 1) \div 4, 1 + ((i - 1) % 4))]
  <1>1. All(x) = (HeaderCopies(x) \o LabelCopies(x)) \o s3
    BY DEF All, Copies, numBuckets, HeaderCopies, LabelCopies
  <1>2. \A i \in 1..64 : sec((i - 1) \div 4, 1 + ((i - 1) % 4)) = SliceOf(x, i - 1)
    <2>1. \A i \in 1..64 : i - 1 # 64
      OBVIOUS
    <2> QED
      BY <2>1 DEF SliceOf, Begin, Piece
  <1>3. s3 = SliceCopies(x)
    <2> HIDE DEF sec
    <2> QED
      BY <1>2 DEF SliceCopies
  <1> QED
    BY <1>1, <1>3

LEMMA CopiesFacts ==
  ASSUME NEW x, x.n \in Nat
  PROVE  /\ All(x) = [i \in 1..(67 + x.n) |-> All(x)[i]]
         /\ \A i \in 1..3 : All(x)[i] = HeaderCopies(x)[i]
         /\ \A i \in 1..x.n : All(x)[3 + i] = LabelCopies(x)[i]
         /\ \A i \in 1..64 : All(x)[3 + x.n + i] = SliceCopies(x)[i]
  <1> DEFINE n == x.n  s1 == HeaderCopies(x)  s2 == LabelCopies(x)  s3 == SliceCopies(x)
             u == s1 \o s2  w == 64
  <1>1. n \in Nat /\ 3 \in Nat /\ w \in Nat /\ 3 + n \in Nat
    OBVIOUS
  <1>2. s1 = [i \in 1..3 |-> s1[i]] /\ s2 = [i \in 1..n |-> s2[i]]
    BY DEF HeaderCopies, LabelCopies
  <1>3. s3 = [i \in 1..w |-> s3[i]]
    BY DEF SliceCopies
  <1>4. All(x) = u \o s3
    BY CopiesAre
  <1>9. 3 + n + w = 67 + n
    OBVIOUS
  <1> HIDE DEF n, s1, s2, s3, w
  <1>5. /\ u = [i \in 1..(3 + n) |-> u[i]]
        /\ \A i \in 1..3 : u[i] = s1[i]
        /\ \A i \in 1..n : u[3 + i] = s2[i]
    BY <1>1, <1>2, Joined
  <1> HIDE DEF u
  <1>6. /\ All(x) = [i \in 1..(3 + n + w) |-> All(x)[i]]
        /\ \A i \in 1..(3 + n) : All(x)[i] = u[i]
        /\ \A i \in 1..w : All(x)[3 + n + i] = s3[i]
    <2>1. PICK v : v = 3 + n /\ v \in Nat
      BY <1>1
    <2>2. u = [i \in 1..v |-> u[i]] /\ s3 = [i \in 1..w |-> s3[i]]
      BY ONLY <1>3, <1>5, <2>1
    <2>3. /\ u \o s3 = [i \in 1..(v + w) |-> (u \o s3)[i]]
          /\ \A i \in 1..v : (u \o s3)[i] = u[i]
          /\ \A i \in 1..w : (u \o s3)[v + i] = s3[i]
      BY ONLY <1>1, <2>1, <2>2, Joined, SMTT(60)
    <2> QED
      BY ONLY <1>4, <2>1, <2>3
  <1>7. \A i \in 1..3 : All(x)[i] = s1[i]
    <2>1. \A i \in 1..3 : i \in 1..(3 + n)
      BY <1>1
    <2> QED
      BY <1>5, <1>6, <2>1
  <1>8. \A i \in 1..n : All(x)[3 + i] = s2[i]
    <2>1. \A i \in 1..n : 3 + i \in 1..(3 + n)
      BY <1>1
    <2> QED
      BY <1>5, <1>6, <2>1
  <1>10. All(x) = [i \in 1..(67 + n) |-> All(x)[i]]
    BY <1>6, <1>9
  <1> QED
    BY <1>6, <1>7, <1>8, <1>10 DEF n, s1, s2, s3, w

(* The copies, kind by kind. *)
LEMMA HeaderCopy ==
  ASSUME NEW x, x.n \in Nat
  PROVE  /\ All(x)[1] = Slice(0, 8, kdMagic) /\ All(x)[2] = Slice(8, 8, x.n)
         /\ All(x)[3] = Slice(16, 768, Dir(x))
  <1>1. 1 \in 1..3 /\ 2 \in 1..3 /\ 3 \in 1..3
    OBVIOUS
  <1>2. /\ All(x)[1] = HeaderCopies(x)[1] /\ All(x)[2] = HeaderCopies(x)[2]
        /\ All(x)[3] = HeaderCopies(x)[3]
    BY <1>1, CopiesFacts
  <1> QED
    BY <1>2, Numbers DEF HeaderCopies

LEMMA LabelCopy ==
  ASSUME NEW x, x.n \in Nat, NEW g \in 0..(x.n - 1)
  PROVE  All(x)[4 + g] = Slice(784 + g, IF x.fraud[g] THEN 1 ELSE 0, 1)
  <1>1. 1 + g \in 1..x.n /\ 3 + (1 + g) = 4 + g /\ 784 + (1 + g) - 1 = 784 + g /\ (1 + g) - 1 = g
    OBVIOUS
  <1>2. All(x)[3 + (1 + g)] = LabelCopies(x)[1 + g]
    <2>1. \A i \in 1..x.n : All(x)[3 + i] = LabelCopies(x)[i]
      BY CopiesFacts
    <2> QED
      BY <1>1, <2>1
  <1>3. LabelCopies(x)[1 + g] = Slice(784 + g, IF x.fraud[g] THEN 1 ELSE 0, 1)
    BY <1>1, Numbers DEF LabelCopies
  <1> QED
    BY <1>1, <1>2, <1>3

LEMMA SliceCopy ==
  ASSUME NEW x, x.n \in Nat, NEW m \in 0..63
  PROVE  All(x)[4 + x.n + m] = SliceOf(x, m)
  <1>1. 1 + m \in 1..64 /\ 3 + x.n + (1 + m) = 4 + x.n + m /\ (1 + m) - 1 = m
    OBVIOUS
  <1>2. All(x)[3 + x.n + (1 + m)] = SliceCopies(x)[1 + m]
    <2>1. \A i \in 1..64 : All(x)[3 + x.n + i] = SliceCopies(x)[i]
      BY CopiesFacts
    <2> QED
      BY <1>1, <2>1
  <1>3. SliceCopies(x)[1 + m] = SliceOf(x, m)
    BY <1>1 DEF SliceCopies
  <1> QED
    BY <1>1, <1>2, <1>3

LEMMA FirstSlice ==
  ASSUME NEW t \in Tables, NEW x, x = BuiltKD(t)
  PROVE  784 + t.n <= Begin(x, 0)
  <1>1. Begin(x, 0) = Offsets(x)[0]
    <2>1. 0 # 64 /\ 0 \div 4 = 0 /\ 1 + (0 % 4) = 1 /\ 0 \in 0..15
      OBVIOUS
    <2>2. Dir(x)[0].Off = Layout(x.parts[Key(0)], Offsets(x)[0])
      BY <2>1, DirFacts
    <2>3. Layout(x.parts[Key(0)], Offsets(x)[0])[1] = Offsets(x)[0]
      BY DEF Layout
    <2> QED
      BY <2>1, <2>2, <2>3 DEF Begin
  <1>2. t.n \in Nat /\ Offsets(x)[0] \in Nat
    <2>1. 0 \in 0..15
      OBVIOUS
    <2>2. t.n \in Nat
      BY TableFacts
    <2>3. Offsets(x)[0] \in Nat
      BY <2>1, OffsetsFacts
    <2> QED
      BY <2>2, <2>3
  <1> QED
    BY <1>1, <1>2, OffsetsFacts

(* Every copy begins where the one before it ends, or later. *)
LEMMA Extents ==
  ASSUME NEW t \in Tables, NEW x, x = BuiltKD(t), NEW i \in 1..(67 + t.n)
  PROVE  /\ All(x)[i].at \in Nat /\ All(x)[i].len \in Nat
         /\ All(x)[i].at + All(x)[i].len <= Begin(x, 64) /\ Begin(x, 64) \in Nat
         /\ \A j \in 1..(67 + t.n) : i < j =>
               /\ All(x)[j].at \in Nat
               /\ All(x)[i].at + All(x)[i].len <= All(x)[j].at
         /\ All(x)[i].at % 8 = 0 \/ All(x)[i].at \in 784..(784 + t.n - 1)
  <1> DEFINE n == t.n  c == All(x)  top == Begin(x, 64)
  <1>1. n \in Nat /\ x.n = n
    BY TablesAssumption, BuiltKDAssumption
  <1>2. c[1].at = 0 /\ c[1].len = 8 /\ c[2].at = 8 /\ c[2].len = 8 /\ c[3].at = 16 /\ c[3].len = 768
    <2>1. /\ c[1] = Slice(0, 8, kdMagic) /\ c[2] = Slice(8, 8, x.n)
          /\ c[3] = Slice(16, 768, Dir(x))
      BY <1>1, HeaderCopy
    <2> HIDE DEF c
    <2> QED
      BY <2>1 DEF Slice
  <1>3. \A g \in 0..(n - 1) : c[4 + g].at = 784 + g /\ c[4 + g].len \in 0..1
    <2>1. ASSUME NEW g \in 0..(n - 1) PROVE c[4 + g].at = 784 + g /\ c[4 + g].len \in 0..1
      <3>1. c[4 + g] = Slice(784 + g, IF x.fraud[g] THEN 1 ELSE 0, 1)
        BY <1>1, LabelCopy
      <3> QED
        BY <3>1 DEF Slice
    <2> QED
      BY <2>1
  <1>4. \A m \in 0..63 : c[4 + n + m].at = Begin(x, m) /\ c[4 + n + m].len = Piece(x, m)
    <2>1. ASSUME NEW m \in 0..63 PROVE c[4 + n + m].at = Begin(x, m) /\ c[4 + n + m].len = Piece(x, m)
      <3>1. c[4 + n + m] = SliceOf(x, m)
        BY <1>1, SliceCopy
      <3> QED
        BY <3>1 DEF Slice, SliceOf
    <2> QED
      BY <2>1
  <1>5. \A m \in 0..63 : /\ Begin(x, m) \in Nat /\ Begin(x, m) % 8 = 0 /\ Piece(x, m) \in Nat
                         /\ Begin(x, m + 1) \in Nat /\ Begin(x, m) + Piece(x, m) <= Begin(x, m + 1)
    BY Consecutive
  <1>6. \A a, b \in 0..64 : a <= b => /\ Begin(x, a) \in Nat /\ Begin(x, b) \in Nat
                                      /\ Begin(x, a) <= Begin(x, b)
    BY InOrder
  <1>7. 784 + n <= Begin(x, 0)
    BY FirstSlice
  <1>8. \A j \in 1..(67 + n) : \/ j = 1 \/ j = 2 \/ j = 3
                               \/ \E g \in 0..(n - 1) : j = 4 + g
                               \/ \E m \in 0..63 : j = 4 + n + m
    <2>1. ASSUME NEW j \in 1..(67 + n)
          PROVE  \/ j = 1 \/ j = 2 \/ j = 3
                 \/ j - 4 \in 0..(n - 1) /\ j = 4 + (j - 4)
                 \/ j - 4 - n \in 0..63 /\ j = 4 + n + (j - 4 - n)
      BY <1>1
    <2> QED
      BY <2>1
  <1> HIDE DEF n, c
  <1>9. \A m \in 0..64 : 784 + n <= Begin(x, m) /\ Begin(x, m) \in Nat /\ Begin(x, m) <= top /\ top \in Nat
    <2>1. 0 \in 0..64 /\ 64 \in 0..64
      OBVIOUS
    <2>2. ASSUME NEW m \in 0..64
          PROVE  784 + n <= Begin(x, m) /\ Begin(x, m) \in Nat /\ Begin(x, m) <= top /\ top \in Nat
      <3>1. 0 <= m /\ m <= 64
        OBVIOUS
      <3>2. Begin(x, 0) \in Nat /\ Begin(x, 0) <= Begin(x, m) /\ Begin(x, m) \in Nat
        BY <1>6, <2>1, <3>1
      <3>3. Begin(x, m) <= top /\ top \in Nat
        BY <1>6, <2>1, <3>1
      <3> QED
        BY <1>1, <1>7, <3>2, <3>3
    <2> QED
      BY <2>2
  <1> HIDE DEF top
  <1>10. ASSUME NEW j \in 1..(67 + n)
         PROVE  /\ c[j].at \in Nat /\ c[j].len \in Nat /\ top \in Nat
                /\ c[j].at + c[j].len <= top
                /\ c[j].at % 8 = 0 \/ c[j].at \in 784..(784 + n - 1)
    <2>1. 784 + n <= top /\ top \in Nat
      <3>1. 0 \in 0..64
        OBVIOUS
      <3> QED
        BY <1>1, <1>9, <3>1
    <2>2. CASE j \in 1..3
      BY <1>1, <1>2, <2>1, <2>2
    <2>3. ASSUME NEW g \in 0..(n - 1), j = 4 + g
          PROVE  /\ c[j].at \in Nat /\ c[j].len \in Nat
                 /\ c[j].at + c[j].len <= top
                 /\ c[j].at \in 784..(784 + n - 1)
      BY <1>1, <1>3, <2>1, <2>3
    <2>4. ASSUME NEW m \in 0..63, j = 4 + n + m
          PROVE  /\ c[j].at \in Nat /\ c[j].len \in Nat
                 /\ c[j].at + c[j].len <= top
                 /\ c[j].at % 8 = 0
      <3>1. m + 1 \in 0..64
        OBVIOUS
      <3>2. Begin(x, m + 1) <= top
        BY <1>9, <3>1
      <3>3. c[j].at = Begin(x, m) /\ c[j].len = Piece(x, m)
        BY <1>4, <2>4
      <3>4. /\ Begin(x, m) \in Nat /\ Begin(x, m) % 8 = 0 /\ Piece(x, m) \in Nat
            /\ Begin(x, m + 1) \in Nat /\ Begin(x, m) + Piece(x, m) <= Begin(x, m + 1)
        BY <1>5
      <3> QED
        BY ONLY <2>1, <3>2, <3>3, <3>4
    <2> QED
      BY <1>8, <2>1, <2>2, <2>3, <2>4
  <1>11. ASSUME NEW j \in 1..(67 + n), NEW k \in 1..(67 + n), j < k
         PROVE  c[j].at + c[j].len <= c[k].at
    <2>1. CASE j \in 1..3 /\ k \in 1..3
      BY <1>2, <1>11, <2>1
    <2>2. CASE j \in 1..3 /\ k \notin 1..3
      <3>1. c[j].at + c[j].len <= 784
        BY <1>2, <2>2
      <3>2. 784 <= c[k].at /\ c[k].at \in Nat
        <4>1. ASSUME NEW g \in 0..(n - 1), k = 4 + g PROVE 784 <= c[k].at
          BY <1>3, <4>1
        <4>2. ASSUME NEW m \in 0..63, k = 4 + n + m PROVE 784 <= c[k].at
          <5>1. m \in 0..64
            OBVIOUS
          <5>2. c[k].at = Begin(x, m)
            BY <1>4, <4>2
          <5>3. 784 + n <= Begin(x, m) /\ Begin(x, m) \in Nat
            BY <1>9, <5>1
          <5> QED
            BY ONLY <1>1, <5>2, <5>3
        <4> QED
          BY <1>8, <1>10, <2>2, <4>1, <4>2
      <3> QED
        BY <1>10, <3>1, <3>2
    <2>3. ASSUME NEW g \in 0..(n - 1), j = 4 + g PROVE c[j].at + c[j].len <= c[k].at
      <3>1. c[j].at = 784 + g /\ c[j].len \in 0..1
        BY <1>3, <2>3
      <3>2. ASSUME NEW h \in 0..(n - 1), k = 4 + h PROVE c[j].at + c[j].len <= c[k].at
        <4>1. g < h
          BY <1>11, <2>3, <3>2
        <4>2. c[k].at = 784 + h
          BY <1>3, <3>2
        <4> QED
          BY <3>1, <4>1, <4>2
      <3>3. ASSUME NEW m \in 0..63, k = 4 + n + m PROVE c[j].at + c[j].len <= c[k].at
        <4>1. 784 + n <= Begin(x, m) /\ Begin(x, m) \in Nat /\ c[k].at = Begin(x, m)
          <5>1. m \in 0..64
            OBVIOUS
          <5> QED
            BY <1>4, <1>9, <3>3, <5>1
        <4> QED
          BY <1>1, <3>1, <4>1
      <3>4. k \notin 1..3
        BY <1>11, <2>3
      <3> QED
        BY <1>8, <3>2, <3>3, <3>4
    <2>4. ASSUME NEW m \in 0..63, j = 4 + n + m PROVE c[j].at + c[j].len <= c[k].at
      <3>1. PICK p \in 0..63 : k = 4 + n + p
        <4>1. k \notin 1..3 /\ \A g \in 0..(n - 1) : k # 4 + g
          BY <1>1, <1>11, <2>4
        <4> QED
          BY <1>8, <4>1
      <3>2. m < p
        BY <1>1, <1>11, <2>4, <3>1
      <3>3. m + 1 \in 0..64 /\ p \in 0..64 /\ m + 1 <= p
        BY <3>2
      <3>4. Begin(x, m + 1) <= Begin(x, p) /\ Begin(x, p) \in Nat
        BY <1>6, <3>3
      <3>5. c[j].at = Begin(x, m) /\ c[j].len = Piece(x, m) /\ c[k].at = Begin(x, p)
        BY <1>4, <2>4, <3>1
      <3> QED
        BY <1>5, <3>4, <3>5
    <2> QED
      BY <1>8, <2>1, <2>2, <2>3, <2>4
  <1> QED
    BY <1>10, <1>11 DEF n, c, top
-----------------------------------------------------------------------------
(* The invariant. *)

(* The copies that copy something. *)
Full(x) == {i \in DOMAIN All(x) : All(x)[i].len > 0}

(* f has the size WriteKD gives the index of x, and all its copies but rest. *)
Holds(f, x, rest) ==
  /\ f = [size |-> Dir(x)[15].Off[5], slices |-> f.slices]
  /\ Len(f.slices) \in Nat /\ f.slices = [k \in 1..Len(f.slices) |-> f.slices[k]]
  /\ \A k \in 1..Len(f.slices) : \E i \in Full(x) : f.slices[k] = All(x)[i]
  /\ \A i \in Full(x) \ rest : \E k \in 1..Len(f.slices) : f.slices[k] = All(x)[i]

LEMMA IndexFacts ==
  ASSUME NEW t \in Tables
  PROVE  /\ BuiltKD(t).n = t.n /\ BuiltKD(t).fraud = t.fraud /\ t.n \in Nat
         /\ t.fraud \in [0..(t.n - 1) -> BOOLEAN]
  BY BuiltKDAssumption, TableFacts

LEMMA DomainOfAll ==
  ASSUME NEW t \in Tables
  PROVE  DOMAIN All(BuiltKD(t)) = 1..(67 + t.n)
  <1> DEFINE x == BuiltKD(t)  c == All(x)
  <1>1. x.n \in Nat /\ x.n = t.n
    BY IndexFacts
  <1>2. c = [i \in 1..(67 + x.n) |-> c[i]]
    BY <1>1, CopiesFacts
  <1> HIDE DEF x, c
  <1>3. DOMAIN c = 1..(67 + x.n)
    BY <1>2
  <1> QED
    BY <1>1, <1>3 DEF x, c

LEMMA FullFacts ==
  ASSUME NEW t \in Tables, NEW i \in Full(BuiltKD(t))
  PROVE  LET c == All(BuiltKD(t)) IN
         /\ i \in 1..(67 + t.n) /\ c[i].at \in Nat /\ c[i].len \in Nat /\ c[i].len > 0
         /\ c[i].at + c[i].len <= Dir(BuiltKD(t))[15].Off[5] /\ Dir(BuiltKD(t))[15].Off[5] \in Nat
         /\ c[i].at % 8 = 0 \/ c[i].at \in 784..(784 + t.n - 1)
  <1>1. i \in 1..(67 + t.n) /\ All(BuiltKD(t))[i].len > 0
    BY DomainOfAll DEF Full
  <1>2. Begin(BuiltKD(t), 64) = Dir(BuiltKD(t))[15].Off[5]
    BY DEF Begin
  <1> QED
    BY <1>1, <1>2, Extents

(* No two of them overlap. *)
LEMMA Apart ==
  ASSUME NEW t \in Tables, NEW i \in Full(BuiltKD(t)), NEW j \in Full(BuiltKD(t)), i # j
  PROVE  ~ Overlaps(All(BuiltKD(t))[i], All(BuiltKD(t))[j])
  <1> DEFINE c == All(BuiltKD(t))
  <1>1. i \in 1..(67 + t.n) /\ j \in 1..(67 + t.n)
    BY FullFacts
  <1>2. /\ c[i].at \in Nat /\ c[i].len \in Nat
        /\ c[j].at \in Nat /\ c[j].len \in Nat
        /\ i < j => c[i].at + c[i].len <= c[j].at
        /\ j < i => c[j].at + c[j].len <= c[i].at
    BY <1>1, Extents
  <1>3. i < j \/ j < i
    <2>1. i \in Int /\ j \in Int
      <3>1. t.n \in Nat
        BY IndexFacts
      <3> QED
        BY <1>1, <3>1
    <2> QED
      BY <2>1
  <1> QED
    BY <1>2, <1>3 DEF Overlaps

(* What is read where a full copy was made is what it copied. *)
LEMMA ReadsCopy ==
  ASSUME NEW t \in Tables, NEW f, Holds(f, BuiltKD(t), {}), NEW i \in Full(BuiltKD(t)), NEW z,
         NEW at, at = All(BuiltKD(t))[i].at, NEW len, len = All(BuiltKD(t))[i].len
  PROVE  ReadAt(f, at, len, z) = All(BuiltKD(t))[i].data
  <1> DEFINE x == BuiltKD(t)  c == All(x)  me == Slice(at, len, 0)
             m == Len(f.slices)
             over == {k \in DOMAIN f.slices : Overlaps(f.slices[k], me)}
             last == f.slices[Max(over)]
  <1>1. at \in Nat /\ len \in Nat /\ len > 0 /\ at + len <= f.size
    <2>1. f.size = Dir(x)[15].Off[5]
      BY DEF Holds
    <2> QED
      BY <2>1, FullFacts
  <1>2. /\ m \in Nat /\ DOMAIN f.slices = 1..m
        /\ \A k \in 1..m : \E j \in Full(x) : f.slices[k] = c[j]
        /\ \A j \in Full(x) : \E k \in 1..m : f.slices[k] = c[j]
    BY DEF Holds
  <1>3. me.at = at /\ me.len = len
    BY DEF Slice
  <1>4. over # {}
    <2>1. PICK k \in 1..m : f.slices[k] = c[i]
      BY <1>2
    <2>2. Overlaps(c[i], me)
      BY <1>1, <1>3 DEF Overlaps
    <2> QED
      BY <1>2, <2>1, <2>2
  <1>5. Max(over) \in over
    <2>1. over \subseteq 0..m
      BY <1>2
    <2> HIDE DEF over
    <2> QED
      BY <1>2, <1>4, <2>1, MaxIn
  <1>6. Max(over) \in 1..m /\ Overlaps(last, me)
    <2> DEFINE v == Max(over)
    <2>1. v \in over
      BY <1>5
    <2> HIDE DEF v
    <2>2. v \in 1..m /\ Overlaps(f.slices[v], me)
      BY <1>2, <2>1
    <2> QED
      BY <2>2 DEF v
  <1>7. PICK j \in Full(x) : last = c[j]
    <2> HIDE DEF over
    <2> QED
      BY <1>2, <1>6
  <1>8. Overlaps(c[j], c[i])
    <2> HIDE DEF over, me
    <2> QED
      BY <1>3, <1>6, <1>7 DEF Overlaps
  <1>9. j = i
    <2> HIDE DEF over, me
    <2> QED
      BY <1>8, Apart
  <1>10. last.at = at /\ last.len = len /\ last.data = c[i].data
    <2> HIDE DEF over, me
    <2> QED
      BY <1>7, <1>9
  <1>11. ReadAt(f, at, len, z) = IF over # {} /\ last.at = at /\ last.len = len /\ at + len <= f.size
                                 THEN last.data ELSE z
    BY DEF ReadAt
  <1> HIDE DEF over, last
  <1> QED
    BY <1>1, <1>4, <1>10, <1>11

(* Where no label was copied there is a zero. *)
LEMMA ReadsZero ==
  ASSUME NEW t \in Tables, NEW f, Holds(f, BuiltKD(t), {}), NEW g \in 0..(t.n - 1), ~ t.fraud[g]
  PROVE  ReadAt(f, 784 + g, 1, 0) = 0
  <1> DEFINE x == BuiltKD(t)  c == All(x)  me == Slice(784 + g, 1, 0)
             over == {k \in DOMAIN f.slices : Overlaps(f.slices[k], me)}
  <1>1. /\ \A k \in DOMAIN f.slices : \E j \in Full(x) : f.slices[k] = c[j]
    BY DEF Holds
  <1>2. x.n = t.n /\ x.fraud = t.fraud /\ t.n \in Nat
    BY IndexFacts
  <1>3. ASSUME NEW j \in Full(x) PROVE ~ Overlaps(c[j], me)
    <2>1. j \in 1..(67 + t.n) /\ c[j].len > 0 /\ c[j].at \in Nat /\ c[j].len \in Nat
      BY FullFacts
    <2>2. me.at = 784 + g /\ me.len = 1
      BY DEF Slice
    <2>3. c[4 + g].len = 0
      <3>1. c[4 + g] = Slice(784 + g, IF x.fraud[g] THEN 1 ELSE 0, 1)
        BY <1>2, LabelCopy
      <3> QED
        BY <1>2, <3>1 DEF Slice
    <2>4. j # 4 + g
      BY <2>1, <2>3
    <2>5. CASE j \in 1..3
      <3>1. c[j].at + c[j].len <= 784
        <4>1. /\ c[1] = Slice(0, 8, kdMagic) /\ c[2] = Slice(8, 8, x.n)
              /\ c[3] = Slice(16, 768, Dir(x))
          BY <1>2, HeaderCopy
        <4> HIDE DEF c
        <4>2. c[1].at + c[1].len <= 784 /\ c[2].at + c[2].len <= 784 /\ c[3].at + c[3].len <= 784
          BY <4>1 DEF Slice
        <4>3. j = 1 \/ j = 2 \/ j = 3
          BY <2>5
        <4> QED
          BY <4>2, <4>3
      <3> HIDE DEF c, me
      <3> QED
        BY <2>1, <2>2, <3>1 DEF Overlaps
    <2>6. CASE j - 4 \in 0..(t.n - 1)
      <3>1. c[4 + (j - 4)] = Slice(784 + (j - 4), IF x.fraud[j - 4] THEN 1 ELSE 0, 1)
        BY <1>2, <2>6, LabelCopy
      <3>2. 4 + (j - 4) = j
        BY <1>2, <2>1
      <3>3. c[j].at = 784 + (j - 4) /\ c[j].len \in 0..1
        BY <3>1, <3>2 DEF Slice
      <3> HIDE DEF c, me
      <3> QED
        BY <1>2, <2>1, <2>2, <2>4, <3>3 DEF Overlaps
    <2>7. CASE j - 4 - t.n \in 0..63
      <3> DEFINE w == j - 4 - t.n
      <3>1. c[4 + x.n + w] = SliceOf(x, w)
        BY <1>2, <2>7, SliceCopy
      <3>2. 4 + x.n + w = j
        BY <1>2, <2>1
      <3>3. c[j].at = Begin(x, w)
        BY <3>1, <3>2 DEF Slice, SliceOf
      <3>4. 784 + t.n <= Begin(x, w)
        <4>1. 0 \in 0..64 /\ w \in 0..64 /\ 0 <= w
          BY <2>7
        <4> HIDE DEF w
        <4>2. Begin(x, 0) <= Begin(x, w) /\ Begin(x, 0) \in Nat /\ Begin(x, w) \in Nat
          BY <4>1, InOrder
        <4>3. 784 + t.n <= Begin(x, 0)
          BY FirstSlice
        <4> QED
          BY <1>2, <4>2, <4>3
      <3> HIDE DEF c, me, w
      <3> QED
        BY <1>2, <2>1, <2>2, <3>3, <3>4 DEF Overlaps
    <2> QED
      BY <1>2, <2>1, <2>5, <2>6, <2>7
  <1>4. over = {}
    <2> HIDE DEF me, c
    <2> QED
      BY <1>1, <1>3
  <1>5. ReadAt(f, 784 + g, 1, 0) = IF over # {} /\ f.slices[Max(over)].at = 784 + g
                                      /\ f.slices[Max(over)].len = 1 /\ 784 + g + 1 <= f.size
                                   THEN f.slices[Max(over)].data ELSE 0
    BY DEF ReadAt
  <1> HIDE DEF over
  <1> QED
    BY <1>4, <1>5

(* Opening an index that holds all copies gives the index back. *)
LEMMA ReadsHeader ==
  ASSUME NEW t \in Tables, NEW f, Holds(f, BuiltKD(t), {}), NEW z
  PROVE  /\ ReadAt(f, 0, 8, z) = kdMagic /\ ReadAt(f, 8, 8, z) = t.n
         /\ ReadAt(f, 16, dirSize, z) = Dir(BuiltKD(t))
  <1> DEFINE x == BuiltKD(t)  c == All(x)
  <1>1. x.n = t.n /\ t.n \in Nat
    BY IndexFacts
  <1>2. /\ c[1].at = 0 /\ c[1].len = 8 /\ c[1].data = kdMagic
        /\ c[2].at = 8 /\ c[2].len = 8 /\ c[2].data = t.n
        /\ c[3].at = 16 /\ c[3].len = 768 /\ c[3].data = Dir(x)
    <2>1. /\ c[1] = Slice(0, 8, kdMagic) /\ c[2] = Slice(8, 8, x.n)
          /\ c[3] = Slice(16, 768, Dir(x))
      BY <1>1, HeaderCopy
    <2> HIDE DEF c
    <2> QED
      BY <1>1, <2>1 DEF Slice
  <1>3. \A i \in 1..3 : i \in DOMAIN c
    BY <1>1, DomainOfAll
  <1>4. 1 \in Full(x) /\ 2 \in Full(x) /\ 3 \in Full(x)
    <2>1. 1 \in 1..3 /\ 2 \in 1..3 /\ 3 \in 1..3
      OBVIOUS
    <2> QED
      BY <1>2, <1>3, <2>1 DEF Full
  <1>5. \A i \in Full(x) : ReadAt(f, c[i].at, c[i].len, z) = c[i].data
    BY ReadsCopy
  <1> HIDE DEF c
  <1> QED
    BY <1>2, <1>4, <1>5, Numbers

LEMMA ReadsLabels ==
  ASSUME NEW t \in Tables, NEW f, Holds(f, BuiltKD(t), {})
  PROVE  [i \in 0..(t.n - 1) |-> ReadAt(f, labelsBase + i, 1, 0) = 1] = BuiltKD(t).fraud
  <1> DEFINE x == BuiltKD(t)  c == All(x)
  <1>1. x.n = t.n /\ t.n \in Nat /\ x.fraud = t.fraud /\ t.fraud \in [0..(t.n - 1) -> BOOLEAN]
    BY IndexFacts
  <1>2. ASSUME NEW g \in 0..(t.n - 1)
        PROVE  (ReadAt(f, labelsBase + g, 1, 0) = 1) = t.fraud[g]
    <2>1. CASE t.fraud[g]
      <3>1. c[4 + g].at = 784 + g /\ c[4 + g].len = 1 /\ c[4 + g].data = 1
        <4>1. c[4 + g] = Slice(784 + g, IF x.fraud[g] THEN 1 ELSE 0, 1)
          BY <1>1, LabelCopy
        <4> HIDE DEF c
        <4> QED
          BY <1>1, <2>1, <4>1 DEF Slice
      <3>2. 4 + g \in DOMAIN c
        BY <1>1, DomainOfAll
      <3>3. 4 + g \in Full(x)
        BY <3>1, <3>2 DEF Full
      <3>4. ReadAt(f, c[4 + g].at, c[4 + g].len, 0) = c[4 + g].data
        BY <3>3, ReadsCopy
      <3> HIDE DEF c
      <3>5. ReadAt(f, 784 + g, 1, 0) = 1
        BY ONLY <3>1, <3>4
      <3>6. labelsBase + g = 784 + g
        BY Numbers
      <3> QED
        <4>1. t.fraud[g] \in BOOLEAN
          BY <1>1
        <4>2. t.fraud[g] = TRUE
          BY <2>1, <4>1
        <4>3. (ReadAt(f, labelsBase + g, 1, 0) = 1) = TRUE
          BY ONLY <3>5, <3>6
        <4> QED
          BY ONLY <4>2, <4>3
    <2>2. CASE ~ t.fraud[g]
      <3>1. ReadAt(f, labelsBase + g, 1, 0) = 0
        BY <2>2, ReadsZero, Numbers
      <3>2. t.fraud[g] = FALSE
        BY <1>1, <2>2
      <3>3. (ReadAt(f, labelsBase + g, 1, 0) = 1) = FALSE
        BY <3>1
      <3> QED
        BY <3>2, <3>3, Zenon
    <2> QED
      BY <2>1, <2>2
  <1>3. t.fraud = [i \in 0..(t.n - 1) |-> t.fraud[i]]
    BY <1>1
  <1>4. [i \in 0..(t.n - 1) |-> ReadAt(f, labelsBase + i, 1, 0) = 1] = [i \in 0..(t.n - 1) |-> t.fraud[i]]
    BY <1>2, Zenon
  <1> QED
    BY <1>1, <1>3, <1>4, Zenon

(* The sections of a part: how many elements they have, and how many bytes they are. *)
Many(p, s) == IF s \in {1, 2} THEN Cardinality(Nodes(p)) ELSE p.count

LEMMA SectionFacts ==
  ASSUME NEW t \in Tables, NEW k \in Keys, NEW s \in 1..4
  PROVE  LET p == BuiltKD(t).parts[k] IN
         /\ Many(p, s) \in Nat /\ asBytes(p, s) = Element[s] * Many(p, s)
         /\ Element[s] \in Nat /\ Element[s] > 0
         /\ Sections(p)[s] = [r \in 0..(Many(p, s) - 1) |-> Sections(p)[s][r]]
  <1> DEFINE p == BuiltKD(t).parts[k]  m == Many(p, s)
  <1>1. /\ p.count \in Nat /\ Cardinality(Nodes(p)) \in Nat
        /\ Cardinality(DOMAIN p.boxes) = Cardinality(Nodes(p))
        /\ Cardinality(DOMAIN p.vec) = p.count /\ Cardinality(DOMAIN p.gidx) = p.count
    BY PartFacts, Zenon
  <1>2. p.nodes = [r \in 0..(Cardinality(Nodes(p)) - 1) |-> p.nodes[r]]
    BY PartFacts, Zenon
  <1>3. p.boxes = [r \in 0..(Cardinality(Nodes(p)) - 1) |-> p.boxes[r]]
    BY PartFacts, Zenon
  <1>4. p.vec = [r \in 0..(p.count - 1) |-> p.vec[r]]
    BY PartFacts, Zenon
  <1>5. p.gidx = [r \in 0..(p.count - 1) |-> p.gidx[r]]
    BY PartFacts, Zenon
  <1> HIDE DEF p
  <1>6. s = 1 \/ s = 2 \/ s = 3 \/ s = 4
    OBVIOUS
  <1>7. Element[s] \in Nat /\ Element[s] > 0
    BY <1>6 DEF Element, kdNode, kdBox
  <1>8. m \in Nat
    BY <1>1 DEF Many
  <1>9. asBytes(p, s) = Element[s] * m
    BY <1>1, <1>6 DEF asBytes, Sections, Nodes, Many
  <1>10. Sections(p)[s] = [r \in 0..(m - 1) |-> Sections(p)[s][r]]
    <2>1. CASE s = 1
      BY <1>2, <2>1 DEF Sections, Many
    <2>2. CASE s = 2
      BY <1>3, <2>2 DEF Sections, Many
    <2>3. CASE s = 3
      BY <1>4, <2>3 DEF Sections, Many
    <2>4. CASE s = 4
      BY <1>5, <2>4 DEF Sections, Many
    <2> QED
      BY <1>6, <2>1, <2>2, <2>3, <2>4
  <1> QED
    BY <1>7, <1>8, <1>9, <1>10 DEF p

LEMMA ReadsSection ==
  ASSUME NEW t \in Tables, NEW f, Holds(f, BuiltKD(t), {}), NEW j \in 0..15, NEW s \in 1..4, NEW m, NEW z,
         m = Many(BuiltKD(t).parts[Key(j)], s)
  PROVE  Sections(BuiltKD(t).parts[Key(j)])[s] =
           IF m > 0 THEN ReadAt(f, Dir(BuiltKD(t))[j].Off[s], Element[s] * m, z) ELSE <<>>
  <1> DEFINE x == BuiltKD(t)  p == x.parts[Key(j)]  c == All(x)  w == 4 * j + (s - 1)
             e == Sections(p)[s]
  <1>1. x.n = t.n /\ t.n \in Nat
    BY IndexFacts
  <1>2. Key(j) \in Keys
    BY KeyNumber
  <1>4. /\ m \in Nat /\ asBytes(p, s) = Element[s] * m /\ Element[s] \in Nat /\ Element[s] > 0
    BY <1>2, SectionFacts
  <1>5. e = [r \in 0..(m - 1) |-> e[r]]
    BY <1>2, SectionFacts
  <1>6. CASE m = 0
    <2>1. 0..(m - 1) = {}
      BY <1>6
    <2> HIDE DEF e
    <2>2. e = <<>>
      BY <1>5, <2>1
    <2> QED
      BY <1>6, <2>2 DEF e
  <1>7. CASE m > 0
    <2>1. w \in 0..63 /\ w # 64 /\ w \div 4 = j /\ 1 + (w % 4) = s
      OBVIOUS
    <2>2. c[4 + x.n + w] = SliceOf(x, w)
      BY <1>1, <2>1, SliceCopy
    <2>3. SliceOf(x, w) = Slice(Dir(x)[j].Off[s], Element[s] * m, e)
      <3> HIDE DEF e
      <3>1. Begin(x, w) = Dir(x)[j].Off[s] /\ Piece(x, w) = asBytes(p, s)
        BY <2>1 DEF Begin, Piece
      <3> QED
        BY <1>4, <2>1, <3>1 DEF SliceOf, e
    <2> DEFINE i == 4 + x.n + w
    <2> HIDE DEF w, e
    <2>4. c[i].at = Dir(x)[j].Off[s] /\ c[i].len = Element[s] * m /\ c[i].data = e
      BY <2>2, <2>3 DEF Slice
    <2>5. i \in DOMAIN c
      BY <1>1, <2>1, DomainOfAll
    <2>6. Element[s] * m > 0
      BY <1>4, <1>7
    <2>7. i \in Full(x)
      BY <2>4, <2>5, <2>6 DEF Full
    <2> HIDE DEF i
    <2>8. ReadAt(f, c[i].at, c[i].len, z) = c[i].data
      BY <2>7, ReadsCopy
    <2> HIDE DEF c
    <2> QED
      BY <1>7, <2>4, <2>8 DEF e
  <1> QED
    BY <1>4, <1>6, <1>7

LEMMA OpensWhole ==
  ASSUME NEW t \in Tables, NEW f, Holds(f, BuiltKD(t), {})
  PROVE  Used(Open(f)) = Used(BuiltKD(t)) /\ (Refused(f) => f = NoFile)
  <1> DEFINE x == BuiltKD(t)
             zs == [j \in 0..(numBuckets - 1) |-> [Count |-> 0, NNodes |-> 0]]
             section(d, s, m) ==
               IF m > 0 THEN ReadAt(f, d.Off[s], Element[s] * m, [r \in 0..(m - 1) |-> 0]) ELSE <<>>
             part(d) == [count |-> d.Count,
                         nodes |-> section(d, 1, d.NNodes), boxes |-> section(d, 2, d.NNodes),
                         vec   |-> section(d, 3, d.Count),  gidx  |-> section(d, 4, d.Count)]
             num(k) == CHOOSE j \in 0..(numBuckets - 1) : Key(j) = k
             used(p) == [count |-> p.count, nodes |-> p.nodes, boxes |-> p.boxes,
                         vec |-> p.vec, gidx |-> p.gidx]
  <1>1. /\ ReadAt(f, 0, 8, "") = kdMagic /\ ReadAt(f, 8, 8, 0) = t.n
        /\ ReadAt(f, 16, dirSize, zs) = Dir(x)
    BY ReadsHeader
  <1>2. Refused(f) => f = NoFile
    <2>1. f.size = Dir(x)[15].Off[5]
      BY DEF Holds
    <2>2. Dir(x)[15].Off[5] >= 784
      <3>1. Begin(x, 64) = Dir(x)[15].Off[5]
        BY DEF Begin
      <3>2. 0 \in 0..64 /\ 64 \in 0..64 /\ 0 <= 64
        OBVIOUS
      <3>3. Begin(x, 0) \in Nat /\ Begin(x, 64) \in Nat /\ Begin(x, 0) <= Begin(x, 64)
        BY <3>2, InOrder
      <3>4. 784 + t.n <= Begin(x, 0) /\ t.n \in Nat
        <4>1. 784 + t.n <= Begin(x, 0)
          BY FirstSlice, SMTT(60)
        <4>2. t.n \in Nat
          BY TableFacts
        <4> QED
          BY <4>1, <4>2
      <3> QED
        BY <3>1, <3>3, <3>4
    <2>3. Dir(x)[15].Off[5] \in Int
      <3>1. 15 \in 0..15 /\ 64 \in 0..64
        OBVIOUS
      <3>2. Begin(x, 64) \in Nat
        BY <3>1, InOrder
      <3> QED
        BY <3>2 DEF Begin
    <2>4. ~ (f.size < 16)
      BY <2>1, <2>2, <2>3
    <2> QED
      BY <1>1, <2>4, Zenon DEF Refused
  <1>3. Open(f) = [fraud |-> x.fraud, parts |-> [k \in Keys |-> part(Dir(x)[num(k)])]]
    <2>1. Open(f) = [fraud |-> [i \in 0..(t.n - 1) |-> ReadAt(f, labelsBase + i, 1, 0) = 1],
                     parts |-> [k \in Keys |-> part(Dir(x)[num(k)])]]
      <3>1. Open(f) = [fraud |-> [i \in 0..(ReadAt(f, 8, 8, 0) - 1) |-> ReadAt(f, labelsBase + i, 1, 0) = 1],
                       parts |-> [k \in Keys |-> part(ReadAt(f, 16, dirSize, zs)[num(k)])]]
        BY DEF Open
      <3> HIDE DEF part, num
      <3> QED
        BY <1>1, <3>1
    <2> HIDE DEF part, num
    <2> QED
      BY <2>1, ReadsLabels
  <1>4. ASSUME NEW k \in Keys PROVE num(k) \in 0..15 /\ Key(num(k)) = k
    <2>1. num(k) = CHOOSE j \in 0..15 : Key(j) = k
      BY Numbers
    <2> QED
      BY <2>1, NumberKey
  <1>5. ASSUME NEW k \in Keys
        PROVE  used(part(Dir(x)[num(k)])) = used(x.parts[k])
    <2> DEFINE j == num(k)  d == Dir(x)[j]  p == x.parts[k]
    <2>1. j \in 0..15 /\ Key(j) = k
      BY <1>4
    <2> HIDE DEF j
    <2>2. d.Count = p.count
      BY <2>1, DirFacts
    <2>3. /\ 1 \in 1..4 /\ 2 \in 1..4 /\ 3 \in 1..4 /\ 4 \in 1..4
          /\ 1 \in {1, 2} /\ 2 \in {1, 2} /\ 3 \notin {1, 2} /\ 4 \notin {1, 2}
      OBVIOUS
    <2>9. \A s \in 1..4 : \A m, z : m = Many(x.parts[Key(j)], s) =>
            Sections(x.parts[Key(j)])[s] =
              IF m > 0 THEN ReadAt(f, d.Off[s], Element[s] * m, z) ELSE <<>>
      BY <2>1, ReadsSection
    <2>10. \A s \in 1..4 : \A m : m = Many(p, s) => Sections(p)[s] = section(d, s, m)
      BY <2>1, <2>9
    <2>11. /\ d.NNodes = Many(p, 1) /\ d.NNodes = Many(p, 2)
           /\ d.Count = Many(p, 3) /\ d.Count = Many(p, 4)
      BY <2>1, <2>3, DirFacts DEF Many
    <2>4. Sections(p)[1] = section(d, 1, d.NNodes)
      <3> HIDE DEF section, d, p
      <3> QED
        BY <2>3, <2>10, <2>11
    <2>5. Sections(p)[2] = section(d, 2, d.NNodes)
      <3> HIDE DEF section, d, p
      <3> QED
        BY <2>3, <2>10, <2>11
    <2>6. Sections(p)[3] = section(d, 3, d.Count)
      <3> HIDE DEF section, d, p
      <3> QED
        BY <2>3, <2>10, <2>11
    <2>7. Sections(p)[4] = section(d, 4, d.Count)
      <3> HIDE DEF section, d, p
      <3> QED
        BY <2>3, <2>10, <2>11
    <2>8. /\ Sections(p)[1] = p.nodes /\ Sections(p)[2] = p.boxes
          /\ Sections(p)[3] = p.vec /\ Sections(p)[4] = p.gidx
      BY DEF Sections
    <2> HIDE DEF section, d, p
    <2> QED
      BY <2>2, <2>4, <2>5, <2>6, <2>7, <2>8 DEF d, p, j
  <1> HIDE DEF part, num
  <1>6. Used(Open(f)) = [fraud |-> x.fraud, parts |-> [k \in Keys |-> used(part(Dir(x)[num(k)]))]]
    <2> DEFINE o == [fraud |-> x.fraud, parts |-> [k \in Keys |-> part(Dir(x)[num(k)])]]
    <2>1. Used(o) = [fraud |-> o.fraud, parts |-> [k \in Keys |-> used(o.parts[k])]]
      BY DEF Used
    <2>2. o.fraud = x.fraud /\ \A k \in Keys : o.parts[k] = part(Dir(x)[num(k)])
      OBVIOUS
    <2> HIDE DEF o, used
    <2>3. Used(o) = [fraud |-> x.fraud, parts |-> [k \in Keys |-> used(part(Dir(x)[num(k)]))]]
      BY <2>1, <2>2
    <2> QED
      BY <1>3, <2>3 DEF o
  <1>7. Used(x) = [fraud |-> x.fraud, parts |-> [k \in Keys |-> used(x.parts[k])]]
    BY DEF Used
  <1> HIDE DEF used
  <1>8. Used(Open(f)) = Used(x)
    BY <1>5, <1>6, <1>7
  <1> QED
    BY <1>2, <1>8

(* Which program is where. *)
ProgramInv ==
  /\ pc = "open" => program = "mmap"
  /\ pc \in {"load", "decode", "write", "build"} => program # "mmap"

(* The cache is the beginning of a table's; it is whole or not as faults says. *)
CacheInv ==
  \/ bin = NoFile
  \/ \E t \in Tables : \E m \in 0..Len(Fields(t)) :
       /\ Cached(bin, t, m)
       /\ m = 2 + 2 * t.n => t = gz \/ "old cache" \in faults
       /\ m >= 2 /\ m # 2 + 2 * t.n => pc = "write" \/ "torn cache" \in faults

(* The table a program has read or decoded, and what it has written of the cache; one
   that decodes has found no cache, or could not read it. *)
TableInv ==
  /\ gz \in Tables \cup {NoFile}
  /\ pc = "decode" => BadMagic(bin) \/ "failed call" \in faults
  /\ pc = "write" => refs \in Tables /\ refs = gz /\ \E m \in 0..Len(Fields(refs)) : Cached(bin, refs, m)
  /\ pc = "build" => refs \in Tables /\ (refs = gz \/ "old cache" \in faults)
  /\ pc \in {"create", "truncate", "copy"} => \E t \in Tables : kd = BuiltKD(t)

(* The index holds what has been copied, or what a stopped program has left. *)
IndexInv ==
  /\ pc = "truncate" => idx = Created /\ dir = Dir(kd)
  /\ pc = "copy" => /\ DOMAIN todo \subseteq Full(kd)
                    /\ \A i \in DOMAIN todo : todo[i] = All(kd)[i]
                    /\ Holds(idx, kd, DOMAIN todo)
  /\ pc \notin {"truncate", "copy"} =>
       \/ idx = NoFile \/ "torn index" \in faults
       \/ \E t \in Tables : Holds(idx, BuiltKD(t), {})

IInv == ProgramInv /\ CacheInv /\ TableInv /\ IndexInv /\ ServesReferences /\ FailsWithCause

LEMMA Appended ==
  ASSUME NEW s, NEW m \in Nat, Len(s) = m, s = [k \in 1..m |-> s[k]], NEW e
  PROVE  LET a == Append(s, e) IN
         /\ Len(a) = m + 1 /\ a = [k \in 1..(m + 1) |-> a[k]]
         /\ \A k \in 1..m : a[k] = s[k]
         /\ a[m + 1] = e
  <1> DEFINE S == {s[k] : k \in 1..m} \cup {e}  a == Append(s, e)
  <1>1. s \in Seq(S) /\ e \in S
    <2>1. e \in S /\ \A k \in 1..m : s[k] \in S
      OBVIOUS
    <2> HIDE DEF S
    <2> QED
      BY <2>1, IsSeq
  <1> HIDE DEF S
  <1>2. /\ a \in Seq(S) /\ Len(a) = Len(s) + 1
        /\ \A k \in 1..Len(s) : a[k] = s[k]
        /\ a[Len(s) + 1] = e
    BY <1>1, AppendProperties
  <1>3. a = [k \in 1..Len(a) |-> a[k]]
    BY <1>2, LenProperties
  <1> HIDE DEF a
  <1> QED
    BY <1>2, <1>3 DEF a

(* What a step that leaves a file alone keeps. *)
LEMMA CacheKept ==
  ASSUME CacheInv, UNCHANGED <<bin, gz>>, pc # "write",
         "old cache" \in faults => "old cache" \in faults',
         "torn cache" \in faults => "torn cache" \in faults'
  PROVE  CacheInv'
  BY DEF CacheInv, Cached

LEMMA IndexKept ==
  ASSUME IndexInv, UNCHANGED idx, pc \notin {"truncate", "copy"}, pc' \notin {"truncate", "copy"},
         "torn index" \in faults => "torn index" \in faults'
  PROVE  IndexInv'
  BY DEF IndexInv, Holds

(* The cache that is being written. *)
LEMMA WritingFacts ==
  ASSUME TableInv, pc = "write"
  PROVE  /\ refs \in Tables /\ refs = gz /\ refs.n \in Nat
         /\ Len(bin) \in 0..Len(Fields(refs)) /\ Cached(bin, refs, Len(bin))
         /\ Len(Fields(refs)) = 2 + 2 * refs.n
         /\ bin = Fields(refs) <=> Len(bin) = 2 + 2 * refs.n
  <1>1. PICK m \in 0..Len(Fields(refs)) : Cached(bin, refs, m)
    BY DEF TableInv
  <1>2. refs \in Tables /\ refs = gz
    BY DEF TableInv
  <1>3. Len(bin) = m /\ (bin = Fields(refs) <=> m = 2 + 2 * refs.n)
    BY <1>1, <1>2, CachedFacts
  <1> QED
    BY <1>1, <1>2, <1>3, FieldsFacts, TableFacts

LEMMA InvInit == Init => IInv
  BY DEF Init, IInv, ProgramInv, CacheInv, TableInv, IndexInv, ServesReferences, FailsWithCause

LEMMA InvStart ==
  ASSUME IInv, NEW name \in {"preprocess", "api", "mmap"}, Start(name)
  PROVE  IInv'
  <1> USE DEF Start
  <1>1. ProgramInv'
    BY DEF ProgramInv
  <1>2. CacheInv'
    BY CacheKept DEF IInv
  <1>3. TableInv'
    BY DEF IInv, TableInv
  <1>4. IndexInv'
    BY IndexKept DEF IInv
  <1>5. ServesReferences' /\ FailsWithCause'
    BY DEF ServesReferences, FailsWithCause
  <1> QED
    BY <1>1, <1>2, <1>3, <1>4, <1>5 DEF IInv

(* A cache that is not rebuilt: it is a whole one, or a torn one. *)
LEMMA ReadingFacts ==
  ASSUME CacheInv, ~ BadMagic(bin), pc # "write"
  PROVE  \E t \in Tables : IF bin = Fields(t) THEN ~ Panics(bin) /\ (t = gz \/ "old cache" \in faults)
                           ELSE Panics(bin) /\ "torn cache" \in faults
  <1>1. bin # NoFile /\ ~ (Len(bin) < 2)
    BY DEF BadMagic
  <1>2. PICK t \in Tables : \E m \in 0..Len(Fields(t)) :
          /\ Cached(bin, t, m)
          /\ m = 2 + 2 * t.n => t = gz \/ "old cache" \in faults
          /\ m >= 2 /\ m # 2 + 2 * t.n => pc = "write" \/ "torn cache" \in faults
    BY <1>1 DEF CacheInv
  <1>3. PICK m \in 0..Len(Fields(t)) :
          /\ Cached(bin, t, m)
          /\ m = 2 + 2 * t.n => t = gz \/ "old cache" \in faults
          /\ m >= 2 /\ m # 2 + 2 * t.n => pc = "write" \/ "torn cache" \in faults
    BY <1>2
  <1>4. m \in Nat /\ Len(bin) = m
    BY <1>3, CachedFacts
  <1>5. m >= 2
    BY <1>1, <1>4
  <1>6. bin[2] = t.n
    BY <1>3, <1>5, CachedFacts
  <1>7. bin = Fields(t) <=> m = 2 + 2 * t.n
    BY <1>3, CachedFacts
  <1>8. t.n \in Nat
    BY TableFacts
  <1>9. Panics(bin) <=> (m < 2 \/ m < 2 + 2 * t.n)
    <2>1. Panics(bin) <=> (Len(bin) < 2 \/ Len(bin) < 2 + 2 * bin[2])
      BY DEF Panics
    <2> QED
      BY <1>4, <1>6, <2>1, Zenon
  <1>10. m <= 2 + 2 * t.n
    <2>1. Len(Fields(t)) = 2 + 2 * t.n
      BY FieldsFacts
    <2> QED
      BY <1>8, <2>1
  <1>11. m < 2 + 2 * t.n <=> m # 2 + 2 * t.n
    BY <1>4, <1>8, <1>10
  <1>12. Panics(bin) <=> bin # Fields(t)
    BY <1>4, <1>5, <1>7, <1>9, <1>11
  <1> QED
    BY <1>3, <1>5, <1>7, <1>12

LEMMA InvLoad ==
  ASSUME IInv, Load
  PROVE  IInv'
  <1>1. ProgramInv'
    BY DEF IInv, ProgramInv, Load
  <1>2. CacheInv'
    BY CacheKept DEF IInv, Load
  <1>3. IndexInv'
    BY IndexKept DEF IInv, Load
  <1>4. CASE BadMagic(bin)
    <2>1. pc' = "decode" /\ bin' = bin /\ gz' = gz
      BY <1>4 DEF Load
    <2>2. TableInv'
      BY <1>4, <2>1 DEF IInv, TableInv, BadMagic
    <2>3. ServesReferences' /\ FailsWithCause'
      BY <2>1 DEF ServesReferences, FailsWithCause
    <2> QED
      BY <1>1, <1>2, <1>3, <2>2, <2>3 DEF IInv
  <1>5. CASE ~ BadMagic(bin)
    <2>1. PICK t \in Tables : IF bin = Fields(t)
                             THEN ~ Panics(bin) /\ (t = gz \/ "old cache" \in faults)
                             ELSE Panics(bin) /\ "torn cache" \in faults
      BY <1>5, ReadingFacts DEF IInv, Load
    <2>2. CASE Panics(bin)
      <3>1. pc' = "failed" /\ UNCHANGED <<gz, program, faults>> /\ program # "mmap"
        BY <1>5, <2>2 DEF Load, IInv, ProgramInv
      <3>2. "torn cache" \in faults
        BY <2>1, <2>2
      <3>3. TableInv' /\ ServesReferences' /\ FailsWithCause'
        BY <3>1, <3>2 DEF IInv, TableInv, ServesReferences, FailsWithCause
      <3> QED
        BY <1>1, <1>2, <1>3, <3>3 DEF IInv
    <2>3. CASE ~ Panics(bin)
      <3>1. pc' = "build" /\ refs' = LoadBin(bin) /\ UNCHANGED <<gz, faults>>
        BY <1>5, <2>3 DEF Load
      <3>2. refs' = t /\ (t = gz \/ "old cache" \in faults)
        <4>1. bin = Fields(t) /\ (t = gz \/ "old cache" \in faults)
          BY <2>1, <2>3
        <4>2. LoadBin(Fields(t)) = t
          BY LoadsBack
        <4> QED
          BY <3>1, <4>1, <4>2
      <3> QED
        BY <1>1, <1>2, <1>3, <3>1, <3>2 DEF IInv, TableInv, ServesReferences, FailsWithCause
    <2> QED
      BY <2>2, <2>3
  <1> QED
    BY <1>4, <1>5

LEMMA InvDecode ==
  ASSUME IInv, Decode
  PROVE  IInv'
  <1>1. ProgramInv'
    BY DEF IInv, ProgramInv, Decode
  <1>2. gz \in Tables /\ 0 \in 0..Len(Fields(gz)) /\ Cached(<<>>, gz, 0) /\ gz.n \in Nat
    <2>1. gz \in Tables
      BY DEF IInv, TableInv, Decode
    <2>2. gz.n \in Nat /\ Len(Fields(gz)) = 2 + 2 * gz.n
      BY <2>1, TableFacts, FieldsFacts
    <2>3. 0 \in 0..Len(Fields(gz))
      BY <2>2
    <2>4. <<>> = [i \in 1..0 |-> Fields(gz)[i]]
      <3>1. 1..0 = {}
        OBVIOUS
      <3> QED
        BY <3>1
    <2> QED
      BY <2>1, <2>2, <2>3, <2>4 DEF Cached
  <1>3. bin' = <<>> /\ gz' = gz /\ refs' = gz /\ pc' = "write"
    BY DEF Decode
  <1>4. CacheInv'
    <2>1. 0 # 2 + 2 * gz.n /\ ~ (0 >= 2)
      BY <1>2
    <2>2. Cached(bin', gz', 0) /\ gz' \in Tables /\ 0 \in 0..Len(Fields(gz'))
          /\ 0 # 2 + 2 * gz'.n
      BY <1>2, <1>3, <2>1
    <2>3. \E t \in Tables : \E m \in 0..Len(Fields(t)) :
            /\ Cached(bin', t, m)
            /\ m = 2 + 2 * t.n => t = gz' \/ "old cache" \in faults'
            /\ m >= 2 /\ m # 2 + 2 * t.n => pc' = "write" \/ "torn cache" \in faults'
      BY <1>3, <2>2
    <2> QED
      BY <2>3 DEF CacheInv, Cached
  <1>5. TableInv'
    <2>1. \E m \in 0..Len(Fields(refs')) : Cached(bin', refs', m)
      BY <1>2, <1>3
    <2> QED
      BY <1>2, <1>3, <2>1 DEF TableInv, Cached
  <1>6. IndexInv'
    BY IndexKept DEF IInv, Decode
  <1>7. ServesReferences' /\ FailsWithCause'
    BY <1>3 DEF ServesReferences, FailsWithCause
  <1> QED
    BY <1>1, <1>4, <1>5, <1>6, <1>7 DEF IInv

LEMMA InvFlush ==
  ASSUME IInv, Flush
  PROVE  IInv'
  <1> DEFINE m == Len(bin) + 1
  <1>1. ProgramInv'
    BY DEF IInv, ProgramInv, Flush
  <1>2. /\ refs \in Tables /\ refs = gz /\ refs.n \in Nat
        /\ Len(bin) \in 0..Len(Fields(refs)) /\ Len(Fields(refs)) = 2 + 2 * refs.n
    BY WritingFacts DEF IInv, Flush
  <1>3. m \in 0..Len(Fields(refs)) /\ m \in Nat
    BY <1>2 DEF Flush
  <1>4. Cached(bin', refs, m)
    <2>1. bin' = SubSeq(Fields(refs), 1, m)
      BY DEF Flush
    <2> DEFINE f == Fields(refs)  S == {f[i] : i \in 1..Len(f)}
    <2>2. f \in Seq(S)
      <3>1. f = [i \in 1..Len(f) |-> f[i]] /\ Len(f) \in Nat
        BY <1>2, FieldsFacts
      <3>2. \A i \in 1..Len(f) : f[i] \in S
        OBVIOUS
      <3> HIDE DEF f, S
      <3> QED
        BY <3>1, <3>2, IsSeq
    <2>3. SubSeq(f, 1, m) = [i \in 1..m |-> f[i]]
      <3> HIDE DEF f, S, m
      <3>1. 1 \in 1..(Len(f) + 1) /\ m \in 0..Len(f)
        BY <1>3, <2>2, LenProperties DEF f
      <3>2. /\ SubSeq(f, 1, m) \in Seq(S)
            /\ Len(SubSeq(f, 1, m)) = IF 1 <= m THEN m - 1 + 1 ELSE 0
            /\ \A i \in 1..(m - 1 + 1) : SubSeq(f, 1, m)[i] = f[1 + i - 1]
        BY <2>2, <3>1, SubSeqProperties
      <3>3. SubSeq(f, 1, m) = [i \in 1..Len(SubSeq(f, 1, m)) |-> SubSeq(f, 1, m)[i]]
        BY <3>2, LenProperties
      <3>4. Len(SubSeq(f, 1, m)) = m /\ m - 1 + 1 = m
        BY <1>3, <3>2
      <3>5. \A i \in 1..m : SubSeq(f, 1, m)[i] = f[i]
        BY <1>3, <3>2, <3>4
      <3> QED
        BY <3>3, <3>4, <3>5
    <2> QED
      BY <1>3, <2>1, <2>3 DEF Cached
  <1>5. pc' = "write" /\ UNCHANGED <<gz, refs, kd, idx, faults, dir, todo>> /\ pc = "write"
    BY DEF Flush
  <1> HIDE DEF m
  <1>6. CacheInv'
    <2>1. \E t \in Tables : \E i \in 0..Len(Fields(t)) :
            /\ Cached(bin', t, i)
            /\ i = 2 + 2 * t.n => t = gz' \/ "old cache" \in faults'
            /\ i >= 2 /\ i # 2 + 2 * t.n => pc' = "write" \/ "torn cache" \in faults'
      BY <1>2, <1>3, <1>4, <1>5
    <2> QED
      BY <2>1 DEF CacheInv, Cached
  <1>7. TableInv'
    <2>1. \E i \in 0..Len(Fields(refs')) : Cached(bin', refs', i)
      BY <1>3, <1>4, <1>5
    <2> QED
      BY <1>2, <1>5, <2>1 DEF TableInv, Cached
  <1>8. IndexInv'
    BY <1>5, IndexKept DEF IInv
  <1>9. ServesReferences' /\ FailsWithCause'
    BY <1>5 DEF ServesReferences, FailsWithCause
  <1> QED
    BY <1>1, <1>6, <1>7, <1>8, <1>9 DEF IInv

LEMMA InvWritten ==
  ASSUME IInv, Written
  PROVE  IInv'
  <1>1. ProgramInv'
    BY DEF IInv, ProgramInv, Written
  <1>2. pc' = "build" /\ UNCHANGED <<gz, bin, refs, kd, idx, faults, dir, todo>> /\ pc = "write" /\ bin = Fields(refs)
    BY DEF Written
  <1>3. /\ refs \in Tables /\ refs = gz /\ refs.n \in Nat
        /\ Len(bin) \in 0..Len(Fields(refs)) /\ Cached(bin, refs, Len(bin))
        /\ bin = Fields(refs) <=> Len(bin) = 2 + 2 * refs.n
    BY <1>2, WritingFacts DEF IInv
  <1>4. CacheInv'
    <2>1. \E t \in Tables : \E i \in 0..Len(Fields(t)) :
            /\ Cached(bin', t, i)
            /\ i = 2 + 2 * t.n => t = gz' \/ "old cache" \in faults'
            /\ i >= 2 /\ i # 2 + 2 * t.n => pc' = "write" \/ "torn cache" \in faults'
      BY <1>2, <1>3
    <2> QED
      BY <2>1 DEF CacheInv, Cached
  <1>5. TableInv'
    BY <1>2, <1>3 DEF TableInv
  <1>6. IndexInv'
    BY <1>2, IndexKept DEF IInv
  <1>7. ServesReferences' /\ FailsWithCause'
    BY <1>2 DEF ServesReferences, FailsWithCause
  <1> QED
    BY <1>1, <1>4, <1>5, <1>6, <1>7 DEF IInv

LEMMA InvBuild ==
  ASSUME IInv, Build
  PROVE  IInv'
  <1> USE DEF Build
  <1>1. ProgramInv'
    BY DEF IInv, ProgramInv
  <1>2. CacheInv'
    BY CacheKept DEF IInv
  <1>3. refs \in Tables /\ (refs = gz \/ "old cache" \in faults)
    BY DEF IInv, TableInv
  <1>4. TableInv'
    BY <1>3 DEF IInv, TableInv
  <1>5. IndexInv'
    BY IndexKept DEF IInv
  <1>6. ServesReferences'
    <2>1. \E t \in Tables : Used(kd') = Used(BuiltKD(t)) /\ (t = gz' \/ "old cache" \in faults')
      BY <1>3
    <2>2. program' # "mmap"
      BY DEF IInv, ProgramInv
    <2> QED
      BY <2>1, <2>2 DEF ServesReferences, Used
  <1>7. FailsWithCause'
    BY DEF FailsWithCause
  <1> QED
    BY <1>1, <1>2, <1>4, <1>5, <1>6, <1>7 DEF IInv

LEMMA InvCreate ==
  ASSUME IInv, Create
  PROVE  IInv'
  <1> USE DEF Create
  <1>1. ProgramInv'
    BY DEF IInv, ProgramInv
  <1>2. CacheInv'
    BY CacheKept DEF IInv
  <1>3. TableInv'
    BY DEF IInv, TableInv
  <1>4. IndexInv'
    <2>1. idx' = Created /\ dir' = Dir(kd) /\ kd' = kd /\ pc' = "truncate"
      OBVIOUS
    <2>2. Created' = Created /\ Dir(kd)' = Dir(kd')
      BY DEF Created
    <2> QED
      BY <2>1, <2>2 DEF IndexInv
  <1>5. ServesReferences' /\ FailsWithCause'
    BY DEF ServesReferences, FailsWithCause
  <1> QED
    BY <1>1, <1>2, <1>3, <1>4, <1>5 DEF IInv

LEMMA InvTruncate ==
  ASSUME IInv, Truncate
  PROVE  IInv'
  <1>1. ProgramInv'
    BY DEF IInv, ProgramInv, Truncate
  <1>2. CacheInv'
    BY CacheKept DEF IInv, Truncate
  <1>3. TableInv'
    BY DEF IInv, TableInv, Truncate
  <1>4. IndexInv'
    <2>1. /\ idx = [size |-> 0, slices |-> <<>>] /\ dir = Dir(kd)
          /\ idx' = [idx EXCEPT !.size = dir[15].Off[5]]
          /\ pc' = "copy" /\ kd' = kd
      <3>1. idx = Created /\ dir = Dir(kd)
        BY DEF Truncate, IInv, IndexInv
      <3>2. idx' = [idx EXCEPT !.size = dir[numBuckets - 1].Off[5]] /\ pc' = "copy" /\ kd' = kd
        BY DEF Truncate, Truncated
      <3>3. numBuckets - 1 = 15
        BY Numbers
      <3> QED
        BY <3>1, <3>2, <3>3 DEF Created
    <2>2. todo' = [c \in Full(kd) |-> All(kd)[c]]
      <3>1. Copies(kd, dir) = All(kd)
        BY <2>1 DEF All
      <3>2. todo' = [c \in {i \in DOMAIN Copies(kd, dir) : Copies(kd, dir)[i].len > 0} |-> Copies(kd, dir)[c]]
        BY DEF Truncate
      <3> QED
        BY <3>1, <3>2 DEF Full
    <2>3. idx' = [size |-> Dir(kd)[15].Off[5], slices |-> <<>>]
      BY <2>1
    <2>4. Holds(idx', kd', DOMAIN todo')
      <3>1. idx'.slices = <<>> /\ idx'.size = Dir(kd)[15].Off[5]
        BY <2>3
      <3>2. Len(idx'.slices) = 0 /\ 1..0 = {} /\ 0 \in Nat
        BY <3>1
      <3>3. idx'.slices = [k \in 1..0 |-> idx'.slices[k]]
        BY <3>1, <3>2
      <3>4. DOMAIN todo' = Full(kd)
        BY <2>2
      <3>5. \A k \in 1..Len(idx'.slices) : \E i \in Full(kd) : idx'.slices[k] = All(kd)[i]
        BY <3>2
      <3>6. idx' = [size |-> Dir(kd)[15].Off[5], slices |-> idx'.slices]
        BY <2>3, <3>1
      <3> QED
        BY <2>1, <3>2, <3>3, <3>4, <3>5, <3>6 DEF Holds
    <2>5. DOMAIN todo' \subseteq Full(kd') /\ \A i \in DOMAIN todo' : todo'[i] = All(kd')[i]
      BY <2>1, <2>2
    <2> QED
      BY <2>1, <2>4, <2>5 DEF IndexInv, Holds, Full, All
  <1>5. ServesReferences' /\ FailsWithCause'
    BY DEF ServesReferences, FailsWithCause, Truncate
  <1> QED
    BY <1>1, <1>2, <1>3, <1>4, <1>5 DEF IInv

(* The least of the copies still to make is one of them. *)
LEMMA NextCopy ==
  ASSUME IInv, Copy
  PROVE  Min(DOMAIN todo) \in DOMAIN todo
  <1>1. PICK t \in Tables : kd = BuiltKD(t)
    BY DEF IInv, TableInv, Copy
  <1>2. DOMAIN todo \subseteq Full(kd) /\ DOMAIN todo # {}
    BY DEF IInv, IndexInv, Copy
  <1>3. t.n \in Nat /\ \A i \in Full(kd) : i \in 1..(67 + t.n)
    <2>1. t.n \in Nat
      BY TableFacts
    <2>2. \A i \in Full(BuiltKD(t)) : i \in 1..(67 + t.n)
      BY FullFacts, SMTT(60)
    <2> QED
      BY <1>1, <2>1, <2>2
  <1>4. DOMAIN todo \subseteq 0..(67 + t.n) /\ 67 + t.n \in Nat
    BY <1>2, <1>3
  <1> QED
    BY <1>2, <1>4, MinIn

LEMMA InvCopy ==
  ASSUME IInv, Copy
  PROVE  IInv'
  <1>1. ProgramInv'
    BY DEF IInv, ProgramInv, Copy
  <1>2. CacheInv'
    BY CacheKept DEF IInv, Copy
  <1>3. TableInv'
    BY DEF IInv, TableInv, Copy
  <1>4. IndexInv'
    <2> DEFINE c == Min(DOMAIN todo)  s == idx.slices  a == Append(idx.slices, todo[c])  m == Len(idx.slices)
    <2>1. c \in DOMAIN todo
      BY NextCopy
    <2>2. /\ pc' = "copy" /\ kd' = kd /\ pc = "copy"
          /\ idx' = [idx EXCEPT !.slices = a]
          /\ todo' = [i \in DOMAIN todo \ {c} |-> todo[i]]
      BY DEF Copy
    <2>3. /\ DOMAIN todo \subseteq Full(kd)
          /\ \A i \in DOMAIN todo : todo[i] = All(kd)[i]
          /\ Holds(idx, kd, DOMAIN todo)
      BY <2>2 DEF IInv, IndexInv
    <2>4. /\ idx = [size |-> Dir(kd)[15].Off[5], slices |-> s]
          /\ m \in Nat /\ s = [k \in 1..m |-> s[k]]
          /\ \A k \in 1..m : \E i \in Full(kd) : s[k] = All(kd)[i]
          /\ \A i \in Full(kd) \ DOMAIN todo : \E k \in 1..m : s[k] = All(kd)[i]
      BY <2>3 DEF Holds
    <2>5. Len(a) = m + 1 /\ a = [k \in 1..(m + 1) |-> a[k]]
          /\ (\A k \in 1..m : a[k] = s[k])
          /\ a[m + 1] = todo[c]
      BY <2>4, Appended
    <2>6. idx' = [size |-> Dir(kd)[15].Off[5], slices |-> a]
      <3> HIDE DEF a, s
      <3> QED
        BY <2>2, <2>4
    <2>7. DOMAIN todo' = DOMAIN todo \ {c} /\ \A i \in DOMAIN todo' : todo'[i] = todo[i]
      BY <2>2
    <2> HIDE DEF c, s, a, m
    <2>8. todo[c] = All(kd)[c] /\ c \in Full(kd)
      BY <2>1, <2>3
    <2>9. \A k \in 1..(m + 1) : k = m + 1 \/ k \in 1..m
      BY <2>4
    <2>10. \A k \in 1..(m + 1) : \E i \in Full(kd) : a[k] = All(kd)[i]
      <3>1. a[m + 1] = All(kd)[c] /\ c \in Full(kd)
        BY ONLY <2>5, <2>8
      <3>2. \A k \in 1..m : \E i \in Full(kd) : a[k] = All(kd)[i]
        <4>1. ASSUME NEW k \in 1..m PROVE \E i \in Full(kd) : a[k] = All(kd)[i]
          <5>1. a[k] = s[k]
            BY ONLY <2>5
          <5>2. PICK i \in Full(kd) : s[k] = All(kd)[i]
            BY ONLY <2>4
          <5> QED
            BY ONLY <5>1, <5>2
        <4> QED
          BY <4>1
      <3> QED
        BY ONLY <2>9, <3>1, <3>2
    <2>11. \A i \in Full(kd) \ DOMAIN todo' : \E k \in 1..(m + 1) : a[k] = All(kd)[i]
      <3>1. ASSUME NEW i \in Full(kd) \ DOMAIN todo' PROVE \E k \in 1..(m + 1) : a[k] = All(kd)[i]
        <4>1. CASE i = c
          <5>1. m + 1 \in 1..(m + 1)
            BY <2>4
          <5> QED
            BY <2>5, <2>8, <4>1, <5>1
        <4>2. CASE i # c
          <5>1. i \in Full(kd) \ DOMAIN todo
            BY <2>7, <4>2
          <5>2. PICK k \in 1..m : s[k] = All(kd)[i]
            BY <2>4, <5>1
          <5>3. k \in 1..(m + 1)
            BY <2>4
          <5> QED
            BY <2>5, <5>2, <5>3
        <4> QED
          BY <4>1, <4>2
      <3> QED
        BY <3>1
    <2>12. Holds(idx', kd', DOMAIN todo')
      <3>1. idx'.slices = a /\ kd' = kd /\ m + 1 \in Nat
        BY <2>2, <2>4, <2>6
      <3> QED
        BY <2>5, <2>6, <2>10, <2>11, <3>1 DEF Holds
    <2>13. DOMAIN todo' \subseteq Full(kd') /\ \A i \in DOMAIN todo' : todo'[i] = All(kd')[i]
      BY <2>2, <2>3, <2>7
    <2> QED
      BY <2>2, <2>12, <2>13 DEF IndexInv, Holds, Full, All
  <1>5. ServesReferences' /\ FailsWithCause'
    BY DEF ServesReferences, FailsWithCause, Copy
  <1> QED
    BY <1>1, <1>2, <1>3, <1>4, <1>5 DEF IInv

LEMMA InvCopied ==
  ASSUME IInv, Copied
  PROVE  IInv'
  <1>1. ProgramInv'
    BY DEF IInv, ProgramInv, Copied
  <1>2. CacheInv'
    BY CacheKept DEF IInv, Copied
  <1>3. TableInv'
    BY DEF IInv, TableInv, Copied
  <1>4. IndexInv'
    <2>1. PICK t \in Tables : kd = BuiltKD(t)
      BY DEF IInv, TableInv, Copied
    <2>2. Holds(idx, BuiltKD(t), {})
      BY <2>1 DEF IInv, IndexInv, Copied
    <2>3. idx' = idx /\ pc' = "off"
      BY DEF Copied
    <2>4. \E u \in Tables : Holds(idx', BuiltKD(u), {})
      BY <2>2, <2>3
    <2> QED
      BY <2>3, <2>4 DEF IndexInv, Holds
  <1>5. ServesReferences' /\ FailsWithCause'
    BY DEF ServesReferences, FailsWithCause, Copied
  <1> QED
    BY <1>1, <1>2, <1>3, <1>4, <1>5 DEF IInv

LEMMA InvOpenIndex ==
  ASSUME IInv, OpenIndex
  PROVE  IInv'
  <1>1. ProgramInv'
    BY DEF IInv, ProgramInv, OpenIndex
  <1>2. CacheInv'
    BY CacheKept DEF IInv, OpenIndex
  <1>3. TableInv'
    BY DEF IInv, TableInv, OpenIndex
  <1>4. IndexInv'
    BY IndexKept DEF IInv, OpenIndex
  <1>5. /\ program = "mmap" /\ UNCHANGED <<program, idx, faults, gz>>
        /\ idx = NoFile \/ "torn index" \in faults \/ \E t \in Tables : Holds(idx, BuiltKD(t), {})
    BY DEF IInv, ProgramInv, IndexInv, OpenIndex
  <1>6. CASE Refused(idx)
    <2>1. pc' = "failed"
      BY <1>6 DEF OpenIndex
    <2>2. idx = NoFile \/ "torn index" \in faults
      BY <1>5, <1>6, OpensWhole
    <2>3. FailsWithCause' /\ ServesReferences'
      BY <1>5, <2>1, <2>2 DEF FailsWithCause, ServesReferences
    <2> QED
      BY <1>1, <1>2, <1>3, <1>4, <2>3 DEF IInv
  <1>7. CASE ~ Refused(idx)
    <2>1. pc' = "serve" /\ kd' = Open(idx)
      BY <1>7 DEF OpenIndex
    <2>2. "torn index" \in faults \/ \E t \in Tables : Used(Open(idx)) = Used(BuiltKD(t))
      <3>1. idx # NoFile
        BY <1>7 DEF Refused
      <3> QED
        BY <1>5, <3>1, OpensWhole
    <2>3. ServesReferences'
      <3>1. "torn index" \in faults' \/ \E t \in Tables : Used(kd') = Used(BuiltKD(t))
        BY <1>5, <2>1, <2>2
      <3> QED
        BY <1>5, <3>1 DEF ServesReferences, Used
    <2>4. FailsWithCause'
      BY <2>1 DEF FailsWithCause
    <2> QED
      BY <1>1, <1>2, <1>3, <1>4, <2>3, <2>4 DEF IInv
  <1> QED
    BY <1>6, <1>7

LEMMA InvKill ==
  ASSUME IInv, Kill
  PROVE  IInv'
  <1>1. ProgramInv'
    BY DEF ProgramInv, Kill
  <1>2. UNCHANGED <<gz, bin, idx>> /\ pc' = "off"
        /\ ("old cache" \in faults => "old cache" \in faults')
        /\ ("torn cache" \in faults => "torn cache" \in faults')
        /\ ("torn index" \in faults => "torn index" \in faults')
    BY DEF Kill, TornCache, TornIndex
  <1>3. CacheInv'
    <2>1. CASE pc = "write"
      <3>1. /\ refs \in Tables /\ refs = gz /\ refs.n \in Nat
            /\ Len(bin) \in 0..Len(Fields(refs)) /\ Cached(bin, refs, Len(bin))
            /\ bin = Fields(refs) <=> Len(bin) = 2 + 2 * refs.n
        BY <2>1, WritingFacts DEF IInv
      <3>2. Len(bin) >= 2 /\ bin # Fields(refs) => "torn cache" \in faults'
        BY <2>1 DEF Kill, TornCache, TornIndex
      <3>3. \E t \in Tables : \E i \in 0..Len(Fields(t)) :
              /\ Cached(bin', t, i)
              /\ i = 2 + 2 * t.n => t = gz' \/ "old cache" \in faults'
              /\ i >= 2 /\ i # 2 + 2 * t.n => pc' = "write" \/ "torn cache" \in faults'
        BY <1>2, <3>1, <3>2
      <3> QED
        BY <3>3 DEF CacheInv, Cached
    <2>2. CASE pc # "write"
      BY <1>2, <2>2, CacheKept DEF IInv
    <2> QED
      BY <2>1, <2>2
  <1>4. TableInv'
    BY <1>2 DEF IInv, TableInv
  <1>5. IndexInv'
    <2>1. CASE pc = "truncate" \/ (pc = "copy" /\ DOMAIN todo # {})
      <3>1. "torn index" \in faults'
        BY <2>1 DEF Kill, TornCache, TornIndex
      <3> QED
        BY <1>2, <3>1 DEF IndexInv
    <2>2. CASE pc = "copy" /\ DOMAIN todo = {}
      <3>1. PICK t \in Tables : kd = BuiltKD(t)
        BY <2>2 DEF IInv, TableInv
      <3>2. Holds(idx, BuiltKD(t), {})
        BY <2>2, <3>1 DEF IInv, IndexInv
      <3>3. \E u \in Tables : Holds(idx', BuiltKD(u), {})
        BY <1>2, <3>2
      <3> QED
        BY <1>2, <3>3 DEF IndexInv, Holds
    <2>3. CASE pc \notin {"truncate", "copy"}
      BY <1>2, <2>3, IndexKept DEF IInv
    <2> QED
      BY <2>1, <2>2, <2>3
  <1>6. ServesReferences' /\ FailsWithCause'
    BY <1>2 DEF ServesReferences, FailsWithCause
  <1> QED
    BY <1>1, <1>3, <1>4, <1>5, <1>6 DEF IInv

(* A call that fails, but for what the step may have made of the index. *)
LEMMA FailKeeps ==
  ASSUME IInv, Fail
  PROVE  /\ pc' = "failed" /\ UNCHANGED <<gz, bin, program, kd>>
         /\ ProgramInv' /\ CacheInv' /\ TableInv' /\ ServesReferences' /\ FailsWithCause'
         /\ "torn index" \in faults => "torn index" \in faults'
         /\ pc = "truncate" => "torn index" \in faults'
  <1>1. /\ UNCHANGED <<gz, bin, program, kd>> /\ pc' = "failed"
        /\ "failed call" \in faults'
        /\ "old cache" \in faults => "old cache" \in faults'
        /\ "torn cache" \in faults => "torn cache" \in faults'
        /\ "torn index" \in faults => "torn index" \in faults'
    BY DEF Fail
  <1>2. pc = "truncate" => "torn index" \in faults'
    BY DEF Fail, TornIndex
  <1>3. ProgramInv' /\ TableInv' /\ ServesReferences' /\ FailsWithCause'
    BY <1>1 DEF IInv, ProgramInv, TableInv, ServesReferences, FailsWithCause
  <1>4. CacheInv'
    <2>1. CASE pc = "write"
      <3>1. /\ refs \in Tables /\ refs = gz /\ refs.n \in Nat
            /\ Len(bin) \in 0..Len(Fields(refs)) /\ Cached(bin, refs, Len(bin))
            /\ bin = Fields(refs) <=> Len(bin) = 2 + 2 * refs.n
        BY <2>1, WritingFacts DEF IInv
      <3>2. Len(bin) >= 2 /\ bin # Fields(refs) => "torn cache" \in faults'
        BY <2>1 DEF Fail, TornCache
      <3>3. \E t \in Tables : \E i \in 0..Len(Fields(t)) :
              /\ Cached(bin', t, i)
              /\ i = 2 + 2 * t.n => t = gz' \/ "old cache" \in faults'
              /\ i >= 2 /\ i # 2 + 2 * t.n => pc' = "write" \/ "torn cache" \in faults'
        BY <1>1, <3>1, <3>2
      <3> QED
        BY <3>3 DEF CacheInv, Cached
    <2>2. CASE pc # "write"
      BY <1>1, <2>2, CacheKept DEF IInv
    <2> QED
      BY <2>1, <2>2
  <1> QED
    BY <1>1, <1>2, <1>3, <1>4

LEMMA InvFails ==
  ASSUME IInv, DecodeFails \/ WriteFails \/ CreateFails \/ TruncateFails \/ OpenFails
  PROVE  IInv'
  <1>1. Fail
    BY DEF DecodeFails, WriteFails, CreateFails, TruncateFails, OpenFails
  <1>2. pc' = "failed" /\ ("torn index" \in faults => "torn index" \in faults')
    BY <1>1, FailKeeps
  <1>3. IndexInv'
    <2>1. CASE TruncateFails
      <3>1. "torn index" \in faults'
        BY <1>1, <2>1, FailKeeps DEF TruncateFails
      <3> QED
        BY <1>2, <3>1 DEF IndexInv
    <2>2. CASE DecodeFails \/ WriteFails \/ CreateFails \/ OpenFails
      <3>1. UNCHANGED idx /\ pc \in {"decode", "write", "create", "open"}
        BY <2>2 DEF DecodeFails, WriteFails, CreateFails, OpenFails
      <3> QED
        BY <1>2, <3>1, IndexKept DEF IInv
    <2> QED
      BY <2>1, <2>2
  <1> QED
    BY <1>1, <1>3, FailKeeps DEF IInv

LEMMA InvLoadFails ==
  ASSUME IInv, LoadFails
  PROVE  IInv'
  <1>1. /\ pc = "load" /\ pc' = "decode" /\ UNCHANGED <<gz, bin, idx, program, refs, kd>>
        /\ faults' = faults \cup {"failed call"}
    BY DEF LoadFails
  <1>2. ProgramInv' /\ TableInv' /\ ServesReferences' /\ FailsWithCause'
    BY <1>1 DEF IInv, ProgramInv, TableInv, ServesReferences, FailsWithCause
  <1>3. CacheInv'
    BY <1>1, CacheKept DEF IInv
  <1>4. IndexInv'
    BY <1>1, IndexKept DEF IInv
  <1> QED
    BY <1>2, <1>3, <1>4 DEF IInv

(* Without references to decode, the cache was no use: or it could not be read. *)
LEMMA InvNotDecoded ==
  ASSUME IInv, NotDecoded
  PROVE  IInv'
  <1>1. /\ pc = "decode" /\ gz = NoFile /\ pc' = "failed"
        /\ UNCHANGED <<gz, bin, idx, program, refs, kd, faults>>
    BY DEF NotDecoded
  <1>2. program # "mmap" /\ (BadMagic(bin) \/ "failed call" \in faults)
    BY <1>1 DEF IInv, ProgramInv, TableInv
  <1>3. ProgramInv' /\ TableInv' /\ ServesReferences'
    BY <1>1 DEF IInv, ProgramInv, TableInv, ServesReferences
  <1>4. FailsWithCause'
    BY <1>1, <1>2 DEF FailsWithCause, BadMagic
  <1>5. CacheInv'
    BY <1>1, CacheKept DEF IInv
  <1>6. IndexInv'
    BY <1>1, IndexKept DEF IInv
  <1> QED
    BY <1>3, <1>4, <1>5, <1>6 DEF IInv

LEMMA InvNewReferences ==
  ASSUME IInv, NEW t \in Tables \cup {NoFile}, NewReferences(t)
  PROVE  IInv'
  <1>1. pc = "off" /\ pc' = "off" /\ gz' = t /\ UNCHANGED <<idx, program, refs, kd>>
        /\ ("torn index" \in faults => "torn index" \in faults')
    BY DEF NewReferences
  <1>2. ProgramInv' /\ TableInv' /\ ServesReferences' /\ FailsWithCause'
    BY <1>1 DEF ProgramInv, TableInv, ServesReferences, FailsWithCause
  <1>3. IndexInv'
    BY <1>1, IndexKept DEF IInv
  <1>4. CacheInv'
    <2>1. CASE bin' = NoFile
      BY <2>1 DEF CacheInv
    <2>2. CASE bin' = bin /\ faults' = faults \cup {"old cache"}
      BY <1>1, <2>2 DEF IInv, CacheInv, Cached
    <2> QED
      BY <2>1, <2>2 DEF NewReferences
  <1> QED
    BY <1>2, <1>3, <1>4 DEF IInv

LEMMA InvStutter ==
  ASSUME IInv, UNCHANGED vars
  PROVE  IInv'
  <1>1. CacheInv'
    BY DEF vars, IInv, CacheInv, Cached
  <1>2. ProgramInv' /\ TableInv'
    BY DEF vars, IInv, ProgramInv, TableInv, Cached, BadMagic
  <1>3. IndexInv'
    <2>1. UNCHANGED <<pc, idx, kd, dir, todo, faults>>
      BY DEF vars
    <2>2. CASE pc \notin {"truncate", "copy"}
      BY <2>1, <2>2, IndexKept DEF IInv
    <2>3. CASE pc = "truncate"
      BY <2>1, <2>3 DEF IInv, IndexInv, Created
    <2>4. CASE pc = "copy"
      <3>1. /\ DOMAIN todo' \subseteq Full(kd') /\ \A i \in DOMAIN todo' : todo'[i] = All(kd')[i]
            /\ Holds(idx', kd', DOMAIN todo')
        BY <2>1, <2>4 DEF IInv, IndexInv
      <3> QED
        BY <2>1, <2>4, <3>1 DEF IndexInv, Holds, Full, All
    <2> QED
      BY <2>2, <2>3, <2>4
  <1>4. ServesReferences' /\ FailsWithCause'
    BY DEF vars, IInv, ServesReferences, FailsWithCause, Used
  <1> QED
    BY <1>1, <1>2, <1>3, <1>4 DEF IInv

LEMMA InvNext ==
  ASSUME IInv, [Next]_vars
  PROVE  IInv'
  <1>1. CASE Next
    BY <1>1, InvStart, InvLoad, InvLoadFails, InvDecode, InvNotDecoded, InvFails, InvFlush,
       InvWritten, InvBuild, InvCreate, InvTruncate, InvCopy, InvCopied, InvOpenIndex, InvKill,
       InvNewReferences DEF Next
  <1> QED
    BY <1>1, InvStutter

LEMMA Invariance == Spec => []IInv
  BY InvInit, InvNext, PTL DEF Spec

-----------------------------------------------------------------------------
(* What cmd/api serves from is the index of one table, whole: through the index unless
   its last writer was stopped, by a kill or a failing call, through the cache whatever has
   stopped. *)
THEOREM ServesOneTable == Spec => []ServesReferences
  BY Invariance, PTL DEF IInv

(* A start in which no call fails fails only on what a program stopped in the middle has
   left in the file it reads, or because that file is missing: the index, or the
   references when there is no cache. *)
THEOREM FailuresHaveCauses == Spec => []FailsWithCause
  BY Invariance, PTL DEF IInv

(* The sections WriteKD copies are aligned, within the file, and apart. *)
THEOREM SectionsDoNotOverlap == Spec => []SectionsApart
  <1>1. IInv => SectionsApart
    <2>1. SUFFICES ASSUME IInv, pc = "copy", NEW i \in DOMAIN todo
                   PROVE  /\ todo[i].at + todo[i].len <= idx.size
                          /\ \/ todo[i].at % 8 = 0
                             \/ todo[i].at \in labelsBase..(labelsBase + kd.n - 1)
                          /\ \A j \in DOMAIN todo : i # j => ~ Overlaps(todo[i], todo[j])
      BY DEF SectionsApart
    <2>2. PICK t \in Tables : kd = BuiltKD(t)
      BY <2>1 DEF IInv, TableInv
    <2>3. /\ DOMAIN todo \subseteq Full(kd) /\ \A j \in DOMAIN todo : todo[j] = All(kd)[j]
          /\ idx.size = Dir(kd)[15].Off[5]
      BY <2>1 DEF IInv, IndexInv, Holds
    <2>4. kd.n = t.n
      BY <2>2, IndexFacts
    <2>5. /\ All(kd)[i].at + All(kd)[i].len <= Dir(kd)[15].Off[5]
          /\ All(kd)[i].at % 8 = 0 \/ All(kd)[i].at \in 784..(784 + t.n - 1)
      BY <2>2, <2>3, FullFacts
    <2>6. ASSUME NEW j \in DOMAIN todo, i # j PROVE ~ Overlaps(todo[i], todo[j])
      BY <2>2, <2>3, <2>6, Apart
    <2> QED
      BY <2>3, <2>4, <2>5, <2>6, Numbers
  <1> QED
    BY <1>1, Invariance, PTL
=============================================================================
