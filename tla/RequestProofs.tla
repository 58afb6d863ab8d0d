--------------------------- MODULE RequestProofs ----------------------------
(***************************************************************************)
(* What becomes of the bytes of a connection. First their framing: what    *)
(* handle answers depends on the stream alone and not on the reads, and    *)
(* pipelined requests are answered in order: for any clients, requests and *)
(* sizes of reads.                                                         *)
(*                                                                         *)
(* No induction over the stream is needed. handle looks for a blank line   *)
(* and a length in what has arrived; a request that is complete there is   *)
(* the same request in all that will ever arrive (SameRequest), since both *)
(* are looked for from the front. So a round of the loop does what it      *)
(* would do if everything were there, provided rb is what has arrived and  *)
(* is not consumed (Buffered), across a read that ends anywhere. For       *)
(* well-formed requests the consumed part ends where a request ends        *)
(* (Answered), and a request at the front is found whole, whatever its     *)
(* body holds (WholeRequest).                                              *)
(*                                                                         *)
(* Then the parser: a query made of a body is quantized, whatever the      *)
(* body, its numbers and timestamps and the normalization, so that the     *)
(* search may assume it of every query; every step reads on, or parsing    *)
(* ends; the byte behind the body that a bare sign makes it read never     *)
(* counts; and its calendar arithmetic is that of the time package for     *)
(* every range of years.                                                   *)
(*                                                                         *)
(* The first needs that each field keeps its type over any sequence of     *)
(* members (Parsed), and that rounding a fraction of at most 1 to the      *)
(* scale stays within the scale (Clamped).                                 *)
(*                                                                         *)
(* For the second, the recursions of str and skip are shown to define      *)
(* functions, from the end of the body back (ScanDef, PastDef), whose      *)
(* values lie further on (StrFacts, PastFacts); what they find stays in    *)
(* the body since At has no bracket, quote or number to offer behind it.   *)
(* So for the third: a byte behind the body is read at its last quote      *)
(* (LookingBehindIsLast), where no brace is left to end the section        *)
(* (NothingAtEnd).                                                         *)
(*                                                                         *)
(* For the last, daysFromCivil is brought to a closed form, in which the   *)
(* division into eras is gone (ClosedForm). It grows by one from each day  *)
(* to the next, over the ends of months, of February in its three kinds of *)
(* year, and of years (NextDayIsNext), so it counts the days that are      *)
(* walked (TInv).                                                          *)
(***************************************************************************)
EXTENDS HttpFraming, QueryFromBody, Timestamps, SequenceTheorems, FiniteSetTheorems,
        WellFoundedInduction, TLAPS

(* A set of numbers from 0 on has a least one: what the CHOOSEs of HttpRequest pick. *)
LEMMA Least ==
  ASSUME NEW n \in Int, NEW T, T \subseteq 0..n, T # {}
  PROVE  \E x \in T : \A y \in T : x <= y
  <1> DEFINE U == {0..x : x \in T}
  <1>1. U \subseteq FiniteSubsetsOf(0..n) /\ U # {}
    <2>1. U \subseteq SUBSET (0..n)
      OBVIOUS
    <2>2. IsFiniteSet(0..n)
      BY FS_Interval
    <2>3. PICK x \in T : TRUE
      OBVIOUS
    <2>4. 0..x \in U
      OBVIOUS
    <2> HIDE DEF U
    <2> QED
      BY <2>1, <2>2, <2>4, FS_FiniteSubsetsOfFinite
  <1>2. PICK D \in U : \A E \in U : <<E, D>> \notin StrictSubsetOrdering(0..n)
    <2> HIDE DEF U
    <2> QED
      BY <1>1, FS_Interval, FS_StrictSubsetOrderingWellFounded, WFMin
  <1>3. PICK x \in T : D = 0..x
    OBVIOUS
  <1>4. ASSUME NEW y \in T, y < x PROVE FALSE
    <2>1. 0..y \in U /\ 0..y \subseteq D /\ x \in D /\ x \notin 0..y
      BY <1>3, <1>4
    <2>2. <<0..y, D>> \in StrictSubsetOrdering(0..n)
      BY <1>3, <2>1 DEF StrictSubsetOrdering
    <2> QED
      BY <1>2, <2>1, <2>2
  <1>5. \A y \in T : y \in Int /\ x \in Int
    OBVIOUS
  <1> QED
    BY <1>4, <1>5

(* A blank line after i tokens. *)
Pair(s, i) == s[i + 1] = cr2 /\ s[i + 2] = lf2

(* headEnd finds the first one. *)
LEMMA HeadEndFacts ==
  ASSUME NEW s, Len(s) \in Nat
  PROVE  \/ headEnd(s) = -1 /\ \A i \in 0..(Len(s) - 2) : ~ Pair(s, i)
         \/ /\ headEnd(s) \in 0..(Len(s) - 2) /\ Pair(s, headEnd(s))
            /\ \A i \in 0..(headEnd(s) - 1) : ~ Pair(s, i)
  <1> DEFINE at == {i \in 0..(Len(s) - 2) : s[i + 1] = cr2 /\ s[i + 2] = lf2}
  <1>1. headEnd(s) = IF at = {} THEN -1 ELSE CHOOSE i \in at : \A j \in at : i <= j
    BY DEF headEnd
  <1>2. at \subseteq 0..(Len(s) - 2) /\ \A i : i \in at <=> i \in 0..(Len(s) - 2) /\ Pair(s, i)
    BY DEF Pair
  <1> HIDE DEF at
  <1>3. CASE at = {}
    BY <1>1, <1>2, <1>3
  <1>4. CASE at # {}
    <2>1. headEnd(s) \in at /\ \A j \in at : headEnd(s) <= j
      <3>1. \E i \in at : \A j \in at : i <= j
        <4>1. PICK n \in Int : at \subseteq 0..n
          BY <1>2, Len(s) - 2 \in Int
        <4> QED
          BY ONLY <1>4, <4>1, Least
      <3> QED
        BY <1>1, <1>4, <3>1
    <2> QED
      BY <1>2, <2>1
  <1> QED
    BY <1>3, <1>4

LEMMA HeadEndIs ==
  ASSUME NEW s, Len(s) \in Nat, NEW i \in 0..(Len(s) - 2), Pair(s, i),
         \A j \in 0..(i - 1) : ~ Pair(s, j)
  PROVE  headEnd(s) = i
  BY HeadEndFacts

(* The length in a head of tokens is a number. *)
LEMMA LengthIsNatural ==
  ASSUME NEW h \in Seq(Tokens)
  PROVE  contentLength(h) \in Nat
  <1> DEFINE at == {i \in 1..Len(h) : h[i].kind = length}
  <1>1. contentLength(h) = IF at = {} THEN 0 ELSE h[CHOOSE i \in at : \A j \in at : i <= j].val
    BY DEF contentLength
  <1>2. at \subseteq 0..Len(h) /\ \A i \in at : h[i] \in Tokens
    OBVIOUS
  <1> HIDE DEF at
  <1>3. CASE at # {}
    <2>1. PICK i : i = CHOOSE k \in at : \A j \in at : k <= j
      OBVIOUS
    <2>2. i \in at
      <3>1. \E k \in at : \A j \in at : k <= j
        <4>1. PICK n \in Int : at \subseteq 0..n
          BY <1>2, Len(h) \in Int
        <4> QED
          BY ONLY <1>3, <4>1, Least
      <3> QED
        BY <2>1, <3>1
    <2>3. h[i].val \in Nat
      BY <1>2, <2>2 DEF Tokens
    <2> QED
      BY <1>1, <1>3, <2>1, <2>3
  <1> QED
    BY <1>1, <1>3

(* What SubSeq returns. *)
LEMMA Window ==
  ASSUME NEW s \in Seq(Tokens), NEW lo \in 1..(Len(s) + 1), NEW hi \in (lo - 1)..Len(s)
  PROVE  /\ SubSeq(s, lo, hi) \in Seq(Tokens)
         /\ Len(SubSeq(s, lo, hi)) = hi - lo + 1
         /\ \A k \in 1..(hi - lo + 1) : SubSeq(s, lo, hi)[k] = s[lo + k - 1]
  <1>1. \A k \in lo..hi : s[k] \in Tokens
    OBVIOUS
  <1>2. lo \in Int /\ hi \in Int /\ Len(s) \in Nat
    OBVIOUS
  <1> QED
    BY <1>1, <1>2, SubSeqProperties

(* t is the beginning of s. *)
Begins(t, s) == /\ t \in Seq(Tokens) /\ s \in Seq(Tokens) /\ Len(t) <= Len(s)
                /\ \A k \in 1..Len(t) : t[k] = s[k]

(* A part of t is that part of s. *)
LEMMA SamePart ==
  ASSUME NEW s, NEW t, Begins(t, s), NEW lo \in 1..(Len(t) + 1), NEW hi \in (lo - 1)..Len(t)
  PROVE  SubSeq(t, lo, hi) = SubSeq(s, lo, hi)
  <1>1. PICK u, v : u = SubSeq(t, lo, hi) /\ v = SubSeq(s, lo, hi)
    OBVIOUS
  <1>2. t \in Seq(Tokens) /\ s \in Seq(Tokens) /\ Len(t) <= Len(s) /\ Len(t) \in Nat /\ Len(s) \in Nat
    BY DEF Begins
  <1>3. u \in Seq(Tokens) /\ Len(u) = hi - lo + 1 /\ \A k \in 1..(hi - lo + 1) : u[k] = t[lo + k - 1]
    BY <1>1, <1>2, Window
  <1>4. v \in Seq(Tokens) /\ Len(v) = hi - lo + 1 /\ \A k \in 1..(hi - lo + 1) : v[k] = s[lo + k - 1]
    <2>1. lo \in 1..(Len(s) + 1) /\ hi \in (lo - 1)..Len(s)
      BY <1>2
    <2> QED
      BY <1>1, <1>2, <2>1, Window
  <1>5. \A k \in 1..(hi - lo + 1) : t[lo + k - 1] = s[lo + k - 1]
    BY <1>2 DEF Begins
  <1>6. u = v
    BY <1>3, <1>4, <1>5, SeqEqual
  <1> QED
    BY <1>1, <1>6

(* Where a head was found, the parts of the request are numbers and sequences. *)
LEMMA RequestFacts ==
  ASSUME NEW s \in Seq(Tokens), headEnd(s) >= 0
  PROVE  /\ headEnd(s) \in Nat /\ head(s) \in Seq(Tokens) /\ Len(head(s)) = headEnd(s)
         /\ bodyStart(s) = headEnd(s) + 2 /\ bodyStart(s) \in 2..Len(s)
         /\ bodyLen(s) \in Nat /\ total(s) = bodyStart(s) + bodyLen(s) /\ total(s) \in Nat
  <1>1. headEnd(s) \in 0..(Len(s) - 2) /\ Len(s) \in Nat
    <2>1. Len(s) \in Nat /\ headEnd(s) # -1
      OBVIOUS
    <2> QED
      BY <2>1, HeadEndFacts
  <1>2. head(s) \in Seq(Tokens) /\ Len(head(s)) = headEnd(s)
    <2>1. 1 \in 1..(Len(s) + 1) /\ headEnd(s) \in (1 - 1)..Len(s)
      BY <1>1
    <2> QED
      BY <1>1, <2>1, Window DEF head
  <1>3. bodyLen(s) \in Nat
    BY <1>2, LengthIsNatural DEF bodyLen
  <1> QED
    BY <1>1, <1>2, <1>3 DEF bodyStart, total

(* A request that is complete in what has arrived is the same in all that will. *)
LEMMA SameRequest ==
  ASSUME NEW s, NEW t, Begins(t, s), headEnd(t) >= 0
  PROVE  /\ headEnd(s) = headEnd(t) /\ head(s) = head(t) /\ total(s) = total(t)
         /\ bodyStart(s) = bodyStart(t)
         /\ Complete(t) => Complete(s) /\ Answer(s) = Answer(t)
  <1>1. /\ t \in Seq(Tokens) /\ s \in Seq(Tokens) /\ Len(t) <= Len(s) /\ Len(t) \in Nat /\ Len(s) \in Nat
        /\ \A k \in 1..Len(t) : t[k] = s[k]
    BY DEF Begins
  <1>2. PICK e : e = headEnd(t) /\ e \in 0..(Len(t) - 2) /\ Pair(t, e) /\ \A i \in 0..(e - 1) : ~ Pair(t, i)
    BY <1>1, HeadEndFacts
  <1>3. \A i \in 0..e : Pair(s, i) <=> Pair(t, i)
    <2>1. \A i \in 0..e : i + 1 \in 1..Len(t) /\ i + 2 \in 1..Len(t)
      BY <1>1, <1>2
    <2>2. \A i \in 0..e : s[i + 1] = t[i + 1] /\ s[i + 2] = t[i + 2]
      BY <1>1, <2>1
    <2> QED
      BY <2>2 DEF Pair
  <1>4. headEnd(s) = e
    <2>1. e \in 0..(Len(s) - 2) /\ Pair(s, e) /\ \A i \in 0..(e - 1) : ~ Pair(s, i)
      BY <1>1, <1>2, <1>3
    <2> QED
      BY <1>1, <2>1, HeadEndIs
  <1>5. head(s) = head(t)
    <2>1. 1 \in 1..(Len(t) + 1) /\ e \in (1 - 1)..Len(t)
      BY <1>1, <1>2
    <2> QED
      BY <1>2, <1>4, <2>1, SamePart DEF head
  <1>6. bodyStart(s) = bodyStart(t) /\ bodyLen(s) = bodyLen(t) /\ total(s) = total(t)
    BY <1>2, <1>4, <1>5 DEF bodyStart, bodyLen, total
  <1>7. ASSUME Complete(t) PROVE Complete(s) /\ Answer(s) = Answer(t)
    <2>1. total(t) <= Len(t) /\ total(t) \in Nat /\ bodyStart(t) \in Nat /\ bodyStart(t) <= total(t)
      BY <1>1, <1>7, RequestFacts DEF Complete
    <2>2. SubSeq(s, bodyStart(t) + 1, total(t)) = SubSeq(t, bodyStart(t) + 1, total(t))
      <3>1. bodyStart(t) + 1 \in 1..(Len(t) + 1) /\ total(t) \in ((bodyStart(t) + 1) - 1)..Len(t)
        BY <1>1, <2>1
      <3> QED
        BY <3>1, SamePart
    <2>3. Complete(s)
      BY <1>1, <1>2, <1>4, <1>6, <2>1 DEF Complete
    <2> QED
      BY <1>5, <1>6, <2>2, <2>3 DEF Answer
  <1> QED
    BY <1>2, <1>4, <1>5, <1>6, <1>7

-----------------------------------------------------------------------------
(* Well-formed requests. *)

(* c is a with b behind it. *)
Joins(c, a, b) == /\ c \in Seq(Tokens) /\ Len(c) = Len(a) + Len(b)
                  /\ \A k \in 1..Len(a) : c[k] = a[k]
                  /\ \A k \in 1..Len(b) : c[Len(a) + k] = b[k]

LEMMA Joined ==
  ASSUME NEW a \in Seq(Tokens), NEW b \in Seq(Tokens)
  PROVE  Joins(a \o b, a, b)
  BY DEF Joins

(* Where the parts of q are in e; n headers, and m tokens of body. *)
Encodes(e, q, n, m) ==
  /\ n \in Nat /\ m \in Nat /\ e \in Seq(Tokens) /\ Len(e) = n + m + 3
  /\ e[1] = q.line /\ \A k \in 1..n : e[k + 1] = q.headers[k]
  /\ e[n + 2] = cr2 /\ e[n + 3] = lf2 /\ \A k \in 1..m : e[n + 3 + k] = q.body[k]

(* Where Encode puts them. *)
LEMMA EncodeFacts ==
  ASSUME NEW q, WellFormed(q), NEW n, n = Len(q.headers), NEW m, m = Len(q.body)
  PROVE  Encodes(Encode(q), q, n, m)
  <1>1. q.line \in Tokens /\ q.headers \in Seq(Tokens) /\ q.body \in Seq(Tokens)
    BY DEF WellFormed
  <1>2. cr2 \in Tokens /\ lf2 \in Tokens
    BY DEF cr2, lf2, Token, Tokens
  <1>3. PICK a, b, c, d : a = <<q.line>> /\ b = q.headers /\ c = <<cr2, lf2>> /\ d = q.body
    OBVIOUS
  <1>4. /\ a \in Seq(Tokens) /\ b \in Seq(Tokens) /\ c \in Seq(Tokens) /\ d \in Seq(Tokens)
        /\ Len(a) = 1 /\ Len(b) = n /\ Len(c) = 2 /\ Len(d) = m /\ n \in Nat /\ m \in Nat
        /\ a[1] = q.line /\ c[1] = cr2 /\ c[2] = lf2
    BY <1>1, <1>2, <1>3
  <1>5. PICK u, v, e : u = a \o b /\ v = u \o c /\ e = v \o d
    OBVIOUS
  <1>6. u \in Seq(Tokens) /\ Len(u) = n + 1 /\ u[1] = a[1] /\ \A k \in 1..n : u[k + 1] = b[k]
    <2>1. Joins(u, a, b)
      BY <1>4, <1>5, Joined, Zenon
    <2>2. \A k \in 1..n : u[1 + k] = b[k]
      BY ONLY <1>4, <2>1 DEF Joins
    <2> QED
      BY ONLY <1>4, <2>1, <2>2 DEF Joins
  <1>7. /\ v \in Seq(Tokens) /\ Len(v) = n + 3 /\ v[1] = a[1] /\ v[n + 2] = c[1] /\ v[n + 3] = c[2]
        /\ \A k \in 1..n : v[k + 1] = b[k]
    <2>1. Joins(v, u, c)
      BY <1>4, <1>5, <1>6, Joined, Zenon
    <2> QED
      BY ONLY <1>4, <1>6, <2>1 DEF Joins
  <1>8. /\ e \in Seq(Tokens) /\ Len(e) = n + m + 3 /\ e[1] = a[1] /\ \A k \in 1..n : e[k + 1] = b[k]
        /\ e[n + 2] = c[1] /\ e[n + 3] = c[2] /\ \A k \in 1..m : e[n + 3 + k] = d[k]
    <2>1. Joins(e, v, d)
      BY <1>4, <1>5, <1>7, Joined, Zenon
    <2>2. /\ e \in Seq(Tokens) /\ Len(e) = n + m + 3
          /\ \A k \in 1..(n + 3) : e[k] = v[k]
          /\ \A k \in 1..m : e[n + 3 + k] = d[k]
      BY ONLY <1>4, <1>7, <2>1 DEF Joins
    <2>3. /\ 1 \in 1..(n + 3) /\ n + 2 \in 1..(n + 3) /\ n + 3 \in 1..(n + 3)
          /\ \A k \in 1..n : k + 1 \in 1..(n + 3)
      BY ONLY <1>4
    <2> QED
      BY ONLY <1>7, <2>2, <2>3
  <1>9. e = Encode(q)
    BY <1>3, <1>5 DEF Encode
  <1>10. Encodes(e, q, n, m)
    BY ONLY <1>3, <1>4, <1>8 DEF Encodes
  <1> QED
    BY <1>9, <1>10

(* A well-formed request at the front of s is found, whole, and answered as expected. *)
LEMMA WholeRequest ==
  ASSUME NEW q, WellFormed(q), NEW s, Begins(Encode(q), s)
  PROVE  /\ headEnd(s) >= 0 /\ total(s) = Len(Encode(q)) /\ Complete(s) /\ Answer(s) = Expected(q)
  <1>1. PICK n, m, e : n = Len(q.headers) /\ m = Len(q.body) /\ e = Encode(q)
    OBVIOUS
  <1>2. /\ n \in Nat /\ m \in Nat /\ e \in Seq(Tokens) /\ Len(e) = n + m + 3
        /\ e[1] = q.line /\ \A k \in 1..n : e[k + 1] = q.headers[k]
        /\ e[n + 2] = cr2 /\ e[n + 3] = lf2 /\ \A k \in 1..m : e[n + 3 + k] = q.body[k]
    <2>1. Encodes(e, q, n, m)
      BY <1>1, EncodeFacts, Zenon
    <2> QED
      BY ONLY <2>1 DEF Encodes
  <1>3. s \in Seq(Tokens) /\ Len(s) \in Nat /\ Len(e) <= Len(s) /\ \A k \in 1..Len(e) : s[k] = e[k]
    BY <1>1 DEF Begins
  <1>4. /\ s[1] = q.line /\ \A k \in 1..n : s[k + 1] = q.headers[k]
        /\ s[n + 2] = cr2 /\ s[n + 3] = lf2 /\ \A k \in 1..m : s[n + 3 + k] = q.body[k]
    <2>1. /\ 1 \in 1..Len(e) /\ n + 2 \in 1..Len(e) /\ n + 3 \in 1..Len(e)
          /\ \A k \in 1..n : k + 1 \in 1..Len(e)
          /\ \A k \in 1..m : n + 3 + k \in 1..Len(e)
      BY <1>2
    <2> QED
      BY <1>2, <1>3, <2>1
  <1>5. q.line.kind \in Lines /\ q.line # cr2 /\ \A k \in 1..n : q.headers[k] # cr2
    <2>1. /\ q.line.kind \in Lines /\ \A k \in 1..n : q.headers[k] \notin {cr2, lf2}
      BY <1>1, Zenon DEF WellFormed
    <2>2. cr2.kind \notin Lines
      BY DEF cr2, Token, Lines, Posts
    <2> QED
      BY <2>1, <2>2
  <1>6. headEnd(s) = n + 1
    <2>1. n + 1 \in 0..(Len(s) - 2) /\ Pair(s, n + 1)
      BY <1>2, <1>3, <1>4 DEF Pair
    <2>2. ASSUME NEW j \in 0..((n + 1) - 1) PROVE ~ Pair(s, j)
      <3>1. CASE j = 0
        BY <1>4, <1>5, <3>1 DEF Pair
      <3>2. CASE j \in 1..n
        BY <1>4, <1>5, <3>2 DEF Pair
      <3> QED
        BY <1>2, <3>1, <3>2
    <2> QED
      BY <1>3, <2>1, <2>2, HeadEndIs
  <1>7. PICK h : /\ h = head(s) /\ h \in Seq(Tokens) /\ Len(h) = n + 1
                 /\ \A k \in 1..(n + 1) : h[k] = s[k]
    <2>1. PICK hi : hi = n + 1 /\ hi \in (1 - 1)..Len(s) /\ 1 \in 1..(Len(s) + 1) /\ hi \in Nat
      BY <1>2, <1>3
    <2>2. head(s) = SubSeq(s, 1, hi)
      BY <1>6, <2>1 DEF head
    <2>3. /\ head(s) \in Seq(Tokens) /\ Len(head(s)) = hi - 1 + 1
          /\ \A k \in 1..(hi - 1 + 1) : head(s)[k] = s[1 + k - 1]
      BY ONLY <1>3, <2>1, <2>2, Window
    <2>4. hi - 1 + 1 = n + 1 /\ \A k \in 1..(n + 1) : 1 + k - 1 = k
      BY <1>2, <2>1
    <2> QED
      BY <2>3, <2>4
  <1>8. h[1] = q.line /\ \A k \in 1..n : h[k + 1] = q.headers[k]
    <2>1. 1 \in 1..(n + 1) /\ \A k \in 1..n : k + 1 \in 1..(n + 1)
      BY <1>2
    <2> QED
      BY <1>4, <1>7, <2>1
  <1>9. Line(h) = q.line.kind /\ (post(h) <=> q.line.kind \in Posts)
    <2>1. h # <<>>
      BY <1>2, <1>7
    <2> QED
      BY <1>5, <1>8, <2>1 DEF Line, post
  <1>10. bodyLen(s) = m
    <2>1. CASE q.line.kind \in Posts
      <3>1. PICK g \in 1..n : /\ q.headers[g] = Token(length, m)
                              /\ \A k \in 1..n : q.headers[k].kind = length => k = g
        BY <1>1, <2>1 DEF WellFormed
      <3>2. ASSUME NEW k \in 1..Len(h) PROVE h[k].kind = length <=> k = g + 1
        <4>1. CASE k = 1
          <5>1. q.line.kind # length
            BY <1>5 DEF Lines, Posts, length
          <5> QED
            BY <1>2, <1>8, <4>1, <5>1
        <4>2. CASE k \in 2..(n + 1)
          <5>1. k - 1 \in 1..n /\ h[k] = q.headers[k - 1]
            BY <1>2, <1>8, <4>2
          <5>2. q.headers[g].kind = length
            BY <3>1 DEF Token
          <5>3. h[k].kind = length <=> k - 1 = g
            BY <3>1, <5>1, <5>2
          <5> QED
            BY <1>2, <4>2, <5>3
        <4> QED
          BY <1>2, <1>7, <4>1, <4>2
      <3>3. {k \in 1..Len(h) : h[k].kind = length} = {g + 1}
        <4>1. g + 1 \in 1..Len(h)
          BY <1>2, <1>7
        <4> QED
          BY ONLY <3>2, <4>1
      <3>4. contentLength(h) = h[g + 1].val
        BY <1>2, <3>3 DEF contentLength
      <3>5. contentLength(h) = m
        BY <1>8, <3>1, <3>4 DEF Token
      <3> QED
        BY <1>7, <1>9, <2>1, <3>5 DEF bodyLen
    <2>2. CASE q.line.kind \notin Posts
      <3>1. m = 0
        BY <1>1, <2>2 DEF WellFormed
      <3> QED
        BY <1>7, <1>9, <2>2, <3>1 DEF bodyLen
    <2> QED
      BY <2>1, <2>2
  <1>11. bodyStart(s) = n + 3 /\ total(s) = n + 3 + m
    BY <1>2, <1>6, <1>10 DEF bodyStart, total
  <1>12. SubSeq(s, bodyStart(s) + 1, total(s)) = q.body
    <2>1. PICK u : u = SubSeq(s, n + 4, n + 3 + m)
      OBVIOUS
    <2>2. PICK z : /\ z = n + 4 /\ z \in 1..(Len(s) + 1) /\ n + 3 + m \in (z - 1)..Len(s)
                   /\ (n + 3 + m) - z + 1 = m /\ \A k \in 1..m : z + k - 1 = n + 3 + k
      <3>1. n \in Nat /\ m \in Nat /\ Len(s) \in Nat /\ n + m + 3 <= Len(s)
        BY ONLY <1>2, <1>3
      <3> QED
        BY ONLY <3>1
    <2>3. u \in Seq(Tokens) /\ Len(u) = m /\ \A k \in 1..m : u[k] = s[n + 3 + k]
      <3>1. PICK y : y = n + 3 + m
        OBVIOUS
      <3>2. /\ u \in Seq(Tokens) /\ Len(u) = y - z + 1
            /\ \A k \in 1..(y - z + 1) : u[k] = s[z + k - 1]
        BY ONLY <1>3, <2>1, <2>2, <3>1, Window
      <3> QED
        BY ONLY <2>2, <3>1, <3>2
    <2>4. q.body \in Seq(Tokens) /\ Len(q.body) = m
      BY <1>1 DEF WellFormed
    <2>5. u = q.body
      BY <1>4, <2>3, <2>4, SeqEqual
    <2>6. bodyStart(s) + 1 = n + 4
      BY <1>2, <1>11
    <2> QED
      BY <1>11, <2>1, <2>5, <2>6
  <1>13. headEnd(s) >= 0 /\ Complete(s) /\ total(s) = Len(e)
    BY <1>2, <1>3, <1>6, <1>11 DEF Complete
  <1>14. Answer(s) = Expected(q)
    BY <1>7, <1>9, <1>12 DEF Answer, Expected
  <1> QED
    BY <1>1, <1>13, <1>14

-----------------------------------------------------------------------------
(* The buffer. *)

(* Two adjacent parts of a stream, and a part of a part. *)
LEMMA Adjacent ==
  ASSUME NEW s \in Seq(Tokens), NEW a \in 0..Len(s), NEW b \in a..Len(s), NEW c \in b..Len(s)
  PROVE  SubSeq(s, a + 1, b) \o SubSeq(s, b + 1, c) = SubSeq(s, a + 1, c)
  <1>1. PICK u, v, w : u = SubSeq(s, a + 1, b) /\ v = SubSeq(s, b + 1, c) /\ w = SubSeq(s, a + 1, c)
    OBVIOUS
  <1>2. /\ a + 1 \in 1..(Len(s) + 1) /\ b + 1 \in 1..(Len(s) + 1)
        /\ b \in ((a + 1) - 1)..Len(s) /\ c \in ((a + 1) - 1)..Len(s) /\ c \in ((b + 1) - 1)..Len(s)
    OBVIOUS
  <1>3. u \in Seq(Tokens) /\ Len(u) = b - a /\ \A k \in 1..(b - a) : u[k] = s[a + k]
    <2>1. b - (a + 1) + 1 = b - a /\ \A k \in 1..(b - a) : (a + 1) + k - 1 = a + k
      OBVIOUS
    <2> QED
      BY <1>1, <1>2, <2>1, Window
  <1>4. v \in Seq(Tokens) /\ Len(v) = c - b /\ \A k \in 1..(c - b) : v[k] = s[b + k]
    <2>1. c - (b + 1) + 1 = c - b /\ \A k \in 1..(c - b) : (b + 1) + k - 1 = b + k
      OBVIOUS
    <2> QED
      BY <1>1, <1>2, <2>1, Window
  <1>5. w \in Seq(Tokens) /\ Len(w) = c - a /\ \A k \in 1..(c - a) : w[k] = s[a + k]
    <2>1. c - (a + 1) + 1 = c - a /\ \A k \in 1..(c - a) : (a + 1) + k - 1 = a + k
      OBVIOUS
    <2> QED
      BY <1>1, <1>2, <2>1, Window
  <1>6. PICK x : x = u \o v
    OBVIOUS
  <1>7. Joins(x, u, v)
    BY <1>3, <1>4, <1>6, Joined, Zenon
  <1>8. a \in Int /\ b \in Int /\ c \in Int /\ a <= b /\ b <= c
    OBVIOUS
  <1>9. x \in Seq(Tokens) /\ Len(x) = c - a
    BY ONLY <1>3, <1>4, <1>7, <1>8 DEF Joins
  <1>10. ASSUME NEW k \in 1..(c - a) PROVE x[k] = w[k]
    <2>1. CASE k <= b - a
      BY ONLY <1>3, <1>5, <1>7, <1>8, <2>1, k \in 1..(c - a) DEF Joins
    <2>2. CASE ~ (k <= b - a)
      <3>1. PICK l \in 1..(c - b) : k = (b - a) + l
        <4>1. k - (b - a) \in 1..(c - b) /\ k = (b - a) + (k - (b - a))
          BY <1>8, <2>2
        <4> QED
          BY <4>1
      <3>2. x[k] = v[l]
        BY ONLY <1>3, <1>4, <1>7, <3>1 DEF Joins
      <3>3. b + l = a + k
        BY <1>8, <3>1
      <3> QED
        BY <1>4, <1>5, <3>1, <3>2, <3>3
    <2> QED
      BY <2>1, <2>2
  <1>11. x = w
    BY ONLY <1>5, <1>9, <1>10, SeqEqual
  <1> QED
    BY <1>1, <1>6, <1>11

LEMMA Inner ==
  ASSUME NEW s \in Seq(Tokens), NEW a \in 0..Len(s), NEW b \in a..Len(s), NEW o \in 0..(b - a),
         NEW rest, rest = SubSeq(s, a + 1, b)
  PROVE  SubSeq(rest, o + 1, Len(rest)) = SubSeq(s, a + o + 1, b)
  <1>1. rest \in Seq(Tokens) /\ Len(rest) = b - a /\ \A k \in 1..(b - a) : rest[k] = s[a + k]
    <2>1. a + 1 \in 1..(Len(s) + 1) /\ b \in ((a + 1) - 1)..Len(s)
      OBVIOUS
    <2>2. b - (a + 1) + 1 = b - a /\ \A k \in 1..(b - a) : (a + 1) + k - 1 = a + k
      OBVIOUS
    <2> QED
      BY <2>1, <2>2, Window
  <1>2. PICK n : n = Len(rest) /\ n = b - a /\ n \in Nat
    BY <1>1
  <1>3. PICK u, v : u = SubSeq(rest, o + 1, n) /\ v = SubSeq(s, a + o + 1, b)
    OBVIOUS
  <1>4. u \in Seq(Tokens) /\ Len(u) = n - o /\ \A k \in 1..(n - o) : u[k] = rest[o + k]
    <2>1. o + 1 \in 1..(Len(rest) + 1) /\ n \in ((o + 1) - 1)..Len(rest)
      BY <1>2
    <2>2. n - (o + 1) + 1 = n - o /\ \A k \in 1..(n - o) : (o + 1) + k - 1 = o + k
      BY <1>2
    <2> QED
      BY <1>1, <1>3, <2>1, <2>2, Window
  <1>5. v \in Seq(Tokens) /\ Len(v) = n - o /\ \A k \in 1..(n - o) : v[k] = s[a + o + k]
    <2>1. PICK z : z = a + o + 1 /\ z \in 1..(Len(s) + 1) /\ b \in (z - 1)..Len(s)
      OBVIOUS
    <2>2. v \in Seq(Tokens) /\ Len(v) = b - z + 1 /\ \A k \in 1..(b - z + 1) : v[k] = s[z + k - 1]
      BY <1>3, <2>1, Window
    <2>3. b - z + 1 = n - o /\ \A k \in 1..(n - o) : z + k - 1 = a + o + k
      BY <1>2, <2>1
    <2> QED
      BY <2>2, <2>3
  <1>6. \A k \in 1..(n - o) : u[k] = v[k]
    <2>1. \A k \in 1..(n - o) : o + k \in 1..(b - a) /\ a + (o + k) = a + o + k
      BY <1>2
    <2> QED
      BY ONLY <1>1, <1>4, <1>5, <2>1
  <1>7. u = v
    BY <1>4, <1>5, <1>6, SeqEqual
  <1> QED
    BY <1>2, <1>3, <1>7

(* The tokens of the stream that were requests and are answered. *)
Consumed == pos - Len(rb) + off

(* All responses there are. *)
Responses == {Answer(s) : s \in Seq(Tokens)}

(* Where rb and off are in the stream; what is kept between two reads is no whole request. *)
Buffered ==
  /\ client \in Clients
  /\ pos \in 0..Len(stream) /\ Len(rb) \in 0..pos /\ off \in 0..Len(rb)
  /\ rb = SubSeq(stream, pos - Len(rb) + 1, pos)
  /\ phase \in {"read", "handle"}
  /\ phase = "read" => off = 0 /\ ~ Complete(Rest)
  /\ wb \in Seq(Responses)

(* What the assumptions on the constants say of a client. *)
LEMMA ClientFacts ==
  ASSUME NEW c \in Clients
  PROVE  c.wire \in Seq(Tokens) /\ c.wire \in Streams /\ ("requests" \in DOMAIN c => IsPipeline(c))
  <1>1. CASE c \in Pipelines
    BY <1>1, PipelinesAssumption DEF IsPipeline, Streams
  <1>2. CASE c \notin Pipelines
    BY <1>2, StreamsAssumption DEF Clients, Streams
  <1> QED
    BY <1>1, <1>2

(* Rest is what has arrived and is not consumed. *)
LEMMA RestFacts ==
  ASSUME Buffered
  PROVE  /\ stream \in Seq(Tokens) /\ Consumed \in 0..pos
         /\ Rest = SubSeq(stream, Consumed + 1, pos)
         /\ Rest \in Seq(Tokens) /\ Len(Rest) = pos - Consumed /\ Len(Rest) = Len(rb) - off
         /\ Begins(Rest, SubSeq(stream, Consumed + 1, Len(stream)))
  <1>1. PICK s, here, n, o : s = stream /\ here = pos /\ n = Len(rb) /\ o = off
    OBVIOUS
  <1>2. s \in Seq(Tokens) /\ here \in 0..Len(s) /\ n \in 0..here /\ o \in 0..n /\ Len(s) \in Nat
    <2>1. client \in Clients /\ here \in 0..Len(s) /\ n \in 0..here /\ o \in 0..n
      BY <1>1 DEF Buffered
    <2> QED
      BY <1>1, <2>1, ClientFacts DEF stream
  <1>3. PICK a : a = here - n /\ a \in 0..Len(s) /\ here \in a..Len(s) /\ o \in 0..(here - a) /\ a \in Nat
    BY <1>2
  <1>4. rb = SubSeq(s, a + 1, here)
    BY <1>1, <1>3 DEF Buffered
  <1>5. Rest = SubSeq(s, a + o + 1, here)
    <2>1. Rest = SubSeq(rb, o + 1, Len(rb))
      BY <1>1 DEF Rest
    <2>2. SubSeq(rb, o + 1, Len(rb)) = SubSeq(s, a + o + 1, here)
      BY ONLY <1>2, <1>3, <1>4, Inner, ZenonT(60)
    <2> QED
      BY <2>1, <2>2
  <1>6. Consumed = a + o /\ a + o \in 0..here
    BY <1>1, <1>2, <1>3 DEF Consumed
  <1>7. PICK t, w : t = SubSeq(s, a + o + 1, here) /\ w = SubSeq(s, a + o + 1, Len(s))
    OBVIOUS
  <1>8. PICK z : z = a + o + 1 /\ z \in 1..(Len(s) + 1) /\ here \in (z - 1)..Len(s)
                 /\ Len(s) \in (z - 1)..Len(s)
    BY <1>2, <1>3
  <1>9. /\ t \in Seq(Tokens) /\ Len(t) = here - z + 1 /\ \A k \in 1..(here - z + 1) : t[k] = s[z + k - 1]
        /\ w \in Seq(Tokens) /\ Len(w) = Len(s) - z + 1
        /\ \A k \in 1..(Len(s) - z + 1) : w[k] = s[z + k - 1]
    <2>1. t = SubSeq(s, z, here) /\ w = SubSeq(s, z, Len(s))
      BY <1>7, <1>8
    <2> QED
      BY ONLY <1>2, <1>8, <2>1, Window
  <1>10. Begins(t, w)
    <2>0. here \in Int /\ Len(s) \in Int /\ z \in Int /\ here <= Len(s)
      BY ONLY <1>2, <1>8
    <2>1. Len(t) <= Len(w) /\ 1..(here - z + 1) \subseteq 1..(Len(s) - z + 1)
      BY ONLY <1>9, <2>0
    <2> QED
      BY ONLY <1>9, <2>1 DEF Begins
  <1>11. Len(t) = here - (a + o) /\ Len(t) = n - o
    <2>1. here \in Int /\ a \in Int /\ o \in Int /\ n \in Int /\ a = here - n
      BY ONLY <1>2, <1>3
    <2>2. z = a + o + 1 /\ Len(t) = here - z + 1
      BY ONLY <1>8, <1>9
    <2> QED
      BY ONLY <2>1, <2>2
  <1> QED
    BY <1>1, <1>2, <1>5, <1>6, <1>7, <1>9, <1>10, <1>11

(* All of a sequence is the sequence. *)
LEMMA Entire ==
  ASSUME NEW rest \in Seq(Tokens)
  PROVE  SubSeq(rest, 1, Len(rest)) = rest
  <1>1. PICK n : n = Len(rest) /\ n \in Nat
    OBVIOUS
  <1> DEFINE u == SubSeq(rest, 1, n)
  <1>2. u \in Seq(Tokens) /\ Len(u) = n /\ \A k \in 1..n : u[k] = rest[k]
    <2>1. 1 \in 1..(Len(rest) + 1) /\ n \in (1 - 1)..Len(rest) /\ n - 1 + 1 = n
          /\ \A k \in 1..n : 1 + k - 1 = k
      BY <1>1
    <2> QED
      BY <1>1, <2>1, Window
  <1> QED
    BY <1>1, <1>2, SeqEqual

(* Less than a blank line is no request. *)
LEMMA NothingIsWhole ==
  ASSUME NEW s \in Seq(Tokens), Len(s) < 2
  PROVE  ~ Complete(s)
  <1>1. Len(s) \in Nat
    OBVIOUS
  <1>2. headEnd(s) = -1
    BY <1>1, HeadEndFacts
  <1> QED
    BY <1>2 DEF Complete

(* rb is where it belongs at the start, after a read, after a response and after the
   rest was moved; only a response consumes. *)
LEMMA BufferedInit == FramingInit => Buffered
  <1> SUFFICES ASSUME FramingInit PROVE Buffered
    OBVIOUS
  <1>1. client \in Clients /\ pos = 0 /\ phase = "read" /\ rb = <<>> /\ off = 0 /\ wb = <<>>
    BY DEF FramingInit
  <1>2. stream \in Seq(Tokens)
    BY <1>1, ClientFacts DEF stream
  <1>3. Len(rb) = 0 /\ rb \in Seq(Tokens) /\ 0 \in 0..Len(stream)
    BY <1>1, <1>2
  <1>4. SubSeq(stream, 1, 0) = <<>>
    BY <1>2
  <1>5. ~ Complete(Rest)
    <2>1. Rest = rb
      BY <1>1, <1>3, Entire DEF Rest
    <2>2. ~ Complete(rb)
      <3>1. rb \in Seq(Tokens) /\ Len(rb) < 2
        BY <1>3
      <3> QED
        BY ONLY <3>1, NothingIsWhole, Zenon
    <2> QED
      BY ONLY <2>1, <2>2
  <1>6. wb \in Seq(Responses)
    BY <1>1
  <1> QED
    BY <1>1, <1>3, <1>4, <1>5, <1>6 DEF Buffered

LEMMA BufferedRead ==
  ASSUME Buffered, NEW n \in 1..Buf, Read(n)
  PROVE  Buffered' /\ Consumed' = Consumed
  <1>1. PICK s, here, l, q : s = stream /\ here = pos /\ l = Len(rb) /\ q = pos + n
    OBVIOUS
  <1>2. /\ client' = client /\ stream' = s /\ pos' = q /\ off' = 0 /\ wb' = wb /\ phase' = "handle"
        /\ rb' = rb \o SubSeq(s, here + 1, q) /\ n <= Len(s) - here /\ phase = "read"
    BY <1>1 DEF Read, stream
  <1>3. s \in Seq(Tokens) /\ here \in 0..Len(s) /\ l \in 0..here /\ off = 0 /\ Len(s) \in Nat
    BY <1>1, <1>2, RestFacts DEF Buffered
  <1>4. n \in Nat
    BY BufAssumption
  <1>5. PICK a : /\ a = here - l /\ a \in 0..Len(s) /\ here \in a..Len(s) /\ q \in here..Len(s)
                 /\ q \in a..Len(s) /\ q - a = l + n
    BY <1>1, <1>2, <1>3, <1>4
  <1>6. rb = SubSeq(s, a + 1, here)
    BY <1>1, <1>5 DEF Buffered
  <1>7. rb' = SubSeq(s, a + 1, q)
    BY <1>2, <1>3, <1>5, <1>6, Adjacent, Zenon
  <1>8. Len(rb') = q - a
    <2>1. PICK z : z = a + 1 /\ z \in 1..(Len(s) + 1) /\ q \in (z - 1)..Len(s) /\ q - z + 1 = q - a
      BY <1>3, <1>5
    <2> QED
      BY <1>3, <1>7, <2>1, Window
  <1>9. pos' \in 0..Len(stream') /\ Len(rb') \in 0..pos' /\ off' \in 0..Len(rb') /\ pos' - Len(rb') = a
    <2>1. a \in Nat /\ q \in Nat /\ a <= q /\ q <= Len(s) /\ Len(s) \in Nat
      BY ONLY <1>3, <1>5
    <2>2. q \in 0..Len(s) /\ q - a \in 0..q /\ 0 \in 0..(q - a) /\ q - (q - a) = a
      BY ONLY <2>1
    <2> QED
      BY <1>2, <1>8, <2>2
  <1>10. Consumed' = Consumed
    BY <1>1, <1>2, <1>3, <1>5, <1>8 DEF Consumed
  <1>11. client' \in Clients /\ wb' \in Seq(Responses)
    BY <1>2 DEF Buffered
  <1>12. rb' = SubSeq(stream', pos' - Len(rb') + 1, pos')
    BY <1>2, <1>7, <1>9
  <1> QED
    BY <1>2, <1>9, <1>10, <1>11, <1>12 DEF Buffered

LEMMA BufferedRespond ==
  ASSUME Buffered, Respond
  PROVE  Buffered' /\ Consumed' = Consumed + total(Rest) /\ total(Rest) \in Nat
  <1>1. /\ UNCHANGED <<client, pos, phase, rb, stream>> /\ Complete(Rest) /\ phase = "handle"
        /\ off' = off + total(Rest) /\ wb' = Append(wb, Answer(Rest))
    BY DEF Respond, stream
  <1>2. /\ Rest \in Seq(Tokens) /\ Len(Rest) = Len(rb) - off /\ Len(rb) \in Nat /\ off \in 0..Len(rb)
        /\ pos \in Nat
    <2>1. pos \in 0..Len(stream) /\ Len(rb) \in 0..pos /\ off \in 0..Len(rb)
      BY DEF Buffered
    <2> QED
      BY <2>1, RestFacts
  <1>3. total(Rest) \in Nat /\ total(Rest) <= Len(Rest)
    <2>1. headEnd(Rest) >= 0 /\ Len(Rest) >= total(Rest)
      BY <1>1 DEF Complete
    <2>2. total(Rest) \in Nat
      BY <1>2, <2>1, RequestFacts
    <2> QED
      BY <1>2, <2>1, <2>2
  <1>4. off' \in 0..Len(rb)
    BY <1>1, <1>2, <1>3
  <1>5. wb' \in Seq(Responses)
    <2>1. Answer(Rest) \in Responses
      BY <1>2 DEF Responses
    <2>2. wb \in Seq(Responses)
      BY DEF Buffered
    <2> QED
      BY <1>1, <2>1, <2>2
  <1>6. Consumed' = Consumed + total(Rest)
    BY <1>1, <1>2, <1>3 DEF Consumed
  <1>7. Buffered'
    BY <1>1, <1>4, <1>5 DEF Buffered
  <1> QED
    BY <1>3, <1>6, <1>7

LEMMA BufferedKeep ==
  ASSUME Buffered, Keep
  PROVE  Buffered' /\ Consumed' = Consumed
  <1>1. PICK s, here, c : s = stream /\ here = pos /\ c = Consumed
    OBVIOUS
  <1>2. /\ client' = client /\ stream' = s /\ pos' = here /\ wb' = wb /\ rb' = Rest /\ off' = 0
        /\ phase' = "read" /\ ~ Complete(Rest)
    BY <1>1 DEF Keep, stream
  <1>3. /\ s \in Seq(Tokens) /\ here \in 0..Len(s) /\ c \in 0..here /\ Rest = SubSeq(s, c + 1, here)
        /\ Rest \in Seq(Tokens) /\ Len(Rest) = here - c
    BY <1>1, RestFacts DEF Buffered
  <1>4. Len(rb') = here - c /\ pos' - Len(rb') = c
    BY <1>2, <1>3
  <1>5. /\ pos' \in 0..Len(stream') /\ Len(rb') \in 0..pos' /\ off' \in 0..Len(rb')
        /\ rb' = SubSeq(stream', pos' - Len(rb') + 1, pos')
    <2>1. here \in 0..Len(s) /\ here - c \in 0..here /\ 0 \in 0..(here - c)
      <3>1. here \in Nat /\ c \in Nat /\ c <= here
        BY ONLY <1>3
      <3> QED
        BY ONLY <1>3, <3>1
    <2>2. rb' = SubSeq(s, c + 1, here)
      BY <1>2, <1>3
    <2> QED
      BY <1>2, <1>4, <2>1, <2>2
  <1>6. Consumed' = Consumed
    BY <1>1, <1>2, <1>3, <1>4 DEF Consumed
  <1>7. ~ Complete(Rest')
    <2>1. PICK rest : rest = Rest /\ rest \in Seq(Tokens)
      BY <1>3
    <2>2. Rest' = SubSeq(rb', off' + 1, Len(rb'))
      BY DEF Rest
    <2>3. rb' = rest /\ off' + 1 = 1
      BY <1>2, <2>1
    <2>4. Rest' = rest
      BY <2>1, <2>2, <2>3, Entire, Zenon
    <2> QED
      BY <1>2, <2>1, <2>4
  <1>8. client' \in Clients /\ wb' \in Seq(Responses)
    BY <1>2 DEF Buffered
  <1> QED
    BY <1>2, <1>5, <1>6, <1>7, <1>8 DEF Buffered

LEMMA BufferedInvariant == FramingSpec => []Buffered
  <1>1. ASSUME Buffered, [FramingNext]_framingVars PROVE Buffered'
    <2>1. CASE Respond
      BY <1>1, <2>1, BufferedRespond
    <2>2. CASE Keep
      BY <1>1, <2>2, BufferedKeep
    <2>3. ASSUME NEW n \in 1..Buf, Read(n) PROVE Buffered'
      BY <1>1, <2>3, BufferedRead
    <2>4. CASE UNCHANGED framingVars
      BY <1>1, <2>4 DEF framingVars, Buffered, stream, Rest
    <2> QED
      BY <1>1, <2>1, <2>2, <2>3, <2>4 DEF FramingNext
  <1> QED
    BY <1>1, BufferedInit, PTL DEF FramingSpec, Safety

-----------------------------------------------------------------------------
(* The refinement. *)

(* RequestStream reads requests with the same operators. *)
LEMMA SameOperators ==
  ASSUME NEW s
  PROVE  /\ Promise!Complete(s) <=> Complete(s)
         /\ Promise!total(s) = total(s) /\ Promise!Answer(s) = Answer(s)
  <1>1. /\ Promise!cr2 = cr2 /\ Promise!lf2 = lf2 /\ Promise!Lines = Lines /\ Promise!Posts = Posts
        /\ Promise!length = length
    BY DEF Promise!cr2, cr2, Promise!lf2, lf2, Promise!Token, Token, Promise!Lines, Lines,
           Promise!Posts, Posts, Promise!length, length
  <1>2. Promise!headEnd(s) = headEnd(s)
    BY <1>1 DEF Promise!headEnd, headEnd
  <1>3. PICK h : h = head(s) /\ h = Promise!head(s)
    BY <1>2 DEF Promise!head, head
  <1>4. Promise!bodyStart(s) = bodyStart(s)
    BY <1>2 DEF Promise!bodyStart, bodyStart
  <1>5. Promise!Line(h) = Line(h) /\ Promise!contentLength(h) = contentLength(h)
    BY <1>1 DEF Promise!Line, Line, Promise!contentLength, contentLength
  <1>6. Promise!post(h) <=> post(h)
    BY <1>1, <1>5 DEF Promise!post, post
  <1>7. Promise!bodyLen(s) = bodyLen(s)
    BY ONLY <1>3, <1>5, <1>6, Zenon DEF Promise!bodyLen, bodyLen
  <1>8. Promise!total(s) = total(s)
    BY <1>4, <1>7 DEF Promise!total, total
  <1>9. Promise!Complete(s) <=> Complete(s)
    BY <1>2, <1>8 DEF Promise!Complete, Complete
  <1>10. Promise!Answer(s) = Answer(s)
    BY ONLY <1>3, <1>4, <1>5, <1>8 DEF Promise!Answer, Answer, Promise!Response, Response
  <1> QED
    BY <1>8, <1>9, <1>10

(* What the mapping makes of the definitions of RequestStream. *)
LEMMA Mapped ==
  ASSUME Buffered
  PROVE  /\ Promise!Whole <=> Complete(Rest)
         /\ Begins(Rest, Promise!Ahead) /\ Promise!Ahead \in Seq(Tokens)
  <1>1. Rest = SubSeq(stream, Consumed + 1, pos) /\ Begins(Rest, SubSeq(stream, Consumed + 1, Len(stream)))
    BY RestFacts
  <1>2. Promise!Whole <=> Complete(SubSeq(stream, Consumed + 1, pos))
    BY SameOperators DEF Promise!Whole, Consumed
  <1>3. Promise!Ahead = SubSeq(stream, Consumed + 1, Len(stream))
    BY DEF Promise!Ahead, Consumed
  <1> QED
    BY <1>1, <1>2, <1>3 DEF Begins

(* Nothing has arrived at the start. *)
LEMMA InitMaps == FramingInit => Promise!Init
  <1> SUFFICES ASSUME FramingInit PROVE Promise!Init
    OBVIOUS
  <1>1. client \in Clients /\ pos = 0 /\ rb = <<>> /\ off = 0 /\ wb = <<>>
    BY DEF FramingInit
  <1>2. stream \in Streams
    BY <1>1, ClientFacts DEF stream
  <1>3. Len(rb) = 0 /\ pos = 0 /\ off = 0
    BY <1>1
  <1>4. pos - Len(rb) + off = 0
    BY ONLY <1>3
  <1> QED
    BY <1>1, <1>2, <1>4 DEF Promise!Init

(* Reads arrive, responses answer, and moving the rest is not seen. *)
LEMMA StepMaps ==
  ASSUME Buffered, [FramingNext]_framingVars
  PROVE  [Promise!Next]_Promise!streamVars
  <1>1. ASSUME NEW n \in 1..Buf, Read(n) PROVE Promise!Arrive
    <2>1. ~ Promise!Whole
      BY <1>1, Mapped DEF Read, Buffered
    <2>2. UNCHANGED <<stream, wb>> /\ pos' = pos + n /\ n <= Len(stream) - pos
      BY <1>1 DEF Read, stream
    <2>3. pos - Len(rb) + off = (pos - Len(rb) + off)'
      BY <1>1, BufferedRead DEF Consumed
    <2>4. pos' \in (pos + 1)..Len(stream)
      <3>1. pos \in Nat /\ Len(stream) \in Nat /\ n \in Nat /\ n >= 1
        BY BufAssumption, RestFacts DEF Buffered
      <3> QED
        BY <2>2, <3>1
    <2> QED
      BY <2>1, <2>2, <2>3, <2>4 DEF Promise!Arrive
  <1>2. CASE Respond
    <2>1. Complete(Rest) /\ UNCHANGED <<stream, pos>> /\ wb' = Append(wb, Answer(Rest))
      BY <1>2 DEF Respond, stream
    <2>2. headEnd(Rest) >= 0
      BY <2>1 DEF Complete
    <2>3. Promise!Whole /\ Answer(Promise!Ahead) = Answer(Rest) /\ total(Promise!Ahead) = total(Rest)
      BY <2>1, <2>2, Mapped, SameRequest
    <2>4. Consumed' = Consumed + total(Rest)
      BY <1>2, BufferedRespond
    <2>5. Promise!Answer(Promise!Ahead) = Answer(Rest) /\ Promise!total(Promise!Ahead) = total(Rest)
      BY <2>3, SameOperators
    <2> QED
      BY <2>1, <2>3, <2>4, <2>5 DEF Promise!Next, Promise!Answers, Consumed
  <1>3. CASE Keep
    <2>1. UNCHANGED <<stream, pos, wb, Consumed>>
      BY <1>3, BufferedKeep DEF Keep, stream
    <2> QED
      BY <2>1 DEF Promise!streamVars, Consumed
  <1>4. CASE UNCHANGED framingVars
    BY <1>4 DEF framingVars, Promise!streamVars, stream
  <1> QED
    BY <1>1, <1>2, <1>3, <1>4 DEF FramingNext, Promise!Next

(* However the bytes are cut into reads, handle answers what the whole stream says,
   request after request, and reads no more while a whole one waits: the safety
   part of AnswersTheStream (the loop of handle, and the rest it keeps). *)
THEOREM ReadsMakeNoDifference == FramingSpec => Promise!Safety
  BY BufferedInvariant, InitMaps, StepMaps, PTL DEF FramingSpec, Safety, Promise!Safety

-----------------------------------------------------------------------------
(* The answers to pipelined requests. *)

(* The requests answered are those consumed. *)
Answered ==
  Pipelined =>
    /\ Len(wb) <= Len(client.requests)
    /\ \A k \in 1..Len(wb) : wb[k] = Expected(client.requests[k])
    /\ client.ends[Len(wb)] = Consumed

(* The next request is at the front of what is ahead; and of Rest, once it has arrived. *)
LEMMA NextRequest ==
  ASSUME Buffered, Pipelined, NEW n, n = Len(wb), n < Len(client.requests), client.ends[n] = Consumed
  PROVE  /\ WellFormed(client.requests[n + 1])
         /\ Begins(Encode(client.requests[n + 1]), Promise!Ahead)
         /\ client.ends[n + 1] = Consumed + Len(Encode(client.requests[n + 1]))
         /\ client.ends[n + 1] <= pos => Begins(Encode(client.requests[n + 1]), Rest)
  <1>1. PICK s, q, c, z : /\ s = stream /\ q = client.requests[n + 1] /\ c = Consumed
                          /\ z = client.ends[n + 1]
    OBVIOUS
  <1>2. n \in Nat /\ Len(client.requests) \in Nat
    <2>1. wb \in Seq(Responses)
      BY DEF Buffered
    <2>2. IsPipeline(client)
      BY ClientFacts DEF Buffered, Pipelined
    <2> QED
      BY <2>1, <2>2 DEF IsPipeline
  <1>3. /\ WellFormed(q) /\ z = c + Len(Encode(q)) /\ SubSeq(s, c + 1, z) = Encode(q)
        /\ z \in 0..Len(s)
    <2>1. IsPipeline(client)
      BY ClientFacts DEF Buffered, Pipelined
    <2>2. n + 1 \in 1..Len(client.requests) /\ (n + 1) - 1 = n /\ n + 1 \in 0..Len(client.requests)
      BY <1>2
    <2>3. /\ WellFormed(client.requests[n + 1])
          /\ client.ends[n + 1] = client.ends[(n + 1) - 1] + Len(Encode(client.requests[n + 1]))
          /\ SubSeq(client.wire, client.ends[(n + 1) - 1] + 1, client.ends[n + 1])
               = Encode(client.requests[n + 1])
          /\ client.ends[n + 1] \in 0..Len(client.wire)
      BY <2>1, <2>2 DEF IsPipeline
    <2>4. /\ z = c + Len(Encode(q)) /\ SubSeq(client.wire, c + 1, z) = Encode(q)
          /\ WellFormed(q) /\ z \in 0..Len(client.wire)
      <3>1. client.ends[(n + 1) - 1] = c
        BY <1>1, <2>2
      <3> QED
        BY ONLY <1>1, <2>3, <3>1
    <2> QED
      BY <1>1, <2>4 DEF stream
  <1>4. /\ s \in Seq(Tokens) /\ c \in 0..pos /\ pos \in 0..Len(s) /\ Len(s) \in Nat
        /\ Rest = SubSeq(s, c + 1, pos)
    <2>1. stream \in Seq(Tokens) /\ Consumed \in 0..pos /\ Rest = SubSeq(stream, Consumed + 1, pos)
      BY RestFacts
    <2>2. pos \in 0..Len(stream)
      BY DEF Buffered
    <2>3. Len(s) \in Nat
      BY <1>1, <2>1
    <2> QED
      BY ONLY <1>1, <2>1, <2>2, <2>3
  <1>5. Promise!Ahead = SubSeq(s, c + 1, Len(s))
    BY <1>1 DEF Promise!Ahead, Consumed
  <1>6. PICK e : e = Encode(q) /\ Len(e) \in Nat /\ c <= z
    <2>1. PICK k, m : Encodes(Encode(q), q, k, m)
      BY <1>3, EncodeFacts, Zenon
    <2>2. Len(Encode(q)) \in Nat
      BY ONLY <2>1 DEF Encodes
    <2> QED
      BY <1>3, <1>4, <2>2
  <1>7. ASSUME NEW b \in z..Len(s) PROVE Begins(e, SubSeq(s, c + 1, b))
    <2>1. PICK l : l = c + 1 /\ l \in 1..(Len(s) + 1) /\ z \in (l - 1)..Len(s) /\ b \in (l - 1)..Len(s)
      BY <1>3, <1>4, <1>6
    <2>2. e = SubSeq(s, l, z)
      BY <1>3, <1>6, <2>1
    <2>3. e \in Seq(Tokens) /\ Len(e) = z - l + 1 /\ \A k \in 1..(z - l + 1) : e[k] = s[l + k - 1]
      BY <1>4, <2>1, <2>2, Window
    <2>4. PICK w : w = SubSeq(s, l, b)
      OBVIOUS
    <2>5. w \in Seq(Tokens) /\ Len(w) = b - l + 1 /\ \A k \in 1..(b - l + 1) : w[k] = s[l + k - 1]
      BY <1>4, <2>1, <2>4, Window
    <2>6. z - l + 1 <= b - l + 1 /\ 1..(z - l + 1) \subseteq 1..(b - l + 1)
      BY <1>3, <1>4, <2>1
    <2> QED
      BY <2>1, <2>3, <2>4, <2>5, <2>6 DEF Begins
  <1>8. Len(s) \in z..Len(s) /\ (z <= pos => pos \in z..Len(s))
    BY <1>3, <1>4
  <1> QED
    BY <1>1, <1>3, <1>4, <1>5, <1>6, <1>7, <1>8

(* The requests answered stay those consumed. *)
LEMMA AnsweredInit == FramingInit => Answered
  <1> SUFFICES ASSUME FramingInit, Pipelined PROVE Answered
    BY DEF Answered
  <1>1. client \in Clients /\ pos = 0 /\ rb = <<>> /\ off = 0 /\ wb = <<>>
    BY DEF FramingInit
  <1>2. IsPipeline(client)
    BY <1>1, ClientFacts DEF Pipelined
  <1>3. client.ends[0] = 0 /\ Len(client.requests) \in Nat
    BY <1>2 DEF IsPipeline
  <1>4. Len(wb) = 0 /\ Len(rb) = 0 /\ pos = 0 /\ off = 0
    BY <1>1
  <1> QED
    BY ONLY <1>3, <1>4 DEF Answered, Consumed

LEMMA AnsweredRespond ==
  ASSUME Buffered, Answered, Respond
  PROVE  Answered'
  <1> SUFFICES ASSUME Pipelined' PROVE Answered'
    BY DEF Answered
  <1>1. Complete(Rest) /\ UNCHANGED <<client, stream, pos>> /\ wb' = Append(wb, Answer(Rest))
    BY DEF Respond, stream
  <1>2. Pipelined
    BY <1>1 DEF Pipelined
  <1>3. PICK n : n = Len(wb) /\ n \in Nat /\ wb \in Seq(Responses)
    BY DEF Buffered
  <1>4. PICK m : m = Len(client.requests) /\ m \in Nat /\ client.ends[m] = Len(stream)
    <2>1. IsPipeline(client)
      BY <1>2, ClientFacts DEF Buffered, Pipelined
    <2> QED
      BY <2>1 DEF IsPipeline, stream
  <1>5. /\ n <= m /\ client.ends[n] = Consumed
        /\ \A k \in 1..n : wb[k] = Expected(client.requests[k])
    BY <1>2, <1>3, <1>4 DEF Answered
  <1>6. n < m
    <2> SUFFICES ASSUME n = m PROVE FALSE
      BY <1>3, <1>4, <1>5
    <2>1. Consumed = Len(stream)
      BY <1>4, <1>5
    <2>2. Rest \in Seq(Tokens) /\ Len(Rest) = pos - Consumed /\ Consumed \in 0..pos /\ pos \in 0..Len(stream)
      BY RestFacts DEF Buffered
    <2>3. Len(Rest) < 2
      BY <2>1, <2>2
    <2> QED
      BY <1>1, <2>2, <2>3, NothingIsWhole
  <1>7. PICK q : q = client.requests[n + 1]
    OBVIOUS
  <1>8. /\ WellFormed(q) /\ Begins(Encode(q), Promise!Ahead)
        /\ client.ends[n + 1] = Consumed + Len(Encode(q))
    BY <1>2, <1>3, <1>4, <1>5, <1>6, <1>7, NextRequest
  <1>9. Answer(Promise!Ahead) = Expected(q) /\ total(Promise!Ahead) = Len(Encode(q))
    BY <1>8, WholeRequest
  <1>10. Answer(Rest) = Expected(q) /\ total(Rest) = Len(Encode(q))
    <2>1. headEnd(Rest) >= 0
      BY <1>1 DEF Complete
    <2> QED
      BY <1>1, <1>9, <2>1, Mapped, SameRequest
  <1>11. client.ends[n + 1] = Consumed'
    BY <1>8, <1>10, BufferedRespond
  <1>12. Len(wb') = n + 1 /\ wb'[n + 1] = Expected(q) /\ \A k \in 1..n : wb'[k] = wb[k]
    BY <1>1, <1>3, <1>10 DEF Responses
  <1>13. \A k \in 1..(n + 1) : wb'[k] = Expected(client.requests[k])
    <2>1. \A k \in 1..(n + 1) : k \in 1..n \/ k = n + 1
      BY <1>3
    <2> QED
      BY <1>5, <1>7, <1>12, <2>1
  <1>14. n + 1 <= m
    BY <1>3, <1>4, <1>6
  <1> QED
    BY <1>1, <1>4, <1>11, <1>12, <1>13, <1>14 DEF Answered

LEMMA AnsweredInvariant == FramingSpec => []Answered
  <1>1. ASSUME Buffered, Answered, [FramingNext]_framingVars PROVE Answered'
    <2>1. CASE Respond
      BY <1>1, <2>1, AnsweredRespond
    <2>2. CASE Keep
      <3>1. UNCHANGED <<client, wb, Consumed>>
        BY <1>1, <2>2, BufferedKeep DEF Keep
      <3> QED
        BY <1>1, <3>1 DEF Answered, Pipelined
    <2>3. ASSUME NEW n \in 1..Buf, Read(n) PROVE Answered'
      <3>1. UNCHANGED <<client, wb, Consumed>>
        BY <1>1, <2>3, BufferedRead DEF Read
      <3> QED
        BY <1>1, <3>1 DEF Answered, Pipelined
    <2>4. CASE UNCHANGED framingVars
      BY <1>1, <2>4 DEF framingVars, Answered, Pipelined, Consumed
    <2> QED
      BY <1>1, <2>1, <2>2, <2>3, <2>4 DEF FramingNext
  <1> QED
    BY <1>1, AnsweredInit, BufferedInvariant, PTL DEF FramingSpec, Safety

(* Pipelined well-formed requests are answered in order, each once and from its own
   body, and before a read each whose last byte has arrived (handle's loop). *)
THEOREM AnsweredInOrder == FramingSpec => []AnswersInOrder
  <1>1. ASSUME Buffered, Answered PROVE AnswersInOrder
    <2> SUFFICES ASSUME Pipelined PROVE AnswersInOrder
      BY DEF AnswersInOrder
    <2>1. PICK n : n = Len(wb) /\ n \in Nat
      BY <1>1 DEF Buffered
    <2>2. /\ n <= Len(client.requests) /\ client.ends[n] = Consumed
          /\ \A k \in 1..n : wb[k] = Expected(client.requests[k])
      BY <1>1, <2>1 DEF Answered
    <2>3. /\ Consumed \in 0..pos /\ Rest = SubSeq(stream, Consumed + 1, pos) /\ Rest \in Seq(Tokens)
          /\ pos \in Nat
      BY <1>1, RestFacts DEF Buffered
    <2>4. client.ends[n] <= pos
      BY <2>2, <2>3
    <2>5. ASSUME phase = "read" PROVE rb = SubSeq(stream, client.ends[n] + 1, pos)
      <3>1. off = 0
        BY <1>1, <2>5 DEF Buffered
      <3>2. rb = SubSeq(stream, pos - Len(rb) + 1, pos) /\ Len(rb) \in Nat
        BY <1>1, <2>3 DEF Buffered
      <3>3. Consumed = pos - Len(rb)
        BY <2>3, <3>1, <3>2 DEF Consumed
      <3> QED
        BY <2>2, <3>2, <3>3
    <2>6. ASSUME phase = "read", n < Len(client.requests) PROVE pos < client.ends[n + 1]
      <3>1. PICK q : q = client.requests[n + 1]
        OBVIOUS
      <3>2. /\ WellFormed(q) /\ client.ends[n + 1] = Consumed + Len(Encode(q))
            /\ client.ends[n + 1] <= pos => Begins(Encode(q), Rest)
        BY <1>1, <2>1, <2>2, <2>6, <3>1, NextRequest
      <3>3. ~ (client.ends[n + 1] <= pos)
        BY <1>1, <2>6, <3>2, WholeRequest DEF Buffered
      <3>4. Len(Encode(q)) \in Nat
        <4>1. PICK k, m : Encodes(Encode(q), q, k, m)
          BY <3>2, EncodeFacts, Zenon
        <4> QED
          BY ONLY <4>1 DEF Encodes
      <3> QED
        BY <2>3, <3>2, <3>3, <3>4
    <2> QED
      BY <2>1, <2>2, <2>4, <2>5, <2>6 DEF AnswersInOrder
  <1> QED
    BY <1>1, BufferedInvariant, AnsweredInvariant, PTL

-----------------------------------------------------------------------------

IntFields  == {"amount", "installments", "ts", "customerAvg", "txCount24h", "merchantAvg",
               "kmHome", "lastTS", "kmLast"}
FlagFields == {"isOnline", "cardPresent", "hasLastTx"}
TextFields == {"km", "mid", "mcc"}
Fields     == IntFields \cup FlagFields \cup TextFields

(* The fields of parsed, with the types of those that are counted with. *)
Parsed(d) ==
  /\ d = [f \in Fields |-> d[f]]
  /\ \A f \in IntFields : d[f] \in Int
  /\ \A f \in FlagFields : d[f] \in BOOLEAN

QInv == TypeOK /\ Parsed(r) /\ input \in Inputs

-----------------------------------------------------------------------------
LEMMA Quotient ==
  ASSUME NEW x \in Nat, NEW y \in Nat, y > 0, NEW u \in Nat, x < y * (u + 1)
  PROVE  x \div y \in 0..u
  <1>1. PICK v \in Nat, w \in Nat : v = x \div y /\ w < y /\ x = y * v + w
    <2>1. x \div y \in Nat /\ x % y \in Nat /\ x % y < y /\ x = y * (x \div y) + (x % y)
      OBVIOUS
    <2> QED
      BY <2>1
  <1>2. ASSUME v >= u + 1 PROVE FALSE
    <2>1. y * v >= y * (u + 1)
      BY <1>2, Z3
    <2>2. y * v \in Nat /\ y * (u + 1) \in Nat
      BY Z3
    <2> QED
      BY <1>1, <2>1, <2>2
  <1> QED
    BY <1>1, <1>2

(* Clamping and rounding a fraction gives 0..QScale, halves included. *)
LEMMA Clamped ==
  ASSUME NEW n \in Int, NEW d \in Nat \ {0}
  PROVE  q01(n, d) \in 0..QScale
  <1>1. QScale \in Nat
    BY QScaleAssumption
  <1>2. CASE n < 0 \/ n > d
    BY <1>1, <1>2 DEF q01
  <1>3. CASE ~ (n < 0 \/ n > d)
    <2>1. PICK x \in Nat : x = 2 * n * QScale + d
      <3>1. n * QScale \in Nat
        BY <1>1, <1>3, Z3
      <3>2. 2 * n * QScale = 2 * (n * QScale)
        BY <1>1, Z3
      <3> QED
        BY <3>1, <3>2
    <2>2. x < (2 * d) * (QScale + 1)
      <3>1. n * QScale <= d * QScale
        BY <1>1, <1>3, Z3
      <3>2. /\ 2 * n * QScale = 2 * (n * QScale)
            /\ (2 * d) * (QScale + 1) = 2 * (d * QScale) + 2 * d
            /\ n * QScale \in Int /\ d * QScale \in Int
        BY <1>1, Z3
      <3> QED
        BY <2>1, <3>1, <3>2
    <2>3. x \div (2 * d) \in 0..QScale
      BY <1>1, <2>2, Quotient
    <2>4. q01(n, d) = x \div (2 * d)
      BY <1>3, <2>1 DEF q01, Round
    <2> QED
      BY <2>3, <2>4
  <1> QED
    BY <1>2, <1>3

(* What parsed holds makes a quantized query. *)
LEMMA QueryIsQuantized ==
  ASSUME NEW d, Parsed(d)
  PROVE  Quantized(Query(d))
  <1>1. QScale \in Nat /\ QScale > 0
    BY QScaleAssumption
  <1>2. /\ d.amount \in Int /\ d.installments \in Int /\ d.ts \in Int /\ d.customerAvg \in Int
        /\ d.txCount24h \in Int /\ d.merchantAvg \in Int /\ d.kmHome \in Int
        /\ d.lastTS \in Int /\ d.kmLast \in Int
    BY DEF Parsed, IntFields
  <1>3. /\ Norm.MaxAmount \in Nat \ {0} /\ Norm.MaxInstallments \in Nat \ {0}
        /\ Norm.AmountVsAvgRatio \in Nat \ {0} /\ Norm.MaxMinutes \in Nat \ {0}
        /\ Norm.MaxKm \in Nat \ {0} /\ Norm.MaxTxCount24h \in Nat \ {0}
        /\ Norm.MaxMerchantAvgAmount \in Nat \ {0}
    BY NormAssumption
  <1>4. hour(d.ts) \in Int /\ weekday(d.ts) \in Int
    <2>1. \A a \in Int : /\ goDiv(a, 60) \in Int /\ goDiv(a, 1440) \in Int
                         /\ goMod(a, 24) \in Int /\ goMod(a, 7) \in Int
      BY DEF goDiv, goMod
    <2> HIDE DEF goDiv, goMod
    <2>2. PICK h \in Int, w \in Int : h = goDiv(d.ts, 60) /\ w = goDiv(d.ts, 1440) + 3
      <3>1. goDiv(d.ts, 60) \in Int /\ goDiv(d.ts, 1440) \in Int
        BY <1>2, <2>1
      <3> QED
        BY <3>1
    <2>3. PICK a \in Int, b \in Int : a = goMod(h, 24) + 24 /\ b = goMod(w, 7) + 7
      <3>1. goMod(h, 24) \in Int /\ goMod(w, 7) \in Int
        BY <2>1
      <3> QED
        BY <3>1
    <2>4. hour(d.ts) = goMod(a, 24) /\ weekday(d.ts) = goMod(b, 7)
      BY <2>2, <2>3 DEF hour, weekday
    <2> QED
      BY <2>1, <2>4
  <1>5. Risk(d.mcc) \in Int
    BY RiskAssumption DEF Risk
  <1>6. d.customerAvg > 0 =>
          q01(d.amount, d.customerAvg * Norm.AmountVsAvgRatio) \in 0..QScale
    <2>1. d.customerAvg > 0 => d.customerAvg * Norm.AmountVsAvgRatio \in Nat \ {0}
      BY <1>2, <1>3, Z3
    <2> QED
      BY <1>2, <2>1, Clamped
  <1>7. /\ q01(d.amount, Norm.MaxAmount) \in 0..QScale
        /\ q01(d.installments, Norm.MaxInstallments) \in 0..QScale
        /\ q01(hour(d.ts), 23) \in 0..QScale
        /\ q01(weekday(d.ts), 6) \in 0..QScale
        /\ q01(d.ts - d.lastTS, Norm.MaxMinutes) \in 0..QScale
        /\ q01(d.kmLast, Norm.MaxKm) \in 0..QScale
        /\ q01(d.kmHome, Norm.MaxKm) \in 0..QScale
        /\ q01(d.txCount24h, Norm.MaxTxCount24h) \in 0..QScale
        /\ q01(Risk(d.mcc), 100) \in 0..QScale
        /\ q01(d.merchantAvg, Norm.MaxMerchantAvgAmount) \in 0..QScale
    <2>1. d.ts - d.lastTS \in Int /\ 23 \in Nat \ {0} /\ 6 \in Nat \ {0} /\ 100 \in Nat \ {0}
      BY <1>2
    <2> QED
      BY <1>2, <1>3, <1>4, <1>5, <2>1, Clamped
  <1>8. \A b : boolq(b) \in {0, QScale}
    BY DEF boolq
  <1> HIDE DEF q01, hour, weekday, Risk, boolq, knownMerchant
  <1>9. \A i \in Dims \ {5, 6} : Query(d)[i] \in 0..QScale
    <2>1. /\ Query(d)[0] \in 0..QScale /\ Query(d)[1] \in 0..QScale
          /\ Query(d)[2] \in 0..QScale /\ Query(d)[3] \in 0..QScale
          /\ Query(d)[4] \in 0..QScale /\ Query(d)[7] \in 0..QScale
          /\ Query(d)[8] \in 0..QScale
      BY <1>1, <1>6, <1>7 DEF Query, Dims
    <2>2. /\ Query(d)[9] \in 0..QScale /\ Query(d)[10] \in 0..QScale
          /\ Query(d)[11] \in 0..QScale /\ Query(d)[12] \in 0..QScale
          /\ Query(d)[13] \in 0..QScale /\ Query(d)[14] \in 0..QScale
          /\ Query(d)[15] \in 0..QScale
      BY <1>1, <1>7, <1>8 DEF Query, Dims
    <2> HIDE DEF Query
    <2> QED
      BY <2>1, <2>2 DEF Dims
  <1>10. \/ Query(d)[5] = sentinel /\ Query(d)[6] = sentinel
         \/ Query(d)[5] \in 0..QScale /\ Query(d)[6] \in 0..QScale
    BY <1>7 DEF Query, Dims
  <1>11. /\ \A i \in {9, 10, 11} : Query(d)[i] \in {0, QScale}
         /\ Query(d)[14] = 0 /\ Query(d)[15] = 0
    BY <1>8 DEF Query, Dims
  <1>12. Query(d) = [i \in Dims |-> Query(d)[i]]
    BY DEF Query
  <1> HIDE DEF Query
  <1>13. \A i \in Dims : Query(d)[i] \in (-QScale)..QScale
    BY <1>1, <1>9, <1>10 DEF sentinel
  <1> QED
    BY <1>1, <1>9, <1>10, <1>11, <1>12, <1>13 DEF Quantized


-----------------------------------------------------------------------------
(* Storing a value of its type in a field. *)
LEMMA Stored ==
  ASSUME NEW d, Parsed(d), NEW f \in Fields, NEW v,
         f \in IntFields => v \in Int, f \in FlagFields => v \in BOOLEAN
  PROVE  Parsed([d EXCEPT ![f] = v])
  <1> DEFINE e == [d EXCEPT ![f] = v]
  <1>1. d = [g \in Fields |-> d[g]]
    BY DEF Parsed
  <1>2. /\ e = [g \in Fields |-> e[g]]
        /\ \A g \in Fields : e[g] = IF g = f THEN v ELSE d[g]
    BY <1>1
  <1>3. IntFields \subseteq Fields /\ FlagFields \subseteq Fields
    BY DEF Fields
  <1> HIDE DEF e, IntFields, FlagFields, Fields
  <1>4. Parsed(e)
    BY <1>2, <1>3 DEF Parsed
  <1> QED
    BY <1>4 DEF e

(* Whatever the text, and whatever is behind it, if anything is. *)
LEMMA InstantIsNumber ==
  ASSUME input \in Inputs, NEW v,
         ~ (text(v) \in DOMAIN Bare /\ str(v) + 1 \notin 1..end /\ input.behind = NoByte)
  PROVE  Instant(v) \in Int
  <1>1. PICK t : t = text(v)
    OBVIOUS
  <1>2. PICK next : next = str(v) + 1
    OBVIOUS
  <1>3. CASE t \in DOMAIN Bare
    <2>1. Behind(v) \in DOMAIN Digit
      <3>1. CASE next \in 1..end
        BY <1>2, <3>1, InputsAssumption DEF Behind, end, body
      <3>2. CASE next \notin 1..end
        BY <1>1, <1>2, <1>3, <3>2, InputsAssumption DEF Behind
      <3> QED
        BY <3>1, <3>2
    <2>2. BareHours(v) \in Int
      <3>1. PICK a, b : a = Digit[Quote] /\ b = Digit[Behind(v)]
        OBVIOUS
      <3>2. a \in Int /\ b \in Int
        <4>1. \A c \in DOMAIN Digit : Digit[c] \in Int
          BY ByteAssumption
        <4> QED
          BY <2>1, <3>1, <4>1, ByteAssumption
      <3>3. BareHours(v) = 10 * a + b
        BY <3>1 DEF BareHours
      <3> QED
        BY ONLY <3>2, <3>3
    <2>3. PICK h \in Int : h = BareHours(v)
      BY <2>2
    <2>4. Loose[t] - Bare[t] * 60 * h \in Int
      BY <1>3, TimeAssumption
    <2> HIDE DEF BareHours, text
    <2> QED
      BY <1>1, <1>3, <2>3, <2>4, TimeAssumption DEF Instant
  <1>4. CASE t \notin DOMAIN Bare
    <2> HIDE DEF BareHours, text
    <2> QED
      BY <1>1, <1>4, TimeAssumption DEF Instant
  <1> QED
    BY <1>3, <1>4

(* Every value is stored in a field of its type, or not at all. *)
LEMMA MemberKeepsTypes ==
  ASSUME QInv, NEW name, NEW v, ~ (LooksBehind(name, v) /\ input.behind = NoByte)
  PROVE  Parsed(Member(name, v).parsed)
  <1>1. Parsed(r)
    BY DEF QInv
  <1>2. \A f \in IntFields : Parsed(Number(f, v).parsed)
    <2>1. \A f \in IntFields, x \in Int : Parsed([r EXCEPT ![f] = x])
      <3>1. \A f \in IntFields : f \in Fields /\ f \notin FlagFields
        BY DEF Fields, IntFields, FlagFields
      <3> QED
        BY <1>1, <3>1, Stored
    <2>2. At(v) \in DOMAIN Num => Num[At(v)] \in Int
      BY NumAssumption
    <2> HIDE DEF At, IntFields
    <2> QED
      BY <1>1, <2>1, <2>2 DEF Number, Store, Refusal
  <1>14. \A f \in IntFields : Parsed(Integer(f, v).parsed)
    <2>1. \A f \in IntFields, x \in Int : Parsed([r EXCEPT ![f] = x])
      <3>1. \A f \in IntFields : f \in Fields /\ f \notin FlagFields
        BY DEF Fields, IntFields, FlagFields
      <3> QED
        BY <1>1, <3>1, Stored
    <2>2. At(v) \in DOMAIN Num => int32(Num[At(v)]) \in Int
      <3>1. \A n \in Int : int32(n) \in Int
        BY Int32Assumption DEF int32
      <3> QED
        BY <3>1, NumAssumption
    <2> HIDE DEF At, IntFields, int32
    <2> QED
      BY <1>1, <2>1, <2>2 DEF Integer, Store, Refusal
  <1>3. ASSUME \/ within = "transaction" /\ name = "requested_at"
               \/ within = "last_transaction" /\ name = "timestamp"
        PROVE  \A f \in IntFields : Parsed(Timestamp(f, v).parsed)
    <2>1. \A f \in IntFields, x \in Int : Parsed([r EXCEPT ![f] = x])
      <3>1. \A f \in IntFields : f \in Fields /\ f \notin FlagFields
        BY DEF Fields, IntFields, FlagFields
      <3> QED
        BY <1>1, <3>1, Stored
    <2>2. str(v) # 0 => Instant(v) \in Int
      BY <1>3, InstantIsNumber DEF LooksBehind, QInv
    <2> HIDE DEF Instant, text, str, IntFields
    <2> QED
      BY <1>1, <2>1, <2>2 DEF Timestamp, Store, Refusal
  <1>4. \A f \in FlagFields : Parsed(Flag(f, v).parsed)
    <2>1. \A f \in FlagFields, x \in BOOLEAN : Parsed([r EXCEPT ![f] = x])
      <3>1. \A f \in FlagFields : f \in Fields /\ f \notin IntFields
        BY DEF Fields, IntFields, FlagFields
      <3> QED
        BY <1>1, <3>1, Stored
    <2> HIDE DEF At, skip, FlagFields
    <2>2. (At(v) = "true") \in BOOLEAN
      OBVIOUS
    <2> QED
      BY <1>1, <2>1, <2>2 DEF Flag, Store, Refusal
  <1>5. \A f \in TextFields : \A x : Parsed([r EXCEPT ![f] = x])
    <2>1. \A f \in TextFields : f \in Fields /\ f \notin IntFields /\ f \notin FlagFields
      BY DEF Fields, IntFields, FlagFields, TextFields
    <2> QED
      BY <1>1, <2>1, Stored
  <1>6. Parsed(Ignore(v).parsed)
    BY <1>1 DEF Ignore
  <1>7. \A f \in TextFields : Parsed(String(f, v).parsed)
    <2> HIDE DEF text, str, TextFields
    <2> QED
      BY <1>1, <1>5 DEF String, Store, Refusal
  <1>8. Parsed(Merchants(v).parsed)
    <2>1. "km" \in TextFields
      BY DEF TextFields
    <2> HIDE DEF At, skip, TextFields, Ignore
    <2> QED
      BY <1>5, <1>6, <2>1 DEF Merchants, Store
  <1> HIDE DEF Number, Integer, Timestamp, Flag, String, Merchants, Ignore
  <1>9. within = "transaction" => Parsed(transaction(name, v).parsed)
    BY <1>2, <1>3, <1>6, <1>14 DEF transaction, IntFields
  <1>10. Parsed(customer(name, v).parsed)
    BY <1>2, <1>6, <1>8, <1>14 DEF customer, IntFields
  <1>11. Parsed(merchant(name, v).parsed)
    BY <1>2, <1>6, <1>7 DEF merchant, IntFields, TextFields
  <1>12. Parsed(terminal(name, v).parsed)
    BY <1>2, <1>4, <1>6 DEF terminal, IntFields, FlagFields
  <1>13. within = "last_transaction" => Parsed(lastTx(name, v).parsed)
    BY <1>2, <1>3, <1>6 DEF lastTx, IntFields
  <1> HIDE DEF transaction, customer, merchant, terminal, lastTx
  <1> QED
    BY <1>6, <1>9, <1>10, <1>11, <1>12, <1>13 DEF Member

LEMMA InitInv == ASSUME Init PROVE QInv
  <1>1. Parsed(r)
    BY DEF Init, Parsed, Nothing, Fields, IntFields, FlagFields, TextFields
  <1>2. /\ input \in Inputs /\ within = "top" /\ pc = "start" /\ beyond = FALSE
    BY DEF Init
  <1> QED
    BY <1>1, <1>2 DEF QInv, TypeOK

LEMMA StepInv == ASSUME QInv, [Next]_vars PROVE QInv'
  <1>1. Parsed(r) /\ TypeOK
    BY DEF QInv
  <1>2. \A b \in BOOLEAN : Parsed([r EXCEPT !.hasLastTx = b])
    <2>1. "hasLastTx" \in Fields /\ "hasLastTx" \notin IntFields
      BY DEF Fields, IntFields, FlagFields
    <2> QED
      BY <1>1, <2>1, Stored
  <1>3. r.hasLastTx \in BOOLEAN
    BY <1>1 DEF Parsed, FlagFields
  <1> HIDE DEF Quantized, Sections
  <1>4. ASSUME UNCHANGED <<input, within, r, query, beyond>>,
               pc' \in {"start", "members", "refused", "panicked"} \/ pc' = pc
        PROVE  QInv'
    BY <1>1, <1>4 DEF QInv, TypeOK, Parsed
  <1>5. CASE Start
    BY <1>4, <1>5 DEF Start, Refuse
  <1>6. CASE Malformed
    BY <1>4, <1>6 DEF Malformed, Refuse
  <1>7. CASE Enter
    <2>1. Parsed(r')
      BY <1>2, <1>3, <1>7 DEF Enter
    <2>2. within' \in Sections
      BY <1>7 DEF Enter, EntersSection
    <2> QED
      BY <1>1, <1>7, <2>1, <2>2 DEF Enter, InMembers, QInv, TypeOK, Parsed
  <1>8. CASE NoLast
    <2>1. Parsed(r')
      BY <1>2, <1>8 DEF NoLast
    <2> QED
      BY <1>1, <1>8, <2>1 DEF NoLast, QInv, TypeOK, Parsed
  <1>13. CASE Panic
    BY <1>4, <1>13 DEF Panic
  <1>9. CASE Value
    <2>1. CASE Refuse
      BY <1>4, <2>1 DEF Refuse
    <2>2. CASE ~ Refuse
      <3>1. /\ r' = Member(key.name, key.value).parsed /\ UNCHANGED <<input, within, pc, query>>
            /\ ~ (LooksBehind(key.name, key.value) /\ input.behind = NoByte)
            /\ beyond' = (beyond \/ LooksBehind(key.name, key.value))
        BY <1>9, <2>2 DEF Value
      <3>2. Parsed(r')
        BY <3>1, MemberKeepsTypes
      <3>3. beyond' \in BOOLEAN
        BY <3>1
      <3> QED
        BY <1>1, <3>1, <3>2, <3>3 DEF QInv, TypeOK, Parsed
    <2> QED
      BY <2>1, <2>2
  <1>10. CASE Leave
    BY <1>1, <1>10 DEF Leave, QInv, TypeOK, Parsed
  <1>11. CASE Finish
    <2>1. Quantized(Query(r))
      BY <1>1, QueryIsQuantized
    <2>2. Quantized(query')
      BY <1>11, <2>1 DEF Finish
    <2> QED
      BY <1>1, <1>11, <2>2 DEF Finish, QInv, TypeOK, Parsed, Quantized
  <1>12. CASE Returned \/ UNCHANGED vars
    BY <1>4, <1>12 DEF Returned, vars
  <1> QED
    BY <1>5, <1>6, <1>7, <1>8, <1>9, <1>10, <1>11, <1>12, <1>13 DEF Next

(* Whatever the body, its numbers, its timestamps and the byte behind it, and whatever
   the normalization divides by, the query of a body that is not refused is quantized,
   which is what the exactness of the search rests on (QueryAssumption of KDSearch). *)
THEOREM QueriesAreQuantized == Spec => []TypeOK
  <1>1. QInv => TypeOK
    BY DEF QInv
  <1> QED
    BY InitInv, StepInv, <1>1, PTL DEF Spec

-----------------------------------------------------------------------------
(* The scans of the parser stay within the body and go forward. *)

LEMMA Greatest ==
  ASSUME NEW n \in Nat, NEW T, T \subseteq 0..n, T # {}
  PROVE  \E x \in T : \A y \in T : y <= x
  <1> DEFINE U == {n - x : x \in T}
  <1>1. U \subseteq 0..n /\ U # {} /\ n \in Int
    <2>1. \A x \in T : x \in Int /\ 0 <= x /\ x <= n /\ n - x \in 0..n
      OBVIOUS
    <2>2. \A u \in U : u \in 0..n
      BY <2>1
    <2>3. U # {}
      OBVIOUS
    <2> HIDE DEF U
    <2> QED
      BY <2>2, <2>3
  <1>2. PICK u \in U : \A w \in U : u <= w
    <2> HIDE DEF U
    <2> QED
      BY <1>1, Least
  <1>3. PICK x \in T : u = n - x
    OBVIOUS
  <1>4. ASSUME NEW y \in T PROVE y <= x
    <2>1. u <= n - y
      <3>1. n - y \in U
        OBVIOUS
      <3> HIDE DEF U
      <3> QED
        BY <1>2, <3>1
    <2>2. x \in 0..n /\ y \in 0..n
      OBVIOUS
    <2> QED
      BY <1>3, <2>1, <2>2
  <1> QED
    BY <1>4

LEMMA LeastIsIn ==
  ASSUME NEW n \in Int, NEW T, T \subseteq 0..n, T # {}
  PROVE  Min(T) \in T
  BY Least DEF Min

LEMMA InBody == \A i : At(i) # "end of body" => i \in 1..end
  BY DEF At

LEMMA FirstFacts ==
  ASSUME end \in Nat, NEW i \in 1..(end + 1), NEW atoms
  PROVE  First(i, atoms) \in i..(end + 1)
  <1> DEFINE T == {j \in i..end : body[j] \in atoms} \cup {end + 1}
  <1>1. T \subseteq 0..(end + 1) /\ T \subseteq i..(end + 1) /\ T # {} /\ end + 1 \in Int
    OBVIOUS
  <1>2. First(i, atoms) = Min(T)
    BY DEF First
  <1> HIDE DEF T
  <1>3. Min(T) \in T
    BY <1>1, LeastIsIn
  <1> QED
    BY <1>1, <1>2, <1>3

LEMMA BlankFacts ==
  ASSUME end \in Nat, NEW i \in 1..(end + 1)
  PROVE  ws(i) \in i..(end + 1)
  <1> DEFINE T == {j \in i..end : body[j] \notin Blanks} \cup {end + 1}
  <1>1. T \subseteq 0..(end + 1) /\ T \subseteq i..(end + 1) /\ T # {} /\ end + 1 \in Int
    OBVIOUS
  <1>2. ws(i) = Min(T)
    BY DEF ws
  <1> HIDE DEF T
  <1>3. Min(T) \in T
    BY <1>1, LeastIsIn
  <1> QED
    BY <1>1, <1>2, <1>3

(* The recursion of str does define a function: from the end of the body back. A place where
   it did not would have a last one, and from the next on there is a function. *)
LEMMA ScanDef ==
  ASSUME end \in Nat, NEW i \in 1..end
  PROVE  \E f : /\ \A j \in i..(end + 2) :
                      f[j] = CASE j > end         -> 0
                               [] At(j) = Escape -> f[j + 2]
                               [] At(j) = Quote  -> j
                               [] OTHER          -> f[j + 1]
                /\ str(i) = IF At(i) = Quote THEN f[i + 1] ELSE 0
  <1> DEFINE Rule(f, j) == CASE j > end          -> 0
                             [] At(j) = Escape -> f[j + 2]
                             [] At(j) = Quote  -> j
                             [] OTHER          -> f[j + 1]
             Good(m) == \E f : f = [j \in m..(end + 2) |-> Rule(f, j)]
             Bad == {m \in i..(end + 2) : ~ Good(m)}
  <1>0. ASSUME NEW j, At(j) = Escape \/ At(j) = Quote PROVE ~ (j > end)
    <2>1. j \in 1..end
      BY <1>0, InBody DEF Escape, Quote
    <2> QED
      BY <2>1
  <1>1. ASSUME Bad # {} PROVE FALSE
    <2>1. PICK m \in Bad : \A y \in Bad : y <= m
      <3>1. Bad \subseteq 0..(end + 2) /\ end + 2 \in Nat
        OBVIOUS
      <3> HIDE DEF Bad
      <3> QED
        BY <1>1, <3>1, Greatest
    <2>2. m \in i..(end + 2) /\ ~ Good(m)
      OBVIOUS
    <2>3. m # end + 2
      <3>1. ASSUME m = end + 2 PROVE FALSE
        <4> DEFINE f0 == [j \in m..(end + 2) |-> 0]
        <4>1. \A j \in m..(end + 2) : Rule(f0, j) = 0
          BY <1>0, <3>1
        <4>2. f0 = [j \in m..(end + 2) |-> Rule(f0, j)]
          <5> HIDE DEF Rule
          <5> QED
            BY <4>1
        <4> QED
          BY <2>2, <4>2
      <3> QED
        BY <3>1
    <2>4. Good(m + 1)
      <3>1. m + 1 \in i..(end + 2) /\ ~ (m + 1 <= m)
        BY <2>2, <2>3
      <3> QED
        BY <2>1, <3>1
    <2>5. PICK f : f = [j \in (m + 1)..(end + 2) |-> Rule(f, j)]
      BY <2>4
    <2> DEFINE g == [j \in m..(end + 2) |-> IF j > m THEN f[j] ELSE Rule(f, m)]
    <2>6. ASSUME NEW j \in m..(end + 2) PROVE g[j] = Rule(g, j)
      <3>1. j <= end => g[j + 1] = f[j + 1] /\ g[j + 2] = f[j + 2]
        BY <2>2
      <3>2. Rule(g, j) = Rule(f, j)
        <4>1. CASE j > end
          BY <1>0, <4>1
        <4>2. CASE j <= end
          BY <1>0, <3>1, <4>2
        <4> QED
          BY <2>2, <4>1, <4>2
      <3>3. j > m => f[j] = Rule(f, j)
        <4>1. j > m => j \in (m + 1)..(end + 2)
          BY <2>2
        <4> HIDE DEF Rule
        <4>2. \A l \in (m + 1)..(end + 2) : f[l] = Rule(f, l)
          BY <2>5, Zenon
        <4> QED
          BY <4>1, <4>2
      <3>4. g[j] = Rule(f, j)
        <4> HIDE DEF Rule
        <4>1. ~ (j > m) => j = m
          BY <2>2
        <4> QED
          BY <3>3, <4>1
      <3> QED
        BY <3>2, <3>4
    <2>7. g = [j \in m..(end + 2) |-> Rule(g, j)]
      <3>1. g = [j \in m..(end + 2) |-> g[j]]
        OBVIOUS
      <3> HIDE DEF g, Rule
      <3> QED
        BY <2>6, <3>1
    <2> QED
      BY <2>2, <2>7
  <1>2. Good(i)
    <2>1. i \in i..(end + 2)
      OBVIOUS
    <2> HIDE DEF Good
    <2> QED
      BY <1>1, <2>1
  <1> DEFINE F == CHOOSE f : f = [j \in i..(end + 2) |-> Rule(f, j)]
  <1>3. F = [j \in i..(end + 2) |-> Rule(F, j)]
    <2> HIDE DEF Rule
    <2> QED
      BY <1>2
  <1>4. str(i) = IF At(i) = Quote THEN F[i + 1] ELSE 0
    BY DEF str
  <1>5. \A j \in i..(end + 2) : F[j] = Rule(F, j)
    <2> HIDE DEF Rule, F
    <2> QED
      BY <1>3
  <1> QED
    <2> HIDE DEF F
    <2> QED
      BY <1>4, <1>5

(* The closing quote of the string at i is behind i, within the body. *)
LEMMA StrFacts ==
  ASSUME end \in Nat, NEW i
  PROVE  str(i) # 0 => i \in 1..end /\ str(i) \in (i + 1)..end
  <1>1. PICK n \in Nat : n = end
    OBVIOUS
  <1>2. CASE At(i) # Quote
    BY <1>2 DEF str
  <1>3. CASE At(i) = Quote
    <2>1. i \in 1..n
      BY <1>1, <1>3, InBody DEF Quote
    <2>2. PICK f : /\ \A j \in i..(n + 2) :
                         f[j] = CASE j > n         -> 0
                                  [] At(j) = Escape -> f[j + 2]
                                  [] At(j) = Quote  -> j
                                  [] OTHER          -> f[j + 1]
                   /\ str(i) = IF At(i) = Quote THEN f[i + 1] ELSE 0
      BY <1>1, <2>1, ScanDef
    <2>3. \A j \in (i + 1)..(n + 2) :
            f[j] = CASE j > n          -> 0
                     [] At(j) = Escape -> f[j + 2]
                     [] At(j) = Quote  -> j
                     [] OTHER          -> f[j + 1]
      <3>1. \A j \in (i + 1)..(n + 2) : j \in i..(n + 2)
        BY <2>1
      <3> QED
        BY <2>2, <3>1, Zenon
    <2>4. ASSUME NEW j, At(j) = Escape \/ At(j) = Quote PROVE ~ (j > n)
      <3>1. j \in 1..n
        BY <1>1, <2>4, InBody DEF Escape, Quote
      <3> QED
        BY <3>1
    <2>5. \A j \in (i + 1)..(n + 2) : \/ j > n /\ f[j] = 0
                                      \/ j <= n /\ f[j] \in {j, f[j + 1], f[j + 2]}
      <3>1. ASSUME NEW j \in (i + 1)..(n + 2), j > n PROVE f[j] = 0
        BY <2>3, <2>4, <3>1
      <3>2. ASSUME NEW j \in (i + 1)..(n + 2), j <= n PROVE f[j] \in {j, f[j + 1], f[j + 2]}
        BY <2>3, <2>4, <3>2
      <3>3. \A j \in (i + 1)..(n + 2) : j > n \/ j <= n
        BY <2>1
      <3> QED
        BY <3>1, <3>2, <3>3
    <2> DEFINE In(j) == f[j] = 0 \/ f[j] \in j..n
               Bad == {j \in (i + 1)..(n + 2) : ~ In(j)}
    <2>6. ASSUME Bad # {} PROVE FALSE
      <3>1. PICK m \in Bad : \A y \in Bad : y <= m
        <4>1. Bad \subseteq 0..(n + 2) /\ n + 2 \in Nat
          BY <2>1
        <4> HIDE DEF Bad
        <4> QED
          BY <2>6, <4>1, Greatest
      <3>2. m \in (i + 1)..(n + 2) /\ ~ In(m)
        OBVIOUS
      <3>3. m <= n /\ f[m] \in {m, f[m + 1], f[m + 2]}
        BY <2>5, <3>2
      <3>4. \A k \in {m + 1, m + 2} : In(k)
        <4>1. \A k \in {m + 1, m + 2} : k \in (i + 1)..(n + 2) /\ ~ (k <= m)
          BY <2>1, <3>2, <3>3
        <4> QED
          BY <3>1, <4>1
      <3>5. In(m)
        <4>1. i \in Nat /\ m \in Nat /\ n \in Nat
          BY <2>1, <3>2
        <4> QED
          BY <3>3, <3>4, <4>1
      <3> QED
        BY <3>2, <3>5
    <2>7. In(i + 1)
      <3>1. i + 1 \in (i + 1)..(n + 2)
        BY <2>1
      <3> HIDE DEF In
      <3> QED
        BY <2>6, <3>1
    <2>8. str(i) = f[i + 1]
      BY <1>3, <2>2
    <2> QED
      BY <1>1, <2>1, <2>7, <2>8
  <1> QED
    BY <1>2, <1>3

Brackets == {"{", "["}
Closer(i) == IF At(i) = "{" THEN "}" ELSE "]"

(* What skip finds from j on, at a depth: f is what it finds further on. *)
PastValue(f, i, j, depth) ==
  CASE j > end            -> 0
    [] At(j) = Quote     -> IF str(j) = 0 THEN 0 ELSE f[str(j) + 1][depth]
    [] At(j) = At(i)     -> f[j + 1][depth + 1]
    [] At(j) = Closer(i) -> IF depth = 1 THEN j + 1 ELSE f[j + 1][depth - 1]
    [] OTHER             -> f[j + 1][depth]

LEMMA BracketsInBody ==
  ASSUME end \in Nat, NEW i, At(i) \in Brackets, NEW j, At(j) \in {Quote, At(i), Closer(i)}
  PROVE  j \in 1..end /\ ~ (j > end)
  <1>1. j \in 1..end
    BY InBody DEF Quote, Closer, Brackets
  <1> QED
    BY <1>1

(* Beyond the body there is nothing to find. *)
LEMMA PastEnd ==
  ASSUME NEW i, At(i) \in Brackets, end \in Nat, NEW f, NEW j, j > end, NEW d
  PROVE  PastValue(f, i, j, d) = 0
  <1>1. At(j) \notin {Quote, At(i), Closer(i)}
    BY BracketsInBody
  <1>2. PICK a : a = At(i)
    OBVIOUS
  <1>3. PICK b : b = At(j)
    OBVIOUS
  <1>4. b # Quote /\ b # a /\ b # Closer(i)
    BY <1>1, <1>2, <1>3
  <1> QED
    BY <1>2, <1>3, <1>4 DEF PastValue

(* Only what is found further on counts. *)
LEMMA PastLocal ==
  ASSUME NEW i, At(i) \in Brackets, end \in Nat, NEW f, NEW g, NEW j \in 1..(end + 1), NEW d,
         \A k \in (j + 1)..(end + 1) : f[k] = g[k]
  PROVE  PastValue(f, i, j, d) = PastValue(g, i, j, d)
  <1>1. CASE j > end
    <2>1. PastValue(f, i, j, d) = 0 /\ PastValue(g, i, j, d) = 0
      BY <1>1, PastEnd
    <2> QED
      BY <2>1
  <1>2. CASE ~ (j > end)
    <2>1. f[j + 1] = g[j + 1]
      <3>1. j + 1 \in (j + 1)..(end + 1)
        BY <1>2
      <3> QED
        BY <3>1
    <2>2. str(j) # 0 => f[str(j) + 1] = g[str(j) + 1]
      <3>1. ASSUME str(j) # 0 PROVE str(j) + 1 \in (j + 1)..(end + 1)
        <4>1. str(j) \in (j + 1)..end
          BY <3>1, StrFacts
        <4> QED
          BY <4>1
      <3> QED
        BY <3>1
    <2>3. PICK s : s = str(j)
      OBVIOUS
    <2>4. f[j + 1] = g[j + 1] /\ (s # 0 => f[s + 1] = g[s + 1])
      BY <2>1, <2>2, <2>3
    <2>5. PICK a : a = At(i)
      OBVIOUS
    <2>6. PICK b : b = At(j)
      OBVIOUS
    <2>7. PICK c : c = Closer(i)
      OBVIOUS
    <2> QED
      BY <2>3, <2>4, <2>5, <2>6, <2>7 DEF PastValue
  <1> QED
    BY <1>1, <1>2

(* The recursion of skip does define a function. *)
LEMMA PastDef ==
  ASSUME end \in Nat, NEW i \in 1..end, At(i) \in Brackets
  PROVE  \E f : /\ \A j \in i..(end + 1) : \A d \in Int : f[j][d] = PastValue(f, i, j, d)
                /\ skip(i) = f[i][0]
  <1> DEFINE Rule(f, j) == [d \in Int |-> PastValue(f, i, j, d)]
             Good(m) == \E f : f = [j \in m..(end + 1) |-> Rule(f, j)]
             Bad == {m \in i..(end + 1) : ~ Good(m)}
  <1>1. ASSUME Bad # {} PROVE FALSE
    <2>1. PICK m \in Bad : \A y \in Bad : y <= m
      <3>1. Bad \subseteq 0..(end + 1) /\ end + 1 \in Nat
        OBVIOUS
      <3> HIDE DEF Bad
      <3> QED
        BY <1>1, <3>1, Greatest
    <2>2. m \in i..(end + 1) /\ ~ Good(m)
      OBVIOUS
    <2>3. m # end + 1
      <3>1. ASSUME m = end + 1 PROVE FALSE
        <4> DEFINE f0 == [j \in m..(end + 1) |-> [d \in Int |-> 0]]
        <4>1. \A j \in m..(end + 1) : Rule(f0, j) = [d \in Int |-> 0]
          <5>1. ASSUME NEW j \in m..(end + 1) PROVE Rule(f0, j) = [d \in Int |-> 0]
            <6>1. j > end
              BY <3>1
            <6> HIDE DEF f0
            <6>2. \A d \in Int : PastValue(f0, i, j, d) = 0
              BY <6>1, PastEnd
            <6> QED
              BY <6>2
          <5> QED
            BY <5>1
        <4>2. f0 = [j \in m..(end + 1) |-> Rule(f0, j)]
          <5> HIDE DEF Rule
          <5> QED
            BY <4>1
        <4> QED
          BY <2>2, <4>2
      <3> QED
        BY <3>1
    <2>4. Good(m + 1)
      <3>1. m + 1 \in i..(end + 1) /\ ~ (m + 1 <= m)
        BY <2>2, <2>3
      <3> QED
        BY <2>1, <3>1
    <2>5. PICK f : f = [j \in (m + 1)..(end + 1) |-> Rule(f, j)]
      BY <2>4
    <2> DEFINE g == [j \in m..(end + 1) |-> IF j > m THEN f[j] ELSE Rule(f, m)]
    <2>6. ASSUME NEW j \in m..(end + 1) PROVE g[j] = Rule(g, j)
      <3>1. \A k \in (j + 1)..(end + 1) : f[k] = g[k]
        <4> HIDE DEF Rule
        <4> QED
          BY <2>2
      <3>2. Rule(g, j) = Rule(f, j)
        <4>1. j \in 1..(end + 1)
          BY <2>2
        <4> HIDE DEF g
        <4>2. ASSUME NEW d \in Int PROVE PastValue(f, i, j, d) = PastValue(g, i, j, d)
          BY <3>1, <4>1, PastLocal
        <4> QED
          BY <4>2
      <3>3. j > m => f[j] = Rule(f, j)
        <4>1. j > m => j \in (m + 1)..(end + 1)
          BY <2>2
        <4> HIDE DEF Rule
        <4>2. \A l \in (m + 1)..(end + 1) : f[l] = Rule(f, l)
          BY <2>5, Zenon
        <4> QED
          BY <4>1, <4>2
      <3>4. g[j] = Rule(f, j)
        <4> HIDE DEF Rule
        <4>1. ~ (j > m) => j = m
          BY <2>2
        <4> QED
          BY <3>3, <4>1
      <3> QED
        BY <3>2, <3>4
    <2>7. g = [j \in m..(end + 1) |-> Rule(g, j)]
      <3>1. g = [j \in m..(end + 1) |-> g[j]]
        OBVIOUS
      <3> HIDE DEF g, Rule
      <3> QED
        BY <2>6, <3>1
    <2> QED
      BY <2>2, <2>7
  <1>2. Good(i)
    <2>1. i \in i..(end + 1)
      OBVIOUS
    <2> HIDE DEF Good
    <2> QED
      BY <1>1, <2>1
  <1> DEFINE F == CHOOSE f : f = [j \in i..(end + 1) |-> Rule(f, j)]
  <1>3. F = [j \in i..(end + 1) |-> Rule(F, j)]
    <2> HIDE DEF Rule
    <2> QED
      BY <1>2
  <1>4. \A j \in i..(end + 1) : F[j] = Rule(F, j)
    <2> HIDE DEF Rule, F
    <2> QED
      BY <1>3
  <1>5. skip(i) = F[i][0]
    <2>1. skip(i) = CASE i > end             -> 0
                      [] At(i) = Quote       -> IF str(i) = 0 THEN 0 ELSE str(i) + 1
                      [] At(i) \in {"{", "["} -> F[i][0]
                      [] OTHER               -> First(i, {",", "}", "]"})
      BY DEF skip, PastValue, Closer
    <2>2. ~ (i > end)
      OBVIOUS
    <2>3. At(i) # Quote
      BY DEF Quote, Brackets
    <2> HIDE DEF F
    <2> QED
      BY <2>1, <2>2, <2>3 DEF Brackets
  <1>6. \A j \in i..(end + 1) : \A d \in Int : F[j][d] = PastValue(F, i, j, d)
    <2> HIDE DEF F
    <2> QED
      BY <1>4
  <1> QED
    <2> HIDE DEF F
    <2> QED
      BY <1>5, <1>6

(* A bracketed value ends behind its bracket, within the body. *)
LEMMA PastFacts ==
  ASSUME end \in Nat, NEW i \in 1..end, At(i) \in Brackets
  PROVE  skip(i) = 0 \/ skip(i) \in (i + 1)..(end + 1)
  <1>1. PICK n \in Nat : n = end
    OBVIOUS
  <1>2. PICK f : /\ \A j \in i..(n + 1) : \A d \in Int : f[j][d] = PastValue(f, i, j, d)
                 /\ skip(i) = f[i][0]
    BY <1>1, PastDef
  <1> DEFINE In(j) == \A d \in Int : f[j][d] = 0 \/ f[j][d] \in (j + 1)..(n + 1)
             Bad == {j \in i..(n + 1) : ~ In(j)}
  <1>3. ASSUME Bad # {} PROVE FALSE
    <2>1. PICK m \in Bad : \A y \in Bad : y <= m
      <3>1. Bad \subseteq 0..(n + 1) /\ n + 1 \in Nat
        BY <1>1
      <3> HIDE DEF Bad
      <3> QED
        BY <1>3, <3>1, Greatest
    <2>2. m \in i..(n + 1) /\ ~ In(m)
      OBVIOUS
    <2>3. PICK d \in Int : ~ (f[m][d] = 0 \/ f[m][d] \in (m + 1)..(n + 1))
      BY <2>2
    <2>4. f[m][d] = PastValue(f, i, m, d)
      BY <1>2, <2>2
    <2>5. ~ (m > n)
      <3>1. m > n => f[m][d] = 0
        BY <1>1, <2>4, PastEnd
      <3> QED
        BY <2>3, <3>1
    <2>6. m \in Nat /\ i \in Nat /\ m + 1 \in i..(n + 1) /\ i <= m
      BY <2>2, <2>5
    <2>7. In(m + 1)
      <3>1. ~ (m + 1 <= m)
        BY <2>6
      <3> HIDE DEF In
      <3> QED
        BY <2>1, <2>6, <3>1
    <2>8. PICK s : s = str(m)
      OBVIOUS
    <2>9. s = 0 \/ (s \in (m + 1)..n /\ In(s + 1))
      <3>1. ASSUME s # 0 PROVE s \in (m + 1)..n /\ In(s + 1)
        <4>1. s \in (m + 1)..n
          BY <1>1, <2>8, <3>1, StrFacts
        <4>2. s + 1 \in i..(n + 1) /\ ~ (s + 1 <= m)
          BY <2>6, <4>1
        <4> HIDE DEF In
        <4>3. In(s + 1)
          BY <2>1, <4>2
        <4> QED
          BY <4>1, <4>3
      <3> QED
        BY <3>1
    <2>10. \/ f[m][d] \in {0, m + 1, f[m + 1][d], f[m + 1][d + 1], f[m + 1][d - 1]}
           \/ s # 0 /\ f[m][d] = f[s + 1][d]
      <3>1. PICK a : a = At(i)
        OBVIOUS
      <3>2. PICK b : b = At(m)
        OBVIOUS
      <3>3. PICK c : c = Closer(i)
        OBVIOUS
      <3> QED
        BY <1>1, <2>4, <2>5, <2>8, <3>1, <3>2, <3>3 DEF PastValue
    <2>11. d + 1 \in Int /\ d - 1 \in Int
      OBVIOUS
    <2>12. CASE f[m][d] \in {0, m + 1, f[m + 1][d], f[m + 1][d + 1], f[m + 1][d - 1]}
      <3>1. \A e \in Int : f[m + 1][e] = 0 \/ f[m + 1][e] \in (m + 1 + 1)..(n + 1)
        BY <2>7
      <3>2. m + 1 \in (m + 1)..(n + 1) /\ (m + 1 + 1)..(n + 1) \subseteq (m + 1)..(n + 1)
        BY <2>6
      <3>3. \A e \in Int : f[m + 1][e] = 0 \/ f[m + 1][e] \in (m + 1)..(n + 1)
        BY <3>1, <3>2
      <3> QED
        BY <2>3, <2>11, <2>12, <3>2, <3>3
    <2>13. CASE s # 0 /\ f[m][d] = f[s + 1][d]
      <3>1. s \in (m + 1)..n /\ (f[s + 1][d] = 0 \/ f[s + 1][d] \in (s + 1 + 1)..(n + 1))
        BY <2>9, <2>13
      <3>2. (s + 1 + 1)..(n + 1) \subseteq (m + 1)..(n + 1)
        BY <2>6, <3>1
      <3> QED
        BY <2>3, <2>13, <3>1, <3>2
    <2> QED
      BY <2>10, <2>12, <2>13
  <1>4. In(i)
    <2>1. i \in i..(n + 1)
      BY <1>1
    <2> HIDE DEF In
    <2> QED
      BY <1>3, <2>1
  <1> QED
    BY <1>1, <1>2, <1>4

(* A value ends no earlier than it starts, and within the body. *)
LEMMA SkipFacts ==
  ASSUME end \in Nat, NEW i \in 1..(end + 1)
  PROVE  skip(i) = 0 \/ skip(i) \in i..(end + 1)
  <1>1. CASE i > end
    <2>1. i \notin 1..end
      BY <1>1
    <2>2. At(i) \notin {"{", "[", Quote}
      BY <2>1, InBody DEF Quote
    <2> QED
      BY <1>1, <2>2 DEF skip
  <1>2. CASE ~ (i > end) /\ At(i) = Quote
    <2>1. skip(i) = IF str(i) = 0 THEN 0 ELSE str(i) + 1
      BY <1>2 DEF skip, Quote
    <2>2. str(i) # 0 => str(i) \in (i + 1)..end
      BY StrFacts
    <2> QED
      BY <2>1, <2>2
  <1>3. CASE ~ (i > end) /\ At(i) \in Brackets
    <2>1. i \in 1..end
      BY <1>3
    <2>2. skip(i) = 0 \/ skip(i) \in (i + 1)..(end + 1)
      BY <1>3, <2>1, PastFacts
    <2>3. (i + 1)..(end + 1) \subseteq i..(end + 1)
      BY <2>1
    <2> QED
      BY <2>2, <2>3
  <1>4. CASE ~ (i > end) /\ At(i) # Quote /\ At(i) \notin Brackets
    <2>1. skip(i) = First(i, {",", "}", "]"})
      BY <1>4 DEF skip, Brackets
    <2> QED
      BY <2>1, FirstFacts
  <1> QED
    BY <1>1, <1>2, <1>3, <1>4


LEMMA AfterFacts ==
  ASSUME end \in Nat, NEW i \in 1..(end + 1)
  PROVE  afterValue(i) \in i..(end + 1)
  <1>1. PICK j : j = ws(i)
    OBVIOUS
  <1>2. j \in i..(end + 1)
    BY <1>1, BlankFacts
  <1>3. afterValue(i) = IF At(j) = "," THEN j + 1 ELSE j
    BY <1>1 DEF afterValue
  <1>4. CASE At(j) = ","
    <2>1. j \in 1..end
      BY <1>4, InBody
    <2>2. j + 1 \in i..(end + 1)
      BY <1>2, <2>1
    <2> QED
      BY <1>3, <1>4, <2>2
  <1>5. CASE At(j) # ","
    BY <1>2, <1>3, <1>5
  <1> QED
    BY <1>4, <1>5

(* The value of a member starts behind what has been read. *)
LEMMA KeyFacts ==
  ASSUME end \in Nat, p \in 1..(end + 1)
  PROVE  key = NoKey \/ key.value \in (p + 1)..(end + 1)
  <1>1. PICK open : open = ws(p)
    OBVIOUS
  <1>2. open \in p..(end + 1)
    BY <1>1, BlankFacts
  <1>3. PICK s : s = str(open)
    OBVIOUS
  <1>4. PICK colon : colon = ws(s + 1)
    OBVIOUS
  <1>5. key = IF s = 0 \/ At(colon) # ":"
              THEN NoKey
              ELSE [name  |-> IF Len(text(open)) = 1 THEN text(open)[1] ELSE "",
                    value |-> ws(colon + 1)]
    BY <1>1, <1>3, <1>4 DEF key
  <1>6. CASE s = 0 \/ At(colon) # ":"
    BY <1>5, <1>6
  <1>7. CASE ~ (s = 0 \/ At(colon) # ":")
    <2>1. open \in 1..end /\ s \in (open + 1)..end
      BY <1>3, <1>7, StrFacts
    <2>2. s + 1 \in 1..(end + 1)
      BY <2>1
    <2>3. colon \in (s + 1)..(end + 1)
      BY <1>4, <2>2, BlankFacts
    <2>4. colon \in 1..end
      BY <1>7, InBody
    <2>5. colon + 1 \in 1..(end + 1)
      BY <2>4
    <2>6. ws(colon + 1) \in (colon + 1)..(end + 1)
      BY <2>5, BlankFacts
    <2>7. key.value = ws(colon + 1)
      BY <1>5, <1>7
    <2>8. ws(colon + 1) \in (p + 1)..(end + 1)
      BY <1>2, <2>1, <2>3, <2>6
    <2> QED
      BY <2>7, <2>8
  <1> QED
    BY <1>6, <1>7

(* What is read of a value ends no earlier than the value starts. *)
LEMMA MemberReadsOn ==
  ASSUME end \in Nat, NEW v \in 1..(end + 1), NEW name
  PROVE  Member(name, v).next = 0 \/ Member(name, v).next \in v..(end + 1)
  <1> DEFINE Fine(m) == m.next = 0 \/ m.next \in v..(end + 1)
  <1>1. Fine(Refusal)
    BY DEF Refusal
  <1>2. Fine(Ignore(v))
    BY SkipFacts DEF Ignore
  <1>3. \A field, value, next : next \in v..(end + 1) => Fine(Store(field, value, next))
    BY DEF Store
  <1>4. \A field : Fine(Number(field, v)) /\ Fine(Integer(field, v))
    <2>1. At(v) \in DOMAIN Num => v + 1 \in v..(end + 1)
      <3>1. At(v) \in DOMAIN Num => v \in 1..end
        BY NumAssumption, InBody
      <3> QED
        BY <3>1
    <2> HIDE DEF Fine
    <2> QED
      BY <1>1, <1>3, <2>1 DEF Number, Integer
  <1>5. str(v) # 0 => str(v) + 1 \in v..(end + 1)
    <2>1. str(v) # 0 => str(v) \in (v + 1)..end
      BY StrFacts
    <2> QED
      BY <2>1
  <1>6. \A field : Fine(String(field, v)) /\ Fine(Timestamp(field, v))
    <2> HIDE DEF Fine
    <2> QED
      BY <1>1, <1>3, <1>5 DEF String, Timestamp
  <1>7. skip(v) # 0 => skip(v) \in v..(end + 1)
    BY SkipFacts
  <1>8. \A field : Fine(Flag(field, v))
    <2> HIDE DEF Fine
    <2> QED
      BY <1>1, <1>3, <1>7 DEF Flag
  <1>9. Fine(Merchants(v))
    <2> HIDE DEF Fine
    <2> QED
      BY <1>2, <1>3, <1>7 DEF Merchants
  <1> HIDE DEF Fine
  <1>10. Fine(transaction(name, v))
    BY <1>2, <1>4, <1>6 DEF transaction
  <1>11. Fine(customer(name, v))
    BY <1>2, <1>4, <1>9 DEF customer
  <1>12. Fine(merchant(name, v))
    BY <1>2, <1>4, <1>6 DEF merchant
  <1>13. Fine(terminal(name, v))
    BY <1>2, <1>4, <1>8 DEF terminal
  <1>14. Fine(lastTx(name, v))
    BY <1>2, <1>4, <1>6 DEF lastTx
  <1>15. Fine(Member(name, v))
    BY <1>2, <1>10, <1>11, <1>12, <1>13, <1>14 DEF Member
  <1> QED
    BY <1>15 DEF Fine

(* Behind the end there are no more members to find, not even the brace that ends them. *)
LEMMA NothingAtEnd ==
  ASSUME end \in Nat, p = end + 1
  PROVE  ~ NoMore /\ key = NoKey
  <1>1. PICK w : w = ws(p)
    OBVIOUS
  <1>2. w = end + 1
    <2>1. p \in 1..(end + 1)
      OBVIOUS
    <2>2. w \in p..(end + 1)
      BY <1>1, <2>1, BlankFacts
    <2> QED
      BY <2>2
  <1>3. w \notin 1..end
    BY <1>2
  <1>4. At(w) = "end of body"
    BY <1>3 DEF At
  <1>5. str(w) = 0
    BY <1>3, StrFacts
  <1> QED
    BY <1>1, <1>4, <1>5 DEF NoMore, key

(* When a byte behind the body is read, the body has been read to its end. *)
LEMMA LookingBehindIsLast ==
  ASSUME end \in Nat, NEW v, NEW name, LooksBehind(name, v)
  PROVE  Member(name, v).next = end + 1
  <1>1. PICK c : c = str(v)
    OBVIOUS
  <1>2. c \in 1..end /\ c + 1 \notin 1..end
    <2>1. c # 0 /\ c + 1 \notin 1..end
      BY <1>1 DEF LooksBehind
    <2>2. v \in 1..end /\ c \in (v + 1)..end
      BY <1>1, <2>1, StrFacts
    <2> QED
      BY <2>1, <2>2
  <1>3. c + 1 = end + 1 /\ c # 0
    BY <1>2
  <1>4. \A field : Timestamp(field, v).next = end + 1
    BY <1>1, <1>3 DEF Timestamp, Store
  <1> HIDE DEF Timestamp
  <1>5. CASE within = "transaction" /\ name = "requested_at"
    BY <1>4, <1>5 DEF Member, transaction
  <1>6. CASE within = "last_transaction" /\ name = "timestamp"
    BY <1>4, <1>6 DEF Member, lastTx
  <1> QED
    BY <1>5, <1>6 DEF LooksBehind

(* The invariant: until the parser returns it is within the body, or just behind it;
   there, if it has read a byte behind the body. *)
Within ==
  /\ input \in Inputs
  /\ pc \in {"start", "members"} => p \in 1..(end + 1)
  /\ pc = "start" => p = 1

Beyond == beyond => pc = "refused" \/ (pc = "members" /\ p = end + 1)

Onward == p' \in (p + 1)..(end + 1) /\ pc' = "members"
Return == pc' \in {"refused", "panicked", "done"}

LEMMA EndIsNatural == input \in Inputs => end \in Nat
  BY InputsAssumption DEF end, body

LEMMA InitWithin == ASSUME Init PROVE Within
  <1>1. input \in Inputs /\ p = 1
    BY DEF Init
  <1>2. 1 \in 1..(end + 1)
    BY <1>1, EndIsNatural
  <1> QED
    BY <1>1, <1>2 DEF Within

(* What each action does with the position. *)
LEMMA StepOnward ==
  ASSUME Within, Next
  PROVE  input' = input /\ (Onward \/ Return)
  <1>1. end \in Nat
    BY EndIsNatural DEF Within
  <1>2. CASE Returned
    BY <1>2 DEF Returned, vars, Return
  <1>3. CASE ~ Returned
    <2>1. input' = input
      BY <1>3 DEF Next, Start, Refuse, Enter, NoLast, Value, Panic, Malformed, Leave, Finish
    <2>2. pc \in {"start", "members"} /\ p \in 1..(end + 1)
      BY <1>3 DEF Next, Start, Enter, NoLast, Value, Panic, Malformed, Leave, Finish, AtValue,
                  InMembers, Within
    <2>3. PICK w : w = ws(p)
      OBVIOUS
    <2>4. w \in p..(end + 1)
      BY <1>1, <2>2, <2>3, BlankFacts
    <2>5. PICK k : k = key
      OBVIOUS
    <2>6. k = NoKey \/ k.value \in (p + 1)..(end + 1)
      BY <1>1, <2>2, <2>5, KeyFacts
    <2>7. CASE Start
      <3>1. p = 1
        BY <2>7 DEF Start, Within
      <3>2. CASE At(ws(1)) = "{"
        <4>1. w \in 1..end
          BY <2>3, <3>1, <3>2, InBody
        <4>2. p' = w + 1 /\ pc' = "members"
          BY <2>3, <2>7, <3>1, <3>2 DEF Start
        <4>3. w + 1 \in (p + 1)..(end + 1)
          BY <1>1, <2>4, <4>1, <3>1
        <4> QED
          BY <2>1, <4>2, <4>3 DEF Onward
      <3>3. CASE At(ws(1)) # "{"
        BY <2>1, <2>7, <3>3 DEF Start, Refuse, Return
      <3> QED
        BY <3>2, <3>3
    <2>8. CASE Enter
      <3>1. At(k.value) = "{" /\ p' = k.value + 1 /\ pc' = "members"
        BY <2>5, <2>8 DEF Enter, InMembers
      <3>2. k.value \in 1..end
        BY <3>1, InBody
      <3>3. k.value \in (p + 1)..(end + 1)
        <4>1. NoKey.value = 0
          BY DEF NoKey
        <4>2. 0 \notin 1..end
          BY <1>1
        <4>3. k # NoKey
          BY <3>2, <4>1, <4>2
        <4> QED
          BY <2>6, <4>3
      <3>4. k.value + 1 \in (p + 1)..(end + 1)
        BY <1>1, <2>2, <3>2, <3>3
      <3> QED
        BY <2>1, <3>1, <3>4 DEF Onward
    <2>9. CASE NoLast
      <3>1. At(k.value) = "null" /\ p' = afterValue(k.value + 1) /\ pc' = "members"
        BY <2>5, <2>9 DEF NoLast, InMembers
      <3>2. k.value \in 1..end
        BY <3>1, InBody
      <3>3. k.value \in (p + 1)..(end + 1)
        <4>1. NoKey.value = 0
          BY DEF NoKey
        <4>2. 0 \notin 1..end
          BY <1>1
        <4>3. k # NoKey
          BY <3>2, <4>1, <4>2
        <4> QED
          BY <2>6, <4>3
      <3>4. k.value + 1 \in 1..(end + 1)
        BY <1>1, <3>2
      <3>5. p' \in (k.value + 1)..(end + 1)
        BY <1>1, <3>1, <3>4, AfterFacts
      <3>6. p' \in (p + 1)..(end + 1)
        BY <2>2, <3>3, <3>5
      <3> QED
        BY <2>1, <3>1, <3>6 DEF Onward
    <2>10. CASE Value
      <3>1. PICK v : v = k.value
        OBVIOUS
      <3>2. PICK m : m = Member(k.name, v)
        OBVIOUS
      <3>3. v \in (p + 1)..(end + 1)
        BY <2>5, <2>6, <2>10, <3>1 DEF Value, AtValue
      <3>4. v \in 1..(end + 1)
        BY <2>2, <3>3
      <3>5. m.next = 0 \/ m.next \in v..(end + 1)
        BY <1>1, <3>2, <3>4, MemberReadsOn
      <3>6. CASE m.next = 0
        BY <2>1, <2>5, <2>10, <3>1, <3>2, <3>6 DEF Value, Refuse, Return
      <3>7. CASE m.next # 0
        <4>1. p' = afterValue(m.next) /\ pc' = "members"
          BY <2>5, <2>10, <3>1, <3>2, <3>7 DEF Value, AtValue, InMembers
        <4>2. m.next \in 1..(end + 1)
          BY <3>4, <3>5, <3>7
        <4>3. p' \in (m.next)..(end + 1)
          BY <1>1, <4>1, <4>2, AfterFacts
        <4>4. p' \in (p + 1)..(end + 1)
          BY <2>2, <3>3, <3>5, <3>7, <4>3
        <4> QED
          BY <2>1, <4>1, <4>4 DEF Onward
      <3> QED
        BY <3>6, <3>7
    <2>11. CASE Malformed
      BY <2>1, <2>11 DEF Malformed, Refuse, Return
    <2>12. CASE Leave
      <3>1. At(w) = "}" /\ p' = afterValue(w + 1) /\ pc' = "members"
        BY <2>3, <2>12 DEF Leave, NoMore
      <3>2. w \in 1..end
        BY <3>1, InBody
      <3>3. w + 1 \in 1..(end + 1)
        BY <1>1, <3>2
      <3>4. p' \in (w + 1)..(end + 1)
        BY <1>1, <3>1, <3>3, AfterFacts
      <3>5. p' \in (p + 1)..(end + 1)
        BY <2>2, <2>4, <3>4
      <3> QED
        BY <2>1, <3>1, <3>5 DEF Onward
    <2>13. CASE Finish
      BY <2>1, <2>13 DEF Finish, Return
    <2>14. CASE Panic
      BY <2>1, <2>14 DEF Panic, Return
    <2> QED
      BY <1>3, <2>7, <2>8, <2>9, <2>10, <2>11, <2>12, <2>13, <2>14 DEF Next
  <1> QED
    BY <1>2, <1>3

LEMMA StepWithin == ASSUME Within, [Next]_vars PROVE Within'
  <1>1. CASE UNCHANGED vars
    BY <1>1 DEF vars, Within, end, body
  <1>2. CASE Next
    <2>1. input' = input /\ (Onward \/ Return)
      BY <1>2, StepOnward
    <2>2. input' \in Inputs /\ end' = end /\ end \in Nat
      BY <2>1, EndIsNatural DEF Within, end, body
    <2>3. CASE Onward
      <3>1. p' \in 1..(end + 1) /\ pc' = "members"
        <4>1. pc \in {"start", "members"} \/ pc' # "members"
          BY <1>2 DEF Next, Start, Enter, NoLast, Value, Panic, Malformed, Leave, Finish,
                      Returned, AtValue, InMembers, Refuse, vars
        <4>2. p \in 1..(end + 1)
          BY <2>3, <4>1 DEF Onward, Within
        <4> QED
          BY <2>3, <4>2 DEF Onward
      <3> QED
        BY <2>2, <3>1 DEF Within
    <2>4. CASE Return
      BY <2>2, <2>4 DEF Within, Return
    <2> QED
      BY <2>1, <2>3, <2>4
  <1> QED
    BY <1>1, <1>2

LEMMA StepBeyond == ASSUME Within, Beyond, [Next]_vars PROVE Beyond'
  <1>1. end \in Nat
    BY EndIsNatural DEF Within
  <1>2. CASE UNCHANGED vars
    BY <1>2 DEF vars, Beyond, end, body
  <1>3. ASSUME Next, ~ Returned PROVE Beyond'
    <2>1. input' = input /\ pc # "refused"
      BY <1>3 DEF Next, Start, Refuse, Enter, NoLast, Value, Panic, Malformed, Leave, Finish,
                  AtValue, InMembers
    <2>2. end' = end
      BY <2>1 DEF end, body
    <2>3. CASE beyond
      <3>1. pc = "members" /\ p = end + 1
        BY <2>1, <2>3 DEF Beyond
      <3>2. ~ NoMore /\ key = NoKey
        BY <1>1, <3>1, NothingAtEnd
      <3>3. key.name = "" /\ "" \notin Sections
        BY <3>2 DEF NoKey, Sections
      <3>4. Malformed
        BY <1>3, <3>1, <3>2, <3>3 DEF Next, Start, Enter, EntersSection, NoLast, Value, Panic,
                                      AtValue, Leave, Finish
      <3> QED
        BY <3>4 DEF Malformed, Refuse, Beyond
    <2>4. CASE ~ beyond /\ ~ Value
      BY <1>3, <2>4 DEF Next, Start, Refuse, Enter, NoLast, Panic, Malformed, Leave, Finish,
                        Beyond
    <2>5. CASE ~ beyond /\ Value
      <3>1. PICK m : m = Member(key.name, key.value)
        OBVIOUS
      <3>2. CASE beyond'
        <4>1. LooksBehind(key.name, key.value) /\ p' = afterValue(m.next) /\ pc' = "members"
          BY <2>5, <3>1, <3>2 DEF Value, Refuse, AtValue, InMembers
        <4>2. m.next = end + 1
          BY <1>1, <3>1, <4>1, LookingBehindIsLast
        <4>3. p' = end + 1
          <5>1. end + 1 \in 1..(end + 1)
            BY <1>1
          <5>2. afterValue(end + 1) \in (end + 1)..(end + 1)
            BY <1>1, <5>1, AfterFacts
          <5> QED
            BY <1>1, <4>1, <4>2, <5>2
        <4> QED
          BY <2>2, <4>1, <4>3 DEF Beyond
      <3>3. CASE ~ beyond'
        BY <3>3 DEF Beyond
      <3> QED
        BY <3>2, <3>3
    <2> QED
      BY <2>3, <2>4, <2>5
  <1> QED
    BY <1>2, <1>3 DEF Returned

(* Parsing ends: each step of any body reads on, within it or up to its end, or returns
   or panics. *)
THEOREM ParsingReadsOn == Spec => ReadsOn
  <1>1. Within /\ [Next]_vars
          => [p' \in (p + 1)..(end + 1) \/ pc' \in {"refused", "panicked", "done"}]_vars
    BY StepOnward DEF Onward, Return
  <1>2. Init => Within
    BY InitWithin
  <1>3. Within /\ [Next]_vars => Within'
    BY StepWithin
  <1> QED
    BY <1>1, <1>2, <1>3, PTL DEF Spec, ReadsOn

(* The byte behind the body that parseISO8601 may read counts in no query: then the body
   ends inside a section, and is refused. *)
THEOREM BodiesScoredAlone == Spec => []ScoresOnlyTheBody
  <1>1. Init => Within /\ Beyond
    BY InitWithin DEF Init, Beyond
  <1>2. Within /\ Beyond /\ [Next]_vars => (Within /\ Beyond)'
    BY StepWithin, StepBeyond
  <1>3. Beyond => ScoresOnlyTheBody
    BY DEF Beyond, ScoresOnlyTheBody
  <1> QED
    BY <1>1, <1>2, <1>3, PTL DEF Spec

-----------------------------------------------------------------------------
(* Calendar. *)

(* The days of the years before y, which start on 1 March, and of the months of
   the year before month m, counted from March. *)
YearDays(y)  == 365 * y + y \div 4 - y \div 100 + y \div 400
MarchYear(y, m)  == IF m <= 2 THEN y - 1 ELSE y
MarchMonth(m)    == IF m > 2 THEN m - 3 ELSE m + 9
MonthDays(mp)    == (153 * mp + 2) \div 5
DayNumber(y, m, d) ==
  YearDays(MarchYear(y, m)) + MonthDays(MarchMonth(m)) + d - 1 - 719468

TInv ==
  /\ date \in [year : Int, month : 1..12, day : 1..31]
  /\ date.day <= DaysIn(date.year, date.month)
  /\ days \in Int
  /\ days = DayNumber(date.year, date.month, date.day) - DayNumber(FirstYear, 1, 1)

-----------------------------------------------------------------------------
(* An era is 400 years, before year 0 too: the quotient rounded towards zero of
   y - 399 is that of y rounded down. *)
LEMMA EraRoundsDown ==
  ASSUME NEW y \in Int
  PROVE  (IF y >= 0 THEN goDiv(y, 400) ELSE goDiv(y - 399, 400)) = y \div 400
  <1>1. CASE y >= 0
    BY <1>1 DEF goDiv
  <1>2. CASE y < 0
    <2>1. goDiv(y - 399, 400) = -((-(y - 399)) \div 400)
      BY <1>2 DEF goDiv
    <2>2. -((-(y - 399)) \div 400) = y \div 400
      BY Z3
    <2> QED
      BY <1>2, <2>1, <2>2
  <1> QED
    BY <1>1, <1>2

LEMMA ClosedForm ==
  ASSUME NEW y \in Int, NEW m \in 1..12, NEW d \in Int
  PROVE  daysFromCivil(y, m, d) = DayNumber(y, m, d) /\ DayNumber(y, m, d) \in Int
  <1>1. PICK Y \in Int : Y = MarchYear(y, m)
    BY DEF MarchYear
  <1>2. PICK era \in Int : era = Y \div 400
    BY <1>1
  <1>3. PICK yoe \in Int : yoe = Y - era * 400
    BY <1>1, <1>2
  <1>4. /\ yoe \in 0..399
        /\ era * 146097 + (yoe * 365 + yoe \div 4 - yoe \div 100) = YearDays(Y)
    <2>1. yoe \in 0..399
      BY <1>2, <1>3, Z3
    <2>2. Y \div 4 = 100 * era + yoe \div 4
      BY <1>3, <2>1, Z3
    <2>3. Y \div 100 = 4 * era + yoe \div 100
      BY <1>3, <2>1, Z3
    <2> QED
      BY <1>2, <1>3, <2>1, <2>2, <2>3, Z3 DEF YearDays
  <1>5. PICK mp \in 0..11 : mp = MarchMonth(m)
    BY DEF MarchMonth
  <1>6. MarchDay(mp, d) = MonthDays(mp) + d - 1 /\ MonthDays(mp) \in Int
    BY <1>5 DEF MarchDay, MonthDays, goDiv
  <1>7. goDiv(yoe, 4) = yoe \div 4 /\ goDiv(yoe, 100) = yoe \div 100
    BY <1>4 DEF goDiv
  <1>8. daysFromCivil(y, m, d) =
          era * 146097 + (yoe * 365 + goDiv(yoe, 4) - goDiv(yoe, 100) + MarchDay(mp, d)) - 719468
    <2>1. (IF Y >= 0 THEN goDiv(Y, 400) ELSE goDiv(Y - 399, 400)) = era
      BY <1>1, <1>2, EraRoundsDown
    <2> HIDE DEF goDiv, MarchDay
    <2> QED
      BY <1>1, <1>3, <1>5, <2>1 DEF daysFromCivil, MarchYear, MarchMonth
  <1>9. YearDays(Y) \in Int
    BY DEF YearDays
  <1>10. DayNumber(y, m, d) = YearDays(Y) + MonthDays(mp) + d - 1 - 719468
    BY <1>1, <1>5 DEF DayNumber
  <1> QED
    BY <1>4, <1>6, <1>7, <1>8, <1>9, <1>10

(* From February to March a year has one day more if it is a leap year. *)
LEMMA LeapDay ==
  ASSUME NEW y \in Int
  PROVE  YearDays(y) = YearDays(y - 1) + 365 + (IF LeapYear(y) THEN 1 ELSE 0)
  <1>1. y \div 4 = (y - 1) \div 4 + (IF y % 4 = 0 THEN 1 ELSE 0)
    BY Z3
  <1>2. y \div 100 = (y - 1) \div 100 + (IF y % 100 = 0 THEN 1 ELSE 0)
    BY Z3
  <1>3. y \div 400 = (y - 1) \div 400 + (IF y % 400 = 0 THEN 1 ELSE 0)
    BY Z3
  <1>4. (y % 400 = 0 => y % 100 = 0) /\ (y % 100 = 0 => y % 4 = 0)
    BY Z3
  <1> QED
    BY <1>1, <1>2, <1>3, <1>4, Z3 DEF YearDays, LeapYear

(* The closed form of the day after is one more. *)
LEMMA NextDayIsNext ==
  ASSUME NEW y \in Int, NEW m \in 1..12
  PROVE  /\ DaysIn(y, m) \in 28..31
         /\ \A d \in Int : DayNumber(y, m, d + 1) = DayNumber(y, m, d) + 1
         /\ m < 12 => DayNumber(y, m + 1, 1) = DayNumber(y, m, DaysIn(y, m)) + 1
         /\ m = 12 => DayNumber(y + 1, 1, 1) = DayNumber(y, m, DaysIn(y, m)) + 1
  <1>1. DaysIn(y, m) \in 28..31
    BY DEF DaysIn
  <1>2. YearDays(y) \in Int /\ YearDays(y - 1) \in Int
    BY DEF YearDays
  <1>3. /\ MonthDays(0) = 0   /\ MonthDays(1) = 31  /\ MonthDays(2) = 61
        /\ MonthDays(3) = 92  /\ MonthDays(4) = 122 /\ MonthDays(5) = 153
        /\ MonthDays(6) = 184 /\ MonthDays(7) = 214 /\ MonthDays(8) = 245
        /\ MonthDays(9) = 275 /\ MonthDays(10) = 306 /\ MonthDays(11) = 337
    BY DEF MonthDays
  <1>4. \A d \in Int : DayNumber(y, m, d + 1) = DayNumber(y, m, d) + 1
    <2>1. MarchYear(y, m) \in {y, y - 1} /\ MarchMonth(m) \in 0..11
      BY DEF MarchYear, MarchMonth
    <2>2. MonthDays(MarchMonth(m)) \in Int /\ YearDays(MarchYear(y, m)) \in Int
      BY <1>2, <1>3, <2>1
    <2> QED
      BY <2>2 DEF DayNumber
  <1>5. CASE m = 2
    <2>1. DayNumber(y, 3, 1) = YearDays(y) - 719468
      BY <1>2, <1>3 DEF DayNumber, MarchYear, MarchMonth
    <2>2. \A d \in Int : DayNumber(y, 2, d) = YearDays(y - 1) + 337 + d - 1 - 719468
      BY <1>2, <1>3 DEF DayNumber, MarchYear, MarchMonth
    <2>3. DaysIn(y, 2) = IF LeapYear(y) THEN 29 ELSE 28
      BY DEF DaysIn
    <2> HIDE DEF LeapYear
    <2>4. DayNumber(y, 3, 1) = DayNumber(y, 2, DaysIn(y, 2)) + 1
      BY <1>2, <2>1, <2>2, <2>3, LeapDay
    <2> QED
      BY <1>1, <1>4, <1>5, <2>4
  <1>6. CASE m = 12
    <2>1. DayNumber(y + 1, 1, 1) = YearDays(y) + 306 + 1 - 1 - 719468
      <3>1. MarchYear(y + 1, 1) = y /\ MarchMonth(1) = 10
        BY DEF MarchYear, MarchMonth
      <3> QED
        BY <1>2, <1>3, <3>1 DEF DayNumber
    <2>2. DayNumber(y, 12, 31) = YearDays(y) + 275 + 31 - 1 - 719468 /\ DaysIn(y, 12) = 31
      BY <1>2, <1>3 DEF DayNumber, MarchYear, MarchMonth, DaysIn
    <2> QED
      BY <1>1, <1>2, <1>4, <1>6, <2>1, <2>2
  <1>7. CASE m \notin {2, 12}
    <2>1. /\ MarchYear(y, m + 1) = MarchYear(y, m) /\ MarchYear(y, m) \in {y, y - 1}
          /\ MarchMonth(m) \in 0..10 /\ MarchMonth(m + 1) = MarchMonth(m) + 1
      BY <1>7 DEF MarchYear, MarchMonth
    <2>2. MonthDays(MarchMonth(m) + 1) = MonthDays(MarchMonth(m)) + DaysIn(y, m)
      <3>1. m \in {1, 3, 4, 5, 6, 7, 8, 9, 10, 11}
        BY <1>7
      <3> QED
        BY <1>3, <3>1 DEF MarchMonth, DaysIn
    <2>3. MonthDays(MarchMonth(m)) \in Int /\ YearDays(MarchYear(y, m)) \in Int
      BY <1>2, <1>3, <2>1
    <2> HIDE DEF DaysIn, YearDays, MonthDays, MarchMonth, MarchYear
    <2>4. DayNumber(y, m + 1, 1) = DayNumber(y, m, DaysIn(y, m)) + 1
      BY <1>1, <2>1, <2>2, <2>3 DEF DayNumber
    <2> QED
      BY <1>1, <1>4, <1>7, <2>4
  <1> QED
    BY <1>5, <1>6, <1>7


-----------------------------------------------------------------------------
LEMMA DateInit == ASSUME CalendarInit PROVE TInv
  <1>1. DayNumber(FirstYear, 1, 1) \in Int
    BY YearsAssumption, ClosedForm
  <1>2. 1 <= DaysIn(FirstYear, 1)
    BY DEF DaysIn
  <1> HIDE DEF DayNumber, DaysIn
  <1> QED
    BY <1>1, <1>2, YearsAssumption DEF CalendarInit, Date, TInv

LEMMA DateStep == ASSUME TInv, NextDay PROVE TInv'
  <1>1. PICK y \in Int, m \in 1..12, d \in 1..31 :
          /\ y = date.year /\ m = date.month /\ d = date.day
          /\ d <= DaysIn(y, m)
    BY DEF TInv
  <1>2. /\ DaysIn(y, m) \in 28..31 /\ DayNumber(y, m, d) \in Int
        /\ DayNumber(y, m, d + 1) = DayNumber(y, m, d) + 1
        /\ m < 12 => DayNumber(y, m + 1, 1) = DayNumber(y, m, DaysIn(y, m)) + 1
        /\ m = 12 => DayNumber(y + 1, 1, 1) = DayNumber(y, m, DaysIn(y, m)) + 1
    <2>1. d \in Int
      OBVIOUS
    <2>2. DayNumber(y, m, d) \in Int
      BY <2>1, ClosedForm
    <2>3. DaysIn(y, m) \in 28..31 /\ DayNumber(y, m, d + 1) = DayNumber(y, m, d) + 1
      BY <2>1, NextDayIsNext
    <2>4. m < 12 => DayNumber(y, m + 1, 1) = DayNumber(y, m, DaysIn(y, m)) + 1
      BY NextDayIsNext
    <2>5. m = 12 => DayNumber(y + 1, 1, 1) = DayNumber(y, m, DaysIn(y, m)) + 1
      BY NextDayIsNext
    <2> QED
      BY <2>2, <2>3, <2>4, <2>5
  <1>3. DayNumber(FirstYear, 1, 1) \in Int
    BY YearsAssumption, ClosedForm
  <1>4. days' = days + 1 /\ days = DayNumber(y, m, d) - DayNumber(FirstYear, 1, 1)
    BY <1>1 DEF NextDay, TInv
  <1> HIDE DEF DayNumber
  <1>5. CASE d < DaysIn(y, m)
    <2>1. /\ date' \in [year : Int, month : 1..12, day : 1..31]
          /\ date'.year = y /\ date'.month = m /\ date'.day = d + 1
      BY <1>1, <1>2, <1>5 DEF NextDay, TInv
    <2> QED
      BY <1>1, <1>2, <1>3, <1>4, <1>5, <2>1 DEF TInv
  <1>6. CASE ~ (d < DaysIn(y, m)) /\ m < 12
    <2>1. d = DaysIn(y, m)
      BY <1>1, <1>2, <1>6
    <2>2. /\ date' \in [year : Int, month : 1..12, day : 1..31]
          /\ date'.year = y /\ date'.month = m + 1 /\ date'.day = 1
      BY <1>1, <1>6 DEF NextDay, Date
    <2>3. 1 <= DaysIn(y, m + 1)
      <3>1. m + 1 \in 1..12
        BY <1>6
      <3>2. DaysIn(y, m + 1) \in 28..31
        BY <3>1, NextDayIsNext
      <3> QED
        BY <3>2
    <2> QED
      BY <1>2, <1>3, <1>4, <1>6, <2>1, <2>2, <2>3 DEF TInv
  <1>7. CASE ~ (d < DaysIn(y, m)) /\ m = 12
    <2>1. d = DaysIn(y, m)
      BY <1>1, <1>2, <1>7
    <2>2. /\ date' \in [year : Int, month : 1..12, day : 1..31]
          /\ date'.year = y + 1 /\ date'.month = 1 /\ date'.day = 1
      BY <1>1, <1>7 DEF NextDay, Date
    <2>3. 1 <= DaysIn(y + 1, 1)
      BY NextDayIsNext
    <2> QED
      BY <1>2, <1>3, <1>4, <1>7, <2>1, <2>2, <2>3 DEF TInv
  <1> QED
    BY <1>5, <1>6, <1>7

LEMMA DaysCounted == CalendarSpec => []TInv
  <1>1. TInv /\ UNCHANGED dateVars => TInv'
    BY DEF TInv, dateVars
  <1> QED
    BY DateInit, DateStep, <1>1, PTL DEF CalendarSpec, CalendarNext

(* The closed form is 0 on 1 January 1970. *)
LEMMA EpochIsZero == DayNumber(FirstYear, 1, 1) = -Epoch /\ Epoch \in Int
  <1>1. FirstYear \in Int
    BY YearsAssumption
  <1>2. YearDays(FirstYear - 1) = 365 * (FirstYear - 1) + LeapsBefore(FirstYear)
        /\ LeapsBefore(FirstYear) \in Int
    BY <1>1 DEF YearDays, LeapsBefore
  <1>3. DayNumber(FirstYear, 1, 1) = YearDays(FirstYear - 1) + 306 + 1 - 1 - 719468
    BY DEF DayNumber, MarchYear, MarchMonth, MonthDays
  <1>4. LeapsBefore(1970) = 477
    BY DEF LeapsBefore
  <1> QED
    BY <1>1, <1>2, <1>3, <1>4 DEF Epoch

LEMMA PlainFacts ==
  ASSUME NEW s \in Plain
  PROVE  s.minute \in Int /\ s.ahead \in Int /\ s.fraction = FALSE
  BY StampsAssumption DEF Plain, Stamp

LEMMA InstantFacts ==
  ASSUME TInv, NEW s \in Plain
  PROVE  utc(s) \in Int /\ parseISO8601(date, s) = utc(s)
  <1>1. /\ daysFromCivil(date.year, date.month, date.day) = days - Epoch
        /\ days \in Int /\ Epoch \in Int
    <2>1. /\ date.year \in Int /\ date.month \in 1..12 /\ date.day \in Int /\ days \in Int
          /\ days = DayNumber(date.year, date.month, date.day) - DayNumber(FirstYear, 1, 1)
      BY DEF TInv
    <2>2. /\ daysFromCivil(date.year, date.month, date.day)
               = DayNumber(date.year, date.month, date.day)
          /\ DayNumber(date.year, date.month, date.day) \in Int
      BY <2>1, ClosedForm
    <2> HIDE DEF DayNumber, daysFromCivil, Epoch
    <2> QED
      BY <2>1, <2>2, EpochIsZero
  <1>2. PICK e \in Int : e = days - Epoch
    BY <1>1
  <1>3. parseISO8601(date, s) = e * 1440 + s.minute - Offset(s)
    BY <1>1, <1>2 DEF parseISO8601
  <1>4. utc(s) = e * 1440 + s.minute - s.ahead
    BY <1>2 DEF utc
  <1>5. s.minute \in Int /\ s.ahead \in Int /\ Offset(s) = s.ahead
    BY PlainFacts DEF Offset
  <1> QED
    BY <1>3, <1>4, <1>5

(* daysFromCivil and the offset give the instant of time.Parse for every day of
   any range of years and every timestamp without a fraction. *)
THEOREM InstantsAgree == CalendarSpec => []SameInstant
  <1>1. TInv => SameInstant
    BY InstantFacts DEF SameInstant
  <1> QED
    BY <1>1, DaysCounted, PTL

(* The hour and the weekday of an instant after 1970 are those of the time
   package: adding the modulus and reducing once more changes nothing there. *)
LEMMA ClockAgrees ==
  ASSUME NEW ts \in Nat
  PROVE  <<hour(ts), weekday(ts)>> = clock(ts)
  <1>1. \A a \in Nat : /\ goMod(goMod(a, 24) + 24, 24) = a % 24
                       /\ goMod(goMod(a, 7) + 7, 7) = a % 7
    <2> TAKE a \in Nat
    <2>1. goMod(a, 24) = a % 24 /\ goMod(a, 7) = a % 7
      BY DEF goMod, goDiv
    <2>2. goMod((a % 24) + 24, 24) = a % 24
      BY DEF goMod, goDiv
    <2>3. goMod((a % 7) + 7, 7) = a % 7
      BY DEF goMod, goDiv
    <2> QED
      BY <2>1, <2>2, <2>3
  <1>2. /\ goDiv(ts, 60) = ts \div 60 /\ ts \div 60 \in Nat
        /\ goDiv(ts, 1440) = ts \div 1440 /\ ts \div 1440 + 3 \in Nat
    BY DEF goDiv
  <1> HIDE DEF goMod, goDiv
  <1> QED
    BY <1>1, <1>2 DEF hour, weekday, clock

(* The hour and the weekday that enter the query are those Vectorize computes, also
   where the zone moves the instant to another day. *)
THEOREM ClocksAgree == CalendarSpec => []SameHourAndWeekday
  <1>1. ASSUME TInv, NEW s \in Plain, utc(s) >= 0
        PROVE  LET ts == parseISO8601(date, s)
               IN  <<hour(ts), weekday(ts)>> = hourWeekday(s)
    <2>1. utc(s) \in Nat /\ parseISO8601(date, s) = utc(s)
      BY <1>1, InstantFacts
    <2> QED
      BY <2>1, ClockAgrees DEF hourWeekday
  <1>2. TInv => SameHourAndWeekday
    BY <1>1 DEF SameHourAndWeekday
  <1> QED
    BY <1>2, DaysCounted, PTL
=============================================================================
