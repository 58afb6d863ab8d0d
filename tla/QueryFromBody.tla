--------------------------- MODULE QueryFromBody ----------------------------
(***************************************************************************)
(* QueryFromBody of internal/vectorize/parse.go: one pass over the bytes   *)
(* of a JSON body, without building a tree, and the query made of what it  *)
(* found; and the path it replaces, Vectorize and Quantize of vectorize.go *)
(* on the Payload that encoding/json decodes.                              *)
(*                                                                         *)
(* A body is a sequence of atoms: a bracket, colon, comma, quote or        *)
(* backslash, a blank, a literal or number, and in strings any text.       *)
(* Positions count from 1; 0 stands for a result that is not ok. A step is *)
(* one member, or the start or end of an object.                           *)
(***************************************************************************)
EXTENDS KDIndex, Calendar, Sequences, FiniteSetsExt

CONSTANTS
  Inputs,  (* the bodies, the byte behind each, whether it is whole, and what
              encoding/json makes of it                                             *)
  Num,     (* the number an atom denotes                                            *)
  Time,    (* the instant a timestamp denotes, in minutes, also one before 1970     *)
  Loose,   (* other texts of 19 bytes or more: what parseISO8601 makes of them      *)
  Bare,    (* those of them whose 20th byte, the last, is a sign: 1 or -1           *)
  Digit,   (* the first byte of an atom less '0', as a byte                         *)
  NoByte,  (* what is behind a body that ends where its buffer ends                 *)
  MaxInt32,
  TooLarge, (* the int32 of a number above MaxInt32: the language leaves it open    *)
  Norm,    (* Consts: the largest amounts, distances and so on                      *)
  Risks    (* MccRisk, in hundredths                                                *)

ASSUME InputsAssumption == \A d \in Inputs :
  /\ Len(d.body) \in Nat /\ \A i \in 1..Len(d.body) : d.body[i] \in DOMAIN Digit
  /\ d.behind \in DOMAIN Digit \cup {NoByte}
ASSUME NormAssumption ==
  Norm \in [{"MaxAmount", "MaxInstallments", "AmountVsAvgRatio", "MaxMinutes", "MaxKm",
             "MaxTxCount24h", "MaxMerchantAvgAmount"} -> Nat \ {0}]
ASSUME RiskAssumption == \A m \in DOMAIN Risks : Risks[m] \in 0..100
ASSUME NumAssumption  == \A a \in DOMAIN Num : a # "end of body" /\ Num[a] \in Int
ASSUME TimeAssumption ==
  /\ \A a \in DOMAIN Time : Time[a] \in Int
  /\ \A t \in DOMAIN Loose : Loose[t] \in Int
  /\ \A t \in DOMAIN Bare : t \in DOMAIN Loose /\ Bare[t] \in {1, -1}
ASSUME Int32Assumption == MaxInt32 \in Nat /\ TooLarge \in Int

VARIABLES
  input,   (* the body, and the payload it was written from                 *)
  p,       (* cur.p: what is before it has been read                        *)
  within,  (* the object being read                                         *)
  r,       (* parsed                                                        *)
  pc,      (* "start", "members", "refused", "panicked" or "done"           *)
  query,   (* the result                                                    *)
  beyond   (* (history) whether a byte behind the body has been read        *)

vars == <<input, p, within, r, pc, query, beyond>>

body == input.body
end  == Len(body)
Quote  == "\""
Escape == "\\"
Blanks == {" ", "\t"}

ASSUME ByteAssumption ==
  /\ \A a \in DOMAIN Digit : Digit[a] \in 0..255
  /\ Quote \in DOMAIN Digit /\ NoByte \notin DOMAIN Digit

At(i) == IF i \in 1..end THEN body[i] ELSE "end of body"

-----------------------------------------------------------------------------
(* The methods of cur. *)

First(i, atoms) == Min({j \in i..end : body[j] \in atoms} \cup {end + 1})
ws(i) == Min({j \in i..end : body[j] \notin Blanks} \cup {end + 1})

(* The closing quote of the string at i. *)
str(i) ==
  LET scan[j \in i..(end + 2)] ==
        CASE j > end        -> 0
          [] At(j) = Escape -> scan[j + 2]
          [] At(j) = Quote  -> j
          [] OTHER          -> scan[j + 1]
  IN  IF At(i) = Quote THEN scan[i + 1] ELSE 0

text(i) == SubSeq(body, i + 1, str(i) - 1)

skipFlat(i) ==                                       \* bug: depth not counted
  CASE i > end          -> 0
    [] At(i) = Quote    -> IF str(i) = 0 THEN 0 ELSE str(i) + 1
    [] At(i) \in {"{", "["} ->
         LET j == First(i, IF At(i) = "{" THEN {"}"} ELSE {"]"})
         IN  IF j > end THEN 0 ELSE j + 1
    [] OTHER -> First(i, {",", "}", "]"})

(* Past the value at i. Only brackets of the kind that opened it are counted,
   and those in strings are not. *)
skip(i) ==
  LET closes == IF At(i) = "{" THEN "}" ELSE "]"
      past[j \in i..(end + 1)] == [depth \in Int |->
        CASE j > end           -> 0
          [] At(j) = Quote     -> IF str(j) = 0 THEN 0 ELSE past[str(j) + 1][depth]
          [] At(j) = At(i)     -> past[j + 1][depth + 1]
          [] At(j) = closes    -> IF depth = 1 THEN j + 1 ELSE past[j + 1][depth - 1]
          [] OTHER             -> past[j + 1][depth]]
  IN  CASE i > end             -> 0
        [] At(i) = Quote       -> IF str(i) = 0 THEN 0 ELSE str(i) + 1
        [] At(i) \in {"{", "["} -> past[i][0]
        [] OTHER               -> First(i, {",", "}", "]"})

afterValue(i) == LET j == ws(i) IN IF At(j) = "," THEN j + 1 ELSE j

(* nextKey at a member: its name, and where its value starts. *)
NoKey == [name |-> "", value |-> 0]
key ==
  LET open  == ws(p)
      colon == ws(str(open) + 1)
  IN  IF str(open) = 0 \/ At(colon) # ":"
      THEN NoKey
      ELSE [name  |-> IF Len(text(open)) = 1 THEN text(open)[1] ELSE "",
            value |-> ws(colon + 1)]

-----------------------------------------------------------------------------
(* What is done with a value: where it ends and what becomes of parsed. *)

Refusal == [next |-> 0, parsed |-> r]
Ignore(v) == [next |-> skip(v), parsed |-> r]
Store(field, value, next) == [next |-> next, parsed |-> [r EXCEPT ![field] = value]]

(* num, for the field it is stored in. *)
Number(field, v) == IF At(v) \in DOMAIN Num THEN Store(field, Num[At(v)], v + 1) ELSE Refusal
String(field, v) == IF str(v) # 0 THEN Store(field, text(v), str(v) + 1) ELSE Refusal
(* float64 to int32. *)
int32(n) == CASE n > MaxInt32 -> TooLarge [] n < -MaxInt32 - 1 -> -MaxInt32 - 1 [] OTHER -> n
Integer(field, v) ==
  IF At(v) \in DOMAIN Num THEN Store(field, int32(Num[At(v)]), v + 1) ELSE Refusal
Flag(field, v)   == IF skip(v) # 0 THEN Store(field, At(v) = "true", skip(v)) ELSE Refusal

(* parseISO8601 takes bytes 20 and 21 for the hours of the offset as soon as byte 19 is
   a sign: in a text that ends there, the quote and the byte behind it. *)
Behind(v) == IF str(v) + 1 \in 1..end THEN body[str(v) + 1] ELSE input.behind
BareHours(v) == 10 * Digit[Quote] + Digit[Behind(v)]

(* Of a text that is too short it makes 0. *)
Instant(v) ==
  LET t == text(v)
  IN  CASE Len(t) = 1 /\ t[1] \in DOMAIN Time -> Time[t[1]]
        [] t \in DOMAIN Bare  -> Loose[t] - Bare[t] * 60 * BareHours(v)
        [] t \in DOMAIN Loose -> Loose[t]
        [] OTHER -> 0
Timestamp(field, v) ==
  IF str(v) # 0 THEN Store(field, Instant(v), str(v) + 1) ELSE Refusal

(* The list of merchants is kept as it is written. *)
Merchants(v) ==
  IF At(v) = "[" /\ skip(v) # 0
  THEN Store("km", SubSeq(body, v, skip(v) - 1), skip(v))
  ELSE Ignore(v)

transaction(name, v) ==
  CASE name = "amount"       -> Number("amount", v)
    [] name = "installments" -> Integer("installments", v)
    [] name = "requested_at" -> Timestamp("ts", v)
    [] OTHER                 -> Ignore(v)

customer(name, v) ==
  CASE name = "avg_amount"      -> Number("customerAvg", v)
    [] name = "tx_count_24h"    -> Integer("txCount24h", v)
    [] name = "known_merchants" -> Merchants(v)
    [] OTHER                    -> Ignore(v)

merchant(name, v) ==
  CASE name = "id"         -> String("mid", v)
    [] name = "mcc"        -> String("mcc", v)
    [] name = "avg_amount" -> Number("merchantAvg", v)
    [] OTHER               -> Ignore(v)

terminal(name, v) ==
  CASE name = "is_online"    -> Flag("isOnline", v)
    [] name = "card_present" -> Flag("cardPresent", v)
    [] name = "km_from_home" -> Number("kmHome", v)
    [] OTHER                 -> Ignore(v)

lastTx(name, v) ==
  CASE name = "timestamp"       -> Timestamp("lastTS", v)
    [] name = "km_from_current" -> Number("kmLast", v)
    [] OTHER                    -> Ignore(v)

Sections == {"transaction", "customer", "merchant", "terminal", "last_transaction"}

Member(name, v) ==
  CASE within = "transaction"      -> transaction(name, v)
    [] within = "customer"         -> customer(name, v)
    [] within = "merchant"         -> merchant(name, v)
    [] within = "terminal"         -> terminal(name, v)
    [] within = "last_transaction" -> lastTx(name, v)
    [] OTHER                       -> Ignore(v)

(* The value is a timestamp for which a byte behind the body is read. *)
LooksBehind(name, v) ==
  /\ \/ within = "transaction" /\ name = "requested_at"
     \/ within = "last_transaction" /\ name = "timestamp"
  /\ str(v) # 0 /\ str(v) + 1 \notin 1..end
  /\ text(v) \in DOMAIN Bare

-----------------------------------------------------------------------------
(* The query. *)

(* math.Round of n/d of QScale. *)
Round(n, d) == IF n >= 0 THEN (2 * n * QScale + d) \div (2 * d)
                         ELSE -((d - 2 * n * QScale) \div (2 * d))

q01Unclamped(n, d) == IF n > d THEN QScale ELSE Round(n, d)    \* bug: no lower bound
q01(n, d) == CASE n < 0 -> 0 [] n > d -> QScale [] OTHER -> Round(n, d)
boolq(b)  == IF b THEN QScale ELSE 0
Risk(mcc) == IF mcc \in DOMAIN Risks THEN Risks[mcc] ELSE 50

(* The quoted id is somewhere in the text of the list. *)
knownUnquoted(d) ==                                  \* bug: the first quote not looked at
  /\ d.mid # <<>>
  /\ \E i \in 1..(Len(d.km) - Len(d.mid) - 1) :
       SubSeq(d.km, i + 1, i + Len(d.mid) + 1) = d.mid \o <<Quote>>
knownMerchant(d) ==
  /\ d.mid # <<>>
  /\ \E i \in 1..(Len(d.km) - Len(d.mid) - 1) :
       SubSeq(d.km, i, i + Len(d.mid) + 1) = <<Quote>> \o d.mid \o <<Quote>>

Query(d) ==
  [i \in Dims |->
     CASE i = 0  -> q01(d.amount, Norm.MaxAmount)
       [] i = 1  -> q01(d.installments, Norm.MaxInstallments)
       [] i = 2  -> IF d.customerAvg > 0
                    THEN q01(d.amount, d.customerAvg * Norm.AmountVsAvgRatio)
                    ELSE QScale
       [] i = 3  -> q01(hour(d.ts), 23)
       [] i = 4  -> q01(weekday(d.ts), 6)
       [] i = 5  -> IF d.hasLastTx THEN q01(d.ts - d.lastTS, Norm.MaxMinutes) ELSE sentinel
       [] i = 6  -> IF d.hasLastTx THEN q01(d.kmLast, Norm.MaxKm) ELSE sentinel
       [] i = 7  -> q01(d.kmHome, Norm.MaxKm)
       [] i = 8  -> q01(d.txCount24h, Norm.MaxTxCount24h)
       [] i = 9  -> boolq(d.isOnline)
       [] i = 10 -> boolq(d.cardPresent)
       [] i = 11 -> boolq(~ knownMerchant(d))
       [] i = 12 -> q01(Risk(d.mcc), 100)
       [] i = 13 -> q01(d.merchantAvg, Norm.MaxMerchantAvgAmount)
       [] OTHER  -> 0]

-----------------------------------------------------------------------------
Nothing ==
  [amount |-> 0, installments |-> 0, ts |-> 0, customerAvg |-> 0, txCount24h |-> 0,
   km |-> <<>>, mid |-> <<>>, mcc |-> <<>>, merchantAvg |-> 0, isOnline |-> FALSE,
   cardPresent |-> FALSE, kmHome |-> 0, hasLastTx |-> FALSE, lastTS |-> 0, kmLast |-> 0]

Refuse == pc' = "refused" /\ UNCHANGED <<input, p, within, r, query, beyond>>

Start ==
  /\ pc = "start"
  /\ IF At(ws(1)) = "{"
     THEN /\ pc' = "members" /\ p' = ws(1) + 1
          /\ UNCHANGED <<input, within, r, query, beyond>>
     ELSE Refuse

(* nextKey finds no more members. *)
NoMoreAtEnd == At(ws(p)) \in {"}", "end of body"}     \* bug: the end taken for a brace
NoMore      == At(ws(p)) = "}"

InMembers == pc = "members" /\ ~ NoMore
EntersSection == within = "top" /\ key.name \in Sections

(* obj, for the object of a section. *)
EnterForgets ==                                      \* bug: hasLastTx not set
  /\ InMembers /\ EntersSection
  /\ At(key.value) = "{"
  /\ p' = key.value + 1
  /\ within' = key.name
  /\ UNCHANGED <<input, r, pc, query, beyond>>

Enter ==
  /\ InMembers /\ EntersSection
  /\ At(key.value) = "{"
  /\ p' = key.value + 1
  /\ within' = key.name
  /\ r' = [r EXCEPT !.hasLastTx = @ \/ key.name = "last_transaction"]
  /\ UNCHANGED <<input, pc, query, beyond>>

NoLast ==
  /\ InMembers /\ within = "top" /\ key.name = "last_transaction"
  /\ At(key.value) = "null"
  /\ r' = [r EXCEPT !.hasLastTx = FALSE]
  /\ p' = afterValue(key.value + 1)
  /\ UNCHANGED <<input, within, pc, query, beyond>>

AtValue == InMembers /\ ~ EntersSection /\ key # NoKey

(* b[20:22] reaches into the buffer, but not behind it. *)
Panic ==
  /\ AtValue
  /\ LooksBehind(key.name, key.value) /\ input.behind = NoByte
  /\ pc' = "panicked"
  /\ UNCHANGED <<input, p, within, r, query, beyond>>

Value ==
  /\ AtValue
  /\ ~ (LooksBehind(key.name, key.value) /\ input.behind = NoByte)
  /\ LET m == Member(key.name, key.value)
     IN  IF m.next = 0
         THEN Refuse
         ELSE /\ p' = afterValue(m.next)
              /\ r' = m.parsed
              /\ beyond' = (beyond \/ LooksBehind(key.name, key.value))
              /\ UNCHANGED <<input, within, pc, query>>

Malformed ==
  /\ InMembers
  /\ \/ key = NoKey
     \/ /\ EntersSection /\ At(key.value) # "{"
        /\ ~ (key.name = "last_transaction" /\ At(key.value) = "null")
  /\ Refuse

LeaveStays ==                                        \* bug: the brace is left
  /\ pc = "members" /\ NoMore
  /\ within # "top"
  /\ within' = "top"
  /\ p' = ws(p)
  /\ UNCHANGED <<input, r, pc, query, beyond>>

Leave ==
  /\ pc = "members" /\ NoMore
  /\ within # "top"
  /\ within' = "top"
  /\ p' = afterValue(ws(p) + 1)
  /\ UNCHANGED <<input, r, pc, query, beyond>>

Finish ==
  /\ pc = "members" /\ NoMore /\ within = "top"
  /\ pc' = "done"
  /\ p' = ws(p) + 1
  /\ query' = Query(r)
  /\ UNCHANGED <<input, within, r, beyond>>

Init ==
  /\ input \in Inputs
  /\ p = 1 /\ within = "top" /\ r = Nothing /\ pc = "start"
  /\ query = [i \in Dims |-> 0]
  /\ beyond = FALSE

Returned == pc \in {"refused", "panicked", "done"} /\ UNCHANGED vars

Next ==
  \/ Start \/ Enter \/ NoLast \/ Value \/ Panic \/ Malformed \/ Leave \/ Finish
  \/ Returned
Spec == Init /\ [][Next]_vars

-----------------------------------------------------------------------------
(* The reference path: fractions n/d of 1. *)

Fraction(n, d) == [n |-> n, d |-> d]
clamp01(x) == CASE x.n < 0 -> Fraction(0, 1) [] x.n > x.d -> Fraction(1, 1) [] OTHER -> x
boolf(b)   == Fraction(IF b THEN 1 ELSE 0, 1)

(* time.Parse takes only timestamps; what is made of an error. *)
HourWeekday(t) == IF t \in DOMAIN Time THEN clock(Time[t]) ELSE <<0, 0>>
minutesBetween(last, current) ==
  IF {last, current} \subseteq DOMAIN Time THEN Time[current] - Time[last] ELSE 0

Vectorize(d) ==
  LET now  == HourWeekday(d.transaction.requested_at)
      last == d.last_transaction
      none == last.timestamp = "none"
  IN  [i \in RawDims |->
        CASE i = 0  -> clamp01(Fraction(d.transaction.amount, Norm.MaxAmount))
          [] i = 1  -> clamp01(Fraction(d.transaction.installments, Norm.MaxInstallments))
          [] i = 2  -> IF d.customer.avg_amount > 0
                       THEN clamp01(Fraction(d.transaction.amount,
                                      d.customer.avg_amount * Norm.AmountVsAvgRatio))
                       ELSE Fraction(1, 1)
          [] i = 3  -> Fraction(now[1], 23)
          [] i = 4  -> Fraction(now[2], 6)
          [] i = 5  -> IF none THEN Fraction(-1, 1)
                       ELSE clamp01(Fraction(
                              minutesBetween(last.timestamp, d.transaction.requested_at),
                              Norm.MaxMinutes))
          [] i = 6  -> IF none THEN Fraction(-1, 1)
                       ELSE clamp01(Fraction(last.km_from_current, Norm.MaxKm))
          [] i = 7  -> clamp01(Fraction(d.terminal.km_from_home, Norm.MaxKm))
          [] i = 8  -> clamp01(Fraction(d.customer.tx_count_24h, Norm.MaxTxCount24h))
          [] i = 9  -> boolf(d.terminal.is_online)
          [] i = 10 -> boolf(d.terminal.card_present)
          [] i = 11 -> boolf(\A m \in DOMAIN d.customer.known_merchants :
                               d.customer.known_merchants[m] # d.merchant.id)
          [] i = 12 -> Fraction(Risk(d.merchant.mcc), 100)
          [] i = 13 -> clamp01(Fraction(d.merchant.avg_amount, Norm.MaxMerchantAvgAmount))]

Quantize(v) == [i \in RawDims |-> Round(v[i].n, v[i].d)]

-----------------------------------------------------------------------------
(* Types. Whatever the body, the query of one that is not refused is quantized,
   as the search assumes of it (QueryAssumption of KDSearch). *)
TypeOK ==
  /\ within \in Sections \cup {"top"}
  /\ pc \in {"start", "members", "refused", "panicked", "done"}
  /\ beyond \in BOOLEAN
  /\ pc = "done" => Quantized(query)

(* The components both paths define alike. The hour and the weekday of a request
   before 1970, or without a valid timestamp, are not: nor are the minutes since a
   transaction when one of the two has none, nor counts beyond int32. *)
Comparable(d) ==
  LET now  == d.transaction.requested_at
      last == d.last_transaction.timestamp
  IN  {i \in RawDims :
         /\ i = 1 => d.transaction.installments <= MaxInt32
         /\ i \in {3, 4} => now \in DOMAIN Time /\ Time[now] >= 0
         /\ i = 5 => last = "none" \/ {now, last} \subseteq DOMAIN Time
         /\ i = 8 => d.customer.tx_count_24h <= MaxInt32}

(* A whole document is never refused, and its query is the one Vectorize and
   Quantize give for the payload, in whatever order its members are written and
   whatever other members, blanks and repetitions are among them
   (TestQueryFromBodyMatchesVectorize, whose payloads come from json.Marshal). *)
SameQuery ==
  input.whole =>
    /\ pc \notin {"refused", "panicked"}
    /\ pc = "done" => \A i \in Comparable(input.payload) :
                        query[i] = Quantize(Vectorize(input.payload))[i]

(* A body that has been cut short is never taken for a whole one: a request whose
   length is wrong is answered with the default, not scored on half its members. *)
CutIsRefused == input.cut => pc # "done"

(* The byte behind the body that parseISO8601 may read, of the next request or left
   over from an earlier one, never counts: no body for which it is read is scored. *)
ScoresOnlyTheBody == pc = "done" => ~ beyond

(* On any body every step reads on, within the body or up to its end, or parsing
   returns or panics: no body keeps the parser busy for ever. *)
ReadsOn == [][p' \in (p + 1)..(end + 1) \/ pc' \in {"refused", "panicked", "done"}]_vars
=============================================================================
