-------------------------- MODULE MCQueryFromBody ---------------------------
(***************************************************************************)
(* QueryFromBody on the bodies a client may write for a payload: any order *)
(* of the sections and of the members of each, blanks, members that are    *)
(* missing, unknown or repeated; with timestamps of all kinds; and on      *)
(* bodies cut short or damaged.                                            *)
(***************************************************************************)
EXTENDS QueryFromBody, SequencesExt, TLC

MCNorm ==
  [MaxAmount |-> 4, MaxInstallments |-> 3, AmountVsAvgRatio |-> 2, MaxMinutes |-> 90,
   MaxKm |-> 5, MaxTxCount24h |-> 3, MaxMerchantAvgAmount |-> 4]
MCTooLarge == -10    \* what amd64 makes of it
MCRisks == [m \in {<<"5411">>} |-> 15]
MCNum   == [a \in {ToString(n) : n \in -12..12} |-> CHOOSE n \in -12..12 : ToString(n) = a]

(* The same instant as "T20:00Z", in a zone where it is the next day, and the
   minute before it; a day and a half earlier; after all of them; and the last half
   hour before 1970. *)
MCTime ==
  LET on(day, s) == parseISO8601(Date(1970, 3, day), s)
  IN  [a \in {"T20:00Z", "T01:30+05:30", "T19:59Z", "T08:00Z", "T23:00-02:00",
             "1969T23:30Z"} |->
         CASE a = "T20:00Z"      -> on(11, Stamp(1200, FALSE, 0))
           [] a = "T01:30+05:30" -> on(12, Stamp(90, FALSE, 330))
           [] a = "T19:59Z"      -> on(11, Stamp(1199, FALSE, 0))
           [] a = "T08:00Z"      -> on(10, Stamp(480, FALSE, 0))
           [] a = "1969T23:30Z"  -> parseISO8601(Date(1969, 12, 31), Stamp(1410, FALSE, 0))
           [] OTHER              -> on(14, Stamp(1380, FALSE, -120))]

(* Texts that are no timestamps: a month 0 long ago, and the time of "T20:00Z" with a
   sign but no offset. *)
MCLoose == [t \in {<<"0000-00">>, <<"T20:00+">>, <<"T20:00-">>} |->
              IF t = <<"0000-00">> THEN -1000000 ELSE MCTime["T20:00Z"]]
MCBare  == [t \in {<<"T20:00+">>, <<"T20:00-">>} |-> IF t = <<"T20:00+">> THEN 1 ELSE -1]
Texts   == {"0000-00", "T20:00+", "T20:00-", "short"}

-----------------------------------------------------------------------------
(* Payloads. *)

Base ==
  [transaction |-> [amount |-> 3, installments |-> 2, requested_at |-> "T20:00Z"],
   customer    |-> [avg_amount |-> 2, tx_count_24h |-> 1,
                    known_merchants |-> << <<"b">>, <<"a", "b">> >>],
   merchant    |-> [id |-> <<"a", "b">>, mcc |-> <<"5411">>, avg_amount |-> 1],
   terminal    |-> [is_online |-> FALSE, card_present |-> TRUE, km_from_home |-> 2],
   last_transaction |-> [timestamp |-> "T19:59Z", km_from_current |-> 4]]

NoLastTx == [timestamp |-> "none", km_from_current |-> 0]

(* Base with one value changed. *)
Payloads ==
  {Base} \cup
  {[Base EXCEPT !.transaction.amount = n] : n \in {-1, 0, 4, 5}} \cup
  {[Base EXCEPT !.transaction.installments = n] : n \in {-12, 0, 1, 4, 12}} \cup
  {[Base EXCEPT !.transaction.requested_at = t] : t \in DOMAIN MCTime \cup Texts} \cup
  {[Base EXCEPT !.customer.avg_amount = n] : n \in {-1, 0, 1}} \cup
  {[Base EXCEPT !.customer.tx_count_24h = n] : n \in {0, 9, 10}} \cup
  {[Base EXCEPT !.customer.known_merchants = l, !.merchant.id = t] :
     l \in {<<>>, << <<"a">> >>, << <<"a", "b">> >>, << <<"a", "b", "b">> >>,
            << <<"b">>, <<"a">> >>, << <<"a", Escape, Quote, "]">>, <<"a", "b">> >>},
     t \in {<<>>, <<"b">>, <<"a">>, <<"a", "b">>, <<"b", "b">>, <<"b", "a", "b">>}} \cup
  {[Base EXCEPT !.merchant.mcc = <<"5912">>, !.merchant.avg_amount = n] : n \in {0, 9}} \cup
  {[Base EXCEPT !.terminal = [is_online |-> TRUE, card_present |-> FALSE,
                              km_from_home |-> n]] : n \in {-1, 9}} \cup
  {[Base EXCEPT !.last_transaction = l] :
     l \in {NoLastTx, [timestamp |-> "T08:00Z", km_from_current |-> 0],
            [timestamp |-> "T23:00-02:00", km_from_current |-> 9]}} \cup
  {[Base EXCEPT !.last_transaction.timestamp = t] : t \in {"1969T23:30Z"} \cup Texts}

-----------------------------------------------------------------------------
(* How a payload is written: the order of the sections (the id is an unknown
   member), that of the members of each, what is between atoms, and a member
   that is there besides, before the one with number pos. *)
TopNames == <<"id", "transaction", "customer", "merchant", "terminal", "last_transaction">>
Names ==
  [transaction      |-> <<"amount", "installments", "requested_at">>,
   customer         |-> <<"avg_amount", "tx_count_24h", "known_merchants">>,
   merchant         |-> <<"id", "mcc", "avg_amount">>,
   terminal         |-> <<"is_online", "card_present", "km_from_home">>,
   last_transaction |-> <<"timestamp", "km_from_current">>]

NoExtra == [at |-> "nowhere", pos |-> 0, name |-> "", value |-> <<>>]
Plain   == [top |-> TopNames, names |-> Names, gap |-> <<>>, extra |-> NoExtra]

Written(t) == <<Quote>> \o t \o <<Quote>>

Joined(ss, gap) ==
  IF ss = <<>> THEN <<>>
  ELSE FoldLeft(LAMBDA acc, s : acc \o gap \o <<",">> \o gap \o s, Head(ss), Tail(ss))

Pair(name, value, gap) == gap \o Written(<<name>>) \o gap \o <<":">> \o gap \o value \o gap

Encode(name, v) ==
  CASE name \in {"requested_at", "timestamp"} -> Written(<<v>>)
    [] name \in {"id", "mcc"} -> Written(v)
    [] name \in {"is_online", "card_present"} -> IF v THEN <<"true">> ELSE <<"false">>
    [] name = "known_merchants" ->
         <<"[">> \o Joined([m \in DOMAIN v |-> Written(v[m])], <<>>) \o <<"]">>
    [] OTHER -> <<ToString(v)>>

Object(at, names, value(_), lay) ==
  LET pairs == [m \in DOMAIN names |-> Pair(names[m], value(names[m]), lay.gap)]
      all   == IF lay.extra.at # at THEN pairs
               ELSE InsertAt(pairs, lay.extra.pos,
                             Pair(lay.extra.name, lay.extra.value, lay.gap))
  IN  lay.gap \o <<"{">> \o Joined(all, <<>>) \o <<"}">> \o lay.gap

Section(d, s, lay) ==
  IF s = "id" THEN Written(<<"tx">>)
  ELSE IF s = "last_transaction" /\ d[s] = NoLastTx THEN <<"null">>
  ELSE Object(s, lay.names[s], LAMBDA name : Encode(name, d[s][name]), lay)

Body(d, lay) == Object("top", lay.top, LAMBDA s : Section(d, s, lay), lay)

Whole(d, lay) ==
  [body |-> Body(d, lay), behind |-> NoByte, whole |-> TRUE, cut |-> FALSE, payload |-> d]

-----------------------------------------------------------------------------
Spaced == [Plain EXCEPT !.gap = <<" ", "\t">>]

InAnyOrder ==
  {Whole(Base, [Plain EXCEPT !.top = o]) : o \in SetToSeqs(Range(TopNames))} \cup
  UNION {{Whole(Base, [Spaced EXCEPT !.names[s] = o]) : o \in SetToSeqs(Range(Names[s]))} :
           s \in Sections}

(* Values that are skipped, with brackets of both kinds, in strings too. *)
Junk ==
  {<<"7">>, <<"null">>, <<"[", "]">>, <<"{", "}">>,
   Written(<<"}", ",">>), Written(<<Escape, Quote, "{">>), Written(<<"a", Escape, Escape>>),
   <<"[", "{", Quote, "a", Quote, ":", "[", "1", "]", "}", ",", "{", "}", "]">>,
   <<"{", Quote, "a", Quote, ":", "{", Quote, "]", Escape, Quote, "}", Quote, ":",
     "[", "{", "}", "]", "}", "}">>}

Places == {<<"top", n>> : n \in 1..7} \cup ((Sections \ {"last_transaction"}) \X (1..4))
            \cup ({"last_transaction"} \X (1..3))

WithUnknown ==
  {Whole(Base, [Plain EXCEPT !.extra = [at |-> at[1], pos |-> at[2], name |-> "extra",
                                        value |-> v]]) : at \in Places, v \in Junk}

(* A member that is repeated: the last one counts; a section, member by member. *)
Repeated ==
  {Whole(Base, [Plain EXCEPT !.extra = [at |-> e[1], pos |-> 1, name |-> e[2],
                                        value |-> e[3]]]) :
     e \in {<<"transaction", "amount", <<"9">>>>,
            <<"customer", "known_merchants", <<"[", Quote, "z", Quote, "]">>>>,
            <<"merchant", "id", Written(<<"z", "z", "z">>)>>,
            <<"terminal", "is_online", <<"true">>>>,
            <<"top", "last_transaction", <<"null">>>>,
            <<"top", "transaction", Object("", Names["transaction"],
                LAMBDA name : IF name = "requested_at" THEN Written(<<"T08:00Z">>)
                                                       ELSE <<"9">>, Plain)>>}}

(* One member missing; encoding/json leaves the zero value. *)
Zero(name) ==
  CASE name \in {"id", "mcc"} -> <<>>
    [] name \in {"is_online", "card_present"} -> FALSE
    [] name = "known_merchants" -> <<>>
    [] name \in {"requested_at", "timestamp"} -> ""
    [] OTHER -> 0
Without ==
  UNION {{Whole([Base EXCEPT ![s][name] = Zero(name)],
                [Plain EXCEPT !.names[s] = SelectSeq(@, LAMBDA o : o # name)]) :
            name \in Range(Names[s])} : s \in Sections}
  \cup {Whole([Base EXCEPT !.last_transaction = NoLastTx],
              [Plain EXCEPT !.top = SelectSeq(@, LAMBDA s : s # "last_transaction")])}

(* Bodies cut short, and bodies from which one atom is missing. *)
Broken(b, behind, cut) ==
  [body |-> b, behind |-> behind, whole |-> FALSE, cut |-> cut, payload |-> Base]
Cut(b, n, behind) == Broken(SubSeq(b, 1, n), behind, TRUE)
Damaged ==
  LET bodies == {Body(Base, Plain),
                 Body(Base, [Spaced EXCEPT !.extra = [at |-> "customer", pos |-> 2,
                   name |-> "extra", value |-> <<"[", "{", "}", "]">>]])}
      last(b) == CHOOSE n \in 1..Len(b) : /\ b[n] = "}"
                                          /\ \A m \in (n + 1)..Len(b) : b[m] # "}"
  IN  UNION {{Cut(b, n, NoByte) : n \in 0..(last(b) - 1)} : b \in bodies}
      \cup {Broken(RemoveAt(b, n), NoByte, FALSE) :
              <<b, n>> \in {<<b, n>> \in bodies \X (1..200) : n <= Len(b)}}

(* Cut where a text ends that is a timestamp up to its sign, with other bytes behind. *)
CutAtSign ==
  LET bodies == {Body([Base EXCEPT !.transaction.requested_at = t,
                                   !.last_transaction.timestamp = t], Plain) :
                   t \in {"T20:00+", "T20:00-"}}
  IN  UNION {{Cut(b, n + 1, c) : n \in {n \in 1..Len(b) : <<b[n]>> \in DOMAIN MCBare},
                                 c \in {NoByte, "}", " ", "7"}} : b \in bodies}

MCInputs ==
  {Whole(d, Spaced) : d \in Payloads} \cup InAnyOrder \cup WithUnknown \cup Repeated
    \cup Without \cup Damaged \cup CutAtSign

(* Names and texts start with a letter, most with a small one; numbers with a digit. *)
Atoms ==
  {Quote, Escape, ",", ":", "{", "}", "[", "]", " ", "\t", "true", "false", "null",
   "extra", "tx", "a", "b", "z", "5411", "5912"}
    \cup Range(TopNames) \cup UNION {Range(Names[s]) : s \in Sections}
    \cup DOMAIN MCNum \cup DOMAIN MCTime \cup Texts
MCDigit ==
  [a \in Atoms |->
     CASE a = Quote  -> 242 [] a = Escape -> 44  [] a = ","   -> 252 [] a = ":"   -> 10
       [] a = "{"    -> 75  [] a = "}"    -> 77  [] a = "["   -> 43  [] a = "]"   -> 45
       [] a = " "    -> 240 [] a = "\t"  -> 217 [] a = "7"   -> 7   [] OTHER     -> 49]
=============================================================================
