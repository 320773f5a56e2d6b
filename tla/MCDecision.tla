----------------------------- MODULE MCDecision ------------------------------
(***************************************************************************)
(* Envelopes: a good one, and every variation of one or two of its fields; *)
(* with one cart.  Carts: one to three lines, listed or not, over four     *)
(* merchants' entries; with no envelope.                                   *)
(***************************************************************************)
EXTENDS Decision, FiniteSetsExt

Whole(sku, unit, maxPercent) == [sku |-> sku, unit |-> unit, maxPercent |-> maxPercent, state |-> "whole"]
Broken(sku, state) == [sku |-> sku, unit |-> 5, maxPercent |-> 10, state |-> state]
File == [shop  |-> <<Whole("tea", 5, 10), Whole("pot", 30, 25)>>,
         twice |-> <<Whole("tea", 5, 10), Whole("tea", 7, 50)>>,
         short |-> <<Whole("tea", 5, 10), Broken("pot", "KeyError")>>,
         wrong |-> <<Whole("tea", 5, 10), Broken("pot", "ValidationError")>>]

Absent == [is |-> "absent"]
Word(w) == Text(<<w>>)
Empty == Object([k \in {} |-> Null])
Item(field, v) == List(<<Object([k \in {"sku", field} |-> IF k = field THEN v ELSE Word("tea")])>>)

Good == [k \in {"mandate_id", "agent_id", "expires_at", "sku_allowlist", "items", "note"} |->
          CASE k = "mandate_id" -> Word("m1") [] k = "agent_id" -> Word("a1")
            [] k = "expires_at" -> Text(<<"date", "Z">>) [] k = "sku_allowlist" -> List(<<Word("tea")>>)
            [] k = "items" -> Item("quantity", Num(2)) [] k = "note" -> Text(<<"hello">>)]

Ids == {Absent, Null, Num(0), Num(7), Text(<<>>), Text(<<"m1", "shy">>), Word("m1"), Word("m2"),
        Text(<<"zw", "m1">>)}
Nested == {Null, Num(7), List(<<>>), Empty, Object([id |-> Word("m1")]), Object([id |-> Null])}
Dates == {Absent, Null, Num(0), Num(7), Text(<<>>), Text(<<"date">>), Text(<<"date", "offset">>),
          Text(<<"date", "shy", "Z", "Z">>), Text(<<"date", "Z", "Z">>), Text(<<"date", "offset", "Z">>),
          Word("Z"), Word("soon"), List(<<>>), List(<<Null>>)}
SkuLists == {Absent, Null, List(<<>>), List(<<Num(7)>>), Text(<<"te", "a">>), Word("shy"), Text(<<>>),
             Num(7), Object([tea |-> Null])}
Amounts == {Null, Num(0), Num(7), Num(-1), Text(Digits), Word("many"), List(<<Null>>)}
ItemLists == {Absent, Null, Num(7), Word("tea"), List(<<Null>>), Item("quantity", Num(0)),
              Item("quantity", Null), Item("unit_amount_paise", Num(-1)), Item("sku", Num(7)),
              Item("name", Null), Item("name", Num(7))}
Notes == {Text(<<"by", "pass">>), Text(<<"by", "shy", "pass">>), Text(<<"by", "hello", "pass">>),
          List(<<Null, Object([system |-> Null])>>), List(<<Null, Empty>>),
          Object([note |-> Text(<<"zw">>)]), Object([note |-> Text(<<>>)]),
          Object([note |-> List(<<Text(<<"shy", "<!--">>)>>)]), Object([note |-> List(<<Word("<!--")>>)]),
          Object([instruction |-> Word("shy")]), Object([instruction |-> Text(<<>>)])}

Values == [mandate_id |-> Ids, id |-> Ids, mandate |-> Nested, agent_id |-> Ids, agent |-> Nested,
           max_amount_paise |-> Amounts, maxAmount |-> Amounts, expires_at |-> Dates,
           expiresAt |-> Dates, sku_allowlist |-> SkuLists, skus |-> SkuLists, items |-> ItemLists,
           note |-> Notes]
Edits == UNION {{<<k, v>> : v \in Values[k]} : k \in DOMAIN Values}

(* The good envelope with some fields replaced, added or taken away. *)
With(edits) ==
  LET touched == {e[1] : e \in edits}
      added == {e[1] : e \in {d \in edits : d[2] # Absent}}
  IN Object([k \in (DOMAIN Good \ touched) \cup added |->
              IF k \in touched THEN (CHOOSE e \in edits : e[1] = k)[2] ELSE Good[k]])
Pairs == {{e, f} : e, f \in Edits}
Envelopes == {With(es) : es \in {q \in Pairs : \A e, f \in q : e[1] = f[1] => e = f}}

(* The envelopes and what they are made of; cleaned, each is one of them. *)
RECURSIVE WithParts(_)
WithParts(v) == {v} \cup UNION {WithParts(w) : w \in Parts(v)}
FieldValues == UNION {Values[k] \cup {Good[k]} : k \in DOMAIN Good}
               \cup UNION {Values[k] : k \in DOMAIN Values}
Pieces == UNION {WithParts(v) : v \in FieldValues \ {Absent}}
JsonValues == Envelopes \cup Pieces
RECURSIVE Nesting(_)
Nesting(v) == IF Parts(v) = {} THEN 0 ELSE 1 + Max({Nesting(w) : w \in Parts(v)})

Cart0(merchant, items, discount) ==
  [mandate |-> <<"m1">>, merchant |-> merchant, items |-> items, total |-> 10,
   discount |-> discount, copy |-> "plain"]
Quote(sku, qty, unit) == [sku |-> sku, qty |-> qty, unit |-> unit]
Quoted == {Quote("tea", 1, 5), Quote("tea", 3, 5), Quote("pot", 1, 30), Quote("tea", 2, 7), Quote("cup", 1, 5)}
Carts == {Cart0(m, items, d) : m \in {"shop", "twice", "short", "wrong", "none"},
                               items \in SeqOf(Quoted, 3), d \in {0, 1, 9}}
OneCart == Cart0("shop", <<Quote("tea", 2, 5)>>, 1)
OddCarts == {[OneCart EXCEPT !.total = 11], [OneCart EXCEPT !.discount = -1], [OneCart EXCEPT !.copy = "pressing"]}

Send(envelope, protocol, proposal) ==
  [envelope |-> envelope, protocol |-> protocol, proposal |-> proposal,
   terms |-> [max |-> 10, skus |-> {"tea", "pot"}]]
Submissions == {Send(e, "ap2", OneCart) : e \in Envelopes}
               \cup {Send(Object(Good), p, OneCart) : p \in {"", "AP2", "soap"}}
               \cup {Send(NoEnvelope, "", c) : c \in Carts \cup OddCarts}
==============================================================================
