----------------------------- MODULE Storefront -----------------------------
(***************************************************************************)
(* What a customer is shown before he books: the profile of the shop       *)
(* (src/shop/shop.service.ts) and the quote for his cart (quoteBooking in  *)
(* src/commerce/commerce.service.ts).  Both change nothing: they are       *)
(* functions of the catalog, and are compared with the order that follows. *)
(***************************************************************************)
EXTENDS Cart

CONSTANT Qualified  \* the services that staff_qualifications names

ASSUME QualifiedAssumption == Qualified \subseteq Services

-----------------------------------------------------------------------------
\* getShopProfile.  Services that nobody performs are hidden; a combo is shown
\* whatever its parts are.
ShownGoods ==
  {[kind |-> IF g \in Products THEN "product" ELSE "service", id |-> g,
    prices |-> {good[g].price}, duration |-> good[g].duration] :
     g \in {h \in Products \cup Qualified : OnSale(h, good)}}

ShownCombos ==
  {[kind |-> "combo", id |-> k, prices |-> ComboPrice(combo[k]),
    duration |-> SumFunction([p \in combo[k].parts |-> good[p.good].duration])] :
     k \in {c \in Combos : OnSale(c, combo)}}

ShopProfile == ShownGoods \cup ShownCombos

-----------------------------------------------------------------------------
\* All that resolveLines can have made of a cart after so many turns of its
\* loop, if nothing changes meanwhile.
ResolveLines(items) ==
  LET found[n \in 0..Len(items)] ==
        IF n = 0 THEN {<<>>}
        ELSE UNION {{Append(lines, l) : l \in Resolve(items[n], Cursor(lines))} :
                      lines \in found[n - 1]}
  IN  found

\* Mutant: the quantity is forgotten.
QuoteLineOfOne(line) ==
  [id |-> line.id, line_total |-> line.price, from |-> line.from, to |-> line.to]

\* toQuoteLine
QuoteLine(line) ==
  [id |-> line.id,
   line_total |-> IF line.kind = "product" THEN line.price * line.quantity ELSE line.price,
   from |-> line.from, to |-> line.to]

SumLinesDuration(lines) ==
  SumFunction([i \in DOMAIN lines |-> IF lines[i].kind = "product" THEN 0 ELSE lines[i].duration])

\* What resolveAutoIncludeDepsForLines has found after so many services of a
\* visit, if nothing changes meanwhile.
IncludedSoFar(v) ==
  LET found[n \in 0..Len(v)] ==
        IF n = 0 THEN {} ELSE found[n - 1] \cup IncludedWith(v, n, found[n - 1])
  IN  found

Included(lines) == LET v == Visit(lines) IN IncludedSoFar(v)[Len(v)]

\* quoteBooking; the included services are lines without a price.
Quotes(cart) ==
  {[total |-> Charge(lines), duration |-> SumLinesDuration(lines),
    lines |-> [i \in DOMAIN lines |-> QuoteLine(lines[i])], included |-> Included(lines)] :
     lines \in ResolveLines(cart.items)[Len(cart.items)]}

-----------------------------------------------------------------------------
IsQuoted(o, q) ==
  /\ o.total = q.total /\ o.to = q.duration /\ o.included = q.included
  /\ o.total = SumFunction([i \in DOMAIN q.lines |-> q.lines[i].line_total])
  /\ \A i \in DOMAIN q.lines :
       o.lines[i].id = q.lines[i].id /\ o.lines[i].from = q.lines[i].from /\ o.lines[i].to = q.lines[i].to

\* The total and the lines that are quoted, and the prices that the shop shows,
\* are those that the order keeps, if the catalog does not change from the
\* beginning of the booking to its end (comment on quoteBooking).
QuotedIsCharged ==
  [][\A o \in Orders : \A r \in Requests :
       /\ order[o] = None /\ order'[o] # None /\ txn[r].op = "book" /\ txn'[r] = Idle
       /\ txn[r].since = clock
       => /\ \E q \in Quotes(txn[r].cart) : IsQuoted(order'[o], q)
          /\ \A i \in DOMAIN order'[o].lines : \A s \in ShopProfile :
               LET l == order'[o].lines[i] IN
               s.kind = l.kind /\ s.id = l.id => l.price \in s.prices /\ l.duration = s.duration]_<<order, txn>>
=============================================================================
