-------------------------------- MODULE Cart --------------------------------
(***************************************************************************)
(* How a cart becomes the rows of an order (src/commerce/commerce.service: *)
(* createBooking, resolveLines, resolveAutoIncludeDepsForLines, persistLine*)
(* and src/catalog/combo-pricing.helper) while the catalog is edited.      *)
(*                                                                         *)
(* Every line is read by a query of its own, and after all the lines what  *)
(* each service of them includes, so a booking may see several states of   *)
(* the catalog.  Times are minutes since scheduled_start_at.  Who performs a   *)
(* service and when he is free is the business of StaffCalendar.           *)
(***************************************************************************)
EXTENDS Catalog, Integers, Functions, SequencesExt

CONSTANTS Orders, Carts,
          Customers  \* the requests that may book

\* CreateBookingItemDto
Asked(kind, ids) == [kind : {kind}, id : ids, quantity : Nat \ {0}]

\* CreateBookingDto, what is ordered; an appointment has a start.
IsCart(c) ==
  /\ c.fulfillment \in {"appointment", "pickup"} /\ c.items # <<>>
  /\ c.items \in Seq(Asked("product", Products) \cup Asked("service", Services)
                       \cup Asked("combo", Combos))

ASSUME CustomersAssumption == Customers \subseteq Requests
ASSUME CartsAssumption == \A c \in Carts : IsCart(c)

VARIABLE order

vars == <<catalogVars, txn, order>>

Total(s, field) == SumFunction([i \in DOMAIN s |-> s[i][field]])

\* round2 of a price in cents less a discount; when the exact value lies half
\* way, floating point may go to either side.
Discounted(price, discount) ==
  {x \in 0..price : LET d == 10000 * x - price * (10000 - discount)
                    IN  d \in -5000..5000}

-----------------------------------------------------------------------------
\* One good of a line, from a given minute on; a product takes no time, and
\* its empty slot stands for none.
Timed(g, from) ==
  [id |-> g, price |-> good[g].price, from |-> from, to |-> from + good[g].duration]

IsService(row) == row.id \in Services

Performed(rows) ==
  FlattenSeq([i \in DOMAIN rows |-> IF IsService(rows[i]) THEN <<rows[i]>> ELSE <<>>])

\* The services of a line, in the order in which they are performed.
ServicesOf(line) == Performed(IF line.kind = "combo" THEN line.parts ELSE <<line>>)

Visit(lines) == FlattenSeq([i \in DOMAIN lines |-> ServicesOf(lines[i])])

\* Mutant: combos do not move the cursor.
CursorOfServices(lines) ==
  SumFunction([i \in {j \in DOMAIN lines : lines[j].kind = "service"} |-> lines[i].duration])

\* cursorMinutes after some lines.
Cursor(lines) ==
  LET v == Visit(lines) IN SumFunction([i \in DOMAIN v |-> v[i].to - v[i].from])

OnSale(id, table) == Exists(id, table) /\ table[id].status = "active"

ResolveGood(asked, from) ==
  LET t == Timed(asked.id, from)
  IN  {[kind |-> asked.kind, id |-> asked.id, quantity |-> asked.quantity, price |-> t.price,
        duration |-> good[asked.id].duration, from |-> t.from, to |-> t.to, parts |-> <<>>]}

\* The total of computeComboPricing.
ComboPrice(row) ==
  Discounted(SumFunction([p \in row.parts |-> good[p.good].price]), row.discount)

\* The parts of a combo, each beginning when the one before it ends.
Snapshot(g, from) ==
  [i \in DOMAIN g |->
     Timed(g[i], from + SumFunction([j \in 1..(i - 1) |-> good[g[j]].duration]))]

GoodsOf(k) == {p.good : p \in combo[k].parts}

\* A combo with the snapshot of its parts.
ComboLine(k, from, s, price) ==
  LET v == Performed(s) IN
    [kind |-> "combo", id |-> k, quantity |-> 1, price |-> price,
     duration |-> SumFunction([g \in GoodsOf(k) |-> good[g].duration]),
     from |-> IF v = <<>> THEN from ELSE Head(v).from,
     to |-> IF v = <<>> THEN from ELSE Last(v).to, parts |-> s]

\* The parts come in any order, for the query that populates them asks for
\* none, and need not be on sale.
ResolveCombo(asked, from) ==
  UNION {{ComboLine(asked.id, from, Snapshot(g, from), price) :
            price \in ComboPrice(combo[asked.id])} : g \in SetToSeqs(GoodsOf(asked.id))}

\* One turn of the loop in resolveLines: none if the line is to be refused.
Resolve(asked, cursor) ==
  IF ~OnSale(asked.id, IF asked.kind = "combo" THEN combo ELSE good) THEN {}
  ELSE IF asked.kind = "combo" THEN {l \in ResolveCombo(asked, cursor) : asked.quantity = 1}
  ELSE {l \in ResolveGood(asked, cursor) : asked.kind = "service" => asked.quantity = 1}

\* Mutant: what earlier services include is asked for again, not remembered.
IncludedAskingAgain(v, n, earlier) ==
  {[id |-> d.on, from |-> v[n].from, to |-> v[n].to] :
     d \in {e \in includes : /\ e.service = v[n].id /\ e.auto_include
                             /\ \A s \in ToSet(v) : s.id # e.on
                             /\ \A i \in 1..(n - 1) : \A f \in includes :
                                  f.service = v[i].id /\ f.auto_include => f.on # e.on}}

\* collectAutoIncludeDeps: what comes with the n-th service of a visit, at its
\* time, unless it is in the cart or has come with an earlier service.
IncludedWith(v, n, earlier) ==
  {[id |-> d.on, from |-> v[n].from, to |-> v[n].to] :
     d \in {e \in includes : /\ e.service = v[n].id /\ e.auto_include
                             /\ \A s \in ToSet(v) : s.id # e.on
                             /\ \A s \in earlier : s.id # e.on}}

-----------------------------------------------------------------------------
\* Pickups are for products only (assertFulfillmentInvariants).
BeginBooking(r, cart) ==
  /\ txn[r] = Idle /\ \E o \in Orders : order[o] = None
  /\ cart.fulfillment = "pickup" => \A i \in DOMAIN cart.items : cart.items[i].kind = "product"
  /\ txn' = [txn EXCEPT ![r] = [op |-> "book", cart |-> cart, lines |-> <<>>,
                                included |-> {}, looked |-> 0, since |-> clock]]
  /\ UNCHANGED <<catalogVars, order>>

ResolveLine(r) ==
  LET t == txn[r] IN
  /\ t.op = "book" /\ Len(t.lines) < Len(t.cart.items)
  /\ \E line \in Resolve(t.cart.items[Len(t.lines) + 1], Cursor(t.lines)) :
       txn' = [txn EXCEPT ![r].lines = Append(@, line)]
  /\ UNCHANGED <<catalogVars, order>>

\* One turn of the loop in resolveAutoIncludeDepsForLines: each service of the
\* visit is looked up by a query of its own.
ResolveIncluded(r) ==
  LET t == txn[r]
      v == Visit(t.lines)
      n == t.looked + 1
  IN
  /\ t.op = "book" /\ Len(t.lines) = Len(t.cart.items) /\ n <= Len(v)
  /\ txn' = [txn EXCEPT ![r] = [t EXCEPT !.looked = n,
                                        !.included = @ \cup IncludedWith(v, n, @)]]
  /\ UNCHANGED <<catalogVars, order>>

\* Mutant: the quantity is forgotten.
LineTotalOfOne(line) == line.price

LineTotal(line) ==
  IF line.kind = "product" THEN line.price * line.quantity ELSE line.price

Charge(lines) == SumFunction([i \in DOMAIN lines |-> LineTotal(lines[i])])

\* computeAppointmentEnd
AppointmentEnd(lines) ==
  SumFunction([i \in {j \in DOMAIN lines : lines[j].kind # "product"} |-> lines[i].duration])

Resolved(t) == Len(t.lines) = Len(t.cart.items) /\ t.looked = Len(Visit(t.lines))

\* An appointment needs a service.  The order and its rows are inserted by one
\* transaction.
InsertOrder(r, o) ==
  LET t == txn[r] IN
  /\ t.op = "book" /\ Resolved(t)
  /\ t.cart.fulfillment = "appointment" => Visit(t.lines) # <<>>
  /\ order[o] = None
  /\ order' = [order EXCEPT ![o] =
       [lines |-> t.lines, included |-> t.included,
        total |-> Charge(t.lines), to |-> AppointmentEnd(t.lines)]]
  /\ txn' = [txn EXCEPT ![r] = Idle]
  /\ UNCHANGED catalogVars

Init == CatalogInit /\ order = [o \in Orders |-> None]

Next ==
  \/ Edit /\ UNCHANGED order
  \/ \E r \in Requests : EditStep(r) /\ UNCHANGED order
  \/ \E r \in Customers, c \in Carts : BeginBooking(r, c)
  \/ \E r \in Requests : ResolveLine(r) \/ ResolveIncluded(r)
  \/ \E r \in Requests, o \in Orders : InsertOrder(r, o)

Spec == Init /\ [][Next]_vars

-----------------------------------------------------------------------------
Placed == {o \in Orders : order[o] # None}

\* A row of a cart comes from one that was asked for; the parts of a combo
\* are what its own queries have found.
BookingOK(t) ==
  /\ t.cart \in Carts /\ t.since \in 0..clock
  /\ Len(t.lines) <= Len(t.cart.items) /\ t.looked \in 0..Len(Visit(t.lines))
  /\ \A i \in DOMAIN t.lines :
       /\ t.lines[i].id = t.cart.items[i].id /\ t.lines[i].kind = t.cart.items[i].kind
       /\ t.lines[i].price \in Nat /\ t.lines[i].from <= t.lines[i].to

TypeOK ==
  /\ CatalogTypeOK
  /\ DOMAIN txn = Requests
  /\ \A r \in Requests : txn[r] \in Edits \/ (txn[r].op = "book" /\ BookingOK(txn[r]))
  /\ \A o \in Placed : order[o].total \in Nat /\ order[o].to \in Nat

\* Whatever is edited while an order is put together, its total is the sum of
\* its rows at the prices they keep, and a combo's price is that of the parts
\* in its snapshot, less a discount.
TotalExplained ==
  \A o \in Placed :
    LET l == order[o].lines IN
      /\ order[o].total = SumFunction([i \in DOMAIN l |-> l[i].price * l[i].quantity])
      /\ \A i \in DOMAIN l : l[i].kind = "combo" =>
           \E d \in Discounts : l[i].price \in
             Discounted(SumFunction([j \in DOMAIN l[i].parts |-> l[i].parts[j].price]), d)

\* Whatever durations are edited meanwhile, every minute of a visit belongs to
\* exactly one of the services bought, none lies outside of it, and the slot of
\* a combo is that of its parts.
SlotsFillVisit ==
  \A o \in Placed :
    LET v == Visit(order[o].lines) IN
      /\ \A m \in 0..(order[o].to - 1) : Cardinality({i \in DOMAIN v : m \in v[i].from..(v[i].to - 1)}) = 1
      /\ \A i \in DOMAIN v : v[i].from >= 0 /\ v[i].to <= order[o].to
      /\ \A k \in DOMAIN order[o].lines :
           LET line == order[o].lines[k] IN
             line.from..(line.to - 1) =
               UNION {p.from..(p.to - 1) : p \in ToSet(ServicesOf(line))}

\* Whatever dependencies come and go between the queries for the services of a
\* visit, no service is both in the cart and included, none is included twice,
\* and each has the slot of a service of the visit (comment on
\* resolveAutoIncludeDepsForLines: no phantom rows).
IncludedOnce ==
  \A o \in Placed :
    LET v == Visit(order[o].lines) IN
      \A d \in order[o].included :
        /\ d.id \notin {s.id : s \in ToSet(v)}
        /\ \A e \in order[o].included : e.id = d.id => e = d
        /\ \E s \in ToSet(v) : d.from = s.from /\ d.to = s.to
=============================================================================
