------------------------------- MODULE MCCart -------------------------------
(***************************************************************************)
(* A shop with shampoo, a cut, a wash and a massage, one combo and one     *)
(* category.                                                               *)
(***************************************************************************)
EXTENDS Storefront, TLC

CONSTANTS shampoo, cut, wash, massage, deal, hair

Row(price, duration, status) ==
  [price |-> price, duration |-> duration, category |-> None, status |-> status, updated |-> 0]

Comes(s, on) == [service |-> s, on |-> on, auto_include |-> TRUE]

Stock(of_hair, goods, dependencies, combos) ==
  [category |-> hair :> of_hair, good |-> goods, includes |-> dependencies, combo |-> deal :> combos]

\* In one stock everything is on sale, in one most is still to be made, and one
\* has a category next to a product that may be put into it.
Full == Stock("unused", shampoo :> Row(10, 0, "draft") @@ cut :> Row(25, 2, "active")
                @@ wash :> Row(10, 1, "active") @@ massage :> Row(10, 1, "active"),
              {Comes(cut, wash), Comes(cut, massage), Comes(wash, massage)},
              [discount |-> 5000, status |-> "active",
               parts |-> {[good |-> g, since |-> 0, at |-> 0] : g \in {cut, wash}}])
Empty == Stock("unused", shampoo :> None @@ cut :> Row(25, 2, "active") @@ wash :> None @@ massage :> None,
               {}, None)
Outside == Stock("kept", shampoo :> Row(10, 0, "draft") @@ cut :> None @@ wash :> None
                         @@ massage :> None, {}, None)
MCStocks == {Full, Empty, Outside}

MCLists == {{cut}, {wash, shampoo}}

Item(kind, id, quantity) == [kind |-> kind, id |-> id, quantity |-> quantity]
MCCarts == {
  [fulfillment |-> "appointment", items |-> <<Item("product", shampoo, 2), Item("combo", deal, 1)>>],
  [fulfillment |-> "appointment", items |-> <<Item("combo", deal, 1), Item("service", cut, 1)>>],
  [fulfillment |-> "pickup", items |-> <<Item("product", shampoo, 2)>>]}
=============================================================================
