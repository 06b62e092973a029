------------------------------ MODULE Catalog ------------------------------
(***************************************************************************)
(* The catalog of a shop (src/catalog/catalog.service.ts): categories,     *)
(* products and services, which services include which, and combos with    *)
(* their parts.                                                            *)
(*                                                                         *)
(* Most handlers read a row, decide, and write columns or a row by id; the *)
(* foreign keys and unique indexes of the migrations refuse a write whose  *)
(* ground has gone, so one step at the moment of the write shows all that  *)
(* can come of them.  Two act on what they read: deleteCategory on a       *)
(* count, updateCombo on the parts to remove.  These are split, and        *)
(* `txn[r]' is what request r has read.                                    *)
(***************************************************************************)
EXTENDS Naturals, FiniteSets

CONSTANTS Categories, Products, Services, Combos, Requests,
          Prices,     \* in cents
          Durations,
          Discounts,  \* in hundredths of a percent, as the column keeps them
          Lists,      \* the lists of parts that are asked for
          Stocks,     \* the catalogs to begin with
          None,
          MaxClock    \* bound on the changes of the catalog

Goods == Products \cup Services

\* The input DTOs ask for a discount of at most 100 % and at least one part.
ASSUME CatalogAssumption ==
  /\ Prices \subseteq Nat /\ Durations \subseteq Nat \ {0} /\ Discounts \subseteq 0..10000
  /\ Lists \subseteq {list \in SUBSET Goods : IsFiniteSet(list) /\ list # {}}
  /\ Products \cap Services = {} /\ MaxClock \in Nat

Rows == [price : Prices, duration : Durations \cup {0}, category : Categories \cup {None},
         status : {"draft", "active", "archived"}, updated : 0..MaxClock]

\* A part was inserted by the change `at', on what was read after the change
\* `since'; the two make up its id.
Parts == [good : Goods, since : 0..MaxClock, at : 0..MaxClock]

ComboRows == [discount : Discounts, status : {"active", "archived"},
              parts : {rows \in SUBSET Parts : IsFiniteSet(rows)}]

ASSUME NoneAssumption == None \notin Categories \cup Rows \cup ComboRows

\* With the foreign keys and the unique indexes of the migrations, and what
\* the handlers see to: a product takes no time.
IsCatalog(s) ==
  /\ s.category \in [Categories -> {"unused", "kept", "deleted"}]
  /\ s.good \in [Goods -> Rows \cup {None}]
  /\ s.includes \subseteq [service : Services, on : Services, auto_include : BOOLEAN]
  /\ s.combo \in [Combos -> ComboRows \cup {None}]
  /\ \A g \in Goods : s.good[g] # None =>
       /\ s.good[g].category = None \/ s.category[s.good[g].category] = "kept"
       /\ g \in Products <=> s.good[g].duration = 0
  /\ \A k \in Combos : s.combo[k] # None =>
       /\ \A p \in s.combo[k].parts : s.good[p.good] # None
       /\ \A p, q \in s.combo[k].parts : p.good = q.good => p = q

\* What was stored before has come by the handlers too.
ASSUME StocksAssumption ==
  \A s \in Stocks : IsCatalog(s) /\ \A k \in Combos : s.combo[k] # None =>
    s.combo[k].parts # {} /\ \A p \in s.combo[k].parts : p.at = 0

VARIABLES category,  \* "unused", "kept" or "deleted"; ids are not used again
          good,      \* rows of products and services
          includes,  \* service_dependencies
          combo,     \* rows of combos, with their combo_items
          txn,
          clock      \* the number of changes so far; stands for updated_at

catalogVars == <<category, good, includes, combo, clock>>

Idle == [op |-> "idle"]

Edits == {Idle}
  \cup [op : {"deleteCategory"}, id : Categories, since : 0..MaxClock]
  \cup [op : {"updateCombo"}, id : Combos, discount : Discounts \cup {None},
        list : Lists \cup {None}, seen : ComboRows, since : 0..MaxClock]

Exists(id, table) == table[id] # None
Kept == {c \in Categories : category[c] = "kept"}

CatalogTypeOK ==
  /\ IsCatalog([category |-> category, good |-> good, includes |-> includes, combo |-> combo])
  /\ clock \in 0..MaxClock

CatalogInit ==
  /\ \E s \in Stocks : category = s.category /\ good = s.good
                         /\ includes = s.includes /\ combo = s.combo
  /\ txn = [r \in Requests |-> Idle]
  /\ clock = 0

-----------------------------------------------------------------------------
\* One more change.
Change == clock < MaxClock /\ clock' = clock + 1

CreateCategory(c) ==
  /\ category[c] = "unused"
  /\ Change
  /\ category' = [category EXCEPT ![c] = "kept"]
  /\ UNCHANGED <<good, includes, combo, txn>>

\* What a row can be made to hold; a product takes no time.
Wanted(g) == {row \in Rows : row.category \in Kept \cup {None} /\ (g \in Products <=> row.duration = 0)}

InsertGood(g) ==
  /\ ~Exists(g, good)
  /\ Change
  /\ \E row \in Wanted(g) :
       /\ row.status = "draft" /\ row.updated = clock'
       /\ good' = [good EXCEPT ![g] = row]
  /\ UNCHANGED <<category, includes, combo, txn>>

CreateProduct == \E p \in Products : InsertGood(p)
CreateService == \E s \in Services : InsertGood(s)

\* Any of the columns; two edits of different columns both last, because a
\* flush writes only the columns it changes.
EditGood(g) ==
  /\ Exists(g, good)
  /\ Change
  /\ \E row \in Wanted(g) :
       /\ row.status = good[g].status /\ row.updated = clock'
       /\ [row EXCEPT !.updated = good[g].updated] # good[g]
       /\ good' = [good EXCEPT ![g] = row]
  /\ UNCHANGED <<category, includes, combo, txn>>

UpdateProduct == \E p \in Products : EditGood(p)
UpdateService == \E s \in Services : EditGood(s)

\* Goods are put on sale and archived; nothing makes them drafts again.
SetStatus(g) ==
  /\ Exists(g, good)
  /\ Change
  /\ \E status \in {"active", "archived"} \ {good[g].status} :
       good' = [good EXCEPT ![g] = [@ EXCEPT !.status = status, !.updated = clock']]
  /\ UNCHANGED <<category, includes, combo, txn>>

SetProductStatus == \E p \in Products : SetStatus(p)
SetServiceStatus == \E s \in Services : SetStatus(s)

AddServiceDependency(s, on, auto) ==
  /\ s # on /\ Exists(s, good) /\ Exists(on, good)
  /\ ~\E d \in includes : d.service = s /\ d.on = on
  /\ Change
  /\ includes' = includes \cup {[service |-> s, on |-> on, auto_include |-> auto]}
  /\ UNCHANGED <<category, good, combo, txn>>

RemoveServiceDependency(d) ==
  /\ Change
  /\ includes' = includes \ {d}
  /\ UNCHANGED <<category, good, combo, txn>>

-----------------------------------------------------------------------------
\* A request that will change the catalog begins only while the bound leaves
\* it a change to make.
CanStart(r) == txn[r] = Idle /\ clock < MaxClock

\* Mutant: only products that are on sale are counted.
CountActiveProducts(r, c) ==
  /\ CanStart(r) /\ category[c] = "kept"
  /\ \A p \in Products : Exists(p, good) => ~(good[p].category = c /\ good[p].status = "active")
  /\ txn' = [txn EXCEPT ![r] = [op |-> "deleteCategory", id |-> c, since |-> clock]]
  /\ UNCHANGED catalogVars

\* deleteCategory: a category with products is kept; services are not asked.
CountProducts(r, c) ==
  /\ CanStart(r) /\ category[c] = "kept"
  /\ \A p \in Products : Exists(p, good) => good[p].category # c
  /\ txn' = [txn EXCEPT ![r] = [op |-> "deleteCategory", id |-> c, since |-> clock]]
  /\ UNCHANGED catalogVars

\* Mutant: without the foreign key's rule.
RemoveCategoryAlone(r) ==
  /\ txn[r].op = "deleteCategory"
  /\ Change
  /\ category' = [category EXCEPT ![txn[r].id] = "deleted"]
  /\ txn' = [txn EXCEPT ![r] = Idle]
  /\ UNCHANGED <<good, includes, combo>>

\* What still refers to it loses its category (on delete set null).
RemoveCategory(r) ==
  /\ txn[r].op = "deleteCategory"
  /\ Change
  /\ LET c == txn[r].id IN
       /\ category' = [category EXCEPT ![c] = "deleted"]
       /\ good' = [g \in Goods |->
                     IF Exists(g, good) /\ good[g].category = c
                     THEN [good[g] EXCEPT !.category = None] ELSE good[g]]
  /\ txn' = [txn EXCEPT ![r] = Idle]
  /\ UNCHANGED <<includes, combo>>

-----------------------------------------------------------------------------
\* Rows for the parts of a list, inserted by the change that is under way.
PartsOf(list, since) == {[good |-> g, since |-> since, at |-> clock'] : g \in list}

Resolvable(list) == \A g \in list : Exists(g, good)

CreateCombo(k, discount, list) ==
  /\ ~Exists(k, combo) /\ Resolvable(list)
  /\ Change
  /\ combo' = [combo EXCEPT ![k] = [discount |-> discount, status |-> "active",
                                    parts |-> PartsOf(list, clock)]]
  /\ UNCHANGED <<category, good, includes, txn>>

SetComboStatus(k, status) ==
  /\ Exists(k, combo) /\ combo[k].status # status
  /\ Change
  /\ combo' = [combo EXCEPT ![k].status = status]
  /\ UNCHANGED <<category, good, includes, txn>>

\* updateCombo reads the combo with its parts; None is a field not sent.
ReadCombo(r, k, discount, list) ==
  /\ CanStart(r)
  /\ Exists(k, combo) /\ (discount # None \/ list # None) /\ (list # None => Resolvable(list))
  /\ txn' = [txn EXCEPT ![r] = [op |-> "updateCombo", id |-> k, discount |-> discount,
                                list |-> list, seen |-> combo[k], since |-> clock]]
  /\ UNCHANGED catalogVars

\* A discount that was not sent, or is the one that was read, is not written.
NewDiscount(r) ==
  IF txn[r].discount \in {None, txn[r].seen.discount}
  THEN combo[txn[r].id].discount ELSE txn[r].discount

\* Mutant: the old parts stay.
SaveComboAdding(r) ==
  LET t == txn[r] IN
  /\ t.op = "updateCombo"
  /\ Change
  /\ combo' = [combo EXCEPT ![t.id] = [@ EXCEPT
       !.discount = NewDiscount(r),
       !.parts = IF t.list = None THEN @
                 ELSE @ \cup {p \in PartsOf(t.list, t.since) : \A q \in @ : q.good # p.good}]]
  /\ txn' = [txn EXCEPT ![r] = Idle]
  /\ UNCHANGED <<category, good, includes>>

\* Mutant: without the transaction, the removal is committed by itself.
SaveComboInTwo(r) ==
  LET t == txn[r] IN
  /\ t.op = "updateCombo" /\ t.list # None
  /\ Change
  /\ combo' = [combo EXCEPT ![t.id].parts =
                 IF t.seen.parts # {} THEN @ \ t.seen.parts ELSE @ \cup PartsOf(t.list, t.since)]
  /\ txn' = [txn EXCEPT ![r] = IF t.seen.parts # {} THEN [t EXCEPT !.seen.parts = {}] ELSE Idle]
  /\ UNCHANGED <<category, good, includes>>

\* Mutant: without the unique indexes.
SaveComboUnchecked(r) ==
  LET t == txn[r] IN
  /\ t.op = "updateCombo"
  /\ Change
  /\ combo' = [combo EXCEPT ![t.id] = [@ EXCEPT
       !.discount = NewDiscount(r),
       !.parts = IF t.list = None THEN @ ELSE (@ \ t.seen.parts) \cup PartsOf(t.list, t.since)]]
  /\ txn' = [txn EXCEPT ![r] = Idle]
  /\ UNCHANGED <<category, good, includes>>

\* One transaction removes the parts that were read, by their ids, and inserts
\* the new ones; the unique indexes on combo_items allow no good twice.
SaveCombo(r) ==
  LET t == txn[r]
      old == combo[t.id]
      kept == old.parts \ t.seen.parts
  IN
  /\ t.op = "updateCombo"
  /\ t.list # None => \A p \in kept : p.good \notin t.list
  /\ Change
  /\ combo' = [combo EXCEPT ![t.id] = [old EXCEPT
       !.discount = NewDiscount(r),
       !.parts = IF t.list = None THEN old.parts ELSE kept \cup PartsOf(t.list, t.since)]]
  /\ txn' = [txn EXCEPT ![r] = Idle]
  /\ UNCHANGED <<category, good, includes>>

\* A request fails, or ends without having anything to write.
Abort(r) ==
  /\ txn[r] # Idle
  /\ txn' = [txn EXCEPT ![r] = Idle]
  /\ UNCHANGED catalogVars

-----------------------------------------------------------------------------
(* What the catalog offers to be done at once, by resource.                *)

EditCategories == \E c \in Categories : CreateCategory(c)

EditProducts == CreateProduct \/ UpdateProduct \/ SetProductStatus

EditServices == CreateService \/ UpdateService \/ SetServiceStatus

EditDependencies ==
  \/ \E s, on \in Services, auto \in BOOLEAN : AddServiceDependency(s, on, auto)
  \/ \E d \in includes : RemoveServiceDependency(d)

EditCombos ==
  \/ \E k \in Combos, d \in Discounts, l \in Lists : CreateCombo(k, d, l)
  \/ \E k \in Combos, s \in {"active", "archived"} : SetComboStatus(k, s)

Edit == EditCategories \/ EditProducts \/ EditServices \/ EditDependencies \/ EditCombos

\* What takes two steps.
EditStep(r) ==
  \/ \E c \in Categories : CountProducts(r, c)
  \/ RemoveCategory(r)
  \/ \E k \in Combos, d \in Discounts \cup {None}, l \in Lists \cup {None} : ReadCombo(r, k, d, l)
  \/ SaveCombo(r)
  \/ Abort(r)

-----------------------------------------------------------------------------
\* However updates of a combo overlap and fail, it never stands without parts.
NeverBare == \A k \in Combos : Exists(k, combo) => combo[k].parts # {}

\* A combo holds parts of two lists only if the later list was sent by a
\* request that had read the combo before the earlier one was stored.
ListsMixOnlyOnOverlap ==
  \A k \in Combos : Exists(k, combo) =>
    \A p, q \in combo[k].parts : p.at < q.at => q.since < p.at

\* deleteCategory takes the category from no product but those that were
\* saved after it had counted the products.
DeletedUnused ==
  [][\A c \in Categories : category[c] = "kept" /\ category'[c] = "deleted" =>
       \E r \in Requests :
         /\ txn[r].op = "deleteCategory" /\ txn[r].id = c /\ txn'[r] = Idle
         /\ \A p \in Products :
              Exists(p, good) /\ good[p].category = c => good[p].updated > txn[r].since]_<<category, txn>>
=============================================================================
