----------------------------- MODULE CartProofs -----------------------------
(***************************************************************************)
(* Proofs about Catalog, Cart and Storefront: what edits of the catalog    *)
(* never leave behind, what an order put together while it is edited       *)
(* promises, and that it keeps what was quoted, however they overlap and   *)
(* fail, for any goods, combos, carts, catalogs to begin with and number   *)
(* of changes.                                                             *)
(***************************************************************************)
EXTENDS Storefront, SumTheorems

-----------------------------------------------------------------------------
(* The invariant                                                           *)

GoodOK(g) ==
  good[g] # None =>
    /\ good[g].category = None \/ category[good[g].category] = "kept"
    /\ g \in Products <=> good[g].duration = 0

\* Parts carry the change that stored them, and a part stored later with one
\* stored before was sent by a request that had not read it.
ComboOK(k) ==
  combo[k] # None =>
    /\ combo[k].parts # {}
    /\ \A p \in combo[k].parts : good[p.good] # None /\ p.at <= clock
    /\ \A p, q \in combo[k].parts :
         /\ p.good = q.good => p = q
         /\ p.at < q.at => q.since < p.at

\* A category about to be deleted has no products but those saved since they
\* were counted; a combo about to be saved has no parts but those that were
\* read and those stored since.
WorkOK(work) ==
  /\ work \in Edits \/ work.op = "book"
  /\ work.op = "deleteCategory" =>
       /\ work.since <= clock
       /\ \A p \in Products :
            good[p] # None /\ good[p].category = work.id => good[p].updated > work.since
  /\ work.op = "updateCombo" =>
       /\ work.since <= clock /\ combo[work.id] # None
       /\ work.list # None => \A g \in work.list : good[g] # None
       /\ \A p \in combo[work.id].parts \ work.seen.parts : p.at > work.since
  /\ work.op = "book" => DOMAIN work = {"op", "cart", "lines", "included", "looked", "since"}

Tables ==
  /\ category \in [Categories -> {"unused", "kept", "deleted"}]
  /\ good \in [Goods -> Rows \cup {None}]
  /\ includes \subseteq [service : Services, on : Services, auto_include : BOOLEAN]
  /\ combo \in [Combos -> ComboRows \cup {None}]
  /\ clock \in 0..MaxClock

CInv ==
  /\ Tables
  /\ \A g \in Goods : GoodOK(g)
  /\ \A k \in Combos : ComboOK(k)
  /\ DOMAIN txn = Requests /\ \A r \in Requests : WorkOK(txn[r])

-----------------------------------------------------------------------------
(* What steps have in common                                               *)

\* No step takes back what requests have read: a product gets into a category
\* by being saved, a part into a combo by being stored.
Later ==
  /\ Tables' /\ clock <= clock'
  /\ \A g \in Goods : good[g] # None => good'[g] # None
  /\ \A p \in Products : good'[p] # None =>
       \/ good'[p].updated > clock
       \/ good'[p].category = None
       \/ /\ good[p] # None
          /\ good'[p].category = good[p].category /\ good'[p].updated = good[p].updated
  /\ \A k \in Combos : combo[k] # None =>
       /\ combo'[k] # None
       /\ \A p \in combo'[k].parts : p \in combo[k].parts \/ p.at > clock

LEMMA EditTypes ==
  ASSUME NEW work \in Edits
  PROVE  /\ work.op = "deleteCategory" =>
              work.id \in Categories /\ work.id # None /\ work.since \in 0..MaxClock
         /\ work.op = "updateCombo" =>
              /\ work.id \in Combos /\ work.since \in 0..MaxClock /\ work.seen \in ComboRows
              /\ work.discount \in Discounts \cup {None} /\ work.list \in Lists \cup {None}
  BY NoneAssumption DEF Edits, Idle

LEMMA RowTypes ==
  ASSUME NEW row \in Rows
  PROVE  /\ row # None /\ row.updated \in Nat /\ row.price \in Prices
         /\ row.category \in Categories \cup {None} /\ row.duration \in Durations \cup {0}
  BY CatalogAssumption, NoneAssumption DEF Rows

LEMMA ComboRowTypes ==
  ASSUME NEW row \in ComboRows
  PROVE  /\ row # None /\ row.discount \in Discounts
         /\ row.parts \subseteq Parts /\ IsFiniteSet(row.parts)
         /\ \A p \in row.parts : p.at \in Nat /\ p.since \in Nat /\ p.good \in Goods
  <1>1. /\ row # None /\ row.discount \in Discounts
        /\ row.parts \subseteq Parts /\ IsFiniteSet(row.parts)
    BY NoneAssumption DEF ComboRows
  <1>2. \A p \in Parts : p.at \in Nat /\ p.since \in Nat /\ p.good \in Goods
    BY CatalogAssumption DEF Parts
  <1> QED BY <1>1, <1>2

LEMMA WorkStays ==
  ASSUME CInv, Later, NEW work, WorkOK(work)
  PROVE  WorkOK(work)'
  <1>1. clock \in Nat
    BY CatalogAssumption DEF CInv, Tables
  <1>2. clock' \in Nat
    BY CatalogAssumption DEF Later, Tables
  <1>3. CASE work \in Edits /\ work.op = "deleteCategory"
    <2>1. work.id # None /\ work.since \in Nat /\ work.since <= clock
      BY <1>3, EditTypes, CatalogAssumption DEF WorkOK
    <2>2. work.since <= clock'
      BY <1>1, <1>2, <2>1 DEF Later
    <2>3. ASSUME NEW p \in Products, good'[p] # None, good'[p].category = work.id
          PROVE  good'[p].updated > work.since
      <3>1. CASE good'[p].updated > clock
        <4>1. good'[p] \in Rows
          BY <2>3 DEF Goods, Later, Tables
        <4>2. good'[p].updated \in Nat
          BY <4>1, RowTypes
        <4> QED BY <1>1, <2>1, <3>1, <4>2
      <3>2. CASE good[p] # None /\ good'[p].category = good[p].category
                 /\ good'[p].updated = good[p].updated
        BY <1>3, <2>3, <3>2 DEF WorkOK
      <3> QED BY <2>1, <2>3, <3>1, <3>2 DEF Later
    <2> QED BY <1>3, <2>2, <2>3 DEF WorkOK
  <1>4. CASE work \in Edits /\ work.op = "updateCombo"
    <2>1. /\ work.id \in Combos /\ work.since \in Nat /\ work.since <= clock
          /\ work.list \in Lists \cup {None} /\ combo[work.id] # None
      BY <1>4, EditTypes, CatalogAssumption DEF WorkOK
    <2>2. work.since <= clock'
      BY <1>1, <1>2, <2>1 DEF Later
    <2>3. combo'[work.id] # None
      BY <2>1 DEF Later
    <2>4. work.list # None => \A g \in work.list : good'[g] # None
      BY <1>4, <2>1, CatalogAssumption DEF WorkOK, Later
    <2>5. ASSUME NEW p \in combo'[work.id].parts \ work.seen.parts
          PROVE  p.at > work.since
      <3>1. p \in combo[work.id].parts \/ p.at > clock
        BY <2>1 DEF Later
      <3>2. CASE p \in combo[work.id].parts
        BY <1>4, <3>2 DEF WorkOK
      <3>3. CASE p.at > clock
        <4>1. combo'[work.id] \in ComboRows
          BY <2>1, <2>3 DEF Later, Tables
        <4>2. p.at \in Nat
          BY <4>1, ComboRowTypes
        <4> QED BY <1>1, <2>1, <3>3, <4>2
      <3> QED BY <3>1, <3>2, <3>3
    <2> QED BY <1>4, <2>2, <2>3, <2>4, <2>5 DEF WorkOK
  <1>5. CASE work.op \notin {"deleteCategory", "updateCombo"}
    BY <1>5 DEF WorkOK
  <1> QED BY <1>3, <1>4, <1>5 DEF WorkOK

LEMMA IdleOK == WorkOK(Idle) /\ WorkOK(Idle)'
  BY DEF WorkOK, Idle, Edits

LEMMA TxnInv ==
  ASSUME CInv, Later, NEW r \in Requests, NEW work, WorkOK(work)',
         txn' = [txn EXCEPT ![r] = work]
  PROVE  DOMAIN txn' = Requests /\ (\A s \in Requests : WorkOK(txn[s]))'
  <1>1. DOMAIN txn = Requests /\ \A s \in Requests : WorkOK(txn[s])
    BY DEF CInv
  <1>2. DOMAIN txn' = Requests /\ \A s \in Requests : txn'[s] = IF s = r THEN work ELSE txn[s]
    BY <1>1
  <1>3. ASSUME NEW s \in Requests PROVE WorkOK(txn[s])'
    <2>1. CASE s = r
      <3>1. txn'[s] = work
        BY <1>2, <2>1
      <3> QED BY <3>1 DEF WorkOK
    <2>2. CASE s # r
      <3>1. PICK w : w = txn[s]
        OBVIOUS
      <3>2. WorkOK(w)'
        BY <1>1, <3>1, WorkStays
      <3>3. txn'[s] = w
        BY <1>2, <2>2, <3>1
      <3> QED BY <3>2, <3>3 DEF WorkOK
    <2> QED BY <2>1, <2>2
  <1> QED BY <1>2, <1>3

LEMMA TxnSame ==
  ASSUME CInv, Later, txn' = txn
  PROVE  DOMAIN txn' = Requests /\ (\A s \in Requests : WorkOK(txn[s]))'
  <1>1. DOMAIN txn = Requests /\ \A s \in Requests : WorkOK(txn[s])
    BY DEF CInv
  <1>2. ASSUME NEW s \in Requests PROVE WorkOK(txn[s])'
    <2>1. PICK w : w = txn[s]
      OBVIOUS
    <2>2. WorkOK(w)'
      BY <1>1, <2>1, WorkStays
    <2> QED BY <2>1, <2>2 DEF WorkOK
  <1> QED BY <1>1, <1>2

\* The requests go on, or one begins or ends.
TxnMoves ==
  \/ txn' = txn
  \/ \E r \in Requests : txn' = [txn EXCEPT ![r] = Idle]

LEMMA TxnMoved ==
  ASSUME CInv, Later, TxnMoves
  PROVE  DOMAIN txn' = Requests /\ (\A s \in Requests : WorkOK(txn[s]))'
  BY IdleOK, TxnInv, TxnSame DEF TxnMoves

\* A request reads, begins or ends without a change.
LEMMA OnlyWork ==
  ASSUME CInv, NEW r \in Requests, NEW work, WorkOK(work),
         txn' = [txn EXCEPT ![r] = work], UNCHANGED catalogVars
  PROVE  CInv'
  <1>1. category' = category /\ good' = good /\ includes' = includes /\ combo' = combo
        /\ clock' = clock
    BY DEF catalogVars
  <1>2. Later
    <2>1. Tables'
      BY <1>1 DEF CInv, Tables
    <2>2. clock \in Nat
      BY CatalogAssumption DEF CInv, Tables
    <2> QED BY <1>1, <2>1, <2>2 DEF Later
  <1>3. WorkOK(work)'
    BY <1>2, WorkStays
  <1>4. DOMAIN txn' = Requests /\ (\A s \in Requests : WorkOK(txn[s]))'
    BY <1>2, <1>3, TxnInv
  <1>5. Tables' /\ (\A g \in Goods : GoodOK(g))' /\ (\A k \in Combos : ComboOK(k))'
    BY <1>1 DEF CInv, Tables, GoodOK, ComboOK
  <1> QED BY <1>4, <1>5 DEF CInv

\* A change is the next one.
LEMMA Changed ==
  ASSUME CInv, Change
  PROVE  clock \in Nat /\ clock' = clock + 1 /\ clock' \in 0..MaxClock
  BY CatalogAssumption DEF CInv, Tables, Change

LEMMA InitInv == Init => CInv
  <1> SUFFICES ASSUME Init PROVE CInv
    OBVIOUS
  <1>1. PICK s \in Stocks : category = s.category /\ good = s.good
                            /\ includes = s.includes /\ combo = s.combo
    BY DEF Init, CatalogInit
  <1>2. /\ IsCatalog(s)
        /\ \A k \in Combos : s.combo[k] # None =>
             s.combo[k].parts # {} /\ \A p \in s.combo[k].parts : p.at = 0
    BY StocksAssumption
  <1>3. clock = 0 /\ txn = [r \in Requests |-> Idle]
    BY DEF Init, CatalogInit
  <1>4. Tables
    BY <1>1, <1>2, <1>3, CatalogAssumption DEF Tables, IsCatalog
  <1>5. \A g \in Goods : GoodOK(g)
    BY <1>1, <1>2 DEF GoodOK, IsCatalog
  <1>6. \A k \in Combos : ComboOK(k)
    BY <1>1, <1>2, <1>3 DEF ComboOK, IsCatalog
  <1> QED BY <1>3, <1>4, <1>5, <1>6, IdleOK DEF CInv
-----------------------------------------------------------------------------
(* Changes of goods                                                        *)

\* One row is inserted or saved by the change under way.
LEMMA GoodWritten ==
  ASSUME CInv, Change, NEW g \in Goods, NEW row \in Rows,
         good' = [good EXCEPT ![g] = row], row.updated = clock',
         row.category = None \/ category[row.category] = "kept",
         g \in Products <=> row.duration = 0,
         UNCHANGED <<category, includes, combo, txn>>
  PROVE  CInv'
  <1>1. clock \in Nat /\ clock' = clock + 1 /\ clock' \in 0..MaxClock
    BY Changed
  <1>2. /\ good' \in [Goods -> Rows \cup {None}] /\ good'[g] = row
        /\ \A h \in Goods \ {g} : good'[h] = good[h]
    BY DEF CInv, Tables
  <1>3. Tables'
    BY <1>1, <1>2 DEF CInv, Tables
  <1>4. row # None
    BY RowTypes
  <1>5. Later
    <2>1. clock <= clock' /\ row.updated > clock
      BY <1>1
    <2>2. \A p \in Products : p \in Goods
      BY DEF Goods
    <2>3. \A k \in Combos : combo[k] # None =>
            combo'[k] # None /\ \A p \in combo'[k].parts : p \in combo[k].parts \/ p.at > clock
      OBVIOUS
    <2> QED BY <1>2, <1>3, <1>4, <2>1, <2>2, <2>3 DEF Later
  <1>6. (\A h \in Goods : GoodOK(h))'
    BY <1>2 DEF CInv, GoodOK
  <1>7. ASSUME NEW k \in Combos, combo[k] # None
        PROVE  \A p \in combo[k].parts : good'[p.good] # None /\ p.at <= clock'
    <2>1. combo[k] \in ComboRows
      BY <1>7 DEF CInv, Tables
    <2>2. \A p \in combo[k].parts :
            good[p.good] # None /\ p.at <= clock /\ p.good \in Goods /\ p.at \in Nat
      BY <1>7, <2>1, ComboRowTypes DEF CInv, ComboOK
    <2>3. \A n \in Nat : n <= clock => n <= clock'
      BY <1>1
    <2> QED BY <1>2, <1>4, <2>2, <2>3
  <1>8. (\A k \in Combos : ComboOK(k))'
    BY <1>7 DEF CInv, ComboOK
  <1> QED BY <1>3, <1>5, <1>6, <1>8, TxnSame DEF CInv

LEMMA GoodsInv ==
  ASSUME CInv, EditProducts \/ EditServices
  PROVE  CInv'
  <1>1. ASSUME NEW g \in Goods, InsertGood(g) PROVE CInv'
    BY <1>1, GoodWritten DEF InsertGood, Wanted, Kept
  <1>2. ASSUME NEW g \in Goods, EditGood(g) PROVE CInv'
    BY <1>2, GoodWritten DEF EditGood, Wanted, Kept
  <1>3. ASSUME NEW g \in Goods, SetStatus(g) PROVE CInv'
    <2>1. PICK old : old = good[g]
      OBVIOUS
    <2>2. /\ old \in Rows /\ (old.category = None \/ category[old.category] = "kept")
          /\ g \in Products <=> old.duration = 0
      BY <1>3, <2>1 DEF SetStatus, Exists, CInv, Tables, GoodOK
    <2>3. Change /\ UNCHANGED <<category, includes, combo, txn>>
      BY <1>3 DEF SetStatus
    <2>4. PICK status \in {"active", "archived"} :
            good' = [good EXCEPT ![g] = [old EXCEPT !.status = status, !.updated = clock']]
      BY <1>3, <2>1 DEF SetStatus
    <2>5. PICK row : row = [old EXCEPT !.status = status, !.updated = clock']
      OBVIOUS
    <2>6. clock' \in 0..MaxClock
      BY <2>3, Changed
    <2>7. /\ row \in Rows /\ row.updated = clock' /\ row.category = old.category
          /\ row.duration = old.duration
      BY <2>2, <2>5, <2>6 DEF Rows
    <2>8. good' = [good EXCEPT ![g] = row]
      BY <2>4, <2>5
    <2> QED BY <2>2, <2>3, <2>7, <2>8, GoodWritten
  <1> QED BY <1>1, <1>2, <1>3 DEF EditProducts, CreateProduct, UpdateProduct, SetProductStatus,
       EditServices, CreateService, UpdateService, SetServiceStatus, Goods

-----------------------------------------------------------------------------
(* Categories and dependencies                                             *)

LEMMA CategoriesInv ==
  ASSUME CInv, EditCategories \/ EditDependencies
  PROVE  CInv'
  <1>1. /\ Change /\ UNCHANGED <<good, combo, txn>>
        /\ category' \in [Categories -> {"unused", "kept", "deleted"}]
        /\ includes' \subseteq [service : Services, on : Services, auto_include : BOOLEAN]
        /\ \A c \in Categories : category[c] = "kept" => category'[c] = "kept"
    <2>1. CASE EditCategories
      BY <2>1 DEF EditCategories, CreateCategory, CInv, Tables
    <2>2. CASE EditDependencies
      BY <2>2 DEF EditDependencies, AddServiceDependency, RemoveServiceDependency, CInv, Tables
    <2> QED BY <2>1, <2>2
  <1>2. clock \in Nat /\ clock' = clock + 1 /\ clock' \in 0..MaxClock
    BY <1>1, Changed
  <1>3. Tables'
    BY <1>1, <1>2 DEF CInv, Tables
  <1>4. Later
    BY <1>1, <1>2, <1>3 DEF Later
  <1>5. (\A g \in Goods : GoodOK(g))'
    <2>1. ASSUME NEW g \in Goods, good[g] # None
          PROVE  good[g].category \in Categories \cup {None}
      <3>1. good[g] \in Rows
        BY <2>1 DEF CInv, Tables
      <3> QED BY <3>1, RowTypes
    <2> QED BY <1>1, <2>1 DEF CInv, GoodOK
  <1>6. (\A k \in Combos : ComboOK(k))'
    <2>1. ASSUME NEW k \in Combos, combo[k] # None PROVE \A p \in combo[k].parts : p.at <= clock'
      <3>1. combo[k] \in ComboRows
        BY <2>1 DEF CInv, Tables
      <3>2. \A p \in combo[k].parts : p.at <= clock /\ p.at \in Nat
        BY <2>1, <3>1, ComboRowTypes DEF CInv, ComboOK
      <3>3. \A n \in Nat : n <= clock => n <= clock'
        BY <1>2
      <3> QED BY <3>2, <3>3
    <2> QED BY <1>1, <2>1 DEF CInv, ComboOK
  <1> QED BY <1>1, <1>3, <1>4, <1>5, <1>6, TxnSame DEF CInv

\* The goods of the category lose it.
LEMMA RemoveCategoryInv ==
  ASSUME CInv, NEW r \in Requests, RemoveCategory(r)
  PROVE  CInv'
  <1>1. PICK c : c = txn[r].id
    OBVIOUS
  <1>2. /\ txn[r].op = "deleteCategory" /\ Change
        /\ category' = [category EXCEPT ![c] = "deleted"]
        /\ good' = [g \in Goods |->
                     IF good[g] # None /\ good[g].category = c
                     THEN [good[g] EXCEPT !.category = None] ELSE good[g]]
        /\ txn' = [txn EXCEPT ![r] = Idle]
        /\ UNCHANGED <<includes, combo>>
    BY <1>1 DEF RemoveCategory, Exists
  <1>3. clock \in Nat /\ clock' = clock + 1 /\ clock' \in 0..MaxClock
    BY <1>2, Changed
  <1>4. ASSUME NEW g \in Goods
        PROVE  \/ good[g] = None /\ good'[g] = None
               \/ /\ good[g] \in Rows /\ good'[g] \in Rows
                  /\ good'[g].updated = good[g].updated /\ good'[g].duration = good[g].duration
                  /\ \/ good[g].category = c /\ good'[g].category = None
                     \/ good[g].category # c /\ good'[g].category = good[g].category
    <2>1. PICK old : old = good[g]
      OBVIOUS
    <2>2. CASE old = None
      BY <1>2, <2>1, <2>2
    <2>3. CASE old # None
      <3>1. old \in Rows
        BY <2>1, <2>3 DEF CInv, Tables
      <3>2. PICK new : new = [old EXCEPT !.category = None]
        OBVIOUS
      <3>3. new \in Rows /\ new.updated = old.updated /\ new.duration = old.duration
            /\ new.category = None
        BY <3>1, <3>2 DEF Rows
      <3>4. good'[g] = IF old.category = c THEN new ELSE old
        BY <1>2, <2>1, <2>3, <3>2
      <3> QED BY <2>1, <3>1, <3>3, <3>4
    <2> QED BY <2>2, <2>3
  <1>5. good' \in [Goods -> Rows \cup {None}]
    BY <1>2, <1>4
  <1>6. Tables'
    BY <1>2, <1>3, <1>5 DEF CInv, Tables
  <1>7. Later
    <2>1. \A p \in Products : p \in Goods
      BY DEF Goods
    <2> QED BY <1>2, <1>3, <1>4, <1>6, <2>1, RowTypes DEF Later
  <1>8. (\A g \in Goods : GoodOK(g))'
    <2>1. \A d \in Categories \ {c} : category'[d] = category[d]
      BY <1>2 DEF CInv, Tables
    <2>2. ASSUME NEW g \in Goods, good'[g] # None PROVE GoodOK(g)'
      <3>1. /\ good[g] \in Rows /\ good'[g].duration = good[g].duration
            /\ \/ good'[g].category = None
               \/ good[g].category # c /\ good'[g].category = good[g].category
        BY <1>4, <2>2
      <3>2. good[g].category \in Categories \cup {None} /\ good[g] # None
        BY <3>1, RowTypes
      <3> QED BY <2>1, <3>1, <3>2 DEF CInv, GoodOK
    <2> QED BY <2>2 DEF GoodOK
  <1>9. (\A k \in Combos : ComboOK(k))'
    <2>1. ASSUME NEW k \in Combos, combo[k] # None
          PROVE  \A p \in combo[k].parts : good'[p.good] # None /\ p.at <= clock'
      <3>1. combo[k] \in ComboRows
        BY <2>1 DEF CInv, Tables
      <3>2. \A p \in combo[k].parts :
              good[p.good] # None /\ p.at <= clock /\ p.good \in Goods /\ p.at \in Nat
        BY <2>1, <3>1, ComboRowTypes DEF CInv, ComboOK
      <3>3. \A n \in Nat : n <= clock => n <= clock'
        BY <1>3
      <3>4. \A g \in Goods : good[g] # None => good'[g] # None
        BY <1>4, RowTypes
      <3> QED BY <3>2, <3>3, <3>4
    <2> QED BY <1>2, <2>1 DEF CInv, ComboOK
  <1>10. TxnMoves
    BY <1>2 DEF TxnMoves
  <1> QED BY <1>6, <1>7, <1>8, <1>9, <1>10, TxnMoved DEF CInv
-----------------------------------------------------------------------------
(* Combos                                                                  *)

\* The row of a combo is inserted or saved by the change under way.
LEMMA ComboWritten ==
  ASSUME CInv, Change, TxnMoves, NEW k \in Combos, NEW row \in ComboRows,
         combo' = [combo EXCEPT ![k] = row], row.parts # {},
         combo[k] # None => \A p \in row.parts : p \in combo[k].parts \/ p.at > clock,
         \A p \in row.parts : good[p.good] # None /\ p.at <= clock',
         \A p, q \in row.parts :
           /\ p.good = q.good => p = q
           /\ p.at < q.at => q.since < p.at,
         UNCHANGED <<category, good, includes>>
  PROVE  CInv'
  <1>1. clock \in Nat /\ clock' = clock + 1 /\ clock' \in 0..MaxClock
    BY Changed
  <1>2. /\ combo' \in [Combos -> ComboRows \cup {None}] /\ combo'[k] = row
        /\ \A l \in Combos \ {k} : combo'[l] = combo[l]
    BY DEF CInv, Tables
  <1>3. Tables'
    BY <1>1, <1>2 DEF CInv, Tables
  <1>4. row # None
    BY ComboRowTypes
  <1>5. Later
    BY <1>1, <1>2, <1>3, <1>4 DEF Later
  <1>6. (\A g \in Goods : GoodOK(g))'
    BY DEF CInv, GoodOK
  <1>7. ASSUME NEW l \in Combos PROVE ComboOK(l)'
    <2>1. CASE l = k
      BY <1>2, <2>1 DEF ComboOK
    <2>2. CASE l # k
      <3>1. CASE combo[l] # None
        <4>1. combo[l] \in ComboRows
          BY <3>1 DEF CInv, Tables
        <4>2. \A p \in combo[l].parts : p.at <= clock /\ p.at \in Nat
          BY <3>1, <4>1, ComboRowTypes DEF CInv, ComboOK
        <4>3. \A p \in combo[l].parts : p.at <= clock'
          BY <1>1, <4>2
        <4>4. combo'[l] = combo[l] /\ ComboOK(l)
          BY <1>2, <2>2 DEF CInv
        <4> QED BY <4>3, <4>4 DEF ComboOK
      <3>2. CASE combo[l] = None
        BY <1>2, <2>2, <3>2 DEF ComboOK
      <3> QED BY <3>1, <3>2
    <2> QED BY <2>1, <2>2
  <1> QED BY <1>3, <1>5, <1>6, <1>7, TxnMoved DEF CInv

LEMMA ListTypes ==
  ASSUME NEW list \in Lists PROVE list \subseteq Goods /\ list # {} /\ IsFiniteSet(list)
  BY CatalogAssumption

\* The parts of a list are new.
LEMMA PartsWritten ==
  ASSUME CInv, Change, NEW list \in Lists, NEW since \in 0..MaxClock
  PROVE  /\ PartsOf(list, since) \subseteq Parts /\ PartsOf(list, since) # {}
         /\ \A p \in PartsOf(list, since) :
              p.good \in list /\ p.since = since /\ p.at = clock'
         /\ \A p, q \in PartsOf(list, since) : p.good = q.good => p = q
         /\ IsFiniteSet(PartsOf(list, since))
  <1>1. clock' \in 0..MaxClock
    BY Changed
  <1>2. PartsOf(list, since) = {[good |-> g, since |-> since, at |-> clock'] : g \in list}
    BY DEF PartsOf
  <1>3. \A p \in PartsOf(list, since) : \E g \in list :
          p = [good |-> g, since |-> since, at |-> clock']
    BY <1>2
  <1>4. PartsOf(list, since) \subseteq Parts
    BY <1>1, <1>3, ListTypes DEF Parts
  <1>5. PartsOf(list, since) # {}
    BY <1>2, ListTypes
  <1>6. IsFiniteSet(PartsOf(list, since))
    <2>1. PICK f : f = [g \in list |-> [good |-> g, since |-> since, at |-> clock']]
      OBVIOUS
    <2>2. f \in Surjection(list, PartsOf(list, since))
      BY <1>2, <2>1 DEF Surjection
    <2> QED BY <2>2, ListTypes, FS_Surjection
  <1> QED BY <1>3, <1>4, <1>5, <1>6

LEMMA EditCombosInv ==
  ASSUME CInv, EditCombos
  PROVE  CInv'
  <1>1. ASSUME NEW k \in Combos, NEW d \in Discounts, NEW list \in Lists, CreateCombo(k, d, list)
        PROVE  CInv'
    <2>1. PICK row : row = [discount |-> d, status |-> "active", parts |-> PartsOf(list, clock)]
      OBVIOUS
    <2>2. /\ Change /\ txn' = txn /\ combo[k] = None /\ \A g \in list : good[g] # None
          /\ combo' = [combo EXCEPT ![k] = row]
          /\ UNCHANGED <<category, good, includes>>
      BY <1>1, <2>1 DEF CreateCombo, Exists, Resolvable
    <2>3. clock \in 0..MaxClock /\ clock' \in Nat
      BY <2>2, Changed DEF CInv, Tables
    <2>4. PICK new : new = PartsOf(list, clock)
      OBVIOUS
    <2>5. /\ new \subseteq Parts /\ new # {} /\ IsFiniteSet(new) /\ \A p, q \in new : p.good = q.good => p = q
          /\ \A p \in new : p.good \in list /\ p.since = clock /\ p.at = clock'
      BY <2>2, <2>3, <2>4, PartsWritten
    <2>6. row \in ComboRows /\ row.parts = new
      BY <2>1, <2>4, <2>5 DEF ComboRows
    <2>7. \A p \in new : good[p.good] # None /\ p.at <= clock'
      BY <2>2, <2>3, <2>5
    <2>8. \A p, q \in new : ~(p.at < q.at)
      BY <2>3, <2>5
    <2> QED BY <2>2, <2>5, <2>6, <2>7, <2>8, ComboWritten DEF TxnMoves
  <1>2. ASSUME NEW k \in Combos, NEW s \in {"active", "archived"}, SetComboStatus(k, s)
        PROVE  CInv'
    <2>1. PICK old : old = combo[k]
      OBVIOUS
    <2>2. old # None /\ old \in ComboRows
      BY <1>2, <2>1 DEF SetComboStatus, Exists, CInv, Tables
    <2>3. PICK row : row = [old EXCEPT !.status = s]
      OBVIOUS
    <2>4. row \in ComboRows /\ row.parts = old.parts
      BY <2>2, <2>3 DEF ComboRows
    <2>5. /\ Change /\ txn' = txn /\ combo' = [combo EXCEPT ![k] = row]
          /\ UNCHANGED <<category, good, includes>>
      BY <1>2, <2>1, <2>3 DEF SetComboStatus
    <2>6. ComboOK(k) /\ combo[k] = old
      BY <2>1 DEF CInv
    <2>7. \A p \in old.parts : p.at <= clock'
      <3>1. \A p \in old.parts : p.at <= clock /\ p.at \in Nat
        BY <2>2, <2>6, ComboRowTypes DEF ComboOK
      <3>2. clock \in Nat /\ clock' = clock + 1
        BY <2>5, Changed
      <3> QED BY <3>1, <3>2
    <2> QED BY <2>2, <2>4, <2>5, <2>6, <2>7, ComboWritten DEF TxnMoves, ComboOK
  <1> QED BY <1>1, <1>2 DEF EditCombos

\* What stays of the parts was stored after the combo had been read.
LEMMA SaveComboInv ==
  ASSUME CInv, NEW r \in Requests, SaveCombo(r)
  PROVE  CInv'
  <1>1. PICK t, k, old : t = txn[r] /\ k = t.id /\ old = combo[k]
    OBVIOUS
  <1>2. t.op = "updateCombo" /\ WorkOK(t) /\ t \in Edits
    BY <1>1 DEF SaveCombo, CInv, WorkOK
  <1>3. /\ k \in Combos /\ t.since \in 0..MaxClock /\ t.since \in Nat /\ t.seen \in ComboRows
        /\ t.discount \in Discounts \cup {None} /\ t.list \in Lists \cup {None}
        /\ t.since <= clock /\ old # None /\ old \in ComboRows
        /\ t.list # None => \A g \in t.list : good[g] # None
        /\ \A p \in old.parts \ t.seen.parts : p.at > t.since
    <2>1. /\ k \in Combos /\ t.since \in 0..MaxClock /\ t.seen \in ComboRows
          /\ t.discount \in Discounts \cup {None} /\ t.list \in Lists \cup {None}
      BY <1>1, <1>2, EditTypes
    <2>2. t.since \in Nat
      BY <2>1, CatalogAssumption
    <2>3. /\ t.since <= clock /\ old # None
          /\ t.list # None => \A g \in t.list : good[g] # None
          /\ \A p \in old.parts \ t.seen.parts : p.at > t.since
      BY <1>1, <1>2 DEF WorkOK
    <2>4. old \in ComboRows
      BY <1>1, <2>1, <2>3 DEF CInv, Tables
    <2> QED BY <2>1, <2>2, <2>3, <2>4
  <1>4. PICK kept, discount, parts :
          /\ kept = old.parts \ t.seen.parts
          /\ discount = NewDiscount(r)
          /\ parts = IF t.list = None THEN old.parts ELSE kept \cup PartsOf(t.list, t.since)
    OBVIOUS
  <1>5. discount \in Discounts
    BY <1>1, <1>3, <1>4, ComboRowTypes DEF NewDiscount
  <1>6. PICK row : row = [discount |-> discount, status |-> old.status, parts |-> parts]
    OBVIOUS
  <1>7. old = [discount |-> old.discount, status |-> old.status, parts |-> old.parts]
    BY <1>3 DEF ComboRows
  <1>8. /\ Change /\ txn' = [txn EXCEPT ![r] = Idle]
        /\ t.list # None => \A p \in kept : p.good \notin t.list
        /\ UNCHANGED <<category, good, includes>>
    BY <1>1, <1>4 DEF SaveCombo
  <1>9. combo' = [combo EXCEPT ![k] = row]
    <2>1. [old EXCEPT !.discount = discount, !.parts = parts] = row
      <3>1. PICK d, s, p : d = old.discount /\ s = old.status /\ p = old.parts
        OBVIOUS
      <3>2. old = [discount |-> d, status |-> s, parts |-> p]
        BY <1>7, <3>1
      <3>3. PICK mid : mid = [old EXCEPT !.discount = discount]
        OBVIOUS
      <3>4. mid = [discount |-> discount, status |-> s, parts |-> p]
        BY <3>2, <3>3
      <3>5. [mid EXCEPT !.parts = parts] = row
        BY <1>6, <3>1, <3>4
      <3>6. [old EXCEPT !.discount = discount, !.parts = parts] = [mid EXCEPT !.parts = parts]
        BY <3>3
      <3> QED BY <3>5, <3>6
    <2> QED BY <1>1, <1>4, <2>1 DEF SaveCombo
  <1>10. clock \in Nat /\ clock' = clock + 1
    BY <1>8, Changed
  <1>11. /\ old.parts # {} /\ old.parts \subseteq Parts /\ IsFiniteSet(old.parts)
         /\ \A p \in old.parts : good[p.good] # None /\ p.at <= clock /\ p.at \in Nat
         /\ \A p, q \in old.parts :
              /\ p.good = q.good => p = q
              /\ p.at < q.at => q.since < p.at
    BY <1>1, <1>3, ComboRowTypes DEF CInv, ComboOK
  <1>12. \A p \in old.parts : p.at <= clock'
    BY <1>10, <1>11
  <1>13. row.parts = parts /\ (parts \subseteq Parts /\ IsFiniteSet(parts) => row \in ComboRows)
    BY <1>3, <1>5, <1>6 DEF ComboRows
  <1>14. CASE t.list = None
    <2>1. parts = old.parts
      BY <1>4, <1>14
    <2>2. row \in ComboRows
      BY <1>11, <1>13, <2>1
    <2>3. TxnMoves
      BY <1>8 DEF TxnMoves
    <2>4. row.parts = old.parts /\ combo[k] = old
      BY <1>1, <1>13, <2>1
    <2>5. /\ row.parts # {}
          /\ \A p \in row.parts : p \in combo[k].parts
          /\ \A p \in row.parts : good[p.good] # None /\ p.at <= clock'
          /\ \A p, q \in row.parts :
               /\ p.good = q.good => p = q
               /\ p.at < q.at => q.since < p.at
      BY <1>11, <1>12, <2>4
    <2> QED BY <1>3, <1>8, <1>9, <2>2, <2>3, <2>5, ComboWritten
  <1>15. CASE t.list # None
    <2>1. t.list \in Lists
      BY <1>3, <1>15
    <2>2. PICK new : new = PartsOf(t.list, t.since)
      OBVIOUS
    <2>3. /\ new \subseteq Parts /\ new # {} /\ IsFiniteSet(new) /\ \A p, q \in new : p.good = q.good => p = q
          /\ \A p \in new : p.good \in t.list /\ p.since = t.since /\ p.at = clock'
      BY <1>3, <1>8, <2>1, <2>2, PartsWritten
    <2>4. parts = kept \cup new
      BY <1>4, <1>15, <2>2
    <2>5. kept \subseteq old.parts /\ \A p \in kept : p.at > t.since /\ p.at \in Nat /\ p.at <= clock
      BY <1>3, <1>4, <1>11
    <2>6. parts \subseteq Parts /\ parts # {} /\ IsFiniteSet(parts)
      <3>1. IsFiniteSet(kept) /\ IsFiniteSet(new)
        BY <1>11, <2>3, <2>5, FS_Subset
      <3> QED BY <1>11, <2>3, <2>4, <2>5, <3>1, FS_Union
    <2>7. \A p \in parts : good[p.good] # None /\ p.at <= clock'
      BY <1>3, <1>10, <1>11, <1>12, <1>15, <2>3, <2>4, <2>5
    <2>8. \A p \in parts : p \in old.parts \/ p.at > clock
      BY <1>10, <2>3, <2>4, <2>5
    <2>9. \A p, q \in parts : p.good = q.good => p = q
      BY <1>8, <1>11, <1>15, <2>3, <2>4, <2>5
    <2>10. ASSUME NEW p \in parts, NEW q \in parts, p.at < q.at PROVE q.since < p.at
      <3>1. CASE p \in kept /\ q \in kept
        BY <1>11, <2>5, <2>10, <3>1
      <3>2. CASE p \in kept /\ q \in new
        BY <1>3, <2>3, <2>5, <3>2
      <3>3. CASE p \in new /\ q \in kept
        BY <1>10, <2>3, <2>5, <2>10, <3>3
      <3>4. CASE p \in new /\ q \in new
        BY <1>10, <2>3, <2>10, <3>4
      <3> QED BY <2>4, <3>1, <3>2, <3>3, <3>4
    <2> QED BY <1>1, <1>3, <1>8, <1>9, <1>13, <2>6, <2>7, <2>8, <2>9, <2>10, ComboWritten
         DEF TxnMoves
  <1> QED BY <1>14, <1>15

-----------------------------------------------------------------------------
(* Steps that change nothing of the catalog                                *)

LEMMA ReadingInv ==
  ASSUME CInv, NEW r \in Requests,
         \/ \E c \in Categories : CountProducts(r, c)
         \/ \E k \in Combos, d \in Discounts \cup {None}, l \in Lists \cup {None} :
              ReadCombo(r, k, d, l)
         \/ Abort(r)
  PROVE  CInv'
  <1>1. clock \in Nat /\ clock \in 0..MaxClock
    BY CatalogAssumption DEF CInv, Tables
  <1>2. ASSUME NEW c \in Categories, CountProducts(r, c) PROVE CInv'
    <2>1. PICK work : work = [op |-> "deleteCategory", id |-> c, since |-> clock]
      OBVIOUS
    <2>2. work \in Edits
      BY <1>1, <2>1 DEF Edits
    <2>3. WorkOK(work)
      BY <1>1, <1>2, <2>1, <2>2 DEF CountProducts, WorkOK, Exists
    <2> QED BY <1>2, <2>1, <2>3, OnlyWork DEF CountProducts
  <1>3. ASSUME NEW k \in Combos, NEW d \in Discounts \cup {None}, NEW l \in Lists \cup {None},
               ReadCombo(r, k, d, l)
        PROVE  CInv'
    <2>1. PICK work : work = [op |-> "updateCombo", id |-> k, discount |-> d, list |-> l,
                              seen |-> combo[k], since |-> clock]
      OBVIOUS
    <2>2. combo[k] # None /\ combo[k] \in ComboRows
      BY <1>3 DEF ReadCombo, Exists, CInv, Tables
    <2>3. work \in Edits
      BY <1>1, <2>1, <2>2 DEF Edits
    <2>4. l # None => \A g \in l : good[g] # None
      BY <1>3 DEF ReadCombo, Resolvable, Exists
    <2>5. WorkOK(work)
      BY <1>1, <2>1, <2>2, <2>3, <2>4 DEF WorkOK
    <2> QED BY <1>3, <2>1, <2>5, OnlyWork DEF ReadCombo
  <1>4. CASE Abort(r)
    BY <1>4, IdleOK, OnlyWork DEF Abort
  <1> QED BY <1>2, <1>3, <1>4

\* A booking reads the catalog and leaves it as it is.
LEMMA BookingInv ==
  ASSUME CInv, NEW r \in Requests,
         \/ \E c \in Carts : BeginBooking(r, c)
         \/ ResolveLine(r) \/ ResolveIncluded(r)
         \/ \E o \in Orders : InsertOrder(r, o)
  PROVE  CInv'
  <1>1. ASSUME NEW c \in Carts, BeginBooking(r, c) PROVE CInv'
    <2>1. PICK work : work = [op |-> "book", cart |-> c, lines |-> <<>>, included |-> {},
                              looked |-> 0, since |-> clock]
      OBVIOUS
    <2>2. WorkOK(work)
      BY <2>1 DEF WorkOK
    <2> QED BY <1>1, <2>1, <2>2, OnlyWork DEF BeginBooking
  <1>2. CASE ResolveLine(r)
    <2>1. PICK t : t = txn[r]
      OBVIOUS
    <2>2. t.op = "book" /\ DOMAIN t = {"op", "cart", "lines", "included", "looked", "since"}
      BY <1>2, <2>1 DEF ResolveLine, CInv, WorkOK
    <2>3. PICK lines : txn' = [txn EXCEPT ![r].lines = lines] /\ UNCHANGED catalogVars
      BY <1>2 DEF ResolveLine
    <2>4. PICK work : work = [t EXCEPT !.lines = lines]
      OBVIOUS
    <2>5. work.op = "book" /\ DOMAIN work = DOMAIN t
      BY <2>2, <2>4
    <2>6. WorkOK(work)
      BY <2>2, <2>5 DEF WorkOK
    <2>7. txn' = [txn EXCEPT ![r] = work]
      BY <2>1, <2>3, <2>4
    <2> QED BY <2>3, <2>6, <2>7, OnlyWork
  <1>3. CASE ResolveIncluded(r)
    <2>1. PICK t : t = txn[r]
      OBVIOUS
    <2>2. t.op = "book" /\ DOMAIN t = {"op", "cart", "lines", "included", "looked", "since"}
      BY <1>3, <2>1 DEF ResolveIncluded, CInv, WorkOK
    <2>3. PICK n, found : /\ txn' = [txn EXCEPT ![r] = [t EXCEPT !.looked = n, !.included = found]]
                          /\ UNCHANGED catalogVars
      BY <1>3, <2>1 DEF ResolveIncluded
    <2>4. PICK work : work = [t EXCEPT !.looked = n, !.included = found]
      OBVIOUS
    <2>5. work.op = "book" /\ DOMAIN work = DOMAIN t
      BY <2>2, <2>4
    <2>6. WorkOK(work)
      BY <2>2, <2>5 DEF WorkOK
    <2>7. txn' = [txn EXCEPT ![r] = work]
      BY <2>1, <2>3, <2>4
    <2> QED BY <2>3, <2>6, <2>7, OnlyWork
  <1>4. ASSUME NEW o \in Orders, InsertOrder(r, o) PROVE CInv'
    BY <1>4, IdleOK, OnlyWork DEF InsertOrder
  <1> QED BY <1>1, <1>2, <1>3, <1>4

-----------------------------------------------------------------------------
(* Every step                                                              *)

LEMMA NextInv == CInv /\ [Next]_vars => CInv'
  <1> SUFFICES ASSUME CInv, [Next]_vars PROVE CInv'
    OBVIOUS
  <1>1. CASE UNCHANGED vars
    <2>1. /\ category' = category /\ good' = good /\ includes' = includes /\ combo' = combo
          /\ clock' = clock /\ txn' = txn
      BY <1>1 DEF vars, catalogVars
    <2>2. Tables' /\ (\A g \in Goods : GoodOK(g))' /\ (\A k \in Combos : ComboOK(k))'
      BY <2>1 DEF CInv, Tables, GoodOK, ComboOK
    <2>3. Later
      <3>1. clock \in Nat
        BY CatalogAssumption DEF CInv, Tables
      <3> QED BY <2>1, <2>2, <3>1 DEF Later
    <2> QED BY <2>1, <2>2, <2>3, TxnSame DEF CInv
  <1>2. CASE Edit
    BY <1>2, GoodsInv, CategoriesInv, EditCombosInv DEF Edit
  <1>3. ASSUME NEW r \in Requests, EditStep(r) PROVE CInv'
    BY <1>3, RemoveCategoryInv, SaveComboInv, ReadingInv DEF EditStep
  <1>4. ASSUME NEW r \in Customers, NEW c \in Carts, BeginBooking(r, c) PROVE CInv'
    BY <1>4, BookingInv, CustomersAssumption
  <1>5. ASSUME NEW r \in Requests,
               ResolveLine(r) \/ ResolveIncluded(r) \/ \E o \in Orders : InsertOrder(r, o)
        PROVE  CInv'
    BY <1>5, BookingInv
  <1> QED BY <1>1, <1>2, <1>3, <1>4, <1>5 DEF Next

LEMMA Invariance == Spec => []CInv
  BY InitInv, NextInv, PTL DEF Spec

\* However updates of a combo overlap with one another and with bookings, and
\* wherever they fail, it never stands without parts (updateCombo).
THEOREM NeverBareAlways == Spec => []NeverBare
  <1>1. CInv => NeverBare
    BY DEF CInv, ComboOK, NeverBare, Exists
  <1> QED BY <1>1, Invariance, PTL

\* A combo holds parts of two lists only if the later was sent by a request
\* that had read the combo before the earlier was stored (updateCombo).
THEOREM ListsMixAlways == Spec => []ListsMixOnlyOnOverlap
  <1>1. CInv => ListsMixOnlyOnOverlap
    BY DEF CInv, ComboOK, ListsMixOnlyOnOverlap, Exists
  <1> QED BY <1>1, Invariance, PTL

\* deleteCategory takes the category from no product but those that were
\* saved after it had counted the products.
THEOREM DeletedUnusedAlways == Spec => DeletedUnused
  <1> DEFINE Unused(c) == \E r \in Requests :
         /\ txn[r].op = "deleteCategory" /\ txn[r].id = c /\ txn'[r] = Idle
         /\ \A p \in Products :
              Exists(p, good) /\ good[p].category = c => good[p].updated > txn[r].since
  <1>1. ASSUME CInv, [Next]_vars, NEW c \in Categories,
               category[c] = "kept", category'[c] = "deleted"
        PROVE  Unused(c)
    <2>1. ASSUME NEW r \in Requests, RemoveCategory(r) PROVE Unused(c)
      <3>1. /\ txn[r].op = "deleteCategory" /\ txn' = [txn EXCEPT ![r] = Idle]
            /\ category' = [category EXCEPT ![txn[r].id] = "deleted"]
        BY <2>1 DEF RemoveCategory
      <3>2. txn[r].id = c
        BY <1>1, <3>1 DEF CInv, Tables
      <3>3. txn'[r] = Idle
        BY <1>1, <3>1 DEF CInv
      <3>4. \A p \in Products : good[p] # None /\ good[p].category = c => good[p].updated > txn[r].since
        BY <1>1, <3>1, <3>2 DEF CInv, WorkOK
      <3> QED BY <3>1, <3>2, <3>3, <3>4 DEF Exists
    <2>2. CASE UNCHANGED category
      BY <1>1, <2>2
    <2>3. CASE \E d \in Categories : CreateCategory(d)
      BY <1>1, <2>3 DEF CreateCategory, CInv, Tables
    <2>4. UNCHANGED category \/ (\E d \in Categories : CreateCategory(d))
            \/ \E r \in Requests : RemoveCategory(r)
      <3>1. CASE Edit
        BY <3>1 DEF Edit, EditCategories, EditProducts, CreateProduct, UpdateProduct, SetProductStatus,
          EditServices, CreateService, UpdateService, SetServiceStatus, InsertGood, EditGood, SetStatus,
          EditDependencies, AddServiceDependency, RemoveServiceDependency,
          EditCombos, CreateCombo, SetComboStatus
      <3>2. ASSUME NEW r \in Requests, EditStep(r)
            PROVE  UNCHANGED category \/ RemoveCategory(r)
        BY <3>2 DEF EditStep, CountProducts, ReadCombo, SaveCombo, Abort, catalogVars
      <3>3. CASE \/ \E r \in Customers, d \in Carts : BeginBooking(r, d)
                 \/ \E r \in Requests : ResolveLine(r) \/ ResolveIncluded(r)
                 \/ \E r \in Requests, o \in Orders : InsertOrder(r, o)
        BY <3>3 DEF BeginBooking, ResolveLine, ResolveIncluded, InsertOrder, catalogVars
      <3>4. CASE UNCHANGED vars
        BY <3>4 DEF vars, catalogVars
      <3> QED BY <1>1, <3>1, <3>2, <3>3, <3>4 DEF Next
    <2> QED BY <2>1, <2>2, <2>3, <2>4
  <1>2. CInv /\ [Next]_vars => [\A c \in Categories : category[c] = "kept" /\ category'[c] = "deleted" =>
           \E r \in Requests :
             /\ txn[r].op = "deleteCategory" /\ txn[r].id = c /\ txn'[r] = Idle
             /\ \A p \in Products :
                  Exists(p, good) /\ good[p].category = c =>
                    good[p].updated > txn[r].since]_<<category, txn>>
    BY <1>1
  <1> QED BY <1>2, Invariance, PTL DEF Spec, DeletedUnused

-----------------------------------------------------------------------------
(* Slots one after the other                                               *)

Slots == [id : Goods, price : Nat, from : Nat, to : Nat]

Lines == [kind : {"product", "service", "combo"}, id : Goods \cup Combos, quantity : Nat,
          price : Nat, duration : Nat, from : Nat, to : Nat, parts : Seq(Slots)]

Timeds == Slots \cup Lines

\* Some slots of which the first begins at a given minute, each of the others
\* when the one before it ends.
Chain(v, from) ==
  \A i \in 1..Len(v) :
    /\ v[i].from = IF i = 1 THEN from ELSE v[i - 1].to
    /\ v[i].from <= v[i].to

End(v, from) == IF Len(v) = 0 THEN from ELSE v[Len(v)].to

LEMMA TimedTypes ==
  ASSUME NEW v \in Seq(Timeds)
  PROVE  /\ Len(v) \in Nat /\ DOMAIN v = 1..Len(v)
         /\ \A i \in 1..Len(v) : v[i] \in Timeds /\ v[i].from \in Nat /\ v[i].to \in Nat
  <1>1. Len(v) \in Nat /\ DOMAIN v = 1..Len(v) /\ \A i \in 1..Len(v) : v[i] \in Timeds
    OBVIOUS
  <1>2. \A t \in Timeds : t.from \in Nat /\ t.to \in Nat
    BY DEF Timeds, Slots, Lines
  <1> QED BY <1>1, <1>2

LEMMA EndType ==
  ASSUME NEW v \in Seq(Timeds), NEW from \in Nat
  PROVE  End(v, from) \in Nat
  BY TimedTypes DEF End

\* The minutes of a chain up to its k-th slot are covered by these slots.
LEMMA ChainPrefix ==
  ASSUME NEW v \in Seq(Timeds), NEW from \in Nat, Chain(v, from)
  PROVE  \A k \in 1..Len(v) :
           /\ from <= v[k].from
           /\ \A i \in 1..k : v[i].to <= v[k].to /\ (i < k => v[i].to <= v[k].from)
           /\ \A m \in from..(v[k].to - 1) : \E i \in 1..k : m \in v[i].from..(v[i].to - 1)
  <1> DEFINE OK(k) == /\ from <= v[k].from
                      /\ \A i \in 1..k : v[i].to <= v[k].to /\ (i < k => v[i].to <= v[k].from)
                      /\ \A m \in from..(v[k].to - 1) : \E i \in 1..k : m \in v[i].from..(v[i].to - 1)
             S == {n \in Nat : \A k \in 1..Len(v) : k <= n => OK(k)}
  <1>1. Len(v) \in Nat /\ \A i \in 1..Len(v) : v[i].from \in Nat /\ v[i].to \in Nat
    BY TimedTypes
  <1>2. 0 \in S
    OBVIOUS
  <1>3. ASSUME NEW n \in S PROVE n + 1 \in S
    <2> SUFFICES ASSUME NEW k \in 1..Len(v), k <= n + 1 PROVE OK(k)
      OBVIOUS
    <2>1. CASE k = 1
      <3>1. v[k].from = from /\ v[k].from <= v[k].to
        BY <2>1 DEF Chain
      <3>2. \A i \in 1..k : i = k
        BY <2>1
      <3> QED BY <1>1, <2>1, <3>1, <3>2
    <2>2. CASE k # 1
      <3>1. PICK j : j = k - 1
        OBVIOUS
      <3>2. j \in 1..Len(v) /\ j <= n /\ \A i \in 1..k : i = k \/ i \in 1..j
        BY <1>1, <2>2, <3>1
      <3>3. OK(j)
        BY <3>2
      <3>4. v[k].from = v[j].to /\ v[k].from <= v[k].to /\ v[j].from <= v[j].to
        BY <2>2, <3>1, <3>2 DEF Chain
      <3>5. /\ v[k].from \in Nat /\ v[k].to \in Nat /\ v[j].from \in Nat /\ v[j].to \in Nat
            /\ \A i \in 1..j : v[i].to \in Nat
        BY <1>1, <3>2
      <3>6. from <= v[k].from
        BY <3>3, <3>4, <3>5
      <3>7. \A i \in 1..j : v[i].to <= v[k].from /\ v[i].to <= v[k].to
        BY <3>3, <3>4, <3>5
      <3>8. ASSUME NEW m \in from..(v[k].to - 1)
            PROVE  \E i \in 1..k : m \in v[i].from..(v[i].to - 1)
        <4>1. m < v[j].to \/ m \in v[k].from..(v[k].to - 1)
          BY <3>4, <3>5
        <4>2. CASE m < v[j].to
          <5>1. m \in from..(v[j].to - 1)
            BY <3>5, <4>2
          <5>2. PICK i \in 1..j : m \in v[i].from..(v[i].to - 1)
            BY <3>3, <5>1
          <5> QED BY <3>1, <5>2
        <4> QED BY <4>1, <4>2
      <3>9. ASSUME NEW i \in 1..k PROVE v[i].to <= v[k].to /\ (i < k => v[i].to <= v[k].from)
        <4>1. CASE i = k
          BY <3>5, <4>1
        <4>2. CASE i \in 1..j
          BY <3>7, <4>2
        <4> QED BY <3>2, <4>1, <4>2
      <3> HIDE DEF S
      <3> QED BY <3>6, <3>8, <3>9
    <2> QED BY <2>1, <2>2
  <1>4. S = Nat
    <2> HIDE DEF S
    <2>1. S \in SUBSET Nat
      BY DEF S
    <2> QED BY <1>2, <1>3, <2>1, SetInduction
  <1>5. ASSUME NEW k \in 1..Len(v) PROVE OK(k)
    <2>1. k \in S /\ k <= k
      BY <1>1, <1>4
    <2> HIDE DEF OK
    <2> QED BY <2>1
  <1> HIDE DEF OK, S
  <1> QED BY <1>5 DEF OK

\* A chain covers the minutes from its beginning to its end, each once.
LEMMA ChainCovers ==
  ASSUME NEW v \in Seq(Timeds), NEW from \in Nat, Chain(v, from)
  PROVE  /\ from <= End(v, from)
         /\ \A i \in 1..Len(v) : from <= v[i].from /\ v[i].to <= End(v, from)
         /\ \A m \in from..(End(v, from) - 1) :
              \E i \in 1..Len(v) : {j \in 1..Len(v) : m \in v[j].from..(v[j].to - 1)} = {i}
  <1>1. /\ Len(v) \in Nat /\ \A i \in 1..Len(v) : v[i].from \in Nat /\ v[i].to \in Nat
    BY TimedTypes
  <1>2. CASE Len(v) = 0
    <2>1. End(v, from) = from /\ 1..Len(v) = {}
      BY <1>2 DEF End
    <2> QED BY <2>1
  <1>3. CASE Len(v) # 0
    <2>1. PICK n : n = Len(v)
      OBVIOUS
    <2>2. n \in 1..Len(v) /\ End(v, from) = v[n].to
      BY <1>1, <1>3, <2>1 DEF End
    <2>3. \A k \in 1..n :
           /\ from <= v[k].from
           /\ \A i \in 1..k : v[i].to <= v[k].to /\ (i < k => v[i].to <= v[k].from)
      BY <2>1, ChainPrefix
    <2>4. v[n].from <= v[n].to
      BY <2>2 DEF Chain
    <2>5. from <= v[n].to /\ \A i \in 1..n : from <= v[i].from /\ v[i].to <= v[n].to
      BY <1>1, <2>1, <2>2, <2>3, <2>4
    <2>6. ASSUME NEW m \in from..(v[n].to - 1)
          PROVE  \E i \in 1..n : {j \in 1..n : m \in v[j].from..(v[j].to - 1)} = {i}
      <3>1. PICK i \in 1..n : m \in v[i].from..(v[i].to - 1)
        BY <2>1, <2>2, ChainPrefix
      <3>2. ASSUME NEW j \in 1..n, m \in v[j].from..(v[j].to - 1) PROVE j = i
        <4>1. /\ v[i].from \in Nat /\ v[i].to \in Nat /\ v[j].from \in Nat /\ v[j].to \in Nat
              /\ v[i].from <= m /\ m < v[i].to /\ v[j].from <= m /\ m < v[j].to
          BY <1>1, <2>1, <3>1, <3>2
        <4>2. CASE i < j
          <5>1. v[i].to <= v[j].from
            BY <1>1, <2>1, <2>3, <4>2
          <5> QED BY <4>1, <5>1
        <4>3. CASE j < i
          <5>1. v[j].to <= v[i].from
            BY <1>1, <2>1, <2>3, <4>3
          <5> QED BY <4>1, <5>1
        <4> QED BY <1>1, <2>1, <4>2, <4>3
      <3> QED BY <3>1, <3>2
    <2> QED BY <2>1, <2>2, <2>5, <2>6
  <1> QED BY <1>1, <1>2, <1>3

LEMMA ChainConcat ==
  ASSUME NEW v \in Seq(Timeds), NEW w \in Seq(Timeds), NEW from \in Nat,
         Chain(v, from), Chain(w, End(v, from))
  PROVE  /\ v \o w \in Seq(Timeds)
         /\ Chain(v \o w, from) /\ End(v \o w, from) = End(w, End(v, from))
  <1>1. PICK u : u = v \o w
    OBVIOUS
  <1>2. /\ Len(v) \in Nat /\ Len(w) \in Nat
        /\ u \in Seq(Timeds) /\ Len(u) = Len(v) + Len(w)
        /\ \A i \in 1..Len(u) : u[i] = IF i <= Len(v) THEN v[i] ELSE w[i - Len(v)]
    BY <1>1, TimedTypes, ConcatProperties
  <1>3. ASSUME NEW i \in 1..Len(u)
        PROVE  /\ u[i].from = IF i = 1 THEN from ELSE u[i - 1].to
               /\ u[i].from <= u[i].to
    <2>1. CASE i <= Len(v)
      <3>1. i \in 1..Len(v) /\ u[i] = v[i] /\ (i # 1 => u[i - 1] = v[i - 1])
        BY <1>2, <2>1
      <3> QED BY <3>1 DEF Chain
    <2>2. CASE ~(i <= Len(v))
      <3>1. PICK k : k = i - Len(v)
        OBVIOUS
      <3>2. k \in 1..Len(w) /\ u[i] = w[k]
        BY <1>2, <2>2, <3>1
      <3>3. w[k].from = (IF k = 1 THEN End(v, from) ELSE w[k - 1].to) /\ w[k].from <= w[k].to
        BY <3>2 DEF Chain
      <3>4. CASE k # 1
        <4>1. i - 1 \in 1..Len(u) /\ ~(i - 1 <= Len(v)) /\ (i - 1) - Len(v) = k - 1 /\ i # 1
          BY <1>2, <3>1, <3>2, <3>4
        <4>2. u[i - 1] = w[k - 1]
          BY <1>2, <4>1
        <4> QED BY <3>2, <3>3, <3>4, <4>1, <4>2
      <3>5. CASE k = 1 /\ Len(v) = 0
        BY <1>2, <3>1, <3>2, <3>3, <3>5 DEF End
      <3>6. CASE k = 1 /\ Len(v) # 0
        <4>1. i - 1 = Len(v) /\ i # 1 /\ i - 1 \in 1..Len(u)
          BY <1>2, <3>1, <3>6
        <4>2. u[i - 1] = v[Len(v)]
          BY <1>2, <4>1
        <4> QED BY <3>2, <3>3, <3>6, <4>1, <4>2 DEF End
      <3> QED BY <1>2, <3>4, <3>5, <3>6
    <2> QED BY <2>1, <2>2
  <1>4. End(u, from) = End(w, End(v, from))
    <2>1. CASE Len(w) = 0
      <3>1. Len(u) = Len(v) /\ (Len(v) # 0 => u[Len(v)] = v[Len(v)])
        BY <1>2, <2>1
      <3> QED BY <2>1, <3>1 DEF End
    <2>2. CASE Len(w) # 0
      <3>1. Len(u) # 0 /\ Len(u) \in 1..Len(u) /\ ~(Len(u) <= Len(v)) /\ Len(u) - Len(v) = Len(w)
        BY <1>2, <2>2
      <3>2. u[Len(u)] = w[Len(w)]
        BY <1>2, <3>1
      <3> QED BY <2>2, <3>1, <3>2 DEF End
    <2> QED BY <2>1, <2>2
  <1> QED BY <1>1, <1>2, <1>3, <1>4 DEF Chain

LEMMA EmptyChain ==
  ASSUME NEW from \in Nat
  PROVE  <<>> \in Seq(Timeds) /\ Chain(<<>>, from) /\ End(<<>>, from) = from
  <1>1. <<>> \in Seq(Timeds) /\ Len(<<>>) = 0 /\ 1..0 = {}
    OBVIOUS
  <1> QED BY <1>1 DEF Chain, End

LEMMA OneSlot ==
  ASSUME NEW x \in Timeds, NEW from \in Nat
  PROVE  /\ <<x>> \in Seq(Timeds) /\ Len(<<x>>) = 1 /\ <<x>>[1] = x
         /\ x.from = from /\ x.from <= x.to => Chain(<<x>>, from)
         /\ End(<<x>>, from) = x.to
  <1>1. <<x>> \in Seq(Timeds) /\ Len(<<x>>) = 1 /\ <<x>>[1] = x
    OBVIOUS
  <1>2. \A i \in 1..1 : i = 1
    OBVIOUS
  <1>3. x.from = from /\ x.from <= x.to => Chain(<<x>>, from)
    BY <1>1, <1>2 DEF Chain
  <1>4. End(<<x>>, from) = x.to
    BY <1>1 DEF End
  <1> QED BY <1>1, <1>3, <1>4

\* What takes no time leaves no gap when it is left out.
LEMMA PerformedChain ==
  ASSUME NEW s \in Seq(Timeds), NEW from \in Nat, Chain(s, from),
         \A i \in 1..Len(s) : s[i].id \notin Services => s[i].from = s[i].to
  PROVE  /\ Performed(s) \in Seq(Timeds)
         /\ Chain(Performed(s), from) /\ End(Performed(s), from) = End(s, from)
  <1> DEFINE some(i) == IF IsService(s[i]) THEN <<s[i]>> ELSE <<>>
  <1>1. PICK n, m : n = Len(s) /\ m = [i \in DOMAIN s |-> some(i)]
    OBVIOUS
  <1>2. n \in Nat /\ DOMAIN s = 1..n
    BY <1>1, TimedTypes
  <1>3. \A i \in 1..n : s[i] \in Timeds /\ s[i].from \in Nat /\ s[i].to \in Nat
    BY <1>1, TimedTypes
  <1>4. m \in [1..n -> Seq(Timeds)] /\ \A i \in 1..n : m[i] = some(i)
    <2>1. \A i \in 1..n : some(i) \in Seq(Timeds)
      BY <1>3
    <2> HIDE DEF some
    <2> QED BY <1>1, <1>2, <2>1
  <1> DEFINE pre(k) == FlattenSeq([i \in 1..k |-> m[i]])
             end(k) == IF k = 0 THEN from ELSE s[k].to
             OK(k) == pre(k) \in Seq(Timeds) /\ Chain(pre(k), from) /\ End(pre(k), from) = end(k)
             S == {k \in Nat : k <= n => OK(k)}
  <1>5. pre(0) = <<>> /\ \A k \in 1..n : pre(k) = pre(k - 1) \o m[k]
    BY <1>2, <1>4, FlattenPrefix
  <1>6. pre(n) = Performed(s)
    <2>1. m = [i \in 1..n |-> m[i]]
      BY <1>4
    <2> QED BY <1>1, <2>1 DEF Performed
  <1> HIDE DEF pre
  <1>7. 0 \in S
    BY <1>5, EmptyChain
  <1>8. ASSUME NEW j \in S PROVE j + 1 \in S
    <2> SUFFICES ASSUME j + 1 <= n PROVE OK(j + 1)
      OBVIOUS
    <2>1. PICK k : k = j + 1
      OBVIOUS
    <2>2. k \in 1..n /\ k - 1 = j /\ OK(j)
      BY <1>2, <2>1
    <2>3. s[k].from = end(j) /\ s[k].from <= s[k].to /\ end(k) = s[k].to
      BY <1>1, <2>2 DEF Chain
    <2>4. pre(k) = pre(j) \o m[k]
      BY <1>5, <2>2
    <2>5. end(j) \in Nat
      <3>1. j = 0 \/ j \in 1..n
        BY <1>2, <2>1, <2>2
      <3> QED BY <1>3, <3>1
    <2>6. CASE IsService(s[k])
      <3>1. m[k] = <<s[k]>>
        BY <1>4, <2>2, <2>6
      <3>2. m[k] \in Seq(Timeds) /\ Chain(m[k], end(j)) /\ End(m[k], end(j)) = end(k)
        BY <1>3, <2>2, <2>3, <2>5, <3>1, OneSlot
      <3>3. pre(k) \in Seq(Timeds) /\ Chain(pre(k), from) /\ End(pre(k), from) = end(k)
        BY <2>2, <2>4, <3>2, ChainConcat
      <3> QED BY <2>1, <3>3
    <2>7. CASE ~IsService(s[k])
      <3>1. m[k] = <<>>
        BY <1>4, <2>2, <2>7
      <3>2. pre(k) = pre(j)
        BY <2>2, <2>4, <3>1, ConcatEmptySeq
      <3>3. end(k) = end(j)
        BY <1>1, <2>2, <2>3, <2>7 DEF IsService
      <3> QED BY <2>1, <2>2, <3>2, <3>3
    <2> QED BY <2>6, <2>7
  <1>9. S = Nat
    <2> HIDE DEF S
    <2>1. S \in SUBSET Nat
      BY DEF S
    <2> QED BY <1>7, <1>8, <2>1, SetInduction
  <1>10. OK(n)
    <2>1. n \in S /\ n <= n
      BY <1>2, <1>9
    <2> HIDE DEF OK
    <2> QED BY <2>1
  <1>11. end(n) = End(s, from)
    BY <1>1 DEF End
  <1> QED BY <1>6, <1>10, <1>11

\* cursorMinutes is the end of what is booked so far.
LEMMA ChainSum ==
  ASSUME NEW v \in Seq(Timeds), Chain(v, 0)
  PROVE  SumFunction([i \in DOMAIN v |-> v[i].to - v[i].from]) = End(v, 0)
  <1>1. PICK n, f : n = Len(v) /\ f = [i \in DOMAIN v |-> v[i].to - v[i].from]
    OBVIOUS
  <1>2. /\ n \in Nat /\ DOMAIN v = 1..n /\ DOMAIN f = 1..n
        /\ \A i \in 1..n : v[i].from \in Nat /\ v[i].to \in Nat
    BY <1>1, TimedTypes
  <1>3. \A i \in 1..n : f[i] = v[i].to - v[i].from /\ f[i] \in Nat
    BY <1>1, <1>2 DEF Chain
  <1> DEFINE sum(k) == SumFunctionOnSet(f, 1..k)
             end(k) == IF k = 0 THEN 0 ELSE v[k].to
             S == {k \in Nat : k <= n => sum(k) = end(k)}
  <1>4. sum(0) = 0 /\ \A k \in 1..n : sum(k) = sum(k - 1) + f[k]
    BY <1>2, <1>3, SumPrefix
  <1> HIDE DEF sum
  <1>5. 0 \in S
    BY <1>4
  <1>6. ASSUME NEW j \in S PROVE j + 1 \in S
    <2> SUFFICES ASSUME j + 1 <= n PROVE sum(j + 1) = end(j + 1)
      OBVIOUS
    <2>1. PICK k : k = j + 1
      OBVIOUS
    <2>2. k \in 1..n /\ k - 1 = j /\ sum(j) = end(j)
      BY <1>2, <2>1
    <2>3. v[k].from = end(j) /\ end(k) = v[k].to
      BY <1>1, <2>2 DEF Chain
    <2>4. sum(k) = end(j) + (v[k].to - v[k].from)
      BY <1>3, <1>4, <2>2
    <2>5. sum(k) = end(k)
      BY <1>2, <2>2, <2>3, <2>4
    <2> QED BY <2>1, <2>5
  <1>7. S = Nat
    <2> HIDE DEF S
    <2>1. S \in SUBSET Nat
      BY DEF S
    <2> QED BY <1>5, <1>6, <2>1, SetInduction
  <1>8. sum(n) = end(n)
    <2>1. n \in S /\ n <= n
      BY <1>2, <1>7
    <2> QED BY <2>1
  <1>9. SumFunction(f) = sum(n)
    BY <1>2 DEF SumFunction, sum
  <1> QED BY <1>1, <1>8, <1>9 DEF End

-----------------------------------------------------------------------------
(* What a line is                                                          *)

LineOK(line) ==
  /\ line \in Lines
  /\ line.kind # "product" => line.quantity = 1 /\ line.duration = line.to - line.from
  /\ line.kind = "product" => line.to = line.from
  /\ ServicesOf(line) \in Seq(Timeds)
  /\ Chain(ServicesOf(line), line.from) /\ End(ServicesOf(line), line.from) = line.to
  /\ line.kind = "combo" => \E d \in Discounts : line.price \in
       Discounted(SumFunction([j \in DOMAIN line.parts |-> line.parts[j].price]), d)

LEMMA GoodTypes ==
  ASSUME CInv, NEW g \in Goods, good[g] # None
  PROVE  /\ good[g].price \in Nat /\ good[g].duration \in Nat
         /\ g \notin Services => good[g].duration = 0
  <1>1. good[g] \in Rows
    BY DEF CInv, Tables
  <1>2. good[g].price \in Nat /\ good[g].duration \in Nat
    <2>1. PICK row \in Rows : row = good[g]
      BY <1>1
    <2>2. row.price \in Prices /\ row.duration \in Durations \cup {0}
      BY RowTypes
    <2>3. \A x \in Prices : x \in Nat
      BY CatalogAssumption
    <2>4. \A x \in Durations : x \in Nat
      BY CatalogAssumption
    <2>5. row.price \in Nat
      BY <2>2, <2>3
    <2>6. row.duration \in Nat
      BY <2>2, <2>4
    <2> QED BY <2>1, <2>5, <2>6
  <1>3. g \notin Services => good[g].duration = 0
    <2>1. GoodOK(g)
      BY DEF CInv
    <2> QED BY <2>1 DEF GoodOK, Goods
  <1> QED BY <1>2, <1>3

Items == Asked("product", Products) \cup Asked("service", Services) \cup Asked("combo", Combos)

LEMMA ResolveGoodOK ==
  ASSUME CInv, NEW cursor \in Nat, NEW asked \in Items, asked.kind # "combo",
         good[asked.id] # None, asked.kind = "service" => asked.quantity = 1,
         NEW line \in ResolveGood(asked, cursor)
  PROVE  LineOK(line) /\ line.from = cursor /\ line.id = asked.id /\ line.kind = asked.kind
  <1>1. PICK g, p, d : g = asked.id /\ p = good[g].price /\ d = good[g].duration
    OBVIOUS
  <1>2. /\ g \in Goods /\ asked.kind \in {"product", "service"} /\ asked.quantity \in Nat
        /\ asked.kind = "product" => g \in Products
    BY <1>1 DEF Items, Asked, Goods
  <1>3. p \in Nat /\ d \in Nat /\ (g \notin Services => d = 0) /\ (asked.kind = "product" => d = 0)
    <2>1. asked.kind = "product" => g \notin Services
      BY <1>2, CatalogAssumption
    <2> QED BY <1>1, <1>2, <2>1, GoodTypes
  <1>4. line = [kind |-> asked.kind, id |-> g, quantity |-> asked.quantity, price |-> p,
                duration |-> d, from |-> cursor, to |-> cursor + d, parts |-> <<>>]
    BY <1>1 DEF ResolveGood, Timed
  <1>5. /\ line.kind = asked.kind /\ line.id = g /\ line.quantity = asked.quantity
        /\ line.duration = d /\ line.from = cursor /\ line.to = cursor + d
    BY <1>4
  <1>6. line \in Lines /\ line \in Timeds
    <2>1. <<>> \in Seq(Slots) /\ cursor + d \in Nat
      BY <1>3
    <2> QED BY <1>2, <1>3, <1>4, <2>1 DEF Lines, Timeds
  <1>7. PICK s : s = <<line>>
    OBVIOUS
  <1>8. /\ s \in Seq(Timeds) /\ Len(s) = 1 /\ s[1] = line
        /\ Chain(s, cursor) /\ End(s, cursor) = line.to
    BY <1>3, <1>5, <1>6, <1>7, OneSlot
  <1>9. \A i \in 1..Len(s) : s[i].id \notin Services => s[i].from = s[i].to
    <2>1. \A i \in 1..Len(s) : s[i] = line
      BY <1>8
    <2> QED BY <1>3, <1>5, <2>1
  <1>10. ServicesOf(line) = Performed(s)
    BY <1>2, <1>5, <1>7 DEF ServicesOf
  <1>11. /\ ServicesOf(line) \in Seq(Timeds) /\ Chain(ServicesOf(line), cursor)
         /\ End(ServicesOf(line), cursor) = line.to
    BY <1>8, <1>9, <1>10, PerformedChain
  <1>12. line.duration = line.to - line.from /\ (line.kind = "product" => line.to = line.from)
    BY <1>3, <1>5
  <1> QED BY <1>1, <1>2, <1>5, <1>6, <1>11, <1>12 DEF LineOK

\* A set of goods in some order.
LEMMA OrderedGoods ==
  ASSUME NEW goods, IsFiniteSet(goods), NEW g \in SetToSeqs(goods), NEW n, n = Cardinality(goods)
  PROVE  /\ n \in Nat /\ g \in [1..n -> goods]
         /\ \A i, j \in 1..n : g[i] = g[j] => i = j
         /\ \A x \in goods : \E i \in 1..n : g[i] = x
  <1>1. n \in Nat /\ g \in [1..n -> goods] /\ \A i, j \in 1..n : g[i] = g[j] => i = j
    BY FS_CardinalityType DEF SetToSeqs
  <1>2. PICK D : D = 1..n
    OBVIOUS
  <1>3. IsFiniteSet(D) /\ Cardinality(D) = n
    BY <1>1, <1>2, FS_Interval
  <1>4. g \in Injection(D, goods)
    BY <1>1, <1>2 DEF Injection, IsInjective
  <1>5. g \in Surjection(D, goods)
    BY <1>3, <1>4, FS_Injection
  <1>6. \A x \in goods : \E i \in D : g[i] = x
    BY <1>5 DEF Surjection
  <1> QED BY <1>1, <1>2, <1>6

\* The snapshot of a combo's parts, one after the other.
SnapshotOK(goods, g, from, s) ==
  /\ s \in Seq(Slots) /\ Len(s) = Cardinality(goods)
  /\ \A i \in 1..Len(s) :
       /\ s[i].id = g[i] /\ s[i].price = good[g[i]].price
       /\ s[i].id \notin Services => s[i].from = s[i].to
  /\ Chain(s, from)
  /\ End(s, from) = from + SumFunction([x \in goods |-> good[x].duration])

LEMMA SnapshotChain ==
  ASSUME CInv, NEW goods \in SUBSET Goods, IsFiniteSet(goods), \A x \in goods : good[x] # None,
         NEW g \in SetToSeqs(goods), NEW from \in Nat, NEW s, s = Snapshot(g, from)
  PROVE  SnapshotOK(goods, g, from, s)
  <1>1. PICK n : n = Cardinality(goods)
    OBVIOUS
  <1>2. /\ n \in Nat /\ g \in [1..n -> goods] /\ DOMAIN g = 1..n
        /\ \A i, j \in 1..n : g[i] = g[j] => i = j
        /\ \A x \in goods : \E i \in 1..n : g[i] = x
    BY <1>1, OrderedGoods
  <1>3. PICK D : D = [j \in 1..n |-> good[g[j]].duration]
    OBVIOUS
  <1>4. \A i \in 1..n : /\ g[i] \in Goods /\ D[i] = good[g[i]].duration /\ D[i] \in Nat
                        /\ good[g[i]].price \in Nat /\ (g[i] \notin Services => D[i] = 0)
    <2> SUFFICES ASSUME NEW i \in 1..n
                 PROVE  /\ g[i] \in Goods /\ D[i] = good[g[i]].duration /\ D[i] \in Nat
                        /\ good[g[i]].price \in Nat /\ (g[i] \notin Services => D[i] = 0)
      OBVIOUS
    <2>1. PICK x : x = g[i]
      OBVIOUS
    <2>2. x \in Goods /\ good[x] # None
      BY <1>2, <2>1
    <2>3. /\ good[x].price \in Nat /\ good[x].duration \in Nat
          /\ x \notin Services => good[x].duration = 0
      BY <2>2, GoodTypes
    <2> QED BY <1>3, <2>1, <2>2, <2>3
  <1> DEFINE sum(k) == SumFunctionOnSet(D, 1..k)
  <1>5. /\ sum(0) = 0 /\ \A k \in 1..n : sum(k) = sum(k - 1) + D[k]
        /\ \A k \in 0..n : sum(k) \in Nat
    <2>1. n \in Nat /\ \A i \in 1..n : D[i] \in Nat
      BY <1>2, <1>4
    <2> QED BY <2>1, SumPrefix
  <1>6. \A i \in 1..n : SumFunction([j \in 1..(i - 1) |-> good[g[j]].duration]) = sum(i - 1)
    <2> SUFFICES ASSUME NEW i \in 1..n
                 PROVE  SumFunction([j \in 1..(i - 1) |-> good[g[j]].duration]) = sum(i - 1)
      OBVIOUS
    <2>1. PICK f, I : f = [j \in 1..(i - 1) |-> good[g[j]].duration] /\ I = 1..(i - 1)
      OBVIOUS
    <2>2. IsFiniteSet(I) /\ DOMAIN f = I
      BY <1>2, <2>1, FS_Interval
    <2>3. \A j \in I : j \in 1..n /\ f[j] = D[j]
      BY <1>2, <1>4, <2>1
    <2>4. \A j \in I : D[j] \in Nat /\ f[j] = D[j]
      BY <1>4, <2>3
    <2>5. SumFunctionOnSet(D, I) = SumFunctionOnSet(f, I)
      BY <2>2, <2>4, SumSame
    <2> QED BY <2>1, <2>2, <2>5 DEF SumFunction
  <1>7. SumFunction([x \in goods |-> good[x].duration]) = sum(n)
    <2>1. PICK f, I : f = [x \in goods |-> good[x].duration] /\ I = 1..n
      OBVIOUS
    <2>2. IsFiniteSet(I) /\ DOMAIN f = goods
      BY <1>2, <2>1, FS_Interval
    <2>3. \A i \in I : D[i] \in Nat /\ f[g[i]] = D[i]
      BY <1>2, <1>4, <2>1
    <2>4. /\ g \in [I -> goods]
          /\ \A x, y \in I : g[x] = g[y] => x = y
          /\ \A z \in goods : \E x \in I : g[x] = z
      BY <1>2, <2>1
    <2>5. SumFunctionOnSet(D, I) = SumFunctionOnSet(f, goods)
      BY <2>2, <2>3, <2>4, SumBijection
    <2> QED BY <2>1, <2>2, <2>5 DEF SumFunction
  <1> HIDE DEF sum
  <1>8. /\ DOMAIN s = 1..n
        /\ \A i \in 1..n : s[i] = [id |-> g[i], price |-> good[g[i]].price,
                                   from |-> from + sum(i - 1), to |-> from + sum(i - 1) + D[i]]
    BY <1>2, <1>4, <1>6 DEF Snapshot, Timed
  <1>9. \A i \in 1..n : /\ s[i].id = g[i] /\ s[i].price = good[g[i]].price
                        /\ s[i].from = from + sum(i - 1) /\ s[i].to = from + sum(i)
                        /\ sum(i - 1) \in Nat /\ sum(i) \in Nat /\ s[i] \in Slots
    <2> SUFFICES ASSUME NEW i \in 1..n
                 PROVE  /\ s[i].id = g[i] /\ s[i].price = good[g[i]].price
                        /\ s[i].from = from + sum(i - 1) /\ s[i].to = from + sum(i)
                        /\ sum(i - 1) \in Nat /\ sum(i) \in Nat /\ s[i] \in Slots
      OBVIOUS
    <2>1. PICK a, b, d, x, p : /\ a = sum(i - 1) /\ b = sum(i) /\ d = D[i]
                               /\ x = g[i] /\ p = good[g[i]].price
      OBVIOUS
    <2>2. i - 1 \in 0..n /\ i \in 0..n
      BY <1>2
    <2>3. a \in Nat /\ b \in Nat /\ d \in Nat /\ p \in Nat /\ x \in Goods /\ b = a + d
      BY <1>4, <1>5, <2>1, <2>2
    <2>4. s[i] = [id |-> x, price |-> p, from |-> from + a, to |-> from + a + d]
      BY <1>8, <2>1
    <2>5. from + a \in Nat /\ from + a + d \in Nat /\ from + a + d = from + b
      BY <2>3
    <2>6. s[i] \in Slots
      BY <2>3, <2>4, <2>5 DEF Slots
    <2> QED BY <2>1, <2>3, <2>4, <2>5, <2>6
  <1>10. s \in Seq(Slots) /\ Len(s) = n
    <2>1. s \in [1..n -> Slots]
      <3>1. s = [i \in 1..n |-> s[i]]
        BY <1>8 DEF Snapshot
      <3> QED BY <1>9, <3>1
    <2> QED BY <1>2, <2>1
  <1>11. \A i \in 1..n : s[i].id \notin Services => s[i].from = s[i].to
    <2> SUFFICES ASSUME NEW i \in 1..n, g[i] \notin Services PROVE s[i].from = s[i].to
      BY <1>9
    <2>1. sum(i) = sum(i - 1) + 0
      BY <1>4, <1>5
    <2> QED BY <1>9, <2>1
  <1>12. Chain(s, from)
    <2> SUFFICES ASSUME NEW i \in 1..n
                 PROVE  /\ s[i].from = IF i = 1 THEN from ELSE s[i - 1].to
                        /\ s[i].from <= s[i].to
      BY <1>10 DEF Chain
    <2>1. PICK a, b, d : a = sum(i - 1) /\ b = sum(i) /\ d = D[i]
      OBVIOUS
    <2>2. a \in Nat /\ d \in Nat /\ b = a + d /\ s[i].from = from + a /\ s[i].to = from + b
      BY <1>4, <1>5, <1>9, <2>1
    <2>3. CASE i = 1
      <3>1. a = 0
        BY <1>5, <2>1, <2>3
      <3> QED BY <2>2, <2>3, <3>1
    <2>4. CASE i # 1
      <3>1. i - 1 \in 1..n
        BY <1>2, <2>4
      <3>2. s[i - 1].to = from + a
        BY <1>9, <2>1, <3>1
      <3> QED BY <2>2, <2>4, <3>2
    <2> QED BY <2>3, <2>4
  <1>13. End(s, from) = from + sum(n)
    <2>1. CASE n = 0
      <3>1. sum(n) = 0
        BY <1>5, <2>1
      <3> QED BY <1>10, <2>1, <3>1 DEF End
    <2>2. CASE n # 0
      <3>1. n \in 1..n
        BY <1>2, <2>2
      <3> QED BY <1>9, <1>10, <2>2, <3>1 DEF End
    <2> QED BY <2>1, <2>2
  <1> QED BY <1>1, <1>7, <1>9, <1>10, <1>11, <1>12, <1>13 DEF SnapshotOK

\* Sums do not depend on the order.
LEMMA OrderedSum ==
  ASSUME NEW goods, IsFiniteSet(goods), NEW g \in SetToSeqs(goods),
         NEW n, n = Cardinality(goods),
         NEW F, \A x \in goods : F[x] \in Nat,
         NEW f, \A i \in 1..n : f[i] = F[g[i]]
  PROVE  SumFunctionOnSet(f, 1..n) = SumFunctionOnSet(F, goods)
  <1>1. n \in Nat /\ g \in [1..n -> goods]
    BY OrderedGoods
  <1>2. \A i, j \in 1..n : g[i] = g[j] => i = j
    BY OrderedGoods
  <1>3. \A x \in goods : \E i \in 1..n : g[i] = x
    BY OrderedGoods
  <1>4. PICK D : D = 1..n
    OBVIOUS
  <1>5. IsFiniteSet(D)
    BY <1>1, <1>4, FS_Interval
  <1>6. /\ g \in [D -> goods]
        /\ \A x, y \in D : g[x] = g[y] => x = y
        /\ \A z \in goods : \E x \in D : g[x] = z
    BY <1>1, <1>2, <1>3, <1>4
  <1>7. \A i \in D : f[i] \in Nat /\ F[g[i]] = f[i]
    BY <1>1, <1>4
  <1>8. SumFunctionOnSet(f, D) = SumFunctionOnSet(F, goods)
    BY <1>5, <1>6, <1>7, SumBijection
  <1> QED BY <1>4, <1>8

\* The goods of a combo's parts.
PartsOK(parts, goods) ==
  /\ IsFiniteSet(parts) /\ goods \in SUBSET Goods /\ IsFiniteSet(goods)
  /\ \A x \in goods : good[x] # None
  /\ \A p \in parts : p.good \in goods
  /\ \A p, q \in parts : p.good = q.good => p = q
  /\ \A x \in goods : \E p \in parts : p.good = x

\* What the parts of a combo cost is what the rows of its snapshot cost.
LEMMA SnapshotPrices ==
  ASSUME CInv, NEW parts, NEW goods, PartsOK(parts, goods),
         NEW g \in SetToSeqs(goods), NEW from \in Nat, NEW s, s = Snapshot(g, from)
  PROVE  SumFunction([j \in DOMAIN s |-> s[j].price]) =
           SumFunction([p \in parts |-> good[p.good].price])
  <1>0. IsFiniteSet(parts) /\ goods \in SUBSET Goods /\ IsFiniteSet(goods) /\ \A x \in goods : good[x] # None
    BY DEF PartsOK
  <1>1. PICK F : F = [x \in goods |-> good[x].price]
    OBVIOUS
  <1>2. \A x \in goods : F[x] = good[x].price /\ F[x] \in Nat
    BY <1>0, <1>1, GoodTypes
  <1>3. SumFunction([p \in parts |-> good[p.good].price]) = SumFunctionOnSet(F, goods)
    <2>1. PICK f, h : f = [p \in parts |-> good[p.good].price] /\ h = [p \in parts |-> p.good]
      OBVIOUS
    <2>2. /\ h \in [parts -> goods]
          /\ \A p, q \in parts : h[p] = h[q] => p = q
          /\ \A x \in goods : \E p \in parts : h[p] = x
      BY <2>1 DEF PartsOK
    <2>3. \A p \in parts : f[p] \in Nat /\ F[h[p]] = f[p]
      BY <1>2, <2>1, <2>2
    <2>4. SumFunctionOnSet(f, parts) = SumFunctionOnSet(F, goods)
      BY <1>0, <2>2, <2>3, SumBijection
    <2>5. DOMAIN f = parts
      BY <2>1
    <2> QED BY <2>1, <2>4, <2>5 DEF SumFunction
  <1>4. SumFunction([j \in DOMAIN s |-> s[j].price]) = SumFunctionOnSet(F, goods)
    <2>1. PICK n, f : n = Cardinality(goods) /\ f = [j \in DOMAIN s |-> s[j].price]
      OBVIOUS
    <2>2. /\ s \in Seq(Slots) /\ Len(s) = Cardinality(goods)
          /\ \A i \in 1..Len(s) : s[i].price = good[g[i]].price
      <3>1. SnapshotOK(goods, g, from, s)
        BY <1>0, SnapshotChain
      <3> QED BY <3>1 DEF SnapshotOK
    <2>3. n \in Nat /\ g \in [1..n -> goods]
      BY <1>0, <2>1, OrderedGoods
    <2>4. DOMAIN s = 1..n /\ DOMAIN f = 1..n
      BY <2>1, <2>2
    <2>5. \A i \in 1..n : f[i] = F[g[i]]
      BY <1>2, <2>1, <2>2, <2>3, <2>4
    <2>6. SumFunctionOnSet(f, 1..n) = SumFunctionOnSet(F, goods)
      <3>1. n = Cardinality(goods) /\ \A x \in goods : F[x] \in Nat
        BY <1>2, <2>1
      <3> QED BY <1>0, <2>5, <3>1, OrderedSum
    <2> QED BY <2>1, <2>4, <2>6 DEF SumFunction
  <1> QED BY <1>3, <1>4

LEMMA PartsOfCombo ==
  ASSUME CInv, NEW k \in Combos, combo[k] # None, NEW parts, parts = combo[k].parts,
         NEW goods, goods = GoodsOf(k)
  PROVE  PartsOK(parts, goods) /\ combo[k].discount \in Discounts
  <1>1. combo[k] \in ComboRows
    BY DEF CInv, Tables
  <1>2. IsFiniteSet(parts) /\ (\A p \in parts : p.good \in Goods) /\ combo[k].discount \in Discounts
    BY <1>1, ComboRowTypes
  <1>3. /\ \A p \in parts : good[p.good] # None
        /\ \A p, q \in parts : p.good = q.good => p = q
    <2>1. ComboOK(k)
      BY DEF CInv
    <2> QED BY <2>1 DEF ComboOK
  <1>4. (\A p \in parts : p.good \in goods) /\ \A x \in goods : \E p \in parts : p.good = x
    BY DEF GoodsOf
  <1>5. IsFiniteSet(goods)
    <2>1. PICK h : h = [p \in parts |-> p.good]
      OBVIOUS
    <2>2. h \in Surjection(parts, goods)
      BY <1>4, <2>1 DEF Surjection
    <2> QED BY <1>2, <2>2, FS_Surjection
  <1>6. goods \in SUBSET Goods /\ \A x \in goods : good[x] # None
    BY <1>2, <1>3, <1>4
  <1> QED BY <1>2, <1>3, <1>4, <1>5, <1>6 DEF PartsOK

LEMMA ResolveComboOK ==
  ASSUME CInv, NEW cursor \in Nat, NEW asked \in Items, asked.kind = "combo",
         combo[asked.id] # None, NEW line \in ResolveCombo(asked, cursor)
  PROVE  LineOK(line) /\ line.from = cursor /\ line.id = asked.id /\ line.kind = asked.kind
  <1>1. PICK k, parts, goods : k = asked.id /\ parts = combo[k].parts /\ goods = GoodsOf(k)
    OBVIOUS
  <1>2. k \in Combos /\ combo[k] # None
    BY <1>1 DEF Items, Asked
  <1>3. PartsOK(parts, goods) /\ combo[k].discount \in Discounts
    BY <1>1, <1>2, PartsOfCombo
  <1>0. goods \in SUBSET Goods /\ IsFiniteSet(goods) /\ \A x \in goods : good[x] # None
    BY <1>3 DEF PartsOK
  <1>4. PICK d : d = SumFunction([g \in goods |-> good[g].duration])
    OBVIOUS
  <1> DEFINE row(s, v, price) ==
        [kind |-> "combo", id |-> k, quantity |-> 1, price |-> price, duration |-> d,
         from |-> IF v = <<>> THEN cursor ELSE Head(v).from,
         to |-> IF v = <<>> THEN cursor ELSE Last(v).to, parts |-> s]
  <1>5. PICK g \in SetToSeqs(goods), price \in ComboPrice(combo[k]) :
          line = ComboLine(k, cursor, Snapshot(g, cursor), price)
    BY <1>1 DEF ResolveCombo
  <1>6. PICK s, v : s = Snapshot(g, cursor) /\ v = Performed(s) /\ line = row(s, v, price)
    BY <1>1, <1>4, <1>5 DEF ComboLine
  <1>7. SumFunction([j \in DOMAIN s |-> s[j].price]) =
          SumFunction([p \in parts |-> good[p.good].price])
    BY <1>3, <1>6, SnapshotPrices
  <1>8. /\ s \in Seq(Slots) /\ \A i \in 1..Len(s) : s[i].id \notin Services => s[i].from = s[i].to
        /\ Chain(s, cursor) /\ End(s, cursor) = cursor + d
    <2>1. SnapshotOK(goods, g, cursor, s)
      BY <1>0, <1>6, SnapshotChain
    <2> QED BY <1>4, <2>1 DEF SnapshotOK
  <1>9. s \in Seq(Timeds)
    BY <1>8 DEF Timeds
  <1>10. v \in Seq(Timeds) /\ Chain(v, cursor) /\ End(v, cursor) = cursor + d
    BY <1>6, <1>8, <1>9, PerformedChain
  <1>11. /\ (IF v = <<>> THEN cursor ELSE Head(v).from) = cursor
         /\ (IF v = <<>> THEN cursor ELSE Last(v).to) = cursor + d
    <2>1. CASE v = <<>>
      BY <1>10, <2>1, EmptyChain
    <2>2. CASE v # <<>>
      <3>1. Len(v) \in Nat /\ Len(v) # 0 /\ Head(v) = v[1] /\ Last(v) = v[Len(v)]
        BY <1>10, <2>2 DEF Last
      <3>2. v[1].from = cursor
        BY <1>10, <3>1 DEF Chain
      <3> QED BY <1>10, <2>2, <3>1, <3>2 DEF End
    <2> QED BY <2>1, <2>2
  <1>12. line = [kind |-> "combo", id |-> k, quantity |-> 1, price |-> price, duration |-> d,
                 from |-> cursor, to |-> cursor + d, parts |-> s]
    BY <1>6, <1>11
  <1>13. /\ line.kind = "combo" /\ line.id = k /\ line.quantity = 1 /\ line.price = price
         /\ line.duration = d /\ line.from = cursor /\ line.to = cursor + d /\ line.parts = s
    BY <1>12
  <1>14. d \in Nat
    <2>1. PICK f : f = [x \in goods |-> good[x].duration]
      OBVIOUS
    <2>2. DOMAIN f = goods /\ \A x \in goods : f[x] \in Nat
      BY <1>0, <2>1, GoodTypes
    <2>3. SumFunctionOnSet(f, goods) \in Nat
      BY <1>0, <2>2, SumNat
    <2> QED BY <1>4, <2>1, <2>2, <2>3 DEF SumFunction
  <1>15. \E x \in Discounts : price \in Discounted(SumFunction([j \in DOMAIN s |-> s[j].price]), x)
    BY <1>1, <1>3, <1>6, <1>7 DEF ComboPrice
  <1>16. price \in Nat
    <2>1. PICK total, x : price \in Discounted(total, x)
      BY <1>15
    <2>2. price \in 0..total
      BY <2>1 DEF Discounted
    <2> QED BY <2>2
  <1>17. line \in Lines
    <2>1. cursor + d \in Nat /\ k \in Goods \cup Combos
      BY <1>2, <1>14
    <2> QED BY <1>8, <1>12, <1>14, <1>16, <2>1 DEF Lines
  <1>18. ServicesOf(line) = v
    BY <1>6, <1>13 DEF ServicesOf
  <1>19. line.duration = line.to - line.from
    BY <1>13, <1>14
  <1>20. LineOK(line)
    <2>1. line.kind # "product"
      BY <1>13
    <2>2. \E x \in Discounts : line.price \in
            Discounted(SumFunction([j \in DOMAIN line.parts |-> line.parts[j].price]), x)
      BY <1>13, <1>15
    <2> QED BY <1>10, <1>13, <1>17, <1>18, <1>19, <2>1, <2>2 DEF LineOK
  <1> QED BY <1>1, <1>13, <1>20

LEMMA ResolveOK ==
  ASSUME CInv, NEW cursor \in Nat, NEW asked \in Items, NEW line \in Resolve(asked, cursor)
  PROVE  LineOK(line) /\ line.from = cursor /\ line.id = asked.id /\ line.kind = asked.kind
  <1>1. CASE asked.kind = "combo"
    <2>1. combo[asked.id] # None /\ line \in ResolveCombo(asked, cursor)
      BY <1>1 DEF Resolve, OnSale, Exists
    <2> QED BY <1>1, <2>1, ResolveComboOK
  <1>2. CASE asked.kind # "combo"
    <2>1. /\ good[asked.id] # None /\ line \in ResolveGood(asked, cursor)
          /\ asked.kind = "service" => asked.quantity = 1
      BY <1>2 DEF Resolve, OnSale, Exists
    <2> QED BY <1>2, <2>1, ResolveGoodOK
  <1> QED BY <1>1, <1>2

-----------------------------------------------------------------------------
(* Lines one after the other                                               *)

LinesOK(lines) ==
  /\ lines \in Seq(Lines) /\ \A i \in 1..Len(lines) : LineOK(lines[i])
  /\ Visit(lines) \in Seq(Timeds) /\ Chain(Visit(lines), 0)
  /\ AppointmentEnd(lines) = End(Visit(lines), 0)

LEMMA NoLines == LinesOK(<<>>)
  <1>1. PICK e : e = <<>>
    OBVIOUS
  <1>2. e \in Seq(Lines) /\ Len(e) = 0 /\ DOMAIN e = 1..0 /\ 1..0 = {}
    BY <1>1
  <1>3. Visit(e) = <<>>
    <2>1. PICK m : m = [i \in DOMAIN e |-> ServicesOf(e[i])]
      OBVIOUS
    <2>2. m \in [1..0 -> Seq(Timeds)]
      BY <1>2, <2>1
    <2>3. FlattenSeq(m) = <<>>
      BY <2>2, FlattenDefined
    <2> QED BY <2>1, <2>3 DEF Visit
  <1>4. AppointmentEnd(e) = 0
    <2>1. PICK J, f : /\ J = {j \in DOMAIN e : e[j].kind # "product"}
                      /\ f = [i \in J |-> e[i].duration]
      OBVIOUS
    <2>2. J = {} /\ DOMAIN f = J
      BY <1>2, <2>1
    <2>3. SumFunctionOnSet(f, {}) = 0
      BY SumEmpty
    <2> QED BY <2>1, <2>2, <2>3 DEF AppointmentEnd, SumFunction
  <1> QED BY <1>1, <1>2, <1>3, <1>4, EmptyChain DEF LinesOK

LEMMA VisitAppend ==
  ASSUME NEW lines \in Seq(Lines), \A i \in 1..Len(lines) : ServicesOf(lines[i]) \in Seq(Timeds),
         NEW line \in Lines, ServicesOf(line) \in Seq(Timeds)
  PROVE  Visit(Append(lines, line)) = Visit(lines) \o ServicesOf(line)
  <1>1. PICK n, more : n = Len(lines) /\ more = Append(lines, line)
    OBVIOUS
  <1>2. /\ n \in Nat /\ DOMAIN lines = 1..n /\ DOMAIN more = 1..(n + 1)
        /\ \A i \in 1..n : more[i] = lines[i]
        /\ more[n + 1] = line
    BY <1>1
  <1>3. PICK m : m = [i \in DOMAIN more |-> ServicesOf(more[i])]
    OBVIOUS
  <1>4. /\ \A i \in 1..n : m[i] = ServicesOf(lines[i])
        /\ m[n + 1] = ServicesOf(line)
    BY <1>2, <1>3
  <1>5. m \in [1..(n + 1) -> Seq(Timeds)]
    <2>1. \A i \in 1..(n + 1) : i \in 1..n \/ i = n + 1
      BY <1>2
    <2>2. \A i \in 1..(n + 1) : m[i] \in Seq(Timeds)
      BY <1>1, <1>4, <2>1
    <2> QED BY <1>2, <1>3, <2>2
  <1>6. FlattenSeq(m) = FlattenSeq([i \in 1..n |-> m[i]]) \o m[n + 1]
    BY <1>2, <1>5, FlattenStep
  <1>7. [i \in 1..n |-> m[i]] = [i \in DOMAIN lines |-> ServicesOf(lines[i])]
    BY <1>2, <1>4
  <1> QED BY <1>1, <1>3, <1>4, <1>6, <1>7 DEF Visit

LEMMA AppointmentEndAppend ==
  ASSUME NEW lines \in Seq(Lines), NEW line \in Lines
  PROVE  AppointmentEnd(Append(lines, line)) =
           AppointmentEnd(lines) + IF line.kind = "product" THEN 0 ELSE line.duration
  <1>1. PICK n, more : n = Len(lines) /\ more = Append(lines, line)
    OBVIOUS
  <1>2. /\ n \in Nat /\ DOMAIN lines = 1..n /\ DOMAIN more = 1..(n + 1)
        /\ \A i \in 1..n : more[i] = lines[i]
        /\ more[n + 1] = line
    BY <1>1
  <1>3. PICK I, J, f, g : /\ I = {j \in DOMAIN lines : lines[j].kind # "product"}
                          /\ J = {j \in DOMAIN more : more[j].kind # "product"}
                          /\ f = [i \in I |-> lines[i].duration]
                          /\ g = [i \in J |-> more[i].duration]
    OBVIOUS
  <1>4. (\A i \in 1..n : lines[i].duration \in Nat) /\ line.duration \in Nat
    <2>1. \A x \in Lines : x.duration \in Nat
      BY DEF Lines
    <2> QED BY <1>1, <2>1
  <1>5. /\ AppointmentEnd(lines) = SumFunctionOnSet(f, I)
        /\ AppointmentEnd(more) = SumFunctionOnSet(g, J)
    <2>1. DOMAIN f = I /\ DOMAIN g = J
      BY <1>3
    <2> QED BY <1>3, <2>1 DEF AppointmentEnd, SumFunction
  <1>6. IsFiniteSet(I) /\ IsFiniteSet(J)
    <2>1. IsFiniteSet(1..n) /\ IsFiniteSet(1..(n + 1))
      BY <1>2, FS_Interval
    <2>2. I \subseteq 1..n /\ J \subseteq 1..(n + 1)
      BY <1>2, <1>3
    <2> QED BY <2>1, <2>2, FS_Subset
  <1>7. \A i \in I : i \in J /\ f[i] \in Nat /\ g[i] = f[i]
    <2>1. \A i \in I : i \in 1..n /\ i \in 1..(n + 1) /\ lines[i].kind # "product"
      BY <1>2, <1>3
    <2>2. \A i \in I : i \in J /\ g[i] = more[i].duration /\ f[i] = lines[i].duration
      BY <1>2, <1>3, <2>1
    <2> QED BY <1>2, <1>4, <2>1, <2>2
  <1>8. SumFunctionOnSet(f, I) = SumFunctionOnSet(g, I) /\ SumFunctionOnSet(f, I) \in Nat
    <2>1. \A i \in I : f[i] \in Nat
      BY <1>7
    <2>2. SumFunctionOnSet(f, I) \in Nat
      BY <1>6, <2>1, SumNat
    <2>3. SumFunctionOnSet(f, I) = SumFunctionOnSet(g, I)
      BY <1>6, <1>7, SumSame
    <2> QED BY <2>2, <2>3
  <1>9. CASE line.kind = "product"
    <2>1. J = I
      <3>1. \A j \in 1..(n + 1) : j \in 1..n \/ j = n + 1
        BY <1>2
      <3>2. \A j \in J : j \in I
        BY <1>2, <1>3, <1>9, <3>1
      <3> QED BY <1>7, <3>2
    <2> QED BY <1>1, <1>5, <1>8, <1>9, <2>1
  <1>10. CASE line.kind # "product"
    <2>1. n + 1 \in J /\ g[n + 1] = line.duration
      BY <1>2, <1>3, <1>10
    <2>2. J \ {n + 1} = I
      <3>1. \A j \in 1..(n + 1) : j \in 1..n \/ j = n + 1
        BY <1>2
      <3>2. \A j \in J : j # n + 1 => j \in I
        BY <1>2, <1>3, <3>1
      <3>3. \A i \in I : i # n + 1
        BY <1>2, <1>3
      <3> QED BY <1>7, <3>2, <3>3
    <2>3. \A j \in J : g[j] \in Nat
      BY <1>4, <1>7, <2>1, <2>2
    <2>4. PICK k : k = n + 1
      OBVIOUS
    <2>5. SumFunctionOnSet(g, J) = g[k] + SumFunctionOnSet(g, J \ {k})
      BY <1>6, <2>1, <2>3, <2>4, SumStep
    <2>6. SumFunctionOnSet(g, J) = line.duration + SumFunctionOnSet(g, I)
      BY <2>1, <2>2, <2>4, <2>5
    <2>7. AppointmentEnd(more) = AppointmentEnd(lines) + line.duration
      BY <1>4, <1>5, <1>8, <2>6
    <2> QED BY <1>1, <1>10, <2>7
  <1> QED BY <1>9, <1>10

\* The cursor is where the last line ends.
LEMMA CursorIsEnd ==
  ASSUME NEW lines, LinesOK(lines)
  PROVE  Cursor(lines) = End(Visit(lines), 0) /\ Cursor(lines) \in Nat
  <1>1. PICK v : v = Visit(lines)
    OBVIOUS
  <1>2. v \in Seq(Timeds) /\ Chain(v, 0)
    BY <1>1 DEF LinesOK
  <1>3. SumFunction([i \in DOMAIN v |-> v[i].to - v[i].from]) = End(v, 0) /\ End(v, 0) \in Nat
    BY <1>2, ChainSum, EndType
  <1> QED BY <1>1, <1>3 DEF Cursor

LEMMA LinesAppend ==
  ASSUME NEW lines, LinesOK(lines), NEW line, LineOK(line), line.from = Cursor(lines)
  PROVE  LinesOK(Append(lines, line))
  <1>1. PICK v, w, more : v = Visit(lines) /\ w = ServicesOf(line) /\ more = Append(lines, line)
    OBVIOUS
  <1>2. /\ lines \in Seq(Lines) /\ \A i \in 1..Len(lines) : LineOK(lines[i])
        /\ v \in Seq(Timeds) /\ Chain(v, 0) /\ AppointmentEnd(lines) = End(v, 0)
    BY <1>1 DEF LinesOK
  <1>3. line \in Lines /\ w \in Seq(Timeds) /\ Chain(w, line.from) /\ End(w, line.from) = line.to
    BY <1>1 DEF LineOK
  <1>4. line.from = End(v, 0) /\ line.from \in Nat
    BY <1>1, CursorIsEnd
  <1>5. Visit(more) = v \o w
    <2>1. \A i \in 1..Len(lines) : ServicesOf(lines[i]) \in Seq(Timeds)
      BY <1>2 DEF LineOK
    <2> QED BY <1>1, <1>2, <1>3, <2>1, VisitAppend
  <1>6. /\ v \o w \in Seq(Timeds)
        /\ Chain(v \o w, 0) /\ End(v \o w, 0) = End(w, End(v, 0))
    BY <1>2, <1>3, <1>4, ChainConcat
  <1>7. more \in Seq(Lines) /\ \A i \in 1..Len(more) : LineOK(more[i])
    <2>1. PICK n : n = Len(lines)
      OBVIOUS
    <2>2. /\ more \in Seq(Lines) /\ n \in Nat /\ Len(more) = n + 1
          /\ \A i \in 1..n : more[i] = lines[i]
          /\ more[n + 1] = line
      BY <1>1, <1>2, <1>3, <2>1
    <2>3. \A i \in 1..(n + 1) : i \in 1..n \/ i = n + 1
      BY <2>2
    <2>4. \A i \in 1..n : LineOK(more[i])
      BY <1>2, <2>1, <2>2
    <2>5. LineOK(more[n + 1])
      BY <2>2
    <2> QED BY <2>2, <2>3, <2>4, <2>5
  <1>8. AppointmentEnd(more) = line.to
    <2>1. AppointmentEnd(more) = line.from + IF line.kind = "product" THEN 0 ELSE line.duration
      BY <1>1, <1>2, <1>3, <1>4, AppointmentEndAppend
    <2>2. line.to \in Nat
      BY <1>3 DEF Lines
    <2>3. CASE line.kind = "product"
      <3>1. line.to = line.from
        BY <2>3 DEF LineOK
      <3> QED BY <1>4, <2>1, <2>3, <3>1
    <2>4. CASE line.kind # "product"
      <3>1. line.duration = line.to - line.from
        BY <2>4 DEF LineOK
      <3> QED BY <1>4, <2>1, <2>2, <2>4, <3>1
    <2> QED BY <2>3, <2>4
  <1> QED BY <1>1, <1>3, <1>4, <1>5, <1>6, <1>7, <1>8 DEF LinesOK

-----------------------------------------------------------------------------
(* What an order promises                                                  *)

IncludedOK(v, included) ==
  \A d \in included :
    /\ d.id \notin {s.id : s \in ToSet(v)}
    /\ \A e \in included : e.id = d.id => e = d
    /\ \E s \in ToSet(v) : d.from = s.from /\ d.to = s.to

\* The query for one more service adds what is neither in the visit nor there.
LEMMA IncludedMore ==
  ASSUME NEW v, NEW n \in DOMAIN v, NEW earlier, IncludedOK(v, earlier)
  PROVE  IncludedOK(v, earlier \cup IncludedWith(v, n, earlier))
  <1>1. PICK s, new : s = v[n] /\ new = IncludedWith(v, n, earlier)
    OBVIOUS
  <1>2. s \in ToSet(v)
    BY <1>1 DEF ToSet
  <1>3. \A d \in new : /\ d = [id |-> d.id, from |-> s.from, to |-> s.to]
                       /\ \A x \in ToSet(v) : x.id # d.id
                       /\ \A x \in earlier : x.id # d.id
    BY <1>1 DEF IncludedWith
  <1>4. \A d \in new : d.from = s.from /\ d.to = s.to
    BY <1>3
  <1>5. ASSUME NEW d \in new, NEW e \in new, e.id = d.id PROVE e = d
    <2>1. PICK i, f, t : i = d.id /\ f = s.from /\ t = s.to
      OBVIOUS
    <2>2. d = [id |-> i, from |-> f, to |-> t] /\ e = [id |-> i, from |-> f, to |-> t]
      BY <1>3, <1>5, <2>1
    <2> QED BY <2>2
  <1>6. ASSUME NEW d \in earlier \cup new
        PROVE  /\ d.id \notin {x.id : x \in ToSet(v)}
               /\ \A e \in earlier \cup new : e.id = d.id => e = d
               /\ \E x \in ToSet(v) : d.from = x.from /\ d.to = x.to
    BY <1>2, <1>3, <1>4, <1>5 DEF IncludedOK
  <1> QED BY <1>1, <1>6 DEF IncludedOK

\* What is put together agrees with what was asked for; services are looked up
\* once all the lines are there.
BookOK(t, now) ==
  /\ t.cart \in Carts /\ t.since \in 0..now
  /\ Len(t.lines) <= Len(t.cart.items)
  /\ \A i \in DOMAIN t.lines :
       t.lines[i].id = t.cart.items[i].id /\ t.lines[i].kind = t.cart.items[i].kind
  /\ LinesOK(t.lines)
  /\ t.looked \in 0..Len(Visit(t.lines)) /\ (t.looked = 0 => t.included = {})
  /\ t.looked # 0 => Len(t.lines) = Len(t.cart.items)
  /\ IncludedOK(Visit(t.lines), t.included)

OrderOK(row) ==
  /\ LinesOK(row.lines) /\ IncludedOK(Visit(row.lines), row.included)
  /\ row.total = Charge(row.lines) /\ row.to = AppointmentEnd(row.lines)

\* The inductive invariant of bookings.
Bookings ==
  /\ \A r \in Requests : txn[r].op = "book" => BookOK(txn[r], clock)
  /\ DOMAIN order = Orders /\ \A o \in Orders : order[o] # None => OrderOK(order[o])

BInv == CInv /\ Bookings

LEMMA BookLater ==
  ASSUME NEW t, NEW now \in Nat, NEW later \in Nat, BookOK(t, now), now <= later
  PROVE  BookOK(t, later)
  <1>1. t.since \in 0..later
    BY DEF BookOK
  <1> QED BY <1>1 DEF BookOK

\* The catalog is edited, or a request ends.
LEMMA BookingsStay ==
  ASSUME BInv, CInv', clock <= clock', order' = order,
         \A r \in Requests : txn'[r] = txn[r] \/ txn'[r].op # "book"
  PROVE  Bookings'
  <1>1. clock \in Nat /\ clock' \in Nat
    BY CatalogAssumption DEF BInv, CInv, Tables
  <1>2. ASSUME NEW r \in Requests, txn'[r].op = "book" PROVE BookOK(txn'[r], clock')
    <2>1. txn'[r] = txn[r] /\ BookOK(txn[r], clock)
      BY <1>2 DEF BInv, Bookings
    <2> QED BY <1>1, <2>1, BookLater
  <1>3. DOMAIN order' = Orders /\ \A o \in Orders : order'[o] # None => OrderOK(order'[o])
    BY DEF BInv, Bookings
  <1> QED BY <1>2, <1>3 DEF Bookings

LEMMA BookWritten ==
  ASSUME BInv, NEW r \in Requests, NEW t, BookOK(t, clock),
         txn' = [txn EXCEPT ![r] = t], clock' = clock, order' = order
  PROVE  Bookings'
  <1>1. ASSUME NEW s \in Requests, txn'[s].op = "book" PROVE BookOK(txn'[s], clock')
    <2>1. DOMAIN txn = Requests
      BY DEF BInv, CInv
    <2>2. CASE s = r
      BY <2>1, <2>2
    <2>3. CASE s # r
      <3>1. txn'[s] = txn[s]
        BY <2>1, <2>3
      <3> QED BY <1>1, <3>1 DEF BInv, Bookings
    <2> QED BY <2>2, <2>3
  <1>2. DOMAIN order' = Orders /\ \A o \in Orders : order'[o] # None => OrderOK(order'[o])
    BY DEF BInv, Bookings
  <1> QED BY <1>1, <1>2 DEF Bookings

LEMMA EditKeeps == Edit => UNCHANGED txn /\ Change
  <1>1. EditCategories => UNCHANGED txn /\ Change
    BY DEF EditCategories, CreateCategory
  <1>2. EditProducts => UNCHANGED txn /\ Change
    BY DEF EditProducts, CreateProduct, UpdateProduct, SetProductStatus,
           InsertGood, EditGood, SetStatus
  <1>3. EditServices => UNCHANGED txn /\ Change
    BY DEF EditServices, CreateService, UpdateService, SetServiceStatus,
           InsertGood, EditGood, SetStatus
  <1>4. EditDependencies => UNCHANGED txn /\ Change
    BY DEF EditDependencies, AddServiceDependency, RemoveServiceDependency
  <1>5. EditCombos => UNCHANGED txn /\ Change
    BY DEF EditCombos, CreateCombo, SetComboStatus
  <1> QED BY <1>1, <1>2, <1>3, <1>4, <1>5 DEF Edit

\* What takes two steps is not a booking.
LEMMA EditStepKeeps ==
  ASSUME NEW r, EditStep(r)
  PROVE  /\ \E t : t.op # "book" /\ txn' = [txn EXCEPT ![r] = t]
         /\ UNCHANGED catalogVars \/ Change
  <1>1. ASSUME NEW c, CountProducts(r, c)
        PROVE  UNCHANGED catalogVars /\ \E t : t.op # "book" /\ txn' = [txn EXCEPT ![r] = t]
    <2>1. PICK t : t = [op |-> "deleteCategory", id |-> c, since |-> clock]
      OBVIOUS
    <2>2. t.op # "book" /\ txn' = [txn EXCEPT ![r] = t] /\ UNCHANGED catalogVars
      BY <1>1, <2>1 DEF CountProducts
    <2> QED BY <2>2
  <1>2. ASSUME NEW k, NEW d, NEW l, ReadCombo(r, k, d, l)
        PROVE  UNCHANGED catalogVars /\ \E t : t.op # "book" /\ txn' = [txn EXCEPT ![r] = t]
    <2>1. PICK t : t = [op |-> "updateCombo", id |-> k, discount |-> d,
                        list |-> l, seen |-> combo[k], since |-> clock]
      OBVIOUS
    <2>2. t.op # "book" /\ txn' = [txn EXCEPT ![r] = t] /\ UNCHANGED catalogVars
      BY <1>2, <2>1 DEF ReadCombo
    <2> QED BY <2>2
  <1>3. Idle.op # "book"
    BY DEF Idle
  <1>4. RemoveCategory(r) \/ SaveCombo(r) => Change /\ txn' = [txn EXCEPT ![r] = Idle]
    BY DEF RemoveCategory, SaveCombo
  <1>5. Abort(r) => UNCHANGED catalogVars /\ txn' = [txn EXCEPT ![r] = Idle]
    BY DEF Abort
  <1> QED BY <1>1, <1>2, <1>3, <1>4, <1>5 DEF EditStep

LEMMA BeginInv ==
  ASSUME BInv, NEW r \in Requests, NEW c \in Carts, BeginBooking(r, c)
  PROVE  Bookings'
  <1>1. PICK e, t : e = <<>> /\ t = [op |-> "book", cart |-> c, lines |-> e, included |-> {},
                                     looked |-> 0, since |-> clock]
    OBVIOUS
  <1>2. txn' = [txn EXCEPT ![r] = t] /\ clock' = clock /\ order' = order
    BY <1>1 DEF BeginBooking, catalogVars
  <1>3. t.cart = c /\ t.lines = e /\ t.included = {} /\ t.looked = 0 /\ t.since = clock
    BY <1>1
  <1>4. clock \in 0..clock
    BY CatalogAssumption DEF BInv, CInv, Tables
  <1>5. Len(e) = 0 /\ DOMAIN e = {} /\ Len(c.items) \in Nat
    <2>1. \E S : c.items \in Seq(S)
      BY CartsAssumption DEF IsCart
    <2>2. Len(c.items) \in Nat
      BY <2>1
    <2> QED BY <1>1, <2>2
  <1>6. LinesOK(e)
    BY <1>1, NoLines
  <1>7. t.looked \in 0..Len(Visit(e))
    <2>1. Len(Visit(e)) \in Nat
      BY <1>6, TimedTypes DEF LinesOK
    <2> QED BY <1>3, <2>1
  <1>8. BookOK(t, clock)
    BY <1>3, <1>4, <1>5, <1>6, <1>7 DEF BookOK, IncludedOK
  <1> QED BY <1>2, <1>8, BookWritten

LEMMA ResolveLineInv ==
  ASSUME BInv, NEW r \in Requests, ResolveLine(r)
  PROVE  Bookings'
  <1>1. PICK t, asked : t = txn[r] /\ asked = t.cart.items[Len(t.lines) + 1]
    OBVIOUS
  <1>2. PICK line \in Resolve(asked, Cursor(t.lines)) :
          txn' = [txn EXCEPT ![r].lines = Append(@, line)]
    BY <1>1 DEF ResolveLine
  <1>3. PICK lines, more, work : /\ lines = t.lines /\ more = Append(lines, line)
                                 /\ work = [t EXCEPT !.lines = more]
    OBVIOUS
  <1>4. /\ t.op = "book" /\ Len(lines) < Len(t.cart.items) /\ clock' = clock /\ order' = order
        /\ txn' = [txn EXCEPT ![r] = work]
    BY <1>1, <1>2, <1>3 DEF ResolveLine, catalogVars
  <1>5. BookOK(t, clock) /\ DOMAIN t = {"op", "cart", "lines", "included", "looked", "since"}
    <2>1. WorkOK(t)
      BY <1>1 DEF BInv, CInv
    <2> QED BY <1>1, <1>4, <2>1 DEF BInv, Bookings, WorkOK
  <1>6. /\ t.cart \in Carts /\ t.since \in 0..clock /\ LinesOK(lines) /\ lines \in Seq(Lines)
        /\ \A i \in DOMAIN lines : lines[i].id = t.cart.items[i].id /\ lines[i].kind = t.cart.items[i].kind
    BY <1>3, <1>5 DEF BookOK, LinesOK
  <1>7. t.cart.items \in Seq(Items)
    BY <1>6, CartsAssumption DEF IsCart, Items
  <1>8. PICK n : n = Len(lines)
    OBVIOUS
  <1>9. n \in Nat /\ n + 1 <= Len(t.cart.items) /\ asked \in Items
    <2>1. n \in Nat /\ Len(t.cart.items) \in Nat
      BY <1>6, <1>7, <1>8
    <2>2. n + 1 \in 1..Len(t.cart.items)
      BY <1>4, <1>8, <2>1
    <2> QED BY <1>1, <1>3, <1>7, <1>8, <2>1, <2>2
  <1>10. Cursor(lines) \in Nat
    BY <1>6, CursorIsEnd
  <1>11. LineOK(line) /\ line.from = Cursor(lines) /\ line.id = asked.id /\ line.kind = asked.kind
    BY <1>3, <1>9, <1>10, ResolveOK DEF BInv
  <1>12. LinesOK(more)
    BY <1>3, <1>6, <1>11, LinesAppend
  <1>13. /\ work.cart = t.cart /\ work.since = t.since /\ work.lines = more
         /\ work.included = t.included /\ work.looked = t.looked
    BY <1>3, <1>5
  <1>14. /\ Len(more) = n + 1 /\ DOMAIN more = 1..(n + 1)
         /\ \A i \in 1..n : more[i] = lines[i]
         /\ more[n + 1] = line
    <2>1. line \in Lines
      BY <1>11 DEF LineOK
    <2> QED BY <1>3, <1>6, <1>8, <2>1
  <1>15. \A i \in DOMAIN more : more[i].id = t.cart.items[i].id /\ more[i].kind = t.cart.items[i].kind
    <2> SUFFICES ASSUME NEW i \in 1..(n + 1)
                 PROVE  more[i].id = t.cart.items[i].id /\ more[i].kind = t.cart.items[i].kind
      BY <1>14
    <2>1. CASE i = n + 1
      BY <1>1, <1>3, <1>8, <1>11, <1>14, <2>1
    <2>2. CASE i # n + 1
      <3>1. i \in 1..n /\ i \in DOMAIN lines
        BY <1>6, <1>8, <1>9, <2>2
      <3> QED BY <1>6, <1>14, <3>1
    <2> QED BY <2>1, <2>2
  <1>16. work.looked = 0 /\ work.included = {}
    <2>1. Len(t.lines) # Len(t.cart.items)
      BY <1>3, <1>4, <1>8, <1>9
    <2> QED BY <1>5, <1>13, <2>1 DEF BookOK
  <1>17. work.looked \in 0..Len(Visit(more))
    <2>1. Len(Visit(more)) \in Nat
      BY <1>12, TimedTypes DEF LinesOK
    <2> QED BY <1>16, <2>1
  <1>18. BookOK(work, clock)
    BY <1>6, <1>9, <1>12, <1>13, <1>14, <1>15, <1>16, <1>17 DEF BookOK, IncludedOK
  <1> QED BY <1>4, <1>18, BookWritten

LEMMA ResolveIncludedInv ==
  ASSUME BInv, NEW r \in Requests, ResolveIncluded(r)
  PROVE  Bookings'
  <1>1. PICK t, v, n, found, work :
          /\ t = txn[r] /\ v = Visit(t.lines) /\ n = t.looked + 1
          /\ found = t.included \cup IncludedWith(v, n, t.included)
          /\ work = [t EXCEPT !.looked = n, !.included = found]
    OBVIOUS
  <1>2. /\ t.op = "book" /\ txn' = [txn EXCEPT ![r] = work] /\ n <= Len(v)
        /\ clock' = clock /\ order' = order /\ Len(t.lines) = Len(t.cart.items)
    BY <1>1 DEF ResolveIncluded, catalogVars
  <1>3. BookOK(t, clock) /\ DOMAIN t = {"op", "cart", "lines", "included", "looked", "since"}
    <2>1. WorkOK(t)
      BY <1>1 DEF BInv, CInv
    <2> QED BY <1>1, <1>2, <2>1 DEF BInv, Bookings, WorkOK
  <1>4. /\ work.cart = t.cart /\ work.since = t.since /\ work.lines = t.lines
        /\ work.looked = n /\ work.included = found
    BY <1>1, <1>3
  <1>5. n \in DOMAIN v /\ n \in 0..Len(v) /\ n # 0
    <2>1. t.looked \in Nat /\ Len(v) \in Nat /\ DOMAIN v = 1..Len(v)
      BY <1>1, <1>3, TimedTypes DEF BookOK, LinesOK
    <2> QED BY <1>1, <1>2, <2>1
  <1>6. IncludedOK(v, found)
    BY <1>1, <1>3, <1>5, IncludedMore DEF BookOK
  <1>7. BookOK(work, clock)
    BY <1>1, <1>2, <1>3, <1>4, <1>5, <1>6 DEF BookOK
  <1> QED BY <1>2, <1>7, BookWritten

LEMMA InsertOrderInv ==
  ASSUME BInv, NEW r \in Requests, NEW o \in Orders, InsertOrder(r, o)
  PROVE  Bookings'
  <1>1. PICK t, row : /\ t = txn[r]
                      /\ row = [lines |-> t.lines, included |-> t.included,
                                total |-> Charge(t.lines), to |-> AppointmentEnd(t.lines)]
    OBVIOUS
  <1>2. /\ t.op = "book" /\ clock' = clock
        /\ order' = [order EXCEPT ![o] = row] /\ txn' = [txn EXCEPT ![r] = Idle]
    BY <1>1 DEF InsertOrder, catalogVars
  <1>3. BookOK(t, clock)
    BY <1>1, <1>2 DEF BInv, Bookings
  <1>4. OrderOK(row)
    <2>1. /\ row.lines = t.lines /\ row.included = t.included
          /\ row.total = Charge(t.lines) /\ row.to = AppointmentEnd(t.lines)
      BY <1>1
    <2>2. LinesOK(t.lines) /\ IncludedOK(Visit(t.lines), t.included)
      BY <1>3 DEF BookOK
    <2> QED BY <2>1, <2>2 DEF OrderOK
  <1>5. DOMAIN order = Orders /\ DOMAIN txn = Requests
    BY DEF BInv, Bookings, CInv
  <1>6. ASSUME NEW s \in Requests, txn'[s].op = "book" PROVE BookOK(txn'[s], clock')
    <2>1. CASE s = r
      <3>1. txn'[s].op = "idle"
        BY <1>2, <1>5, <2>1 DEF Idle
      <3> QED BY <1>6, <3>1
    <2>2. CASE s # r
      <3>1. txn'[s] = txn[s]
        BY <1>2, <1>5, <2>2
      <3> QED BY <1>2, <1>6, <3>1 DEF BInv, Bookings
    <2> QED BY <2>1, <2>2
  <1>7. DOMAIN order' = Orders /\ \A p \in Orders : order'[p] # None => OrderOK(order'[p])
    <2>1. DOMAIN order' = Orders
      BY <1>2, <1>5
    <2>2. ASSUME NEW p \in Orders, order'[p] # None PROVE OrderOK(order'[p])
      <3>1. CASE p = o
        BY <1>2, <1>4, <1>5, <3>1
      <3>2. CASE p # o
        <4>1. order'[p] = order[p]
          BY <1>2, <1>5, <3>2
        <4> QED BY <2>2, <4>1 DEF BInv, Bookings
      <3> QED BY <3>1, <3>2
    <2> QED BY <2>1, <2>2
  <1> QED BY <1>6, <1>7 DEF Bookings

LEMMA BookingsInit == Init => Bookings
  <1> SUFFICES ASSUME Init PROVE Bookings
    OBVIOUS
  <1>1. txn = [r \in Requests |-> Idle] /\ order = [o \in Orders |-> None]
    BY DEF Init, CatalogInit
  <1>2. Idle.op # "book"
    BY DEF Idle
  <1> QED BY <1>1, <1>2 DEF Bookings

LEMMA BookingsNext == BInv /\ [Next]_vars => BInv'
  <1> SUFFICES ASSUME BInv, [Next]_vars PROVE BInv'
    OBVIOUS
  <1>1. CInv'
    BY NextInv DEF BInv
  <1>2. clock \in Nat /\ (UNCHANGED clock \/ Change => clock <= clock')
    <2>1. clock \in Nat
      BY CatalogAssumption DEF BInv, CInv, Tables
    <2> QED BY <2>1 DEF Change
  <1>3. CASE Edit /\ UNCHANGED order
    <2>1. txn' = txn /\ clock <= clock' /\ order' = order
      BY <1>2, <1>3, EditKeeps
    <2> QED BY <1>1, <2>1, BookingsStay DEF BInv
  <1>4. CASE \E r \in Requests : EditStep(r) /\ UNCHANGED order
    <2>1. PICK r \in Requests : EditStep(r) /\ UNCHANGED order
      BY <1>4
    <2>2. PICK t : t.op # "book" /\ txn' = [txn EXCEPT ![r] = t]
      BY <2>1, EditStepKeeps
    <2>3. clock <= clock'
      BY <1>2, <2>1, EditStepKeeps DEF catalogVars
    <2>4. \A s \in Requests : txn'[s] = txn[s] \/ txn'[s].op # "book"
      <3>1. DOMAIN txn = Requests
        BY DEF BInv, CInv
      <3> QED BY <2>2, <3>1
    <2> QED BY <1>1, <2>1, <2>3, <2>4, BookingsStay DEF BInv
  <1>5. CASE \E r \in Customers, c \in Carts : BeginBooking(r, c)
    BY <1>1, <1>5, CustomersAssumption, BeginInv DEF BInv
  <1>6. CASE \E r \in Requests : ResolveLine(r) \/ ResolveIncluded(r)
    BY <1>1, <1>6, ResolveLineInv, ResolveIncludedInv DEF BInv
  <1>7. CASE \E r \in Requests, o \in Orders : InsertOrder(r, o)
    BY <1>1, <1>7, InsertOrderInv DEF BInv
  <1>8. CASE UNCHANGED vars
    <2>1. txn' = txn /\ clock' = clock /\ order' = order
      BY <1>8 DEF vars, catalogVars
    <2>2. clock <= clock'
      BY <1>2, <2>1
    <2> QED BY <1>1, <2>1, <2>2, BookingsStay DEF BInv
  <1> QED BY <1>3, <1>4, <1>5, <1>6, <1>7, <1>8 DEF Next

LEMMA BookingsInvariance == Spec => []BInv
  <1>1. Init => BInv
    BY InitInv, BookingsInit DEF BInv
  <1> QED BY <1>1, BookingsNext, PTL DEF Spec

-----------------------------------------------------------------------------
(* The theorems about orders                                               *)

LEMMA ChargeType ==
  ASSUME NEW lines, LinesOK(lines)
  PROVE  /\ Charge(lines) \in Nat
         /\ Charge(lines) = SumFunction([i \in DOMAIN lines |-> lines[i].price * lines[i].quantity])
  <1>1. PICK n, f, g : /\ n = Len(lines) /\ f = [i \in DOMAIN lines |-> LineTotal(lines[i])]
                       /\ g = [i \in DOMAIN lines |-> lines[i].price * lines[i].quantity]
    OBVIOUS
  <1>2. n \in Nat /\ DOMAIN lines = 1..n /\ \A i \in 1..n : LineOK(lines[i])
    BY <1>1 DEF LinesOK
  <1>3. ASSUME NEW i \in 1..n
        PROVE  /\ LineTotal(lines[i]) \in Nat
               /\ LineTotal(lines[i]) = lines[i].price * lines[i].quantity
    <2>1. PICK line, p, q : line = lines[i] /\ p = line.price /\ q = line.quantity
      OBVIOUS
    <2>2. LineOK(line) /\ line \in Lines
      BY <1>2, <2>1 DEF LineOK
    <2>3. p \in Nat /\ q \in Nat
      BY <2>1, <2>2 DEF Lines
    <2>4. p * q \in Nat
      BY <2>3
    <2>5. CASE line.kind = "product"
      BY <2>1, <2>4, <2>5 DEF LineTotal
    <2>6. CASE line.kind # "product"
      <3>1. q = 1
        BY <2>1, <2>2, <2>6 DEF LineOK
      <3>2. p * 1 = p
        BY <2>3
      <3> QED BY <2>1, <2>3, <2>6, <3>1, <3>2 DEF LineTotal
    <2> QED BY <2>5, <2>6
  <1>4. f = g
    BY <1>1, <1>2, <1>3
  <1>5. SumFunction(f) \in Nat
    <2>1. DOMAIN f = 1..n /\ \A i \in 1..n : f[i] \in Nat
      BY <1>1, <1>2, <1>3
    <2>2. IsFiniteSet(1..n)
      BY <1>2, FS_Interval
    <2>3. SumFunctionOnSet(f, 1..n) \in Nat
      BY <2>1, <2>2, SumNat
    <2> QED BY <2>1, <2>3 DEF SumFunction
  <1> QED BY <1>1, <1>4, <1>5 DEF Charge

LEMMA LineSpan ==
  ASSUME NEW line, LineOK(line)
  PROVE  /\ line.price \in Nat /\ line.from <= line.to
         /\ line.from..(line.to - 1) = UNION {p.from..(p.to - 1) : p \in ToSet(ServicesOf(line))}
  <1>1. PICK s, from, to : s = ServicesOf(line) /\ from = line.from /\ to = line.to
    OBVIOUS
  <1>2. /\ line \in Lines /\ s \in Seq(Timeds) /\ Chain(s, from) /\ End(s, from) = to
    BY <1>1 DEF LineOK
  <1>3. line.price \in Nat /\ from \in Nat /\ to \in Nat
    BY <1>1, <1>2 DEF Lines
  <1>4. /\ from <= to
        /\ \A i \in 1..Len(s) : from <= s[i].from /\ s[i].to <= to
        /\ \A m \in from..(to - 1) :
             \E i \in 1..Len(s) : {j \in 1..Len(s) : m \in s[j].from..(s[j].to - 1)} = {i}
    BY <1>2, <1>3, ChainCovers
  <1>5. Len(s) \in Nat /\ DOMAIN s = 1..Len(s) /\ \A i \in 1..Len(s) : s[i].from \in Nat /\ s[i].to \in Nat
    BY <1>2, TimedTypes
  <1>6. ASSUME NEW m \in from..(to - 1)
        PROVE  \E p \in ToSet(s) : m \in p.from..(p.to - 1)
    <2>1. PICK i \in 1..Len(s) : {j \in 1..Len(s) : m \in s[j].from..(s[j].to - 1)} = {i}
      BY <1>4
    <2>2. m \in s[i].from..(s[i].to - 1)
      BY <2>1
    <2>3. s[i] \in ToSet(s)
      BY <1>5 DEF ToSet
    <2> QED BY <2>2, <2>3
  <1>7. ASSUME NEW p \in ToSet(s), NEW m \in p.from..(p.to - 1)
        PROVE  m \in from..(to - 1)
    <2>1. PICK i \in 1..Len(s) : p = s[i]
      BY <1>5 DEF ToSet
    <2>2. from <= p.from /\ p.to <= to /\ p.from \in Nat /\ p.to \in Nat
      BY <1>4, <1>5, <2>1
    <2> QED BY <1>3, <2>2
  <1>8. from..(to - 1) = UNION {p.from..(p.to - 1) : p \in ToSet(s)}
    BY <1>6, <1>7
  <1> QED BY <1>1, <1>3, <1>4, <1>8

\* The tables of the catalog, what requests hold and the sums of orders have
\* their types in every reachable state.
THEOREM TypeCorrect == Spec => []TypeOK
  <1>1. BInv => TypeOK
    <2> SUFFICES ASSUME BInv PROVE TypeOK
      OBVIOUS
    <2>1. CatalogTypeOK
      <3>1. PICK s : s = [category |-> category, good |-> good, includes |-> includes, combo |-> combo]
        OBVIOUS
      <3>2. s.category = category /\ s.good = good /\ s.includes = includes /\ s.combo = combo
        BY <3>1
      <3>3. Tables /\ (\A g \in Goods : GoodOK(g)) /\ \A k \in Combos : ComboOK(k)
        BY DEF BInv, CInv
      <3>4. \A g \in Goods : good[g] # None =>
              /\ good[g].category = None \/ category[good[g].category] = "kept"
              /\ g \in Products <=> good[g].duration = 0
        BY <3>3 DEF GoodOK
      <3>5. \A k \in Combos : combo[k] # None =>
              /\ \A p \in combo[k].parts : good[p.good] # None
              /\ \A p, q \in combo[k].parts : p.good = q.good => p = q
        BY <3>3 DEF ComboOK
      <3>6. IsCatalog(s)
        BY <3>2, <3>3, <3>4, <3>5 DEF IsCatalog, Tables
      <3> QED BY <3>1, <3>3, <3>6 DEF CatalogTypeOK, Tables
    <2>2. DOMAIN txn = Requests
      BY DEF BInv, CInv
    <2>3. ASSUME NEW r \in Requests, txn[r] \notin Edits
          PROVE  txn[r].op = "book" /\ BookingOK(txn[r])
      <3>1. PICK t : t = txn[r]
        OBVIOUS
      <3>2. t.op = "book" /\ BookOK(t, clock)
        BY <2>3, <3>1 DEF BInv, CInv, WorkOK, Bookings
      <3>3. ASSUME NEW i \in DOMAIN t.lines
            PROVE  t.lines[i].price \in Nat /\ t.lines[i].from <= t.lines[i].to
        <4>1. LineOK(t.lines[i])
          BY <3>2 DEF BookOK, LinesOK
        <4> QED BY <4>1, LineSpan
      <3> QED BY <3>1, <3>2, <3>3 DEF BookOK, BookingOK
    <2>4. ASSUME NEW o \in Placed PROVE order[o].total \in Nat /\ order[o].to \in Nat
      <3>1. OrderOK(order[o])
        BY DEF BInv, Bookings, Placed
      <3>2. PICK lines : lines = order[o].lines
        OBVIOUS
      <3>3. LinesOK(lines) /\ order[o].total = Charge(lines) /\ order[o].to = End(Visit(lines), 0)
        BY <3>1, <3>2 DEF OrderOK, LinesOK
      <3>4. Charge(lines) \in Nat /\ End(Visit(lines), 0) \in Nat
        BY <3>3, ChargeType, CursorIsEnd
      <3> QED BY <3>3, <3>4
    <2> QED BY <2>1, <2>2, <2>3, <2>4 DEF TypeOK
  <1> QED BY <1>1, BookingsInvariance, PTL

\* Whatever is edited while createBooking puts an order together, its total is
\* the sum of its rows, and a combo costs what the rows of its snapshot cost,
\* less a discount.
THEOREM TotalAlwaysExplained == Spec => []TotalExplained
  <1>1. BInv => TotalExplained
    <2> SUFFICES ASSUME BInv, NEW o \in Placed, NEW l, l = order[o].lines
                 PROVE  /\ order[o].total = SumFunction([i \in DOMAIN l |-> l[i].price * l[i].quantity])
                        /\ \A i \in DOMAIN l : l[i].kind = "combo" =>
                             \E d \in Discounts : l[i].price \in
                               Discounted(SumFunction([j \in DOMAIN l[i].parts |-> l[i].parts[j].price]), d)
      BY DEF TotalExplained
    <2>1. OrderOK(order[o])
      BY DEF BInv, Bookings, Placed
    <2>2. LinesOK(l) /\ order[o].total = Charge(l)
      BY <2>1 DEF OrderOK
    <2>3. order[o].total = SumFunction([i \in DOMAIN l |-> l[i].price * l[i].quantity])
      BY <2>2, ChargeType
    <2>4. ASSUME NEW i \in DOMAIN l, l[i].kind = "combo"
          PROVE  \E d \in Discounts : l[i].price \in
                   Discounted(SumFunction([j \in DOMAIN l[i].parts |-> l[i].parts[j].price]), d)
      <3>1. LineOK(l[i])
        BY <2>2 DEF LinesOK
      <3> QED BY <2>4, <3>1 DEF LineOK
    <2> QED BY <2>3, <2>4
  <1> QED BY <1>1, BookingsInvariance, PTL

\* Whatever durations are edited meanwhile, every minute of a visit belongs to
\* exactly one of the services bought, none lies outside of it, and the slot of
\* a combo is that of its parts (cursorMinutes and computeAppointmentEnd).
THEOREM SlotsAlwaysFillVisit == Spec => []SlotsFillVisit
  <1>1. BInv => SlotsFillVisit
    <2> SUFFICES ASSUME BInv, NEW o \in Placed, NEW l, l = order[o].lines, NEW v, v = Visit(l)
                 PROVE  /\ \A m \in 0..(order[o].to - 1) :
                             Cardinality({i \in DOMAIN v : m \in v[i].from..(v[i].to - 1)}) = 1
                        /\ \A i \in DOMAIN v : v[i].from >= 0 /\ v[i].to <= order[o].to
                        /\ \A k \in DOMAIN l :
                             l[k].from..(l[k].to - 1) =
                               UNION {p.from..(p.to - 1) : p \in ToSet(ServicesOf(l[k]))}
      BY DEF SlotsFillVisit
    <2>1. OrderOK(order[o])
      BY DEF BInv, Bookings, Placed
    <2>2. LinesOK(l) /\ v \in Seq(Timeds) /\ Chain(v, 0) /\ order[o].to = End(v, 0)
      BY <2>1 DEF OrderOK, LinesOK
    <2>3. DOMAIN v = 1..Len(v) /\ \A i \in 1..Len(v) : v[i].from \in Nat
      BY <2>2, TimedTypes
    <2>4. /\ \A i \in 1..Len(v) : 0 <= v[i].from /\ v[i].to <= End(v, 0)
          /\ \A m \in 0..(End(v, 0) - 1) :
               \E i \in 1..Len(v) : {j \in 1..Len(v) : m \in v[j].from..(v[j].to - 1)} = {i}
      BY <2>2, ChainCovers
    <2>5. ASSUME NEW m \in 0..(order[o].to - 1)
          PROVE  Cardinality({i \in DOMAIN v : m \in v[i].from..(v[i].to - 1)}) = 1
      <3>1. PICK e : e = End(v, 0)
        OBVIOUS
      <3>2. m \in 0..(e - 1)
        BY <2>2, <3>1
      <3>3. PICK i : {j \in 1..Len(v) : m \in v[j].from..(v[j].to - 1)} = {i}
        BY <2>4, <3>1, <3>2
      <3> QED BY <2>3, <3>3, FS_Singleton
    <2>6. ASSUME NEW i \in DOMAIN v PROVE v[i].from >= 0 /\ v[i].to <= order[o].to
      BY <2>2, <2>3, <2>4
    <2>7. ASSUME NEW k \in DOMAIN l
          PROVE  l[k].from..(l[k].to - 1) = UNION {p.from..(p.to - 1) : p \in ToSet(ServicesOf(l[k]))}
      <3>1. LineOK(l[k])
        BY <2>2 DEF LinesOK
      <3> QED BY <3>1, LineSpan
    <2> QED BY <2>5, <2>6, <2>7
  <1> QED BY <1>1, BookingsInvariance, PTL

\* Whatever dependencies come and go between the queries for the services of a
\* visit, no service is both in the cart and included, none is included twice,
\* and each has the slot of a service of the visit
\* (resolveAutoIncludeDepsForLines, collectAutoIncludeDeps).
THEOREM IncludedAlwaysOnce == Spec => []IncludedOnce
  <1>1. BInv => IncludedOnce
    <2> SUFFICES ASSUME BInv, NEW o \in Placed
                 PROVE  IncludedOK(Visit(order[o].lines), order[o].included)
      BY DEF IncludedOnce, IncludedOK
    <2> QED BY DEF BInv, Bookings, Placed, OrderOK
  <1> QED BY <1>1, BookingsInvariance, PTL

-----------------------------------------------------------------------------
(* The quote and the order that follows                                    *)

\* What the recursive definition of ResolveLines asks of a function of the
\* first n turns.
Resolves(found, items, n) ==
  found = [m \in 0..n |->
             IF m = 0 THEN {<<>>}
             ELSE UNION {{Append(lines, l) : l \in Resolve(items[m], Cursor(lines))} :
                           lines \in found[m - 1]}]

LEMMA ResolveLinesEquation ==
  ASSUME NEW items, Len(items) \in Nat
  PROVE  Resolves(ResolveLines(items), items, Len(items))
  <1> DEFINE turn(m, some) ==
               UNION {{Append(lines, l) : l \in Resolve(items[m], Cursor(lines))} : lines \in some}
             S == {n \in Nat : \E found : Resolves(found, items, n)}
  <1>1. 0 \in S
    <2> DEFINE e == [m \in 0..0 |-> {<<>>}]
    <2>1. e = [m \in 0..0 |-> IF m = 0 THEN {<<>>} ELSE turn(m, e[m - 1])]
      <3> HIDE DEF turn
      <3> QED OBVIOUS
    <2>2. Resolves(e, items, 0)
      BY <2>1 DEF Resolves
    <2> QED BY <2>2
  <1>2. ASSUME NEW n \in S PROVE n + 1 \in S
    <2>1. PICK found : Resolves(found, items, n)
      OBVIOUS
    <2> DEFINE next(m) == IF m = 0 THEN {<<>>} ELSE turn(m, found[m - 1])
               more == [m \in 0..(n + 1) |-> next(m)]
    <2>2. \A m \in 0..n : more[m] = found[m]
      <3>1. n \in Nat
        OBVIOUS
      <3>2. found = [m \in 0..n |-> next(m)]
        BY <2>1 DEF Resolves
      <3> HIDE DEF next, S
      <3>3. \A m \in 0..n : m \in 0..(n + 1)
        BY <3>1
      <3> QED BY <3>2, <3>3
    <2>3. \A m \in 0..(n + 1) : m # 0 => more[m - 1] = found[m - 1]
      <3> HIDE DEF more
      <3>1. \A m \in 0..(n + 1) : m # 0 => m - 1 \in 0..n
        OBVIOUS
      <3> QED BY <2>2, <3>1
    <2>4. \A m \in 0..(n + 1) : next(m) = IF m = 0 THEN {<<>>} ELSE turn(m, more[m - 1])
      <3> HIDE DEF more, turn
      <3> QED BY <2>3
    <2> DEFINE again == [m \in 0..(n + 1) |-> IF m = 0 THEN {<<>>} ELSE turn(m, more[m - 1])]
    <2>5. more = again
      <3> HIDE DEF next, turn
      <3> QED BY <2>4
    <2>6. Resolves(more, items, n + 1)
      BY <2>5 DEF Resolves
    <2> QED BY <2>6
  <1>3. \E found : Resolves(found, items, Len(items))
    <2> HIDE DEF S
    <2>1. S \in SUBSET Nat
      BY DEF S
    <2>2. S = Nat
      BY <1>1, <1>2, <2>1, SetInduction
    <2> QED BY <2>2 DEF S
  <1> QED BY <1>3 DEF ResolveLines, Resolves

LEMMA ResolveLinesSteps ==
  ASSUME NEW items, Len(items) \in Nat
  PROVE  /\ <<>> \in ResolveLines(items)[0]
         /\ \A n \in 1..Len(items) : \A lines \in ResolveLines(items)[n - 1] :
              \A l \in Resolve(items[n], Cursor(lines)) : Append(lines, l) \in ResolveLines(items)[n]
  <1>1. PICK found : found = ResolveLines(items)
    OBVIOUS
  <1>2. Resolves(found, items, Len(items))
    BY <1>1, ResolveLinesEquation
  <1> DEFINE turn(m) == UNION {{Append(lines, l) : l \in Resolve(items[m], Cursor(lines))} :
                                 lines \in found[m - 1]}
  <1>3. found = [m \in 0..Len(items) |-> IF m = 0 THEN {<<>>} ELSE turn(m)]
    BY <1>2 DEF Resolves
  <1>4. \A n \in 1..Len(items) : \A lines \in found[n - 1] :
          \A l \in Resolve(items[n], Cursor(lines)) : Append(lines, l) \in turn(n)
    OBVIOUS
  <1> HIDE DEF turn
  <1>5. <<>> \in found[0] /\ \A n \in 1..Len(items) : found[n] = turn(n)
    BY <1>3
  <1> QED BY <1>1, <1>4, <1>5

\* The same of IncludedSoFar.
Includes(found, v, n) ==
  found = [m \in 0..n |->
             IF m = 0 THEN {} ELSE found[m - 1] \cup IncludedWith(v, m, found[m - 1])]

LEMMA IncludedSoFarEquation ==
  ASSUME NEW v, Len(v) \in Nat
  PROVE  Includes(IncludedSoFar(v), v, Len(v))
  <1> DEFINE turn(m, some) == some \cup IncludedWith(v, m, some)
             S == {n \in Nat : \E found : Includes(found, v, n)}
  <1>1. 0 \in S
    <2> DEFINE e == [m \in 0..0 |-> {}]
    <2>1. e = [m \in 0..0 |-> IF m = 0 THEN {} ELSE turn(m, e[m - 1])]
      <3> HIDE DEF turn
      <3> QED OBVIOUS
    <2>2. Includes(e, v, 0)
      BY <2>1 DEF Includes
    <2> QED BY <2>2
  <1>2. ASSUME NEW n \in S PROVE n + 1 \in S
    <2>1. PICK found : Includes(found, v, n)
      OBVIOUS
    <2> DEFINE next(m) == IF m = 0 THEN {} ELSE turn(m, found[m - 1])
               more == [m \in 0..(n + 1) |-> next(m)]
    <2>2. \A m \in 0..n : more[m] = found[m]
      <3>1. n \in Nat
        OBVIOUS
      <3>2. found = [m \in 0..n |-> next(m)]
        BY <2>1 DEF Includes
      <3> HIDE DEF next, S
      <3>3. \A m \in 0..n : m \in 0..(n + 1)
        BY <3>1
      <3> QED BY <3>2, <3>3
    <2>3. \A m \in 0..(n + 1) : m # 0 => more[m - 1] = found[m - 1]
      <3> HIDE DEF more
      <3>1. \A m \in 0..(n + 1) : m # 0 => m - 1 \in 0..n
        OBVIOUS
      <3> QED BY <2>2, <3>1
    <2>4. \A m \in 0..(n + 1) : next(m) = IF m = 0 THEN {} ELSE turn(m, more[m - 1])
      <3> HIDE DEF more, turn
      <3> QED BY <2>3
    <2> DEFINE again == [m \in 0..(n + 1) |-> IF m = 0 THEN {} ELSE turn(m, more[m - 1])]
    <2>5. more = again
      <3> HIDE DEF next, turn
      <3> QED BY <2>4
    <2>6. Includes(more, v, n + 1)
      BY <2>5 DEF Includes
    <2> QED BY <2>6
  <1>3. \E found : Includes(found, v, Len(v))
    <2> HIDE DEF S
    <2>1. S \in SUBSET Nat
      BY DEF S
    <2>2. S = Nat
      BY <1>1, <1>2, <2>1, SetInduction
    <2> QED BY <2>2 DEF S
  <1> QED BY <1>3 DEF IncludedSoFar, Includes

LEMMA IncludedSoFarSteps ==
  ASSUME NEW v, Len(v) \in Nat
  PROVE  /\ IncludedSoFar(v)[0] = {}
         /\ \A n \in 1..Len(v) : IncludedSoFar(v)[n] =
              IncludedSoFar(v)[n - 1] \cup IncludedWith(v, n, IncludedSoFar(v)[n - 1])
  <1>1. PICK found : found = IncludedSoFar(v)
    OBVIOUS
  <1>2. Includes(found, v, Len(v))
    BY <1>1, IncludedSoFarEquation
  <1> DEFINE turn(m) == found[m - 1] \cup IncludedWith(v, m, found[m - 1])
  <1>3. found = [m \in 0..Len(v) |-> IF m = 0 THEN {} ELSE turn(m)]
    BY <1>2 DEF Includes
  <1>4. \A m : turn(m) = found[m - 1] \cup IncludedWith(v, m, found[m - 1])
    OBVIOUS
  <1> HIDE DEF turn
  <1>5. found[0] = {} /\ \A n \in 1..Len(v) : found[n] = turn(n)
    BY <1>3
  <1> QED BY <1>1, <1>4, <1>5

\* As long as the catalog does not change, a booking is one of those that the
\* quote considers.
FreshOK(t) ==
  /\ t.lines \in ResolveLines(t.cart.items)[Len(t.lines)]
  /\ \A i \in 1..Len(t.lines) : \E c : t.lines[i] \in Resolve(t.cart.items[i], c)
  /\ t.included = IncludedSoFar(Visit(t.lines))[t.looked]

Fresh ==
  \A t : \A r \in Requests : t = txn[r] /\ t.op = "book" /\ t.since = clock => FreshOK(t)

LEMMA FreshStays ==
  ASSUME NEW t, UNCHANGED catalogVars, FreshOK(t)
  PROVE  FreshOK(t)'
  <1>1. good' = good /\ combo' = combo /\ includes' = includes
    BY DEF catalogVars
  <1>2. \A asked, c : Resolve(asked, c)' = Resolve(asked, c)
    BY <1>1 DEF Resolve, OnSale, Exists, ResolveGood, ResolveCombo, ComboLine, Snapshot,
                GoodsOf, ComboPrice, Timed
  <1>3. ResolveLines(t.cart.items)' = ResolveLines(t.cart.items)
    BY <1>1 DEF ResolveLines, Resolve, OnSale, Exists, ResolveGood, ResolveCombo, ComboLine,
                Snapshot, GoodsOf, ComboPrice, Timed
  <1>4. IncludedSoFar(Visit(t.lines))' = IncludedSoFar(Visit(t.lines))
    BY <1>1 DEF IncludedSoFar, IncludedWith, Visit, ServicesOf, Performed, IsService
  <1> QED BY <1>2, <1>3, <1>4 DEF FreshOK

LEMMA FreshWritten ==
  ASSUME BInv, Fresh, UNCHANGED catalogVars, NEW r \in Requests, NEW t,
         t.op = "book" /\ t.since = clock => FreshOK(t), txn' = [txn EXCEPT ![r] = t]
  PROVE  Fresh'
  <1>1. DOMAIN txn = Requests /\ clock' = clock
    BY DEF BInv, CInv, catalogVars
  <1>2. ASSUME NEW s \in Requests, NEW u, u = txn'[s], u.op = "book", u.since = clock
        PROVE  FreshOK(u)'
    <2>1. CASE s = r
      <3>1. u = t
        BY <1>1, <1>2, <2>1
      <3> QED BY <1>2, <3>1, FreshStays
    <2>2. CASE s # r
      <3>1. u = txn[s]
        BY <1>1, <1>2, <2>2
      <3>2. FreshOK(u)
        BY <1>2, <3>1 DEF Fresh
      <3> QED BY <3>2, FreshStays
    <2> QED BY <2>1, <2>2
  <1> QED BY <1>1, <1>2 DEF Fresh

\* Once the catalog has changed, no booking has seen it as it is now.
LEMMA FreshChanged ==
  ASSUME BInv, Change, \A r \in Requests : txn'[r] = txn[r] \/ txn'[r].op # "book"
  PROVE  Fresh'
  <1>1. clock \in Nat /\ clock' = clock + 1
    BY CatalogAssumption DEF BInv, CInv, Tables, Change
  <1>2. ASSUME NEW r \in Requests, NEW t, t = txn'[r], t.op = "book" PROVE t.since # clock'
    <2>1. t = txn[r]
      BY <1>2
    <2>2. BookOK(t, clock)
      BY <1>2, <2>1 DEF BInv, Bookings
    <2>3. t.since \in 0..clock
      BY <2>2 DEF BookOK
    <2> QED BY <1>1, <2>3
  <1> QED BY <1>2 DEF Fresh

LEMMA MoreLines ==
  ASSUME CInv, NEW lines, LinesOK(lines), NEW asked \in Items,
         NEW line \in Resolve(asked, Cursor(lines))
  PROVE  LinesOK(Append(lines, line))
  <1>1. PICK c : c = Cursor(lines)
    OBVIOUS
  <1>2. c \in Nat
    BY <1>1, CursorIsEnd DEF LinesOK
  <1>3. LineOK(line) /\ line.from = c
    BY <1>1, <1>2, ResolveOK
  <1> QED BY <1>1, <1>3, LinesAppend

LEMMA NothingIncluded ==
  ASSUME NEW lines, LinesOK(lines)
  PROVE  IncludedSoFar(Visit(lines))[0] = {}
  <1>1. PICK v : v = Visit(lines)
    OBVIOUS
  <1>2. Len(v) \in Nat
    BY <1>1, TimedTypes DEF LinesOK
  <1> QED BY <1>1, <1>2, IncludedSoFarSteps

LEMMA FreshBegins ==
  ASSUME BInv, Fresh, NEW r \in Requests, NEW c \in Carts, BeginBooking(r, c)
  PROVE  Fresh'
  <1>1. PICK e, t : e = <<>> /\ t = [op |-> "book", cart |-> c, lines |-> e, included |-> {},
                                     looked |-> 0, since |-> clock]
    OBVIOUS
  <1>2. txn' = [txn EXCEPT ![r] = t] /\ UNCHANGED catalogVars
    BY <1>1 DEF BeginBooking
  <1>3. t.cart = c /\ t.lines = e /\ t.included = {} /\ t.looked = 0
    BY <1>1
  <1>4. Len(e) = 0 /\ 1..0 = {} /\ Len(c.items) \in Nat
    <2>1. \E S : c.items \in Seq(S)
      BY CartsAssumption DEF IsCart
    <2> QED BY <1>1, <2>1
  <1>5. <<>> \in ResolveLines(c.items)[0]
    BY <1>4, ResolveLinesSteps
  <1>6. IncludedSoFar(Visit(e))[0] = {}
    BY <1>1, NoLines, NothingIncluded
  <1>7. FreshOK(t)
    BY <1>1, <1>3, <1>4, <1>5, <1>6 DEF FreshOK
  <1> QED BY <1>2, <1>7, FreshWritten

LEMMA FreshLine ==
  ASSUME BInv, Fresh, NEW r \in Requests, ResolveLine(r)
  PROVE  Fresh'
  <1>1. PICK t, asked : t = txn[r] /\ asked = t.cart.items[Len(t.lines) + 1]
    OBVIOUS
  <1>2. PICK line \in Resolve(asked, Cursor(t.lines)) :
          txn' = [txn EXCEPT ![r].lines = Append(@, line)]
    BY <1>1 DEF ResolveLine
  <1>3. PICK lines, more, work, n : /\ lines = t.lines /\ more = Append(lines, line)
                                    /\ work = [t EXCEPT !.lines = more] /\ n = Len(lines)
    OBVIOUS
  <1>4. /\ t.op = "book" /\ Len(lines) < Len(t.cart.items) /\ UNCHANGED catalogVars
        /\ txn' = [txn EXCEPT ![r] = work]
    BY <1>1, <1>2, <1>3 DEF ResolveLine
  <1>5. BookOK(t, clock) /\ DOMAIN t = {"op", "cart", "lines", "included", "looked", "since"}
    <2>1. WorkOK(t)
      BY <1>1 DEF BInv, CInv
    <2> QED BY <1>1, <1>4, <2>1 DEF BInv, Bookings, WorkOK
  <1>6. /\ work.op = t.op /\ work.cart = t.cart /\ work.since = t.since /\ work.lines = more
        /\ work.included = t.included /\ work.looked = t.looked
    BY <1>3, <1>5
  <1>7. lines \in Seq(Lines) /\ t.cart.items \in Seq(Items)
    <2>1. LinesOK(lines) /\ t.cart \in Carts
      BY <1>3, <1>5 DEF BookOK
    <2> QED BY <2>1, CartsAssumption DEF LinesOK, IsCart, Items
  <1>8. n \in Nat /\ Len(t.cart.items) \in Nat /\ n + 1 \in 1..Len(t.cart.items) /\ n # Len(t.cart.items)
    <2>1. n \in Nat /\ Len(t.cart.items) \in Nat
      BY <1>3, <1>7
    <2> QED BY <1>3, <1>4, <2>1
  <1>9. /\ Len(more) = n + 1 /\ \A i \in 1..n : more[i] = lines[i]
        /\ more[n + 1] = line
    BY <1>3, <1>7, AppendProperties
  <1>10. t.looked = 0 /\ t.included = {} /\ IncludedSoFar(Visit(more))[0] = {}
    <2>1. LinesOK(more)
      <3>1. LinesOK(lines)
        BY <1>3, <1>5 DEF BookOK
      <3>2. asked \in Items
        BY <1>1, <1>3, <1>7, <1>8
      <3> QED BY <1>2, <1>3, <3>1, <3>2, MoreLines DEF BInv
    <2> QED BY <1>3, <1>5, <1>8, <2>1, NothingIncluded DEF BookOK
  <1>11. ASSUME work.since = clock PROVE FreshOK(work)
    <2>1. FreshOK(t)
      BY <1>1, <1>4, <1>6, <1>11 DEF Fresh
    <2>2. PICK found : found = ResolveLines(t.cart.items)
      OBVIOUS
    <2>3. lines \in found[n]
      BY <1>3, <2>1, <2>2 DEF FreshOK
    <2>4. \A m \in 1..Len(t.cart.items) : \A some \in found[m - 1] :
            \A l \in Resolve(t.cart.items[m], Cursor(some)) : Append(some, l) \in found[m]
      BY <1>8, <2>2, ResolveLinesSteps
    <2>5. PICK m : m = n + 1
      OBVIOUS
    <2>6. m \in 1..Len(t.cart.items) /\ m - 1 = n
      BY <1>8, <2>5
    <2>7. line \in Resolve(t.cart.items[m], Cursor(lines))
      BY <1>1, <1>2, <1>3, <2>5
    <2>8. more \in found[m]
      BY <1>3, <2>3, <2>4, <2>6, <2>7
    <2>9. \A i \in 1..m : \E c : more[i] \in Resolve(t.cart.items[i], c)
      <3> SUFFICES ASSUME NEW i \in 1..m PROVE \E c : more[i] \in Resolve(t.cart.items[i], c)
        OBVIOUS
      <3>1. CASE i = m
        BY <1>9, <2>5, <2>7, <3>1
      <3>2. CASE i # m
        <4>1. i \in 1..n
          BY <1>8, <2>5, <3>2
        <4>2. \E c : lines[i] \in Resolve(t.cart.items[i], c)
          BY <1>3, <2>1, <4>1 DEF FreshOK
        <4> QED BY <1>9, <4>1, <4>2
      <3> QED BY <3>1, <3>2
    <2> QED BY <1>6, <1>9, <1>10, <2>2, <2>5, <2>8, <2>9 DEF FreshOK
  <1> QED BY <1>4, <1>11, FreshWritten

LEMMA FreshIncluded ==
  ASSUME BInv, Fresh, NEW r \in Requests, ResolveIncluded(r)
  PROVE  Fresh'
  <1>1. PICK t, v, n, found, work :
          /\ t = txn[r] /\ v = Visit(t.lines) /\ n = t.looked + 1
          /\ found = t.included \cup IncludedWith(v, n, t.included)
          /\ work = [t EXCEPT !.looked = n, !.included = found]
    OBVIOUS
  <1>2. /\ t.op = "book" /\ txn' = [txn EXCEPT ![r] = work] /\ UNCHANGED catalogVars
        /\ n <= Len(v)
    BY <1>1 DEF ResolveIncluded
  <1>3. BookOK(t, clock) /\ DOMAIN t = {"op", "cart", "lines", "included", "looked", "since"}
    <2>1. WorkOK(t)
      BY <1>1 DEF BInv, CInv
    <2> QED BY <1>1, <1>2, <2>1 DEF BInv, Bookings, WorkOK
  <1>4. /\ work.op = t.op /\ work.cart = t.cart /\ work.since = t.since /\ work.lines = t.lines
        /\ work.looked = n /\ work.included = found
    BY <1>1, <1>3
  <1>5. Len(v) \in Nat /\ n \in 1..Len(v) /\ n - 1 = t.looked
    <2>1. t.looked \in Nat /\ Len(v) \in Nat
      BY <1>1, <1>3, TimedTypes DEF BookOK, LinesOK
    <2> QED BY <1>1, <1>2, <2>1
  <1>6. ASSUME work.since = clock PROVE FreshOK(work)
    <2>1. FreshOK(t)
      BY <1>1, <1>2, <1>4, <1>6 DEF Fresh
    <2>2. PICK so : so = IncludedSoFar(v)
      OBVIOUS
    <2>3. so[n] = so[n - 1] \cup IncludedWith(v, n, so[n - 1])
      BY <1>5, <2>2, IncludedSoFarSteps
    <2>4. t.included = so[n - 1]
      BY <1>1, <1>5, <2>1, <2>2 DEF FreshOK
    <2>5. found = so[n]
      BY <1>1, <2>3, <2>4
    <2> QED BY <1>1, <1>4, <2>1, <2>2, <2>5 DEF FreshOK
  <1> QED BY <1>2, <1>6, FreshWritten

LEMMA FreshNext == BInv /\ Fresh /\ [Next]_vars => Fresh'
  <1> SUFFICES ASSUME BInv, Fresh, [Next]_vars PROVE Fresh'
    OBVIOUS
  <1>1. DOMAIN txn = Requests
    BY DEF BInv, CInv
  <1>2. CASE Edit /\ UNCHANGED order
    BY <1>2, EditKeeps, FreshChanged
  <1>3. CASE \E r \in Requests : EditStep(r) /\ UNCHANGED order
    <2>1. PICK r \in Requests : EditStep(r)
      BY <1>3
    <2>2. PICK t : t.op # "book" /\ txn' = [txn EXCEPT ![r] = t]
      BY <2>1, EditStepKeeps
    <2>3. \A s \in Requests : txn'[s] = txn[s] \/ txn'[s].op # "book"
      BY <1>1, <2>2
    <2>4. UNCHANGED catalogVars => Fresh'
      BY <2>2, FreshWritten
    <2>5. Change => Fresh'
      BY <2>3, FreshChanged
    <2> QED BY <2>1, <2>4, <2>5, EditStepKeeps
  <1>4. CASE \E r \in Customers, c \in Carts : BeginBooking(r, c)
    BY <1>4, CustomersAssumption, FreshBegins
  <1>5. CASE \E r \in Requests : ResolveLine(r) \/ ResolveIncluded(r)
    BY <1>5, FreshLine, FreshIncluded
  <1>6. CASE \E r \in Requests, o \in Orders : InsertOrder(r, o)
    <2>1. PICK r \in Requests, o \in Orders : InsertOrder(r, o)
      BY <1>6
    <2>2. Idle.op # "book"
      BY DEF Idle
    <2>3. txn' = [txn EXCEPT ![r] = Idle] /\ UNCHANGED catalogVars
      BY <2>1 DEF InsertOrder
    <2> QED BY <2>2, <2>3, FreshWritten
  <1>7. CASE UNCHANGED vars
    <2>1. txn' = txn /\ clock' = clock /\ UNCHANGED catalogVars
      BY <1>7 DEF vars, catalogVars
    <2>2. ASSUME NEW r \in Requests, NEW t, t = txn'[r], t.op = "book", t.since = clock'
          PROVE  FreshOK(t)'
      <3>1. FreshOK(t)
        BY <2>1, <2>2 DEF Fresh
      <3> QED BY <2>1, <3>1, FreshStays
    <2> QED BY <2>2 DEF Fresh
  <1> QED BY <1>2, <1>3, <1>4, <1>5, <1>6, <1>7 DEF Next

LEMMA FreshInvariance == Spec => [](BInv /\ Fresh)
  <1>1. Init => BInv /\ Fresh
    <2> SUFFICES ASSUME Init PROVE BInv /\ Fresh
      OBVIOUS
    <2>1. BInv
      BY InitInv, BookingsInit DEF BInv
    <2>2. txn = [r \in Requests |-> Idle] /\ Idle.op # "book"
      BY DEF Init, CatalogInit, Idle
    <2> QED BY <2>1, <2>2 DEF Fresh
  <1> QED BY <1>1, BookingsNext, FreshNext, PTL DEF Spec

\* The duration of a quote is the time until the end of the appointment.
LEMMA DurationIsEnd ==
  ASSUME NEW lines \in Seq(Lines)
  PROVE  SumLinesDuration(lines) = AppointmentEnd(lines)
  <1>1. PICK n, I, f, g :
          /\ n = Len(lines) /\ I = {j \in DOMAIN lines : lines[j].kind # "product"}
          /\ f = [i \in I |-> lines[i].duration]
          /\ g = [i \in DOMAIN lines |-> IF lines[i].kind = "product" THEN 0 ELSE lines[i].duration]
    OBVIOUS
  <1>2. n \in Nat /\ DOMAIN lines = 1..n /\ \A i \in 1..n : lines[i].duration \in Nat
    <2>1. \A x \in Lines : x.duration \in Nat
      BY DEF Lines
    <2> QED BY <1>1, <2>1
  <1>3. I \in SUBSET (1..n) /\ DOMAIN f = I /\ DOMAIN g = 1..n
    BY <1>1, <1>2
  <1>4. IsFiniteSet(1..n) /\ IsFiniteSet(I)
    <2>1. IsFiniteSet(1..n)
      BY <1>2, FS_Interval
    <2> QED BY <1>3, <2>1, FS_Subset
  <1>5. \A i \in 1..n : g[i] \in Nat /\ (i \notin I => g[i] = 0)
    BY <1>1, <1>2
  <1>6. \A i \in I : f[i] \in Nat /\ g[i] = f[i]
    BY <1>1, <1>2, <1>3
  <1>7. SumFunctionOnSet(g, 1..n) = SumFunctionOnSet(g, I)
    BY <1>3, <1>4, <1>5, SumZeros
  <1>8. SumFunctionOnSet(f, I) = SumFunctionOnSet(g, I)
    BY <1>4, <1>6, SumSame
  <1>9. SumLinesDuration(lines) = SumFunctionOnSet(g, 1..n)
    BY <1>1, <1>3 DEF SumLinesDuration, SumFunction
  <1>10. AppointmentEnd(lines) = SumFunctionOnSet(f, I)
    BY <1>1, <1>3 DEF AppointmentEnd, SumFunction
  <1> QED BY <1>7, <1>8, <1>9, <1>10

\* What is shown of a thing is what a line of it holds.
LEMMA ShownIsResolved ==
  ASSUME CInv, NEW asked \in Items, NEW c, NEW line \in Resolve(asked, c),
         NEW s \in ShopProfile, s.kind = line.kind, s.id = line.id
  PROVE  line.price \in s.prices /\ line.duration = s.duration
  <1> DEFINE lasts(k) == SumFunction([p \in combo[k].parts |-> good[p.good].duration])
             shown(k) == [kind |-> "combo", id |-> k, prices |-> ComboPrice(combo[k]),
                          duration |-> lasts(k)]
  <1>0. \A x \in ShownCombos : \E k : x = shown(k)
    <2>1. ShownCombos = {shown(k) : k \in {h \in Combos : OnSale(h, combo)}}
      BY DEF ShownCombos
    <2> HIDE DEF shown
    <2> QED BY <2>1
  <1> HIDE DEF lasts
  <1>1. CASE asked.kind # "combo"
    <2>1. line \in ResolveGood(asked, c)
      BY <1>1 DEF Resolve
    <2>2. PICK g, p, d : g = asked.id /\ p = good[g].price /\ d = good[g].duration
      OBVIOUS
    <2>3. line.kind = asked.kind /\ line.id = g /\ line.price = p /\ line.duration = d
      BY <2>1, <2>2 DEF ResolveGood, Timed
    <2>4. s \in ShownGoods
      <3>1. \A x \in ShownCombos : x.kind = "combo"
        BY <1>0
      <3> QED BY <1>1, <2>3, <3>1 DEF ShopProfile
    <2>5. \A x \in ShownGoods : x.prices = {good[x.id].price} /\ x.duration = good[x.id].duration
      BY DEF ShownGoods
    <2>6. s.prices = {p} /\ s.duration = d
      BY <2>2, <2>3, <2>4, <2>5
    <2> QED BY <2>3, <2>6
  <1>2. CASE asked.kind = "combo"
    <2>1. PICK k, parts, goods : k = asked.id /\ parts = combo[k].parts /\ goods = GoodsOf(k)
      OBVIOUS
    <2>2. k \in Combos /\ combo[k] # None /\ line \in ResolveCombo(asked, c)
      BY <1>2, <2>1 DEF Items, Asked, Resolve, OnSale, Exists
    <2>3. PartsOK(parts, goods)
      BY <2>1, <2>2, PartsOfCombo
    <2>4. PICK g \in SetToSeqs(goods), price \in ComboPrice(combo[k]) : line = ComboLine(k, c, Snapshot(g, c), price)
      BY <2>1, <2>2 DEF ResolveCombo
    <2>5. /\ line.kind = "combo" /\ line.id = k /\ line.price = price
          /\ line.duration = SumFunction([x \in goods |-> good[x].duration])
      BY <2>1, <2>4 DEF ComboLine
    <2>6. s \in ShownCombos
      <3>1. \A x \in ShownGoods : x.kind # "combo"
        BY DEF ShownGoods
      <3> QED BY <2>5, <3>1 DEF ShopProfile
    <2>7. /\ s.prices = ComboPrice(combo[k])
          /\ s.duration = SumFunction([p \in parts |-> good[p.good].duration])
      <3>1. PICK h : s = shown(h)
        BY <1>0, <2>6
      <3>2. s.id = h /\ s.prices = ComboPrice(combo[h]) /\ s.duration = lasts(h)
        BY <3>1
      <3> QED BY <2>1, <2>5, <3>2 DEF lasts
    <2>8. SumFunction([p \in parts |-> good[p.good].duration]) =
            SumFunction([x \in goods |-> good[x].duration])
      <3>1. PICK f, h, F : /\ f = [p \in parts |-> good[p.good].duration]
                           /\ h = [p \in parts |-> p.good]
                           /\ F = [x \in goods |-> good[x].duration]
        OBVIOUS
      <3>2. IsFiniteSet(parts) /\ IsFiniteSet(goods) /\ \A x \in goods : F[x] \in Nat
        <4>1. IsFiniteSet(parts) /\ IsFiniteSet(goods) /\ \A x \in goods : x \in Goods /\ good[x] # None
          BY <2>3 DEF PartsOK
        <4> QED BY <3>1, <4>1, GoodTypes
      <3>3. /\ h \in [parts -> goods]
            /\ \A p, q \in parts : h[p] = h[q] => p = q
            /\ \A x \in goods : \E p \in parts : h[p] = x
        BY <2>3, <3>1 DEF PartsOK
      <3>4. \A p \in parts : f[p] \in Nat /\ F[h[p]] = f[p]
        BY <3>1, <3>2, <3>3
      <3>5. SumFunctionOnSet(f, parts) = SumFunctionOnSet(F, goods)
        BY <3>2, <3>3, <3>4, SumBijection
      <3>6. DOMAIN f = parts /\ DOMAIN F = goods
        BY <3>1
      <3> QED BY <3>1, <3>5, <3>6 DEF SumFunction
    <2> QED BY <2>5, <2>7, <2>8
  <1> QED BY <1>1, <1>2

\* What is inserted is one of the quotes for the cart, if nothing has changed.
LEMMA InsertedIsQuoted ==
  ASSUME BInv, NEW t, BookOK(t, clock), FreshOK(t), Resolved(t),
         NEW row, row = [lines |-> t.lines, included |-> t.included,
                         total |-> Charge(t.lines), to |-> AppointmentEnd(t.lines)]
  PROVE  /\ \E q \in Quotes(t.cart) : IsQuoted(row, q)
         /\ \A i \in DOMAIN row.lines : \A s \in ShopProfile :
              LET l == row.lines[i] IN
              s.kind = l.kind /\ s.id = l.id => l.price \in s.prices /\ l.duration = s.duration
  <1>1. PICK lines, items, n : lines = t.lines /\ items = t.cart.items /\ n = Len(lines)
    OBVIOUS
  <1>2. /\ row.lines = lines /\ row.included = t.included
        /\ row.total = Charge(lines) /\ row.to = AppointmentEnd(lines)
    BY <1>1
  <1>3. lines \in Seq(Lines) /\ items \in Seq(Items) /\ Len(items) = n
    <2>1. LinesOK(lines) /\ t.cart \in Carts /\ Len(items) = n
      BY <1>1 DEF BookOK, Resolved
    <2> QED BY <1>1, <2>1, CartsAssumption DEF LinesOK, IsCart, Items
  <1>4. n \in Nat /\ DOMAIN lines = 1..n
    BY <1>1, <1>3
  <1>5. lines \in ResolveLines(items)[Len(items)] /\ t.included = Included(lines)
    BY <1>1, <1>3 DEF FreshOK, Resolved, Included
  <1>6. PICK ql, q : /\ ql = [i \in DOMAIN lines |-> QuoteLine(lines[i])]
                     /\ q = [total |-> Charge(lines), duration |-> SumLinesDuration(lines),
                             lines |-> ql, included |-> Included(lines)]
    OBVIOUS
  <1>7. q \in Quotes(t.cart)
    BY <1>1, <1>5, <1>6 DEF Quotes
  <1>8. IsQuoted(row, q)
    <2>1. /\ q.total = Charge(lines) /\ q.duration = SumLinesDuration(lines)
          /\ q.lines = ql /\ q.included = Included(lines)
      BY <1>6
    <2>2. row.total = q.total /\ row.to = q.duration /\ row.included = q.included
      BY <1>2, <1>3, <1>5, <2>1, DurationIsEnd
    <2>3. DOMAIN ql = DOMAIN lines
      BY <1>6
    <2>4. ASSUME NEW i \in DOMAIN lines
          PROVE  /\ ql[i].line_total = LineTotal(lines[i]) /\ ql[i].id = lines[i].id
                 /\ ql[i].from = lines[i].from /\ ql[i].to = lines[i].to
      <3>1. ql[i] = QuoteLine(lines[i])
        BY <1>6
      <3> QED BY <3>1 DEF QuoteLine, LineTotal
    <2>5. row.total = SumFunction([i \in DOMAIN q.lines |-> q.lines[i].line_total])
      <3>1. [i \in DOMAIN ql |-> ql[i].line_total] = [i \in DOMAIN lines |-> LineTotal(lines[i])]
        BY <2>3, <2>4
      <3> QED BY <1>2, <2>1, <3>1 DEF Charge
    <2> QED BY <1>2, <2>1, <2>2, <2>3, <2>4, <2>5 DEF IsQuoted
  <1>9. ASSUME NEW i \in DOMAIN lines, NEW s \in ShopProfile, NEW l, l = lines[i],
               s.kind = l.kind, s.id = l.id
        PROVE  l.price \in s.prices /\ l.duration = s.duration
    <2>1. PICK c : l \in Resolve(items[i], c)
      BY <1>1, <1>4, <1>9 DEF FreshOK
    <2>2. items[i] \in Items
      BY <1>3, <1>4
    <2> QED BY <1>9, <2>1, <2>2, ShownIsResolved DEF BInv
  <1> QED BY <1>2, <1>7, <1>8, <1>9

\* The total and the lines that are quoted, and the prices that the shop shows,
\* are those that the order keeps, if the catalog does not change from the
\* beginning of the booking to its end (quoteBooking, getShopProfile and
\* createBooking).
THEOREM QuotedAlwaysCharged == Spec => QuotedIsCharged
  <1>1. BInv /\ Fresh /\ [Next]_vars =>
          [\A o \in Orders : \A r \in Requests :
             /\ order[o] = None /\ order'[o] # None /\ txn[r].op = "book" /\ txn'[r] = Idle
             /\ txn[r].since = clock
             => /\ \E q \in Quotes(txn[r].cart) : IsQuoted(order'[o], q)
                /\ \A i \in DOMAIN order'[o].lines : \A s \in ShopProfile :
                     LET l == order'[o].lines[i] IN
                     s.kind = l.kind /\ s.id = l.id =>
                       l.price \in s.prices /\ l.duration = s.duration]_<<order, txn>>
    <2> SUFFICES ASSUME BInv, Fresh, [Next]_vars, NEW o \in Orders, NEW r \in Requests,
                        order[o] = None, order'[o] # None, txn[r].op = "book", txn'[r] = Idle,
                        txn[r].since = clock
                 PROVE  /\ \E q \in Quotes(txn[r].cart) : IsQuoted(order'[o], q)
                        /\ \A i \in DOMAIN order'[o].lines : \A s \in ShopProfile :
                             LET l == order'[o].lines[i] IN
                             s.kind = l.kind /\ s.id = l.id =>
                               l.price \in s.prices /\ l.duration = s.duration
      OBVIOUS
    <2>1. DOMAIN txn = Requests /\ DOMAIN order = Orders
      BY DEF BInv, CInv, Bookings
    <2>2. \E s \in Requests, p \in Orders : InsertOrder(s, p)
      BY DEF Next, BeginBooking, ResolveLine, ResolveIncluded, vars
    <2>3. PICK s \in Requests, p \in Orders : InsertOrder(s, p)
      BY <2>2
    <2>4. p = o
      BY <2>1, <2>3 DEF InsertOrder
    <2>5. s = r
      <3>1. Idle.op # "book" /\ txn' = [txn EXCEPT ![s] = Idle]
        BY <2>3 DEF InsertOrder, Idle
      <3> QED BY <2>1, <3>1
    <2>6. PICK t, row : /\ t = txn[r]
                        /\ row = [lines |-> t.lines, included |-> t.included,
                                  total |-> Charge(t.lines), to |-> AppointmentEnd(t.lines)]
      OBVIOUS
    <2>7. Resolved(t) /\ order'[o] = row
      BY <2>1, <2>3, <2>4, <2>5, <2>6 DEF InsertOrder
    <2>8. BookOK(t, clock) /\ FreshOK(t)
      BY <2>6 DEF BInv, Bookings, Fresh
    <2> HIDE DEF FreshOK
    <2> QED BY <2>6, <2>7, <2>8, InsertedIsQuoted
  <1> QED BY <1>1, FreshInvariance, PTL DEF Spec, QuotedIsCharged
=============================================================================
