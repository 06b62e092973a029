------------------------ MODULE StaffCalendarProofs ------------------------
(***************************************************************************)
(* Proofs about StaffCalendar, for any orders, requests, staff, services,  *)
(* carts and schedules.                                                    *)
(***************************************************************************)
EXTENDS StaffCalendar, SumTheorems

-----------------------------------------------------------------------------
(* The hours of a cart                                                     *)

\* What the recursive definition of StartOf asks of a function of the first n
\* lines.
Follows(at, cart, start, n) ==
  at = [m \in 1..n |->
          IF m = 1 THEN start ELSE at[m - 1] + Duration[cart[m - 1].service]]

LEMMA StartOfEquation ==
  ASSUME NEW cart \in Seq(Lines), NEW start \in Nat
  PROVE  Follows(StartOf(cart, start), cart, start, Len(cart))
  <1> DEFINE dur(m) == Duration[cart[m - 1].service]
             S == {n \in Nat : \E at : Follows(at, cart, start, n)}
  <1>1. 0 \in S
    <2> DEFINE e == [m \in 1..0 |-> start]
    <2>1. e = [m \in 1..0 |-> IF m = 1 THEN start ELSE e[m - 1] + dur(m)]
      OBVIOUS
    <2> QED BY <2>1 DEF Follows
  <1>2. ASSUME NEW n \in S PROVE n + 1 \in S
    <2>1. PICK at : Follows(at, cart, start, n)
      OBVIOUS
    <2> DEFINE next(m) == IF m = 1 THEN start ELSE at[m - 1] + dur(m)
               more == [m \in 1..(n + 1) |-> next(m)]
    <2>2. \A m \in 1..n : more[m] = at[m]
      BY <2>1 DEF Follows
    <2>3. \A m \in 1..(n + 1) : m # 1 => more[m - 1] = at[m - 1]
      <3> HIDE DEF more
      <3>1. \A m \in 1..(n + 1) : m # 1 => m - 1 \in 1..n
        OBVIOUS
      <3> QED BY <2>2, <3>1
    <2>4. \A m \in 1..(n + 1) :
            next(m) = IF m = 1 THEN start ELSE more[m - 1] + dur(m)
      BY <2>3
    <2> DEFINE again == [m \in 1..(n + 1) |-> IF m = 1 THEN start ELSE more[m - 1] + dur(m)]
    <2>5. more = again
      <3> HIDE DEF next
      <3> QED BY <2>4
    <2>6. Follows(more, cart, start, n + 1)
      BY <2>5 DEF Follows
    <2> QED BY <2>6
  <1>3. Len(cart) \in S
    <2> HIDE DEF S
    <2>1. S \in SUBSET Nat
      BY DEF S
    <2>2. S = Nat
      BY <1>1, <1>2, <2>1, SetInduction
    <2> QED BY <2>2
  <1>4. \E at : Follows(at, cart, start, Len(cart))
    BY <1>3
  <1>5. DOMAIN cart = 1..Len(cart)
    OBVIOUS
  <1> QED BY <1>4, <1>5 DEF StartOf, Follows

LEMMA LineTypes ==
  ASSUME NEW cart \in Seq(Lines), NEW n \in DOMAIN cart
  PROVE  /\ cart[n] \in Lines /\ cart[n].service \in Services
         /\ cart[n].kind \in {"service", "component"}
         /\ cart[n].staff \in Staff \cup {Nobody, AnyFree}
         /\ Duration[cart[n].service] \in Nat \ {0}
  <1>1. cart[n] \in Lines
    OBVIOUS
  <1> QED BY <1>1, DurationAssumption DEF Lines

\* A line begins when the one before it ends.
LEMMA StartOfSteps ==
  ASSUME NEW cart \in Seq(Lines), NEW start \in Nat
  PROVE  LET at == StartOf(cart, start) IN
         /\ \A n \in DOMAIN cart : at[n] \in Nat
         /\ 1 \in DOMAIN cart => at[1] = start
         /\ \A n \in DOMAIN cart : n + 1 \in DOMAIN cart =>
              at[n + 1] = at[n] + Duration[cart[n].service]
  <1> DEFINE at == StartOf(cart, start)
  <1>1. DOMAIN cart = 1..Len(cart) /\ Len(cart) \in Nat
    OBVIOUS
  <1>2. \A m \in 1..Len(cart) :
          at[m] = IF m = 1 THEN start ELSE at[m - 1] + Duration[cart[m - 1].service]
    BY StartOfEquation DEF Follows
  <1>3. \A n \in DOMAIN cart : Duration[cart[n].service] \in Nat
    BY LineTypes
  <1> HIDE DEF at
  <1>4. 1 \in DOMAIN cart => at[1] = start
    BY <1>1, <1>2
  <1>5. ASSUME NEW n \in DOMAIN cart, n + 1 \in DOMAIN cart
        PROVE  at[n + 1] = at[n] + Duration[cart[n].service]
    BY <1>1, <1>2, <1>5
  <1>6. \A n \in DOMAIN cart : at[n] \in Nat
    <2> DEFINE S == {n \in Nat : n + 1 \in DOMAIN cart => at[n + 1] \in Nat}
    <2>1. 0 \in S
      BY <1>4
    <2>2. ASSUME NEW n \in S PROVE n + 1 \in S
      <3> SUFFICES ASSUME n + 2 \in DOMAIN cart PROVE at[n + 2] \in Nat
        OBVIOUS
      <3>1. n + 1 \in DOMAIN cart
        BY <1>1
      <3>2. at[n + 1] \in Nat
        BY <3>1
      <3>3. at[n + 2] = at[n + 1] + Duration[cart[n + 1].service]
        BY <1>5, <3>1
      <3> QED BY <1>3, <3>1, <3>2, <3>3
    <2> HIDE DEF S
    <2>3. S \in SUBSET Nat
      BY DEF S
    <2>4. S = Nat
      BY <2>1, <2>2, <2>3, SetInduction
    <2>5. ASSUME NEW n \in DOMAIN cart PROVE at[n] \in Nat
      <3>1. n - 1 \in Nat /\ (n - 1) + 1 = n
        BY <1>1
      <3> QED BY <2>4, <3>1 DEF S
    <2> QED BY <2>5
  <1> QED BY <1>4, <1>5, <1>6 DEF at

\* Lines are served one after the other.
LEMMA StartOfOrders ==
  ASSUME NEW cart \in Seq(Lines), NEW start \in Nat,
         NEW n \in DOMAIN cart, NEW m \in DOMAIN cart, n < m
  PROVE  StartOf(cart, start)[n] + Duration[cart[n].service] <= StartOf(cart, start)[m]
  <1> DEFINE at == StartOf(cart, start)
             S == {k \in Nat : n + k + 1 \in DOMAIN cart =>
                     at[n] + Duration[cart[n].service] <= at[n + k + 1]}
  <1>1. DOMAIN cart = 1..Len(cart) /\ Len(cart) \in Nat
    OBVIOUS
  <1>2. \A k \in DOMAIN cart : Duration[cart[k].service] \in Nat /\ at[k] \in Nat
    BY LineTypes, StartOfSteps
  <1>3. \A k \in DOMAIN cart : k + 1 \in DOMAIN cart =>
          at[k + 1] = at[k] + Duration[cart[k].service]
    BY StartOfSteps
  <1> HIDE DEF at
  <1>4. 0 \in S
    <2>1. n + 0 + 1 = n + 1
      BY <1>1
    <2>2. n + 1 \in DOMAIN cart => at[n] + Duration[cart[n].service] <= at[n + 1]
      BY <1>2, <1>3
    <2> QED BY <2>1, <2>2
  <1>5. ASSUME NEW k \in S PROVE k + 1 \in S
    <2> SUFFICES ASSUME n + (k + 1) + 1 \in DOMAIN cart
                 PROVE  at[n] + Duration[cart[n].service] <= at[n + (k + 1) + 1]
      OBVIOUS
    <2>1. PICK j \in DOMAIN cart : j = n + k + 1
      BY <1>1
    <2>2. j + 1 = n + (k + 1) + 1
      BY <1>1, <2>1
    <2>3. at[n] + Duration[cart[n].service] <= at[j]
      BY <2>1
    <2>4. at[j + 1] = at[j] + Duration[cart[j].service] /\ j + 1 \in DOMAIN cart
      BY <1>3, <2>2
    <2>5. /\ at[j] \in Nat /\ Duration[cart[j].service] \in Nat
          /\ at[n] \in Nat /\ Duration[cart[n].service] \in Nat
      BY <1>2
    <2>6. at[n] + Duration[cart[n].service] <= at[j + 1]
      <3> HIDE DEF S
      <3>1. \A a, b, d, e \in Nat : a + d <= b => a + d <= b + e
        OBVIOUS
      <3> QED BY <2>3, <2>4, <2>5, <3>1, Zenon
    <2> QED BY <2>2, <2>6
  <1> HIDE DEF S
  <1>6. S = Nat
    <2>1. S \in SUBSET Nat
      BY DEF S
    <2> QED BY <1>4, <1>5, <2>1, SetInduction
  <1>7. m - n - 1 \in Nat /\ n + (m - n - 1) + 1 = m
    BY <1>1
  <1> QED BY <1>6, <1>7 DEF S, at

\* What resolveLines makes of a cart: slots of the shop's services, one after
\* the other.
LEMMA ItemsInOrder ==
  ASSUME NEW cart \in Carts, NEW start \in Starts
  PROVE  LET items == Items(cart, start) IN
         /\ Len(cart) \in Nat \ {0} /\ DOMAIN cart = 1..Len(cart) /\ cart \in Seq(Lines)
         /\ Cardinality(DOMAIN items) = Len(cart) /\ DOMAIN items = DOMAIN cart
         /\ \A n \in DOMAIN cart :
              /\ items[n] \in Row /\ items[n].kind = cart[n].kind /\ items[n].kind # "dependency"
              /\ items[n].service = cart[n].service
              /\ items[n].from < items[n].to
              /\ items[1].from <= items[n].from
              /\ items[n].to <= items[Len(cart)].to
         /\ \A n, m \in DOMAIN cart : n < m => items[n].to <= items[m].from
         /\ \A n, m \in DOMAIN cart : items[n].from = items[m].from => n = m
  <1> DEFINE items == Items(cart, start)
             at == StartOf(cart, start)
  <1>1. cart \in Seq(Lines) /\ cart # <<>> /\ start \in Nat
    BY CartsAssumption, DayAssumption
  <1>2. Len(cart) \in Nat \ {0} /\ DOMAIN cart = 1..Len(cart)
    BY <1>1
  <1>3. DOMAIN items = DOMAIN cart
    BY DEF Items
  <1>4. Cardinality(DOMAIN items) = Len(cart)
    BY <1>2, <1>3, FS_Interval
  <1>5. \A n \in DOMAIN cart : at[n] \in Nat /\ Duration[cart[n].service] \in Nat \ {0}
    BY <1>1, StartOfSteps, LineTypes
  <1>6. \A n, m \in DOMAIN cart : n < m => at[n] + Duration[cart[n].service] <= at[m]
    BY <1>1, StartOfOrders
  <1>7. \A n \in DOMAIN cart :
          /\ items[n].from = at[n] /\ items[n].to = at[n] + Duration[cart[n].service]
          /\ items[n].kind = cart[n].kind /\ items[n].service = cart[n].service
    BY DEF Items
  <1>14. \A n \in DOMAIN cart :
           items[n] = [kind |-> cart[n].kind, service |-> cart[n].service,
                       from |-> at[n], to |-> at[n] + Duration[cart[n].service]]
    BY DEF Items
  <1> HIDE DEF items, at
  <1>8. \A n \in DOMAIN cart : items[n].from \in Nat /\ items[n].to \in Nat /\ items[n].from < items[n].to
    <2> SUFFICES ASSUME NEW n \in DOMAIN cart
                 PROVE  items[n].from \in Nat /\ items[n].to \in Nat /\ items[n].from < items[n].to
      OBVIOUS
    <2>1. at[n] \in Nat /\ Duration[cart[n].service] \in Nat \ {0}
      BY <1>5
    <2> QED BY <1>7, <2>1
  <1>9. \A n, m \in DOMAIN cart : n < m => items[n].to <= items[m].from
    BY <1>6, <1>7
  <1>10. \A n \in DOMAIN cart : items[n] \in Row /\ items[n].kind # "dependency"
    <2> SUFFICES ASSUME NEW n \in DOMAIN cart PROVE items[n] \in Row /\ items[n].kind # "dependency"
      OBVIOUS
    <2>1. cart[n].service \in Services /\ cart[n].kind \in {"service", "component"}
      BY <1>1, LineTypes
    <2>2. at[n] \in Nat /\ at[n] + Duration[cart[n].service] \in Nat
      BY <1>5
    <2>3. PICK k \in {"service", "component"}, v \in Services, a \in Nat, b \in Nat :
            items[n] = [kind |-> k, service |-> v, from |-> a, to |-> b]
      BY <1>14, <2>1, <2>2
    <2> QED BY <2>3 DEF Row
  <1>11. \A n \in DOMAIN cart : items[1].from <= items[n].from
    <2> SUFFICES ASSUME NEW n \in DOMAIN cart PROVE items[1].from <= items[n].from
      OBVIOUS
    <2>1. 1 \in DOMAIN cart /\ n \in Nat /\ (n = 1 \/ 1 < n)
      BY <1>2
    <2> QED BY <1>8, <1>9, <2>1
  <1>12. \A n \in DOMAIN cart : items[n].to <= items[Len(cart)].to
    <2> SUFFICES ASSUME NEW n \in DOMAIN cart PROVE items[n].to <= items[Len(cart)].to
      OBVIOUS
    <2>1. Len(cart) \in DOMAIN cart /\ (n = Len(cart) \/ n < Len(cart))
      BY <1>2
    <2> QED BY <1>8, <1>9, <2>1
  <1>13. \A n, m \in DOMAIN cart : items[n].from = items[m].from => n = m
    <2> SUFFICES ASSUME NEW n \in DOMAIN cart, NEW m \in DOMAIN cart,
                        items[n].from = items[m].from, n # m
                 PROVE  FALSE
      OBVIOUS
    <2>1. n < m \/ m < n
      BY <1>2
    <2> QED BY <1>8, <1>9, <2>1
  <1> QED BY <1>1, <1>2, <1>3, <1>4, <1>7, <1>8, <1>9, <1>10, <1>11, <1>12, <1>13 DEF items

\* Lines leave no time between them.
LEMMA LinesCover ==
  ASSUME NEW cart \in Carts, NEW start \in Starts,
         NEW n \in DOMAIN cart, NEW m \in DOMAIN cart,
         NEW t \in Int, Items(cart, start)[n].from <= t, t < Items(cart, start)[m].to
  PROVE  \E k \in DOMAIN cart :
           Items(cart, start)[k].from <= t /\ t < Items(cart, start)[k].to
  <1> DEFINE items == Items(cart, start)
             at == StartOf(cart, start)
             S == {d \in Nat : Len(cart) - d \in DOMAIN cart /\ items[Len(cart) - d].from <= t}
  <1>1. /\ Len(cart) \in Nat \ {0} /\ DOMAIN cart = 1..Len(cart) /\ cart \in Seq(Lines)
        /\ \A k \in DOMAIN cart : items[k] \in Row /\ items[k].to <= items[Len(cart)].to
    BY ItemsInOrder
  <1>2. \A k \in DOMAIN cart : k + 1 \in DOMAIN cart => items[k + 1].from = items[k].to
    <2>1. \A k \in DOMAIN cart :
            items[k].from = at[k] /\ items[k].to = at[k] + Duration[cart[k].service]
      BY DEF Items
    <2>2. \A k \in DOMAIN cart : k + 1 \in DOMAIN cart =>
            at[k + 1] = at[k] + Duration[cart[k].service]
      BY <1>1, StartOfSteps, DayAssumption
    <2> HIDE DEF items, at
    <2> QED BY <2>1, <2>2
  <1> HIDE DEF items, at
  <1>3. \A k \in DOMAIN cart : items[k].from \in Nat /\ items[k].to \in Nat
    BY <1>1 DEF Row
  <1>4. Len(cart) - n \in S
    <2>1. items[n].from <= t
      BY DEF items
    <2> QED BY <1>1, <2>1
  <1>5. PICK d \in S : \A e \in S : d <= e
    <2>1. S \in SUBSET Nat /\ S # {}
      BY <1>4
    <2> HIDE DEF S
    <2> QED BY <2>1, LeastOfFinite
  <1> DEFINE k == Len(cart) - d
  <1>6. k \in DOMAIN cart /\ items[k].from <= t /\ d \in Nat
    BY <1>5
  <1>7. CASE d = 0
    <2>1. t < items[m].to /\ items[m].to <= items[Len(cart)].to
      BY <1>1 DEF items
    <2>2. k = Len(cart)
      BY <1>1, <1>7
    <2>3. items[m].to \in Nat /\ items[Len(cart)].to \in Nat
      BY <1>1, <1>3
    <2> HIDE DEF k
    <2>4. t < items[Len(cart)].to
      BY <2>1, <2>3
    <2> QED BY <1>6, <2>2, <2>4 DEF items
  <1>8. CASE d # 0
    <2>1. k + 1 \in DOMAIN cart /\ k + 1 = Len(cart) - (d - 1) /\ d - 1 \in Nat
      BY <1>1, <1>6, <1>8
    <2>2. d - 1 \notin S
      BY <1>5, <1>6, <1>8
    <2>3. ~(items[k + 1].from <= t)
      BY <2>1, <2>2
    <2>4. items[k + 1].from = items[k].to
      BY <1>2, <1>6, <2>1
    <2> HIDE DEF k
    <2>5. t < items[k].to
      BY <1>3, <1>6, <2>3, <2>4
    <2> QED BY <1>6, <2>5 DEF items
  <1> QED BY <1>7, <1>8

-----------------------------------------------------------------------------
(* The invariant: the rows                                                 *)

Bookings == [service : Services, staff : Staff \cup {Nobody}, from : Nat, to : Nat,
             assigned : UNION {[items -> Staff \cup {Nobody}] : items \in SUBSET Row}]

IsFirst(row, i) ==
  i.kind = "service" /\ \A j \in DOMAIN row.assigned : i.from <= j.from

\* MirrorFollowsFirst, DependenciesFollow and OnlyQualified, of one row.
Mirrors(row) ==
  \A i \in DOMAIN row.assigned : IsFirst(row, i) => row.assigned[i] = row.staff

Goes(i, d) == i.kind = "service" /\ d.kind = "dependency" /\ d.from = i.from

Follow(row) ==
  \A i, d \in DOMAIN row.assigned : Goes(i, d) => row.assigned[d] = row.assigned[i]

Skilled(row) ==
  \A i \in DOMAIN row.assigned :
    i.kind # "dependency" => row.assigned[i] \in Qualified[i.service] \cup {Nobody}

\* The slots of an order never change: each line has one as long as its
\* service takes, and those of two lines do not overlap; a dependency is in that
\* of a line; there is a last one; lines leave no time between them.
Slots(row) ==
  /\ \A i, j \in DOMAIN row.assigned :
       /\ i.from = j.from => i.to = j.to
       /\ i.from < j.from => i.to <= j.from
  /\ \A i \in DOMAIN row.assigned :
       i.kind # "dependency" => i.to = i.from + Duration[i.service]
  /\ \A d \in DOMAIN row.assigned : d.kind = "dependency" =>
       \E i \in DOMAIN row.assigned : i.kind # "dependency" /\ i.from = d.from
  /\ \E j \in DOMAIN row.assigned : \A i \in DOMAIN row.assigned : i.to <= j.to
  /\ \A i, j \in DOMAIN row.assigned : \A t \in i.from..(j.to - 1) :
       \E k \in DOMAIN row.assigned : k.kind # "dependency" /\ k.from <= t /\ t < k.to

\* The window reaches from the first slot to the last: until it is moved.
Spans(row) ==
  /\ \A i \in DOMAIN row.assigned : row.from <= i.from /\ i.from < i.to /\ i.to <= row.to
  /\ \E i \in DOMAIN row.assigned : i.from = row.from
  /\ \E i \in DOMAIN row.assigned : i.to = row.to

\* IsSingle and Claims, of one row.
Single(row) ==
  /\ \A i, j \in DOMAIN row.assigned : i.from = j.from
  /\ \A i \in DOMAIN row.assigned : i.kind # "component"

ClaimsOf(row) ==
  {[staff |-> row.assigned[i], from |-> i.from, to |-> i.to] :
     i \in {j \in DOMAIN row.assigned :
             \/ j.kind = "service" /\ row.assigned[j] # Nobody
             \/ j.kind = "component" /\ row.assigned[j] = row.staff /\ row.staff # Nobody}}

InOneBlock(row) == \E b \in Blocks : b.from <= row.from /\ row.to <= b.to

\* What is true of a row from the moment it is decided on, and of its window
\* until it is moved.
GoodRow(row) ==
  row \in Bookings /\ Mirrors(row) /\ Follow(row) /\ Skilled(row) /\ Slots(row)

GoodWindow(row) ==
  Spans(row) /\ (Single(row) /\ row.staff # Nobody => InOneBlock(row))

-----------------------------------------------------------------------------
(* The invariant: the tables and the requests                              *)

RowsOK ==
  /\ DOMAIN booking = Orders
  /\ \A o \in Orders :
       IF phase[o] = "none" THEN booking[o] = NoBooking ELSE GoodRow(booking[o])
  /\ \A o \in Orders \ strayed : phase[o] # "none" => GoodWindow(booking[o])

\* Whatever is swapped or booked meanwhile, a swap takes the staff of an order
\* along with its first service, and a service with what is included in it.
SwapOK(work) ==
  LET row == booking[work.order] IN
  /\ work.order \in Orders /\ phase[work.order] # "none"
  /\ work.target \in Staff /\ work.mirrored \in BOOLEAN
  /\ work.items \subseteq DOMAIN row.assigned
  /\ \A i \in work.items : work.target \in Qualified[i.service]
  /\ \A i \in DOMAIN row.assigned : IsFirst(row, i) => (i \in work.items <=> work.mirrored)
  /\ \A i, d \in DOMAIN row.assigned : Goes(i, d) => (i \in work.items <=> d \in work.items)
  /\ work.mirrored => row.staff # Nobody

WorkOK(work) ==
  /\ work.op = "book" => GoodRow(work.booking) /\ GoodWindow(work.booking)
  /\ work.op = "swap" => SwapOK(work)
  /\ work.op = "move" => /\ work.order \in Orders /\ phase[work.order] # "none"
                         /\ work.from \in Nat /\ work.to \in Nat

TxnOK == DOMAIN txn = Requests /\ \A h \in Requests : WorkOK(txn[h])

IInv == TypeOK /\ RowsOK /\ TxnOK
 
-----------------------------------------------------------------------------
(* The invariant of requests that do not overlap                           *)

Alone == \A g, h \in Requests : txn[g] # Idle /\ txn[h] # Idle => g = h

Apart(A, B) == \A a \in A, b \in B : a.staff = b.staff => ~Overlaps(a, b)

\* What a booking has found free is free still when it is written.
BookStillFree ==
  \A h \in Requests : txn[h].op = "book" =>
    \A p \in Orders \ strayed : IsActive(p) => Apart(ClaimsOf(txn[h].booking), Claims(p))

\* The same for the swap of an order of a single service.
SwapStillFree ==
  \A h \in Requests : txn[h].op = "swap" =>
    LET o == txn[h].order IN
    o \notin strayed /\ IsSingle(o) =>
      \A p \in Orders \ (strayed \cup {o}) : IsActive(p) /\ IsSingle(p) =>
        \A b \in Claims(p) : b.staff = txn[h].target => ~Overlaps(booking[o], b)

SerialInv ==
  /\ IInv
  /\ Alone /\ BookStillFree /\ SwapStillFree
  /\ BookedOnce /\ SinglesNeverClash

-----------------------------------------------------------------------------
(* New rows                                                                *)

LEMMA DependencyRow ==
  ASSUME NEW i \in Row, NEW v \in Services
  PROVE  LET d == [i EXCEPT !.kind = "dependency", !.service = v]
         IN  d \in Row /\ d.kind = "dependency" /\ d.from = i.from /\ d.to = i.to
  <1>1. PICK d : d = [i EXCEPT !.kind = "dependency", !.service = v]
    OBVIOUS
  <1>2. d = [kind |-> "dependency", service |-> v, from |-> i.from, to |-> i.to]
    BY <1>1 DEF Row
  <1>3. i.from \in Nat /\ i.to \in Nat
    BY DEF Row
  <1> QED BY <1>1, <1>2, <1>3 DEF Row

\* Each line has its row, with the staff that was found for the line, and all
\* other rows are dependencies in the slot and with the staff of a line.
LEMMA NewBookingRows ==
  ASSUME NEW cart \in Carts, NEW start \in Starts,
         NEW who \in [DOMAIN cart -> Staff \cup {Nobody}]
  PROVE  LET items == Items(cart, start)
             row == NewBooking(items, who)
         IN  /\ row \in Bookings
             /\ row.service = items[1].service /\ row.staff = who[1]
             /\ row.from = items[1].from /\ row.to = items[Len(cart)].to
             /\ \A n \in DOMAIN cart :
                  items[n] \in DOMAIN row.assigned /\ row.assigned[items[n]] = who[n]
             /\ \A i \in DOMAIN row.assigned : \E n \in DOMAIN cart :
                  /\ i.from = items[n].from /\ i.to = items[n].to
                  /\ row.assigned[i] = who[n]
                  /\ i = items[n] \/ i.kind = "dependency"
  <1> DEFINE items == Items(cart, start)
             deps == Dependencies(items)
             rows == {items[n] : n \in DOMAIN items}
                       \cup {DependencyItem(items, pair) : pair \in deps}
             lineOf(i) == CHOOSE n \in DOMAIN items : items[n].from = i.from
             assigned == [i \in rows |-> who[lineOf(i)]]
             row == NewBooking(items, who)
  <1>1. row = [service |-> items[1].service, staff |-> who[1], from |-> items[1].from,
               to |-> items[Cardinality(DOMAIN items)].to, assigned |-> assigned]
    BY DEF NewBooking, FirstService
  <1>2. /\ Len(cart) \in Nat \ {0} /\ DOMAIN cart = 1..Len(cart)
        /\ Cardinality(DOMAIN items) = Len(cart) /\ DOMAIN items = DOMAIN cart
        /\ \A n \in DOMAIN cart : items[n] \in Row
        /\ \A n, m \in DOMAIN cart : items[n].from = items[m].from => n = m
    BY ItemsInOrder
  <1>3. deps \subseteq (DOMAIN cart) \X Services
    BY <1>2 DEF Dependencies
  <1> HIDE DEF items, deps
  <1>4. ASSUME NEW i \in rows
        PROVE  \E n \in DOMAIN cart :
                 /\ i \in Row
                 /\ i.from = items[n].from /\ i.to = items[n].to
                 /\ i = items[n] \/ i.kind = "dependency"
    <2>1. CASE \E n \in DOMAIN items : i = items[n]
      BY <1>2, <2>1
    <2>2. CASE \E pair \in deps : i = DependencyItem(items, pair)
      <3>1. PICK pair \in deps : i = DependencyItem(items, pair)
        BY <2>2
      <3>2. pair[1] \in DOMAIN cart /\ pair[2] \in Services
        BY <1>3
      <3>3. items[pair[1]] \in Row
        BY <1>2, <3>2
      <3>4. /\ i \in Row /\ i.kind = "dependency"
            /\ i.from = items[pair[1]].from /\ i.to = items[pair[1]].to
        BY <3>1, <3>2, <3>3, DependencyRow DEF DependencyItem
      <3> QED BY <3>2, <3>4
    <2> QED BY <2>1, <2>2
  <1>5. \A n \in DOMAIN cart : items[n] \in rows
    BY <1>2
  <1> HIDE DEF rows
  <1>6. ASSUME NEW i \in rows, NEW n \in DOMAIN cart, i.from = items[n].from
        PROVE  lineOf(i) = n
    BY <1>2, <1>6
  <1> HIDE DEF lineOf
  <1>7. ASSUME NEW i \in rows, NEW n \in DOMAIN cart, i.from = items[n].from
        PROVE  assigned[i] = who[n]
    BY <1>6, <1>7
  <1>8. assigned \in [rows -> Staff \cup {Nobody}] /\ rows \in SUBSET Row
    <2>1. \A i \in rows : who[lineOf(i)] \in Staff \cup {Nobody}
      BY <1>4, <1>6
    <2>2. rows \subseteq Row
      BY <1>4
    <2> QED BY <2>1, <2>2
  <1>9. DOMAIN assigned = rows
    OBVIOUS
  <1> HIDE DEF assigned, row
  <1>10. /\ items[1].service \in Services /\ items[1].from \in Nat
         /\ items[Len(cart)].to \in Nat /\ who[1] \in Staff \cup {Nobody}
    <2>1. 1 \in DOMAIN cart /\ Len(cart) \in DOMAIN cart
      BY <1>2
    <2> QED BY <1>2, <2>1 DEF Row
  <1>11. row \in Bookings
    <2>1. assigned \in UNION {[its -> Staff \cup {Nobody}] : its \in SUBSET Row}
      BY <1>8
    <2> QED BY <1>1, <1>2, <1>10, <2>1 DEF Bookings
  <1>12. /\ row.service = items[1].service /\ row.staff = who[1]
         /\ row.from = items[1].from /\ row.to = items[Len(cart)].to
         /\ row.assigned = assigned
    BY <1>1, <1>2
  <1>13. \A n \in DOMAIN cart : items[n] \in DOMAIN row.assigned /\ row.assigned[items[n]] = who[n]
    BY <1>5, <1>7, <1>9, <1>12
  <1>14. \A i \in DOMAIN row.assigned : \E n \in DOMAIN cart :
           /\ i.from = items[n].from /\ i.to = items[n].to
           /\ row.assigned[i] = who[n]
           /\ i = items[n] \/ i.kind = "dependency"
    BY <1>4, <1>7, <1>9, <1>12
  <1> QED BY <1>11, <1>12, <1>13, <1>14 DEF items, row
LEMMA StaffForFree ==
  ASSUME NEW line \in Lines, NEW slot, NEW s \in StaffFor(line, slot)
  PROVE  s = Nobody \/ (s \in Staff /\ s \in Qualified[line.service] /\ IsStaffFreeAt(s, slot))
  <1>1. line.service \in Services
    BY DEF Lines
  <1>2. Qualified[line.service] \subseteq Staff
    BY <1>1, QualifiedAssumption
  <1> QED BY <1>2 DEF StaffFor

LEMMA NewBookingGood ==
  ASSUME NEW cart \in Carts, NEW start \in Starts,
         NEW who \in [DOMAIN cart -> Staff \cup {Nobody}],
         \A n \in DOMAIN cart : who[n] \in StaffFor(cart[n], Items(cart, start)[n])
  PROVE  LET row == NewBooking(Items(cart, start), who)
         IN  GoodRow(row) /\ GoodWindow(row)
  <1> DEFINE items == Items(cart, start)
             row == NewBooking(items, who)
  <1>1. /\ row \in Bookings
        /\ row.service = items[1].service /\ row.staff = who[1]
        /\ row.from = items[1].from /\ row.to = items[Len(cart)].to
        /\ \A n \in DOMAIN cart :
             items[n] \in DOMAIN row.assigned /\ row.assigned[items[n]] = who[n]
        /\ \A i \in DOMAIN row.assigned : \E n \in DOMAIN cart :
             /\ i.from = items[n].from /\ i.to = items[n].to
             /\ row.assigned[i] = who[n]
             /\ i = items[n] \/ i.kind = "dependency"
    BY NewBookingRows
  <1>2. /\ Len(cart) \in Nat \ {0} /\ DOMAIN cart = 1..Len(cart) /\ cart \in Seq(Lines)
        /\ \A n \in DOMAIN cart :
             /\ items[n] \in Row /\ items[n].kind # "dependency"
             /\ items[n].service = cart[n].service
             /\ items[n].from < items[n].to
             /\ items[1].from <= items[n].from
             /\ items[n].to <= items[Len(cart)].to
        /\ \A n, m \in DOMAIN cart : items[n].from = items[m].from => n = m
    BY ItemsInOrder
  <1>3. \A n \in DOMAIN cart : who[n] \in StaffFor(cart[n], items[n])
    OBVIOUS
  <1> HIDE DEF items, row
  <1>4. 1 \in DOMAIN cart /\ Len(cart) \in DOMAIN cart
    BY <1>2
  <1>5. \A n \in DOMAIN cart : items[n].from \in Nat /\ items[n].to \in Nat
    BY <1>2 DEF Row
  <1>6. \A n \in DOMAIN cart :
          who[n] = Nobody \/ (who[n] \in Qualified[items[n].service] /\ FitsSchedule(who[n], items[n]))
    <2> SUFFICES ASSUME NEW n \in DOMAIN cart, who[n] # Nobody
                 PROVE  who[n] \in Qualified[items[n].service] /\ FitsSchedule(who[n], items[n])
      OBVIOUS
    <2>1. cart[n] \in Lines
      BY <1>2, LineTypes
    <2>2. who[n] \in Qualified[cart[n].service] /\ IsStaffFreeAt(who[n], items[n])
      BY <1>3, <2>1, StaffForFree
    <2> QED BY <1>2, <2>2 DEF IsStaffFreeAt
  <1>7. Mirrors(row)
    <2> SUFFICES ASSUME NEW i \in DOMAIN row.assigned, IsFirst(row, i)
                 PROVE  row.assigned[i] = row.staff
      BY DEF Mirrors
    <2>1. PICK n \in DOMAIN cart : i = items[n] /\ row.assigned[i] = who[n]
      BY <1>1 DEF IsFirst
    <2>2. items[n].from <= items[1].from
      BY <1>1, <1>4, <2>1 DEF IsFirst
    <2>3. items[n].from = items[1].from
      BY <1>2, <1>4, <1>5, <2>2
    <2> QED BY <1>1, <1>2, <1>4, <2>1, <2>3
  <1>8. Follow(row)
    <2> SUFFICES ASSUME NEW i \in DOMAIN row.assigned, NEW d \in DOMAIN row.assigned,
                        d.from = i.from
                 PROVE  row.assigned[d] = row.assigned[i]
      BY DEF Follow, Goes
    <2>1. PICK n \in DOMAIN cart : i.from = items[n].from /\ row.assigned[i] = who[n]
      BY <1>1
    <2>2. PICK m \in DOMAIN cart : d.from = items[m].from /\ row.assigned[d] = who[m]
      BY <1>1
    <2> QED BY <1>2, <2>1, <2>2
  <1>9. Skilled(row)
    BY <1>1, <1>6 DEF Skilled
  <1>10. Slots(row)
    <2>1. ASSUME NEW i \in DOMAIN row.assigned, NEW j \in DOMAIN row.assigned
          PROVE  /\ i.from = j.from => i.to = j.to
                 /\ i.from < j.from => i.to <= j.from
      <3>1. PICK n \in DOMAIN cart : i.from = items[n].from /\ i.to = items[n].to
        BY <1>1
      <3>2. PICK m \in DOMAIN cart : j.from = items[m].from /\ j.to = items[m].to
        BY <1>1
      <3>3. n < m => items[n].to <= items[m].from
        BY ItemsInOrder DEF items
      <3>4. m < n => items[m].to <= items[n].from
        BY ItemsInOrder DEF items
      <3>5. items[m].from < items[m].to /\ n \in Nat /\ m \in Nat
        BY <1>2
      <3> QED BY <1>2, <1>5, <3>1, <3>2, <3>3, <3>4, <3>5
    <2>2. ASSUME NEW i \in DOMAIN row.assigned, i.kind # "dependency"
          PROVE  i.to = i.from + Duration[i.service]
      <3>1. PICK n \in DOMAIN cart : i = items[n]
        BY <1>1, <2>2
      <3>2. items[n].to = items[n].from + Duration[items[n].service]
        BY DEF items, Items
      <3> QED BY <3>1, <3>2
    <2>3. \E j \in DOMAIN row.assigned : \A i \in DOMAIN row.assigned : i.to <= j.to
      <3>1. items[Len(cart)] \in DOMAIN row.assigned
        BY <1>1, <1>4
      <3>2. \A i \in DOMAIN row.assigned : i.to <= items[Len(cart)].to
        BY <1>1, <1>2
      <3> QED BY <3>1, <3>2
    <2>4. \A d \in DOMAIN row.assigned : d.kind = "dependency" =>
            \E i \in DOMAIN row.assigned : i.kind # "dependency" /\ i.from = d.from
      BY <1>1, <1>2
    <2>5. ASSUME NEW i \in DOMAIN row.assigned, NEW j \in DOMAIN row.assigned,
                 NEW t \in i.from..(j.to - 1)
          PROVE  \E k \in DOMAIN row.assigned : k.kind # "dependency" /\ k.from <= t /\ t < k.to
      <3>1. PICK n \in DOMAIN cart : i.from = items[n].from
        BY <1>1
      <3>2. PICK m \in DOMAIN cart : j.to = items[m].to
        BY <1>1
      <3>3. t \in Int /\ items[n].from <= t /\ t < items[m].to
        BY <1>5, <3>1, <3>2
      <3>4. PICK k \in DOMAIN cart : items[k].from <= t /\ t < items[k].to
        BY <3>3, LinesCover DEF items
      <3> QED BY <1>1, <1>2, <3>4
    <2> QED BY <2>1, <2>2, <2>3, <2>4, <2>5 DEF Slots
  <1>11. Spans(row)
    <2>1. \A i \in DOMAIN row.assigned : row.from <= i.from /\ i.from < i.to /\ i.to <= row.to
      BY <1>1, <1>2
    <2>2. items[1] \in DOMAIN row.assigned /\ items[Len(cart)] \in DOMAIN row.assigned
      BY <1>1, <1>4
    <2> QED BY <1>1, <2>1, <2>2 DEF Spans
  <1>12. ASSUME Single(row), row.staff # Nobody PROVE InOneBlock(row)
    <2>1. items[1].from = items[Len(cart)].from
      BY <1>1, <1>4, <1>12 DEF Single
    <2>2. Len(cart) = 1
      BY <1>2, <1>4, <2>1
    <2>3. who[1] # Nobody
      BY <1>1, <1>12
    <2>4. FitsSchedule(who[1], items[1])
      BY <1>4, <1>6, <2>3
    <2> QED BY <1>1, <2>2, <2>4 DEF FitsSchedule, InOneBlock
  <1> QED BY <1>1, <1>7, <1>8, <1>9, <1>10, <1>11, <1>12 DEF GoodRow, GoodWindow, row, items

-----------------------------------------------------------------------------
(* Initial states, and requests that end                                   *)

LEMMA NoBookingFacts == DOMAIN NoBooking.assigned = {}
  BY DEF NoBooking

LEMMA InitInv == Init => IInv
  <1> SUFFICES ASSUME Init PROVE IInv
    OBVIOUS
  <1>1. \A o \in Orders : phase[o] = "none" /\ money[o] = "none" /\ booking[o] = NoBooking
    BY DEF Init, Checkout!Init
  <1>2. TypeOK
    BY <1>1 DEF Init, Checkout!Init, TypeOK
  <1>3. RowsOK
    BY <1>1 DEF Init, RowsOK
  <1>4. TxnOK
    BY DEF Init, TxnOK, WorkOK, Idle
  <1> QED BY <1>2, <1>3, <1>4 DEF IInv
\* What a request has in hand stays right while orders that are booked stay
\* booked, keep their items, and are not left without staff.
LEMMA WorkStays ==
  ASSUME \A o \in Orders : phase[o] # "none" =>
           /\ phase'[o] # "none"
           /\ DOMAIN booking'[o].assigned = DOMAIN booking[o].assigned
           /\ booking[o].staff # Nobody => booking'[o].staff # Nobody,
         NEW work, WorkOK(work)
  PROVE  WorkOK(work)'
  <1>1. work.op = "swap" => SwapOK(work)'
    <2> SUFFICES ASSUME work.op = "swap" PROVE SwapOK(work)'
      OBVIOUS
    <2>1. SwapOK(work)
      BY DEF WorkOK
    <2> DEFINE o == work.order
    <2>2. /\ phase'[o] # "none"
          /\ DOMAIN booking'[o].assigned = DOMAIN booking[o].assigned
          /\ booking[o].staff # Nobody => booking'[o].staff # Nobody
      BY <2>1 DEF SwapOK
    <2>3. \A i : IsFirst(booking'[o], i) = IsFirst(booking[o], i)
      BY <2>2 DEF IsFirst
    <2> QED BY <2>1, <2>2, <2>3 DEF SwapOK
  <1>2. work.op = "move" => phase'[work.order] # "none"
    BY DEF WorkOK
  <1> QED BY <1>1, <1>2 DEF WorkOK

\* A request begins or ends without a write.
LEMMA WorkInv ==
  ASSUME IInv, NEW h \in Requests, NEW work, WorkOK(work),
         txn' = [txn EXCEPT ![h] = work],
         UNCHANGED <<phase, money, booking, swapped, strayed>>
  PROVE  IInv'
  <1>1. TypeOK' /\ RowsOK'
    BY DEF IInv, TypeOK, RowsOK
  <1>2. \A w : WorkOK(w) => WorkOK(w)'
    BY WorkStays
  <1>3. TxnOK'
    <2>1. DOMAIN txn' = Requests
      BY DEF IInv, TxnOK
    <2>2. \A g \in Requests : txn'[g] = IF g = h THEN work ELSE txn[g]
      BY DEF IInv, TxnOK
    <2>3. \A g \in Requests : WorkOK(txn'[g])
      BY <2>2 DEF IInv, TxnOK
    <2> QED BY <1>2, <2>1, <2>3 DEF TxnOK
  <1> QED BY <1>1, <1>3 DEF IInv

LEMMA IdleOK == WorkOK(Idle)
  BY DEF WorkOK, Idle

LEMMA CheckBookingInv ==
  ASSUME IInv, NEW h \in Requests, NEW cart \in Carts, NEW start \in Starts,
         CheckBooking(h, cart, start)
  PROVE  IInv'
  <1> DEFINE items == Items(cart, start)
             staff == [n \in DOMAIN cart |-> StaffFor(cart[n], items[n])]
  <1>1. PICK who \in [DOMAIN cart -> Staff \cup {Nobody}] :
          /\ \A n \in DOMAIN cart : who[n] \in staff[n]
          /\ Begin(h, [op |-> "book", booking |-> NewBooking(items, who)])
    BY DEF CheckBooking
  <1>2. \A n \in DOMAIN cart : who[n] \in StaffFor(cart[n], items[n])
    BY <1>1
  <1> DEFINE work == [op |-> "book", booking |-> NewBooking(items, who)]
  <1>3. WorkOK(work)
    <2>1. GoodRow(NewBooking(items, who)) /\ GoodWindow(NewBooking(items, who))
      BY <1>2, NewBookingGood
    <2> QED BY <2>1 DEF WorkOK
  <1> QED BY <1>1, <1>3, WorkInv DEF Begin

LEMMA BookedRow ==
  ASSUME IInv, NEW o \in Orders, phase[o] # "none"
  PROVE  GoodRow(booking[o]) /\ booking[o] \in Bookings
  BY DEF IInv, RowsOK, GoodRow

LEMMA CheckSwapInv ==
  ASSUME IInv, NEW h \in Requests, NEW o \in Orders, NEW source \in Staff,
         NEW target \in Staff, CheckSwap(h, o, source, target)
  PROVE  IInv'
  <1> DEFINE row == booking[o]
             items == ServiceItemsAssignedTo(row, source)
             work == [op |-> "swap", order |-> o, items |-> items, target |-> target,
                      mirrored |-> row.staff = source]
  <1>1. phase[o] # "none"
    BY DEF CheckSwap, IsActive
  <1>2. GoodRow(row)
    BY <1>1, BookedRow
  <1>3. \A i \in items : target \in Qualified[i.service]
    BY DEF CheckSwap, EligibleStaffForSlot
  <1>4. source # Nobody
    BY NobodyAssumption
  <1>5. \A i \in DOMAIN row.assigned : IsFirst(row, i) => (i \in items <=> row.staff = source)
    BY <1>2 DEF GoodRow, Mirrors, ServiceItemsAssignedTo, Effective, IsItem, IsFirst
  <1>6. \A i, d \in DOMAIN row.assigned : Goes(i, d) => (i \in items <=> d \in items)
    BY <1>2 DEF GoodRow, Follow, ServiceItemsAssignedTo, Effective, IsItem, Goes
  <1>7. items \subseteq DOMAIN row.assigned
    BY DEF ServiceItemsAssignedTo
  <1>8. WorkOK(work)
    <2> HIDE DEF items
    <2>1. SwapOK(work)
      BY <1>1, <1>3, <1>4, <1>5, <1>6, <1>7 DEF SwapOK
    <2> QED BY <2>1 DEF WorkOK
  <1> QED BY <1>8, WorkInv DEF CheckSwap, Begin

LEMMA CheckRescheduleInv ==
  ASSUME IInv, NEW h \in Requests, NEW o \in Orders, NEW start \in Starts,
         CheckReschedule(h, o, start)
  PROVE  IInv'
  <1> DEFINE work == [op |-> "move", order |-> o, from |-> start,
                      to |-> start + Duration[booking[o].service]]
  <1>1. phase[o] # "none"
    BY DEF CheckReschedule, IsActive
  <1>2. booking[o].service \in Services
    BY <1>1, BookedRow DEF Bookings
  <1>3. start \in Nat /\ Duration[booking[o].service] \in Nat
    BY <1>2, DayAssumption, DurationAssumption
  <1>4. WorkOK(work)
    BY <1>1, <1>3 DEF WorkOK
  <1> QED BY <1>4, WorkInv DEF CheckReschedule, Begin

LEMMA AbandonInv ==
  ASSUME IInv, NEW h \in Requests, Abandon(h)
  PROVE  IInv'
  BY IdleOK, WorkInv DEF Abandon
-----------------------------------------------------------------------------
(* Steps that write                                                        *)

LEMMA BookingType ==
  ASSUME NEW row \in Bookings
  PROVE  IsBooking(row)
  <1>1. PICK items \in SUBSET Row : row.assigned \in [items -> Staff \cup {Nobody}]
    BY DEF Bookings
  <1>2. items = DOMAIN row.assigned
    BY <1>1
  <1> QED BY <1>1, <1>2 DEF IsBooking, Bookings

LEMMA InsertBookingInv ==
  ASSUME IInv, NEW h \in Requests, NEW o \in Orders, InsertBooking(h, o)
  PROVE  IInv'
  <1> DEFINE row == txn[h].booking
  <1>1. GoodRow(row) /\ GoodWindow(row)
    BY DEF InsertBooking, IInv, TxnOK, WorkOK
  <1>2. /\ phase[o] = "none"
        /\ \E s \in {"awaiting", "booked"} : phase' = [phase EXCEPT ![o] = s]
        /\ \/ UNCHANGED money
           \/ money' = [money EXCEPT ![o] = "open"]
    BY DEF InsertBooking, Checkout!BookToPayOnline, Checkout!BookToPayInPerson
  <1>3. /\ booking' = [booking EXCEPT ![o] = row]
        /\ txn' = [txn EXCEPT ![h] = Idle] /\ UNCHANGED <<swapped, strayed>>
    BY DEF InsertBooking
  <1>4. /\ phase' \in [Orders -> {"none", "awaiting", "booked", "over", "void"}]
        /\ money' \in [Orders -> {"none", "open", "captured", "lost"}]
        /\ phase'[o] # "none" /\ \A p \in Orders \ {o} : phase'[p] = phase[p]
    BY <1>2 DEF IInv, TypeOK
  <1>5. /\ DOMAIN booking' = Orders
        /\ booking'[o] = row /\ \A p \in Orders \ {o} : booking'[p] = booking[p]
    BY <1>3 DEF IInv, TypeOK
  <1>6. TypeOK'
    <2>1. IsBooking(row)
      BY <1>1, BookingType DEF GoodRow
    <2>2. ASSUME NEW p \in Orders
          PROVE  IF phase'[p] = "none" THEN booking'[p] = NoBooking ELSE IsBooking(booking'[p])
      BY <1>4, <1>5, <2>1 DEF IInv, TypeOK
    <2> QED BY <1>3, <1>4, <1>5, <2>2 DEF IInv, TypeOK
  <1>7. RowsOK'
    <2>1. ASSUME NEW p \in Orders
          PROVE  IF phase'[p] = "none" THEN booking'[p] = NoBooking ELSE GoodRow(booking'[p])
      BY <1>1, <1>4, <1>5 DEF IInv, RowsOK
    <2>2. ASSUME NEW p \in Orders \ strayed, phase'[p] # "none" PROVE GoodWindow(booking'[p])
      BY <1>1, <1>4, <1>5, <2>2 DEF IInv, RowsOK
    <2> QED BY <1>3, <1>5, <2>1, <2>2 DEF RowsOK, GoodRow, GoodWindow, InOneBlock
  <1>8. TxnOK'
    <2>1. \A w : WorkOK(w) => WorkOK(w)'
      BY <1>2, <1>4, <1>5, WorkStays
    <2>2. DOMAIN txn' = Requests /\ \A g \in Requests : txn'[g] = IF g = h THEN Idle ELSE txn[g]
      BY <1>3 DEF IInv, TxnOK
    <2>3. \A g \in Requests : WorkOK(txn'[g])
      BY <2>2, IdleOK DEF IInv, TxnOK
    <2> QED BY <2>1, <2>2, <2>3 DEF TxnOK
  <1> QED BY <1>6, <1>7, <1>8 DEF IInv

\* What a swap makes of a row.
LEMMA SwappedRow ==
  ASSUME NEW row \in Bookings, NEW items, NEW s \in Staff, NEW mirrored \in BOOLEAN
  PROVE  LET new == HandedOver(row, items, s, mirrored)
         IN  /\ new \in Bookings
             /\ new.service = row.service /\ new.from = row.from /\ new.to = row.to
             /\ new.staff = IF mirrored THEN s ELSE row.staff
             /\ DOMAIN new.assigned = DOMAIN row.assigned
             /\ \A i \in DOMAIN row.assigned :
                  new.assigned[i] = IF i \in items THEN s ELSE row.assigned[i]
  <1> DEFINE f == [i \in DOMAIN row.assigned |-> IF i \in items THEN s ELSE row.assigned[i]]
             m == IF mirrored THEN s ELSE row.staff
             new == HandedOver(row, items, s, mirrored)
  <1>1. new = [row EXCEPT !.staff = m, !.assigned = f]
    BY DEF HandedOver
  <1>2. PICK its \in SUBSET Row : row.assigned \in [its -> Staff \cup {Nobody}]
    BY DEF Bookings
  <1>3. f \in [its -> Staff \cup {Nobody}]
    BY <1>2
  <1>4. f \in UNION {[its2 -> Staff \cup {Nobody}] : its2 \in SUBSET Row}
    BY <1>3
  <1>5. m \in Staff \cup {Nobody}
    BY DEF Bookings
  <1>6. /\ DOMAIN f = DOMAIN row.assigned
        /\ \A i \in DOMAIN row.assigned : f[i] = IF i \in items THEN s ELSE row.assigned[i]
    OBVIOUS
  <1> HIDE DEF f, new
  <1>7. new = [service |-> row.service, staff |-> m, from |-> row.from, to |-> row.to, assigned |-> f]
    BY <1>1 DEF Bookings
  <1>8. row.service \in Services /\ row.from \in Nat /\ row.to \in Nat
    BY DEF Bookings
  <1>9. new \in Bookings
    BY <1>4, <1>5, <1>7, <1>8 DEF Bookings
  <1>10. /\ new.service = row.service /\ new.from = row.from /\ new.to = row.to
         /\ new.staff = m /\ new.assigned = f
    BY <1>7
  <1> QED BY <1>6, <1>9, <1>10 DEF new

LEMMA WriteSwapRow ==
  ASSUME IInv, NEW h \in Requests, WriteSwap(h)
  PROVE  LET work == txn[h]
             row == booking[work.order]
             new == booking'[work.order]
         IN  /\ SwapOK(work)
             /\ DOMAIN booking' = Orders
             /\ \A p \in Orders \ {work.order} : booking'[p] = booking[p]
             /\ row \in Bookings /\ GoodRow(row) /\ new \in Bookings
             /\ new.service = row.service /\ new.from = row.from /\ new.to = row.to
             /\ new.staff = IF work.mirrored THEN work.target ELSE row.staff
             /\ DOMAIN new.assigned = DOMAIN row.assigned
             /\ \A i \in DOMAIN row.assigned :
                  new.assigned[i] = IF i \in work.items THEN work.target ELSE row.assigned[i]
  <1> DEFINE work == txn[h]
             row == booking[work.order]
             new == HandedOver(row, work.items, work.target, work.mirrored)
  <1>1. SwapOK(work)
    BY DEF WriteSwap, IInv, TxnOK, WorkOK
  <1>2. /\ work.order \in Orders /\ phase[work.order] # "none"
        /\ work.target \in Staff /\ work.mirrored \in BOOLEAN
    BY <1>1 DEF SwapOK
  <1>3. row \in Bookings /\ GoodRow(row)
    BY <1>2, BookedRow
  <1>4. booking' = [booking EXCEPT ![work.order] = new]
    BY DEF WriteSwap
  <1>5. /\ new \in Bookings
        /\ new.service = row.service /\ new.from = row.from /\ new.to = row.to
        /\ new.staff = IF work.mirrored THEN work.target ELSE row.staff
        /\ DOMAIN new.assigned = DOMAIN row.assigned
        /\ \A i \in DOMAIN row.assigned :
             new.assigned[i] = IF i \in work.items THEN work.target ELSE row.assigned[i]
    <2> HIDE DEF work, row
    <2> QED BY <1>2, <1>3, SwappedRow DEF new
  <1> HIDE DEF new
  <1>6. /\ DOMAIN booking' = Orders /\ booking'[work.order] = new
        /\ \A p \in Orders \ {work.order} : booking'[p] = booking[p]
    BY <1>2, <1>4 DEF IInv, TypeOK
  <1> QED BY <1>1, <1>3, <1>5, <1>6

LEMMA WriteSwapInv ==
  ASSUME IInv, NEW h \in Requests, WriteSwap(h)
  PROVE  IInv'
  <1> DEFINE work == txn[h]
             o == work.order
             row == booking[o]
             new == booking'[o]
  <1>1. /\ SwapOK(work)
        /\ DOMAIN booking' = Orders
        /\ \A p \in Orders \ {o} : booking'[p] = booking[p]
        /\ row \in Bookings /\ GoodRow(row) /\ new \in Bookings
        /\ new.service = row.service /\ new.from = row.from /\ new.to = row.to
        /\ new.staff = IF work.mirrored THEN work.target ELSE row.staff
        /\ DOMAIN new.assigned = DOMAIN row.assigned
        /\ \A i \in DOMAIN row.assigned :
             new.assigned[i] = IF i \in work.items THEN work.target ELSE row.assigned[i]
    BY WriteSwapRow
  <1>2. /\ txn' = [txn EXCEPT ![h] = Idle] /\ swapped' = swapped \cup {o}
        /\ UNCHANGED <<phase, money, strayed>>
    BY DEF WriteSwap
  <1>3. o \in Orders /\ phase[o] # "none" /\ work.target \in Staff /\ work.target # Nobody
        /\ work.mirrored \in BOOLEAN
    BY <1>1, NobodyAssumption DEF SwapOK
  <1> HIDE DEF row, new
  <1>4. \A i : IsFirst(new, i) = IsFirst(row, i)
    BY <1>1 DEF IsFirst
  <1>5. GoodRow(new)
    <2>1. Mirrors(new)
      <3> SUFFICES ASSUME NEW i \in DOMAIN row.assigned, IsFirst(row, i)
                   PROVE  new.assigned[i] = new.staff
        BY <1>1, <1>4 DEF Mirrors
      <3>1. i \in work.items <=> work.mirrored
        BY <1>1 DEF SwapOK, row
      <3>2. row.assigned[i] = row.staff
        BY <1>1 DEF GoodRow, Mirrors
      <3> QED BY <1>1, <3>1, <3>2
    <2>2. Follow(new)
      BY <1>1 DEF Follow, GoodRow, SwapOK, row
    <2>3. Skilled(new)
      BY <1>1 DEF Skilled, GoodRow, SwapOK, row
    <2>4. Slots(new)
      BY <1>1 DEF Slots, GoodRow
    <2> QED BY <1>1, <2>1, <2>2, <2>3, <2>4 DEF GoodRow
  <1>6. GoodWindow(row) => GoodWindow(new)
    <2>1. Spans(row) => Spans(new)
      BY <1>1 DEF Spans
    <2>2. Single(new) = Single(row) /\ InOneBlock(new) = InOneBlock(row)
      BY <1>1 DEF Single, InOneBlock
    <2>3. new.staff # Nobody => row.staff # Nobody
      BY <1>1 DEF SwapOK, row
    <2> QED BY <2>1, <2>2, <2>3 DEF GoodWindow
  <1>7. TypeOK'
    <2>1. IsBooking(new)
      BY <1>1, BookingType
    <2>2. ASSUME NEW p \in Orders
          PROVE  IF phase'[p] = "none" THEN booking'[p] = NoBooking ELSE IsBooking(booking'[p])
      BY <1>1, <1>2, <1>3, <2>1 DEF IInv, TypeOK, new
    <2> QED BY <1>1, <1>2, <1>3, <2>2 DEF IInv, TypeOK
  <1>8. RowsOK'
    <2>1. ASSUME NEW p \in Orders
          PROVE  IF phase'[p] = "none" THEN booking'[p] = NoBooking ELSE GoodRow(booking'[p])
      BY <1>1, <1>2, <1>3, <1>5 DEF IInv, RowsOK, new
    <2>2. ASSUME NEW p \in Orders \ strayed, phase'[p] # "none" PROVE GoodWindow(booking'[p])
      BY <1>1, <1>2, <1>3, <1>6, <2>2 DEF IInv, RowsOK, new, row
    <2> QED BY <1>1, <1>2, <2>1, <2>2 DEF RowsOK, GoodRow, GoodWindow, InOneBlock
  <1>9. TxnOK'
    <2>1. \A p \in Orders : phase[p] # "none" =>
            /\ phase'[p] # "none"
            /\ DOMAIN booking'[p].assigned = DOMAIN booking[p].assigned
            /\ booking[p].staff # Nobody => booking'[p].staff # Nobody
      BY <1>1, <1>2, <1>3 DEF new, row
    <2>2. \A w : WorkOK(w) => WorkOK(w)'
      BY <2>1, WorkStays
    <2>3. DOMAIN txn' = Requests /\ \A g \in Requests : txn'[g] = IF g = h THEN Idle ELSE txn[g]
      BY <1>2 DEF IInv, TxnOK
    <2>4. \A g \in Requests : WorkOK(txn'[g])
      BY <2>3, IdleOK DEF IInv, TxnOK
    <2> QED BY <2>2, <2>3, <2>4 DEF TxnOK
  <1> QED BY <1>7, <1>8, <1>9 DEF IInv
LEMMA MovedRow ==
  ASSUME NEW row \in Bookings, NEW a \in Nat, NEW b \in Nat
  PROVE  LET new == [row EXCEPT !.from = a, !.to = b]
         IN  /\ new \in Bookings
             /\ new.assigned = row.assigned /\ new.staff = row.staff
  <1>1. PICK new : new = [row EXCEPT !.from = a, !.to = b]
    OBVIOUS
  <1>2. new = [service |-> row.service, staff |-> row.staff, from |-> a, to |-> b,
               assigned |-> row.assigned]
    BY <1>1 DEF Bookings
  <1>3. /\ row.service \in Services /\ row.staff \in Staff \cup {Nobody}
        /\ row.assigned \in UNION {[its -> Staff \cup {Nobody}] : its \in SUBSET Row}
    BY DEF Bookings
  <1>4. new \in Bookings
    BY <1>2, <1>3 DEF Bookings
  <1> QED BY <1>1, <1>2, <1>4

LEMMA WriteRescheduleInv ==
  ASSUME IInv, NEW h \in Requests, WriteReschedule(h)
  PROVE  IInv'
  <1> DEFINE work == txn[h]
             o == work.order
             row == booking[o]
             new == [row EXCEPT !.from = work.from, !.to = work.to]
  <1>1. o \in Orders /\ phase[o] # "none" /\ work.from \in Nat /\ work.to \in Nat
    BY DEF WriteReschedule, IInv, TxnOK, WorkOK
  <1>2. GoodRow(row) /\ row \in Bookings
    BY <1>1, BookedRow
  <1>3. /\ booking' = [booking EXCEPT ![o] = new]
        /\ txn' = [txn EXCEPT ![h] = Idle] /\ strayed' = strayed \cup {o}
        /\ UNCHANGED <<phase, money, swapped>>
    BY DEF WriteReschedule
  <1>4. new \in Bookings /\ new.assigned = row.assigned /\ new.staff = row.staff
    <2> HIDE DEF work, row
    <2> QED BY <1>1, <1>2, MovedRow DEF new
  <1> HIDE DEF new
  <1>5. GoodRow(new)
    <2> HIDE DEF row
    <2>1. Mirrors(new) /\ Follow(new) /\ Skilled(new)
      BY <1>2, <1>4 DEF GoodRow, Mirrors, Follow, Skilled, IsFirst
    <2>2. Slots(new)
      BY <1>2, <1>4 DEF GoodRow, Slots
    <2> QED BY <1>4, <2>1, <2>2 DEF GoodRow
  <1>6. /\ DOMAIN booking' = Orders /\ booking'[o] = new
        /\ \A p \in Orders \ {o} : booking'[p] = booking[p]
    BY <1>1, <1>3 DEF IInv, TypeOK
  <1>7. TypeOK'
    <2>1. IsBooking(new)
      BY <1>4, BookingType
    <2>2. ASSUME NEW p \in Orders
          PROVE  IF phase'[p] = "none" THEN booking'[p] = NoBooking ELSE IsBooking(booking'[p])
      BY <1>1, <1>3, <1>6, <2>1 DEF IInv, TypeOK
    <2> QED BY <1>1, <1>3, <1>6, <2>2 DEF IInv, TypeOK
  <1>8. RowsOK'
    <2>1. ASSUME NEW p \in Orders
          PROVE  IF phase'[p] = "none" THEN booking'[p] = NoBooking ELSE GoodRow(booking'[p])
      BY <1>1, <1>3, <1>5, <1>6 DEF IInv, RowsOK
    <2>2. ASSUME NEW p \in Orders \ strayed', phase'[p] # "none" PROVE GoodWindow(booking'[p])
      BY <1>3, <1>6, <2>2 DEF IInv, RowsOK
    <2> QED BY <1>3, <1>6, <2>1, <2>2 DEF RowsOK, GoodRow, GoodWindow, InOneBlock
  <1>9. TxnOK'
    <2>1. \A p \in Orders : phase[p] # "none" =>
            /\ phase'[p] # "none"
            /\ DOMAIN booking'[p].assigned = DOMAIN booking[p].assigned
            /\ booking[p].staff # Nobody => booking'[p].staff # Nobody
      BY <1>3, <1>4, <1>6
    <2>2. \A w : WorkOK(w) => WorkOK(w)'
      BY <2>1, WorkStays
    <2>3. DOMAIN txn' = Requests /\ \A g \in Requests : txn'[g] = IF g = h THEN Idle ELSE txn[g]
      BY <1>3 DEF IInv, TxnOK
    <2>4. \A g \in Requests : WorkOK(txn'[g])
      BY <2>3, IdleOK DEF IInv, TxnOK
    <2> QED BY <2>2, <2>3, <2>4 DEF TxnOK
  <1> QED BY <1>7, <1>8, <1>9 DEF IInv

\* What else happens to an order changes its phase, and a dropped order that
\* comes back has strayed.
LEMMA ProceedPhases ==
  ASSUME IInv, NEW o \in Orders, Proceed(o)
  PROVE  /\ phase' \in [Orders -> {"none", "awaiting", "booked", "over", "void"}]
         /\ money' \in [Orders -> {"none", "open", "captured", "lost"}]
         /\ \A p \in Orders : phase'[p] = "none" <=> phase[p] = "none"
         /\ \A p \in Orders \ strayed' : IsActive(p)' => IsActive(p)
         /\ strayed \subseteq strayed' /\ strayed' \subseteq Orders
         /\ UNCHANGED <<booking, txn, swapped>>
  <1>1. CASE Checkout!Capture(o)
    BY <1>1 DEF Checkout!Capture, Proceed, IInv, TypeOK, IsActive
  <1>2. CASE Checkout!GiveUp(o)
    BY <1>2 DEF Checkout!GiveUp, Proceed, IInv, TypeOK, IsActive
  <1>3. CASE Checkout!Finish(o)
    BY <1>3 DEF Checkout!Finish, Proceed, IInv, TypeOK, IsActive
  <1>4. CASE Checkout!Lose({o})
    BY <1>4 DEF Checkout!Lose, Proceed, IInv, TypeOK, IsActive
  <1> QED BY <1>1, <1>2, <1>3, <1>4 DEF Proceed

LEMMA ProceedInv ==
  ASSUME IInv, NEW o \in Orders, Proceed(o)
  PROVE  IInv'
  <1>1. /\ phase' \in [Orders -> {"none", "awaiting", "booked", "over", "void"}]
        /\ money' \in [Orders -> {"none", "open", "captured", "lost"}]
        /\ \A p \in Orders : phase'[p] = "none" <=> phase[p] = "none"
        /\ strayed \subseteq strayed' /\ strayed' \subseteq Orders
        /\ UNCHANGED <<booking, txn, swapped>>
    BY ProceedPhases
  <1>2. TypeOK'
    BY <1>1 DEF IInv, TypeOK
  <1>3. RowsOK'
    BY <1>1 DEF IInv, RowsOK
  <1>4. TxnOK'
    <2>1. \A w : WorkOK(w) => WorkOK(w)'
      BY <1>1, WorkStays
    <2> QED BY <1>1, <2>1 DEF IInv, TxnOK
  <1> QED BY <1>2, <1>3, <1>4 DEF IInv

LEMMA NextInv == IInv /\ [Next]_vars => IInv'
  <1> SUFFICES ASSUME IInv, [Next]_vars PROVE IInv'
    OBVIOUS
  <1>1. ASSUME NEW h \in Requests, NEW cart \in Carts, NEW start \in Starts,
               CheckBooking(h, cart, start)
        PROVE  IInv'
    BY <1>1, CheckBookingInv
  <1>2. ASSUME NEW h \in Requests, NEW o \in Orders, InsertBooking(h, o)
        PROVE  IInv'
    BY <1>2, InsertBookingInv
  <1>3. ASSUME NEW h \in Requests, NEW o \in Orders, NEW source \in Staff,
               NEW target \in Staff, CheckSwap(h, o, source, target)
        PROVE  IInv'
    BY <1>3, CheckSwapInv
  <1>4. ASSUME NEW h \in Requests, NEW o \in Orders, NEW start \in Starts,
               CheckReschedule(h, o, start)
        PROVE  IInv'
    BY <1>4, CheckRescheduleInv
  <1>5. ASSUME NEW h \in Requests, WriteSwap(h) \/ WriteReschedule(h) \/ Abandon(h)
        PROVE  IInv'
    BY <1>5, WriteSwapInv, WriteRescheduleInv, AbandonInv
  <1>6. ASSUME NEW o \in Orders, Proceed(o)
        PROVE  IInv'
    BY <1>6, ProceedInv
  <1>7. CASE UNCHANGED vars
    <2>1. TypeOK' /\ RowsOK'
      BY <1>7 DEF vars, IInv, TypeOK, RowsOK
    <2>2. \A w : WorkOK(w) => WorkOK(w)'
      BY <1>7, WorkStays DEF vars
    <2>3. TxnOK'
      BY <1>7, <2>2 DEF vars, IInv, TxnOK
    <2> QED BY <2>1, <2>3 DEF IInv
  <1> QED BY <1>1, <1>2, <1>3, <1>4, <1>5, <1>6, <1>7 DEF Next

LEMMA Invariance == Spec => []IInv
  BY InitInv, NextInv, PTL DEF Spec

-----------------------------------------------------------------------------
(* However requests interleave                                             *)

\* Phases, money and the calendar columns keep their types; orders without
\* ids have no row.
THEOREM TypeCorrect == Spec => []TypeOK
  <1>1. IInv => TypeOK
    BY DEF IInv
  <1> QED BY <1>1, Invariance, PTL

LEMMA RowsGood ==
  ASSUME IInv, NEW o \in Orders
  PROVE  Mirrors(booking[o]) /\ Follow(booking[o]) /\ Skilled(booking[o])
  <1>1. CASE phase[o] = "none"
    <2>1. DOMAIN booking[o].assigned = {}
      BY <1>1, NoBookingFacts DEF IInv, RowsOK
    <2> QED BY <2>1 DEF Mirrors, Follow, Skilled
  <1>2. CASE phase[o] # "none"
    BY <1>2, BookedRow DEF GoodRow
  <1> QED BY <1>1, <1>2

\* However swaps and bookings interleave, the staff shown on an order that
\* begins with a plain service is the one who performs that service.
THEOREM MirrorFollowsFirstAlways == Spec => []MirrorFollowsFirst
  <1>1. IInv => MirrorFollowsFirst
    BY RowsGood DEF MirrorFollowsFirst, Mirrors, IsFirst
  <1> QED BY <1>1, Invariance, PTL

\* However swaps and bookings interleave, an included service is performed by
\* whoever performs the service it comes with.
THEOREM DependenciesFollowAlways == Spec => []DependenciesFollow
  <1>1. IInv => DependenciesFollow
    BY RowsGood DEF DependenciesFollow, Follow, Goes
  <1> QED BY <1>1, Invariance, PTL

\* However swaps and bookings interleave, nobody is put down for a service of a
\* cart without being qualified for it.
THEOREM OnlyQualifiedAlways == Spec => []OnlyQualified
  <1>1. IInv => OnlyQualified
    BY RowsGood DEF OnlyQualified, Skilled
  <1> QED BY <1>1, Invariance, PTL
-----------------------------------------------------------------------------
(* Days                                                                    *)

LEMMA DayBounds ==
  ASSUME NEW t \in Nat
  PROVE  Day(t) \in Nat /\ DayLength * Day(t) <= t /\ t < DayLength * (Day(t) + 1)
  <1>1. DayLength \in Nat /\ DayLength > 0
    BY DayAssumption
  <1> QED BY <1>1 DEF Day

LEMMA ProductsOrder ==
  ASSUME NEW d \in Nat, NEW a \in Nat, NEW b \in Nat, a < b
  PROVE  d * (a + 1) <= d * b
  <1>1. PICK k \in Nat : b = a + 1 + k
    <2>1. b - a - 1 \in Nat /\ b = a + 1 + (b - a - 1)
      OBVIOUS
    <2> QED BY <2>1
  <1>2. d * b = d * (a + 1) + d * k /\ d * k \in Nat /\ d * (a + 1) \in Nat
    BY <1>1
  <1> QED BY <1>2

LEMMA DayUnique ==
  ASSUME NEW t \in Nat, NEW q \in Nat, DayLength * q <= t, t < DayLength * (q + 1)
  PROVE  Day(t) = q
  <1>1. DayLength \in Nat
    BY DayAssumption
  <1>2. Day(t) \in Nat /\ DayLength * Day(t) <= t /\ t < DayLength * (Day(t) + 1)
    BY DayBounds
  <1>3. ~(Day(t) < q)
    <2> SUFFICES ASSUME Day(t) < q PROVE FALSE
      OBVIOUS
    <2>1. DayLength * (Day(t) + 1) <= DayLength * q
      BY <1>1, <1>2, ProductsOrder
    <2> QED BY <1>1, <1>2, <2>1
  <1>4. ~(q < Day(t))
    <2> SUFFICES ASSUME q < Day(t) PROVE FALSE
      OBVIOUS
    <2>1. DayLength * (q + 1) <= DayLength * Day(t)
      BY <1>1, <1>2, ProductsOrder
    <2> QED BY <1>1, <1>2, <2>1
  <1> QED BY <1>2, <1>3, <1>4

\* Somebody works on one day only at a time: a window within her hours ends on
\* the day on which it begins.
LEMMA BlockDay ==
  ASSUME NEW b \in Blocks, NEW t \in Nat, b.from <= t, t < b.to
  PROVE  Day(t) = Day(b.from) /\ b.to <= DayLength * (Day(t) + 1)
  <1>1. b.from \in Nat /\ b.to \in Nat /\ b.to <= DayLength * (Day(b.from) + 1)
    BY BlocksAssumption DEF Day
  <1>2. Day(b.from) \in Nat /\ DayLength * Day(b.from) <= b.from
    BY <1>1, DayBounds
  <1>3. /\ DayLength * Day(b.from) \in Nat
        /\ DayLength * (Day(b.from) + 1) \in Nat
    BY <1>2, DayAssumption
  <1>4. DayLength * Day(b.from) <= t /\ t < DayLength * (Day(b.from) + 1)
    BY <1>1, <1>2, <1>3
  <1>5. Day(t) = Day(b.from)
    BY <1>2, <1>4, DayUnique
  <1> QED BY <1>1, <1>5

LEMMA BlockEndsItsDay ==
  ASSUME NEW row, InOneBlock(row), row.from \in Nat, row.to \in Nat, row.from < row.to
  PROVE  row.to <= DayLength * (Day(row.from) + 1)
  <1>1. PICK b \in Blocks : b.from <= row.from /\ row.to <= b.to
    BY DEF InOneBlock
  <1>2. b.to \in Nat /\ row.from < b.to
    BY <1>1, BlocksAssumption
  <1>3. b.to <= DayLength * (Day(row.from) + 1)
    BY <1>1, <1>2, BlockDay
  <1>4. DayLength * (Day(row.from) + 1) \in Nat
    BY DayBounds, DayAssumption
  <1> QED BY <1>1, <1>2, <1>3, <1>4

\* Windows that end on the days on which they begin, two different ones.
LEMMA WithinDaysApart ==
  ASSUME NEW x, x.from \in Nat, x.to \in Nat, x.to <= DayLength * (Day(x.from) + 1),
         NEW y, y.from \in Nat, y.to \in Nat, y.to <= DayLength * (Day(y.from) + 1),
         Day(x.from) # Day(y.from)
  PROVE  ~Overlaps(x, y)
  <1>1. /\ Day(x.from) \in Nat /\ DayLength * Day(x.from) <= x.from
        /\ Day(y.from) \in Nat /\ DayLength * Day(y.from) <= y.from
    BY DayBounds
  <1>2. /\ DayLength * Day(x.from) \in Nat /\ DayLength * (Day(x.from) + 1) \in Nat
        /\ DayLength * Day(y.from) \in Nat /\ DayLength * (Day(y.from) + 1) \in Nat
        /\ DayLength \in Nat
    BY <1>1, DayAssumption
  <1>3. CASE Day(x.from) < Day(y.from)
    <2>1. DayLength * (Day(x.from) + 1) <= DayLength * Day(y.from)
      BY <1>1, <1>2, <1>3, ProductsOrder
    <2> QED BY <1>1, <1>2, <2>1 DEF Overlaps
  <1>4. CASE Day(y.from) < Day(x.from)
    <2>1. DayLength * (Day(y.from) + 1) <= DayLength * Day(x.from)
      BY <1>1, <1>2, <1>4, ProductsOrder
    <2> QED BY <1>1, <1>2, <2>1 DEF Overlaps
  <1> QED BY <1>1, <1>3, <1>4

LEMMA DaysApart ==
  ASSUME NEW x, InOneBlock(x), x.from \in Nat, x.to \in Nat, x.from < x.to,
         NEW y, InOneBlock(y), y.from \in Nat, y.to \in Nat, y.from < y.to,
         Day(x.from) # Day(y.from)
  PROVE  ~Overlaps(x, y)
  BY BlockEndsItsDay, WithinDaysApart

-----------------------------------------------------------------------------
(* Claims                                                                  *)

LEMMA ClaimFacts ==
  ASSUME NEW row, NEW c \in ClaimsOf(row)
  PROVE  \E i \in DOMAIN row.assigned :
           /\ c.staff = row.assigned[i] /\ c.from = i.from /\ c.to = i.to
           /\ c.staff # Nobody
           /\ i.kind = "service" \/ (i.kind = "component" /\ c.staff = row.staff)
  BY DEF ClaimsOf

LEMMA RowTypes ==
  ASSUME NEW row \in Bookings
  PROVE  /\ row.from \in Nat /\ row.to \in Nat /\ row.staff \in Staff \cup {Nobody}
         /\ row.service \in Services
         /\ \A i \in DOMAIN row.assigned :
              /\ i \in Row /\ i.from \in Nat /\ i.to \in Nat /\ i.service \in Services
              /\ i.kind \in {"service", "component", "dependency"}
              /\ row.assigned[i] \in Staff \cup {Nobody}
  <1>1. PICK items \in SUBSET Row : row.assigned \in [items -> Staff \cup {Nobody}]
    BY DEF Bookings
  <1>2. \A i \in DOMAIN row.assigned : i \in Row /\ row.assigned[i] \in Staff \cup {Nobody}
    BY <1>1
  <1>3. /\ row.from \in Nat /\ row.to \in Nat /\ row.staff \in Staff \cup {Nobody}
        /\ row.service \in Services
    BY DEF Bookings
  <1> QED BY <1>2, <1>3 DEF Row

\* An order holds staff in its window, until the window is moved.
LEMMA ClaimInWindow ==
  ASSUME NEW row, GoodRow(row), Spans(row), NEW c \in ClaimsOf(row)
  PROVE  /\ c.from \in Nat /\ c.to \in Nat /\ c.staff \in Staff
         /\ row.from <= c.from /\ c.from < c.to /\ c.to <= row.to
  <1>1. PICK i \in DOMAIN row.assigned :
          c.staff = row.assigned[i] /\ c.from = i.from /\ c.to = i.to /\ c.staff # Nobody
    BY ClaimFacts
  <1> QED BY <1>1, RowTypes DEF GoodRow, Spans

\* An order of a single service: all of it is its staff's, in its window.
LEMMA SingleStaff ==
  ASSUME NEW row, GoodRow(row), Single(row), NEW i \in DOMAIN row.assigned
  PROVE  row.assigned[i] = row.staff
  <1>1. \A j \in DOMAIN row.assigned : j.from \in Nat /\ j.kind \in {"service", "component", "dependency"}
    BY RowTypes DEF GoodRow
  <1>2. ASSUME NEW j \in DOMAIN row.assigned, j.kind = "service"
        PROVE  row.assigned[j] = row.staff
    <2>1. IsFirst(row, j)
      BY <1>1, <1>2 DEF IsFirst, Single
    <2> QED BY <2>1 DEF GoodRow, Mirrors
  <1>3. CASE i.kind = "dependency"
    <2>1. PICK j \in DOMAIN row.assigned : j.kind # "dependency" /\ j.from = i.from
      BY <1>3 DEF GoodRow, Slots
    <2>2. j.kind = "service"
      BY <1>1, <2>1 DEF Single
    <2>3. row.assigned[i] = row.assigned[j]
      BY <1>3, <2>1, <2>2 DEF GoodRow, Follow, Goes
    <2> QED BY <1>2, <2>2, <2>3
  <1> QED BY <1>1, <1>2, <1>3 DEF Single

LEMMA SingleSlot ==
  ASSUME NEW row, GoodRow(row), Single(row), Spans(row), NEW i \in DOMAIN row.assigned
  PROVE  i.from = row.from /\ i.to = row.to
  BY DEF GoodRow, Single, Spans, Slots

LEMMA SingleClaim ==
  ASSUME NEW row, GoodRow(row), Single(row), Spans(row), NEW c \in ClaimsOf(row)
  PROVE  c.staff = row.staff /\ c.staff # Nobody /\ c.from = row.from /\ c.to = row.to
  BY ClaimFacts, SingleStaff, SingleSlot

-----------------------------------------------------------------------------
(* What the checks find                                                    *)

LEMMA ActiveRow ==
  ASSUME IInv, NEW p \in Orders \ strayed, IsActive(p)
  PROVE  GoodRow(booking[p]) /\ GoodWindow(booking[p]) /\ Spans(booking[p])
  BY DEF IsActive, IInv, RowsOK, GoodWindow

\* Staff who are free at a time are held by no order that is where it was booked.
LEMMA FreeMeansApart ==
  ASSUME IInv, NEW s, NEW slot, IsStaffFreeAt(s, slot), slot.from \in Nat, slot.to \in Nat,
         NEW p \in Orders \ strayed, IsActive(p), NEW c \in Claims(p), c.staff = s
  PROVE  ~Overlaps(slot, c) /\ ~Overlaps(c, slot)
  <1>1. c \in ClaimsOf(booking[p])
    BY DEF Claims, ClaimsOf
  <1>2. PICK i \in DOMAIN booking[p].assigned :
          /\ c.staff = booking[p].assigned[i] /\ c.from = i.from /\ c.to = i.to
          /\ i.kind = "service" \/ (i.kind = "component" /\ c.staff = booking[p].staff)
    BY <1>1, ClaimFacts
  <1>3. /\ c.from \in Nat /\ c.to \in Nat
        /\ booking[p].from <= c.from /\ c.to <= booking[p].to
    BY <1>1, ActiveRow, ClaimInWindow
  <1>4. booking[p].from \in Nat /\ booking[p].to \in Nat
    BY ActiveRow, RowTypes DEF GoodRow
  <1>5. CASE i.kind = "service"
    <2>1. ~Overlaps(i, slot)
      BY <1>2, <1>5 DEF IsStaffFreeAt, IsItem
    <2> QED BY <1>2, <1>3, <2>1 DEF Overlaps
  <1>6. CASE c.staff = booking[p].staff
    <2>1. ~Overlaps(booking[p], slot)
      BY <1>6 DEF IsStaffFreeAt
    <2> QED BY <1>3, <1>4, <2>1 DEF Overlaps
  <1> QED BY <1>2, <1>5, <1>6

LEMMA NewBookingApart ==
  ASSUME IInv, NEW cart \in Carts, NEW start \in Starts,
         NEW who \in [DOMAIN cart -> Staff \cup {Nobody}],
         \A n \in DOMAIN cart : who[n] \in StaffFor(cart[n], Items(cart, start)[n]),
         NEW p \in Orders \ strayed, IsActive(p)
  PROVE  Apart(ClaimsOf(NewBooking(Items(cart, start), who)), Claims(p))
  <1> DEFINE items == Items(cart, start)
             row == NewBooking(items, who)
  <1>1. \A i \in DOMAIN row.assigned : \E n \in DOMAIN cart :
          /\ i.from = items[n].from /\ i.to = items[n].to
          /\ row.assigned[i] = who[n]
    BY NewBookingRows
  <1>2. /\ cart \in Seq(Lines)
        /\ \A n \in DOMAIN cart : items[n].from \in Nat /\ items[n].to \in Nat
    BY ItemsInOrder DEF Row
  <1>3. \A n \in DOMAIN cart : who[n] \in StaffFor(cart[n], items[n])
    OBVIOUS
  <1> HIDE DEF items, row
  <1>4. SUFFICES ASSUME NEW a \in ClaimsOf(row), NEW c \in Claims(p), a.staff = c.staff
                 PROVE  ~Overlaps(a, c)
    BY DEF Apart, row, items
  <1>5. PICK n \in DOMAIN cart :
          a.from = items[n].from /\ a.to = items[n].to /\ a.staff = who[n] /\ a.staff # Nobody
    BY <1>1, ClaimFacts
  <1>6. IsStaffFreeAt(who[n], items[n])
    BY <1>2, <1>3, <1>5, LineTypes, StaffForFree
  <1>7. ~Overlaps(items[n], c)
    BY <1>2, <1>4, <1>5, <1>6, FreeMeansApart
  <1> QED BY <1>5, <1>7 DEF Overlaps

\* The window of what is swapped of an order of a single service is its own.
LEMMA SingleWindow ==
  ASSUME NEW row, GoodRow(row), Single(row), Spans(row),
         NEW items, items \subseteq DOMAIN row.assigned, items # {}
  PROVE  LET slot == ItemsSlotWindow(items) IN slot.from = row.from /\ slot.to = row.to
  <1>1. row.from \in Nat /\ row.to \in Nat
    BY RowTypes DEF GoodRow
  <1>2. \A i \in items : i.from = row.from /\ i.to = row.to
    BY SingleSlot
  <1>3. {i.from : i \in items} = {row.from} /\ {i.to : i \in items} = {row.to}
    BY <1>2
  <1>4. (CHOOSE t \in {row.from} : \A i \in items : t <= i.from) = row.from
    BY <1>1, <1>2
  <1>5. (CHOOSE t \in {row.to} : \A i \in items : i.to <= t) = row.to
    BY <1>1, <1>2
  <1> QED BY <1>3, <1>4, <1>5 DEF ItemsSlotWindow

LEMMA SwapTargetFree ==
  ASSUME IInv, NEW o \in Orders \ strayed, IsActive(o), IsSingle(o),
         NEW items, items \subseteq DOMAIN booking[o].assigned, items # {},
         NEW target \in EligibleStaffForSlot(items, ItemsSlotWindow(items), o),
         NEW p \in Orders \ (strayed \cup {o}), IsActive(p), IsSingle(p),
         NEW b \in Claims(p), b.staff = target
  PROVE  ~Overlaps(booking[o], b)
  <1> DEFINE row == booking[o]
             slot == ItemsSlotWindow(items)
             other == booking[p]
  <1>1. GoodRow(row) /\ Spans(row) /\ Single(row)
    BY ActiveRow DEF IsSingle, Single
  <1>2. GoodRow(other) /\ GoodWindow(other) /\ Spans(other) /\ Single(other)
    BY ActiveRow DEF IsSingle, Single
  <1>3. /\ row.from \in Nat /\ row.to \in Nat /\ row.from < row.to
        /\ other.from \in Nat /\ other.to \in Nat /\ other.from < other.to
    <2>1. /\ row.from \in Nat /\ row.to \in Nat
          /\ other.from \in Nat /\ other.to \in Nat
      BY <1>1, <1>2, RowTypes DEF GoodRow
    <2>2. \A i \in DOMAIN row.assigned : i.from < i.to /\ i.from = row.from /\ i.to = row.to
      BY <1>1, SingleSlot DEF Spans
    <2>3. \A i \in DOMAIN other.assigned : i.from < i.to /\ i.from = other.from /\ i.to = other.to
      BY <1>2, SingleSlot DEF Spans
    <2>4. DOMAIN row.assigned # {} /\ DOMAIN other.assigned # {}
      BY <1>1, <1>2 DEF Spans
    <2> QED BY <2>1, <2>2, <2>3, <2>4
  <1>4. slot.from = row.from /\ slot.to = row.to
    BY <1>1, SingleWindow
  <1>5. b \in ClaimsOf(other)
    BY DEF Claims, ClaimsOf
  <1>6. other.staff = target /\ other.staff # Nobody /\ b.from = other.from /\ b.to = other.to
    BY <1>2, <1>5, SingleClaim
  <1>7. IsStaffAvailable(target, slot, LoadOrderSlots({Day(slot.from)}, o))
    BY DEF EligibleStaffForSlot
  <1>8. InOneBlock(row)
    BY <1>4, <1>7 DEF IsStaffAvailable, FitsSchedule, InOneBlock
  <1>9. InOneBlock(other)
    BY <1>2, <1>6 DEF GoodWindow
  <1>10. CASE Day(row.from) = Day(other.from)
    <2>1. p \in LoadOrderSlots({Day(slot.from)}, o)
      BY <1>4, <1>10 DEF LoadOrderSlots
    <2>2. ~Overlaps(other, slot)
      BY <1>6, <1>7, <2>1 DEF IsStaffAvailable
    <2> QED BY <1>3, <1>4, <1>6, <2>2 DEF Overlaps
  <1>11. CASE Day(row.from) # Day(other.from)
    <2>1. ~Overlaps(row, other)
      BY <1>3, <1>8, <1>9, <1>11, DaysApart
    <2> QED BY <1>6, <2>1 DEF Overlaps
  <1> QED BY <1>10, <1>11
-----------------------------------------------------------------------------
(* When requests do not overlap                                            *)

AllIdle == \A g \in Requests : txn[g] = Idle

LEMMA IdleHolds ==
  ASSUME AllIdle
  PROVE  Alone /\ BookStillFree /\ SwapStillFree
  BY DEF AllIdle, Alone, BookStillFree, SwapStillFree, Idle

\* A request begins: there is no other.
LEMMA BeginAlone ==
  ASSUME IInv, Serial, NEW h \in Requests, NEW work, Begin(h, work)
  PROVE  /\ txn'[h] = work /\ \A g \in Requests \ {h} : txn'[g] = Idle
         /\ UNCHANGED <<phase, money, booking, swapped, strayed>>
         /\ Alone'
  BY DEF Begin, CanStart, IInv, TxnOK, Alone

\* A request ends: none is left.
LEMMA EndIdle ==
  ASSUME IInv, Alone, NEW h \in Requests, txn[h] # Idle, txn' = [txn EXCEPT ![h] = Idle]
  PROVE  AllIdle'
  BY DEF AllIdle, Alone, IInv, TxnOK

LEMMA SameOrders ==
  ASSUME BookedOnce, SinglesNeverClash, UNCHANGED <<phase, booking, swapped, strayed>>
  PROVE  BookedOnce' /\ SinglesNeverClash'
  BY DEF BookedOnce, SinglesNeverClash, Clash, Claims, IsActive, IsSingle

LEMMA CheckBookingSerial ==
  ASSUME SerialInv, Serial, NEW h \in Requests, NEW cart \in Carts, NEW start \in Starts,
         CheckBooking(h, cart, start)
  PROVE  Alone' /\ BookStillFree' /\ SwapStillFree' /\ BookedOnce' /\ SinglesNeverClash'
  <1> DEFINE items == Items(cart, start)
             staff == [n \in DOMAIN cart |-> StaffFor(cart[n], items[n])]
  <1>1. PICK who \in [DOMAIN cart -> Staff \cup {Nobody}] :
          /\ \A n \in DOMAIN cart : who[n] \in staff[n]
          /\ Begin(h, [op |-> "book", booking |-> NewBooking(items, who)])
    BY DEF CheckBooking
  <1>2. \A n \in DOMAIN cart : who[n] \in StaffFor(cart[n], items[n])
    BY <1>1
  <1> DEFINE row == NewBooking(items, who)
             work == [op |-> "book", booking |-> row]
  <1>3. \A p \in Orders \ strayed : IsActive(p) => Apart(ClaimsOf(row), Claims(p))
    BY <1>2, NewBookingApart DEF SerialInv
  <1> HIDE DEF row
  <1>4. Begin(h, work)
    BY <1>1 DEF row
  <1>5. /\ txn'[h] = work /\ \A g \in Requests \ {h} : txn'[g] = Idle
        /\ UNCHANGED <<phase, money, booking, swapped, strayed>>
        /\ Alone'
    BY <1>4, BeginAlone DEF SerialInv
  <1>6. BookedOnce' /\ SinglesNeverClash'
    BY <1>5, SameOrders DEF SerialInv
  <1>7. BookStillFree'
    BY <1>3, <1>5 DEF BookStillFree, Idle, IsActive, Claims
  <1>8. SwapStillFree'
    BY <1>5 DEF SwapStillFree, Idle
  <1> QED BY <1>5, <1>6, <1>7, <1>8

LEMMA CheckSwapSerial ==
  ASSUME SerialInv, Serial, NEW h \in Requests, NEW o \in Orders, NEW source \in Staff,
         NEW target \in Staff, CheckSwap(h, o, source, target)
  PROVE  Alone' /\ BookStillFree' /\ SwapStillFree' /\ BookedOnce' /\ SinglesNeverClash'
  <1> DEFINE items == ServiceItemsAssignedTo(booking[o], source)
             work == [op |-> "swap", order |-> o, items |-> items, target |-> target,
                      mirrored |-> booking[o].staff = source]
  <1>1. /\ IsActive(o) /\ items # {} /\ items \subseteq DOMAIN booking[o].assigned
        /\ target \in EligibleStaffForSlot(items, ItemsSlotWindow(items), o)
    BY DEF CheckSwap, ServiceItemsAssignedTo
  <1>2. Begin(h, work)
    BY DEF CheckSwap
  <1> HIDE DEF items
  <1>3. /\ txn'[h] = work /\ \A g \in Requests \ {h} : txn'[g] = Idle
        /\ UNCHANGED <<phase, money, booking, swapped, strayed>>
        /\ Alone'
    BY <1>2, BeginAlone DEF SerialInv
  <1>4. BookedOnce' /\ SinglesNeverClash'
    BY <1>3, SameOrders DEF SerialInv
  <1>5. BookStillFree'
    BY <1>3 DEF BookStillFree, Idle
  <1>6. ASSUME o \notin strayed, IsSingle(o),
               NEW p \in Orders \ (strayed \cup {o}), IsActive(p), IsSingle(p),
               NEW b \in Claims(p), b.staff = target
        PROVE  ~Overlaps(booking[o], b)
    BY <1>1, <1>6, SwapTargetFree DEF SerialInv
  <1>7. SwapStillFree'
    BY <1>3, <1>6 DEF SwapStillFree, Idle, IsActive, IsSingle, Claims
  <1> QED BY <1>3, <1>4, <1>5, <1>7

LEMMA CheckRescheduleSerial ==
  ASSUME SerialInv, Serial, NEW h \in Requests, NEW o \in Orders, NEW start \in Starts,
         CheckReschedule(h, o, start)
  PROVE  Alone' /\ BookStillFree' /\ SwapStillFree' /\ BookedOnce' /\ SinglesNeverClash'
  <1> DEFINE work == [op |-> "move", order |-> o, from |-> start,
                      to |-> start + Duration[booking[o].service]]
  <1>1. Begin(h, work)
    BY DEF CheckReschedule
  <1>2. /\ txn'[h] = work /\ \A g \in Requests \ {h} : txn'[g] = Idle
        /\ UNCHANGED <<phase, money, booking, swapped, strayed>>
        /\ Alone'
    BY <1>1, BeginAlone DEF SerialInv
  <1>3. BookedOnce' /\ SinglesNeverClash'
    BY <1>2, SameOrders DEF SerialInv
  <1>4. BookStillFree' /\ SwapStillFree'
    BY <1>2 DEF BookStillFree, SwapStillFree, Idle
  <1> QED BY <1>2, <1>3, <1>4

\* One order changes; it clashes with none of the others in question, which
\* are as they were.
LEMMA OneOrderChanges ==
  ASSUME NEW o \in Orders, NEW S \in SUBSET Orders,
         \A p, q \in S \ {o} : ~Clash(p, q),
         \A p \in S \ {o} : (IsActive(p)' => IsActive(p)) /\ Claims(p)' = Claims(p),
         o \in S /\ IsActive(o)' =>
           \A p \in S \ {o} : IsActive(p) => Apart(Claims(o)', Claims(p))
  PROVE  \A p, q \in S : ~Clash(p, q)'
  <1> SUFFICES ASSUME NEW p \in S, NEW q \in S, Clash(p, q)'
               PROVE  FALSE
    OBVIOUS
  <1>1. PICK a \in Claims(p)', b \in Claims(q)' : a.staff = b.staff /\ Overlaps(a, b)
    BY DEF Clash, Overlaps
  <1>2. p # q /\ IsActive(p)' /\ IsActive(q)'
    BY DEF Clash
  <1>3. CASE p # o /\ q # o
    <2>1. IsActive(p) /\ IsActive(q) /\ Claims(p)' = Claims(p) /\ Claims(q)' = Claims(q)
      BY <1>2, <1>3
    <2>2. Clash(p, q)
      BY <1>1, <1>2, <2>1 DEF Clash
    <2> QED BY <1>3, <2>2
  <1>4. CASE p = o
    <2>1. q \in S \ {o} /\ IsActive(q) /\ Claims(q)' = Claims(q)
      BY <1>2, <1>4
    <2>2. Apart(Claims(o)', Claims(q))
      BY <1>2, <1>4, <2>1
    <2> QED BY <1>1, <1>4, <2>1, <2>2 DEF Apart
  <1>5. CASE q = o
    <2>1. p \in S \ {o} /\ IsActive(p) /\ Claims(p)' = Claims(p)
      BY <1>2, <1>5
    <2>2. Apart(Claims(o)', Claims(p))
      BY <1>2, <1>5, <2>1
    <2> QED BY <1>1, <1>5, <2>1, <2>2 DEF Apart, Overlaps
  <1> QED BY <1>3, <1>4, <1>5
LEMMA InsertBookingSerial ==
  ASSUME SerialInv, Serial, NEW h \in Requests, NEW o \in Orders, InsertBooking(h, o)
  PROVE  Alone' /\ BookStillFree' /\ SwapStillFree' /\ BookedOnce' /\ SinglesNeverClash'
  <1> DEFINE row == txn[h].booking
  <1>1. txn[h].op = "book" /\ txn[h] # Idle
    BY DEF InsertBooking, Idle
  <1>2. /\ phase[o] = "none"
        /\ \E s \in {"awaiting", "booked"} : phase' = [phase EXCEPT ![o] = s]
    BY DEF InsertBooking, Checkout!BookToPayOnline, Checkout!BookToPayInPerson
  <1>3. /\ booking' = [booking EXCEPT ![o] = row]
        /\ txn' = [txn EXCEPT ![h] = Idle] /\ UNCHANGED <<swapped, strayed>>
    BY DEF InsertBooking
  <1>4. \A p \in Orders \ {o} : phase'[p] = phase[p] /\ booking'[p] = booking[p]
    BY <1>2, <1>3 DEF SerialInv, IInv, TypeOK
  <1>5. booking'[o] = row
    BY <1>3 DEF SerialInv, IInv, TypeOK
  <1>6. \A p \in Orders \ {o} :
          IsActive(p)' = IsActive(p) /\ Claims(p)' = Claims(p) /\ IsSingle(p)' = IsSingle(p)
    BY <1>4 DEF IsActive, Claims, IsSingle
  <1>7. Claims(o)' = ClaimsOf(row)
    BY <1>5 DEF Claims, ClaimsOf
  <1>8. \A p \in Orders \ strayed : IsActive(p) => Apart(Claims(o)', Claims(p))
    BY <1>1, <1>7 DEF SerialInv, BookStillFree
  <1>9. BookedOnce'
    <2>1. PICK S \in SUBSET Orders : S = Orders \ (swapped \cup strayed)
      OBVIOUS
    <2>2. \A p, q \in S \ {o} : ~Clash(p, q)
      BY <2>1 DEF SerialInv, BookedOnce
    <2>3. \A p, q \in S : ~Clash(p, q)'
      BY <1>6, <1>8, <2>1, <2>2, OneOrderChanges
    <2> QED BY <1>3, <2>1, <2>3 DEF BookedOnce
  <1>10. SinglesNeverClash'
    <2>1. PICK S \in SUBSET Orders : S = {p \in Orders \ strayed : IsSingle(p)'}
      OBVIOUS
    <2>2. \A p, q \in S \ {o} : ~Clash(p, q)
      BY <1>6, <2>1 DEF SerialInv, SinglesNeverClash
    <2>3. \A p, q \in S : ~Clash(p, q)'
      BY <1>6, <1>8, <2>1, <2>2, OneOrderChanges
    <2> QED BY <1>3, <2>1, <2>3 DEF SinglesNeverClash
  <1>11. AllIdle'
    BY <1>1, <1>3, EndIdle DEF SerialInv
  <1>12. Alone' /\ BookStillFree' /\ SwapStillFree'
    BY <1>11 DEF AllIdle, Alone, BookStillFree, SwapStillFree, Idle
  <1> QED BY <1>9, <1>10, <1>12

LEMMA WriteSwapSerial ==
  ASSUME SerialInv, Serial, NEW h \in Requests, WriteSwap(h)
  PROVE  Alone' /\ BookStillFree' /\ SwapStillFree' /\ BookedOnce' /\ SinglesNeverClash'
  <1> DEFINE work == txn[h]
             row == booking[work.order]
             new == booking'[work.order]
  <1>1. work.op = "swap" /\ work # Idle
    BY DEF WriteSwap, Idle
  <1>2. PICK o \in Orders : o = work.order /\ phase[o] # "none"
    BY <1>1 DEF SerialInv, IInv, TxnOK, WorkOK, SwapOK
  <1>3. /\ \A p \in Orders \ {o} : booking'[p] = booking[p]
        /\ GoodRow(row)
        /\ new.from = row.from /\ new.to = row.to
        /\ new.staff = IF work.mirrored THEN work.target ELSE row.staff
        /\ DOMAIN new.assigned = DOMAIN row.assigned
    BY <1>2, WriteSwapRow DEF SerialInv
  <1>4. /\ txn' = [txn EXCEPT ![h] = Idle] /\ swapped' = swapped \cup {o}
        /\ UNCHANGED <<phase, money, strayed>>
    BY <1>2 DEF WriteSwap
  <1>5. GoodRow(new)
    <2>1. IInv'
      BY WriteSwapInv DEF SerialInv
    <2>2. GoodRow(booking'[o])
      BY <1>2, <1>4, <2>1 DEF IInv, RowsOK, GoodRow
    <2> QED BY <1>2, <2>2
  <1>6. \A p \in Orders \ {o} :
          IsActive(p)' = IsActive(p) /\ Claims(p)' = Claims(p) /\ IsSingle(p)' = IsSingle(p)
    BY <1>3, <1>4 DEF IsActive, Claims, IsSingle
  <1>7. IsActive(o)' = IsActive(o) /\ IsSingle(o)' = IsSingle(o)
    BY <1>2, <1>3, <1>4 DEF IsActive, IsSingle
  <1>8. BookedOnce'
    <2>1. PICK S \in SUBSET Orders : S = Orders \ (swapped' \cup strayed)
      OBVIOUS
    <2>2. \A p, q \in S \ {o} : ~Clash(p, q)
      BY <1>4, <2>1 DEF SerialInv, BookedOnce
    <2>3. o \notin S
      BY <1>4, <2>1
    <2>4. \A p, q \in S : ~Clash(p, q)'
      BY <1>6, <2>2, <2>3, OneOrderChanges
    <2> QED BY <1>4, <2>1, <2>4 DEF BookedOnce
  <1>9. ASSUME o \notin strayed, IsSingle(o), IsActive(o),
               NEW p \in Orders \ (strayed \cup {o}), IsActive(p), IsSingle(p),
               NEW a \in Claims(o)', NEW b \in Claims(p), a.staff = b.staff
        PROVE  ~Overlaps(a, b)
    <2>1. a \in ClaimsOf(new)
      BY <1>2 DEF Claims, ClaimsOf
    <2>2. Single(row) /\ Single(new)
      BY <1>2, <1>3, <1>9 DEF IsSingle, Single
    <2>3. Spans(row)
      BY <1>2, <1>9, ActiveRow DEF SerialInv
    <2>4. Spans(new)
      BY <1>3, <2>3 DEF Spans
    <2>5. a.staff = new.staff /\ a.from = row.from /\ a.to = row.to
      BY <1>3, <1>5, <2>1, <2>2, <2>4, SingleClaim
    <2>6. CASE new.staff = work.target
      <3>1. ~Overlaps(booking[o], b)
        BY <1>1, <1>2, <1>9, <2>5, <2>6 DEF SerialInv, SwapStillFree
      <3> QED BY <1>2, <2>5, <3>1 DEF Overlaps
    <2>7. CASE new.staff = row.staff
      <3>1. PICK i \in DOMAIN row.assigned :
              a.from = i.from /\ a.to = i.to /\ a.staff # Nobody /\ i.kind = "service"
        BY <1>3, <2>1, <2>2, ClaimFacts DEF Single
      <3>2. row.assigned[i] = a.staff
        BY <1>3, <2>2, <2>5, <2>7, SingleStaff
      <3> DEFINE c == [staff |-> row.assigned[i], from |-> i.from, to |-> i.to]
      <3>3. c \in ClaimsOf(row) /\ c.staff = a.staff /\ c.from = a.from /\ c.to = a.to
        BY <3>1, <3>2 DEF ClaimsOf
      <3> HIDE DEF c
      <3>4. c \in Claims(o)
        BY <1>2, <3>3 DEF Claims, ClaimsOf
      <3>5. ~Clash(o, p)
        BY <1>9 DEF SerialInv, SinglesNeverClash
      <3>6. ~Overlaps(c, b)
        BY <1>9, <3>3, <3>4, <3>5 DEF Clash
      <3> QED BY <3>3, <3>6 DEF Overlaps
    <2> QED BY <1>3, <2>6, <2>7
  <1>10. SinglesNeverClash'
    <2>1. PICK S \in SUBSET Orders : S = {p \in Orders \ strayed : IsSingle(p)'}
      OBVIOUS
    <2>2. \A p, q \in S \ {o} : ~Clash(p, q)
      BY <1>6, <2>1 DEF SerialInv, SinglesNeverClash
    <2>3. o \in S /\ IsActive(o)' =>
            \A p \in S \ {o} : IsActive(p) => Apart(Claims(o)', Claims(p))
      BY <1>6, <1>7, <1>9, <2>1 DEF Apart
    <2>4. \A p, q \in S : ~Clash(p, q)'
      BY <1>6, <2>2, <2>3, OneOrderChanges
    <2> QED BY <1>4, <2>1, <2>4 DEF SinglesNeverClash
  <1>11. AllIdle'
    BY <1>1, <1>4, EndIdle DEF SerialInv
  <1>12. Alone' /\ BookStillFree' /\ SwapStillFree'
    BY <1>11 DEF AllIdle, Alone, BookStillFree, SwapStillFree, Idle
  <1> QED BY <1>8, <1>10, <1>12

LEMMA WriteRescheduleSerial ==
  ASSUME SerialInv, Serial, NEW h \in Requests, WriteReschedule(h)
  PROVE  Alone' /\ BookStillFree' /\ SwapStillFree' /\ BookedOnce' /\ SinglesNeverClash'
  <1>1. txn[h].op = "move" /\ txn[h] # Idle
    BY DEF WriteReschedule, Idle
  <1>2. PICK o \in Orders : o = txn[h].order
    BY <1>1 DEF SerialInv, IInv, TxnOK, WorkOK
  <1>3. /\ \E new : booking' = [booking EXCEPT ![o] = new]
        /\ txn' = [txn EXCEPT ![h] = Idle] /\ strayed' = strayed \cup {o}
        /\ UNCHANGED <<phase, money, swapped>>
    BY <1>2 DEF WriteReschedule
  <1>4. \A p \in Orders \ {o} : booking'[p] = booking[p]
    BY <1>3 DEF SerialInv, IInv, TypeOK
  <1>5. \A p \in Orders \ {o} :
          IsActive(p)' = IsActive(p) /\ Claims(p)' = Claims(p) /\ IsSingle(p)' = IsSingle(p)
    BY <1>3, <1>4 DEF IsActive, Claims, IsSingle
  <1>6. \A p, q \in Orders \ strayed' : Clash(p, q)' = Clash(p, q)
    BY <1>3, <1>5 DEF Clash, Overlaps
  <1>7. BookedOnce' /\ SinglesNeverClash'
    BY <1>3, <1>5, <1>6 DEF SerialInv, BookedOnce, SinglesNeverClash
  <1>8. AllIdle'
    BY <1>1, <1>3, EndIdle DEF SerialInv
  <1>9. Alone' /\ BookStillFree' /\ SwapStillFree'
    BY <1>8 DEF AllIdle, Alone, BookStillFree, SwapStillFree, Idle
  <1> QED BY <1>7, <1>9

LEMMA AbandonSerial ==
  ASSUME SerialInv, Serial, NEW h \in Requests, Abandon(h)
  PROVE  Alone' /\ BookStillFree' /\ SwapStillFree' /\ BookedOnce' /\ SinglesNeverClash'
  <1>1. BookedOnce' /\ SinglesNeverClash'
    BY SameOrders DEF SerialInv, Abandon
  <1>2. AllIdle'
    BY EndIdle DEF SerialInv, Abandon
  <1>3. Alone' /\ BookStillFree' /\ SwapStillFree'
    BY <1>2 DEF AllIdle, Alone, BookStillFree, SwapStillFree, Idle
  <1> QED BY <1>1, <1>3

\* What is free stays free while orders are only dropped, and come back only
\* to stray.
LEMMA StillFree ==
  ASSUME BookStillFree, SwapStillFree, UNCHANGED <<booking, txn>>, strayed \subseteq strayed',
         \A p \in Orders \ strayed' : IsActive(p)' => IsActive(p)
  PROVE  BookStillFree' /\ SwapStillFree'
  <1>1. \A p \in Orders : Claims(p)' = Claims(p) /\ IsSingle(p)' = IsSingle(p)
    BY DEF Claims, IsSingle
  <1>2. BookStillFree'
    BY <1>1 DEF BookStillFree
  <1>3. ASSUME NEW h \in Requests, txn[h].op = "swap",
               txn[h].order \notin strayed', IsSingle(txn[h].order)',
               NEW p \in Orders \ (strayed' \cup {txn[h].order}), IsActive(p)', IsSingle(p)',
               NEW b \in Claims(p)', b.staff = txn[h].target
        PROVE  ~Overlaps(booking[txn[h].order], b)
    <2>1. IsSingle(txn[h].order)
      BY <1>3 DEF IsSingle
    <2> QED BY <1>1, <1>3, <2>1 DEF SwapStillFree
  <1>4. SwapStillFree'
    BY <1>3 DEF SwapStillFree, Overlaps
  <1> QED BY <1>2, <1>4

LEMMA ProceedSerial ==
  ASSUME SerialInv, NEW o \in Orders, Proceed(o)
  PROVE  Alone' /\ BookStillFree' /\ SwapStillFree' /\ BookedOnce' /\ SinglesNeverClash'
  <1>1. /\ \A p \in Orders \ strayed' : IsActive(p)' => IsActive(p)
        /\ strayed \subseteq strayed' /\ strayed' \subseteq Orders
        /\ UNCHANGED <<booking, txn, swapped>>
    BY ProceedPhases DEF SerialInv
  <1>2. \A p \in Orders : Claims(p)' = Claims(p) /\ IsSingle(p)' = IsSingle(p)
    BY <1>1 DEF Claims, IsSingle
  <1>3. \A p, q \in Orders \ strayed' : Clash(p, q)' => Clash(p, q)
    BY <1>1, <1>2 DEF Clash, Overlaps
  <1>4. BookedOnce' /\ SinglesNeverClash'
    BY <1>1, <1>2, <1>3 DEF SerialInv, BookedOnce, SinglesNeverClash
  <1>5. Alone'
    BY <1>1 DEF SerialInv, Alone
  <1>6. BookStillFree' /\ SwapStillFree'
    BY <1>1, StillFree DEF SerialInv
  <1> QED BY <1>4, <1>5, <1>6

LEMMA SerialInvariance == ASSUME Serial PROVE Spec => []SerialInv
  <1>1. Init => SerialInv
    <2> SUFFICES ASSUME Init PROVE SerialInv
      OBVIOUS
    <2>1. IInv
      BY InitInv
    <2>2. Alone /\ BookStillFree /\ SwapStillFree
      BY IdleHolds DEF Init, AllIdle
    <2>3. \A p \in Orders : ~IsActive(p)
      BY DEF Init, Checkout!Init, IsActive
    <2> QED BY <2>1, <2>2, <2>3 DEF SerialInv, BookedOnce, SinglesNeverClash, Clash
  <1>2. SerialInv /\ [Next]_vars => SerialInv'
    <2> SUFFICES ASSUME SerialInv, [Next]_vars PROVE SerialInv'
      OBVIOUS
    <2> DEFINE Rest == Alone /\ BookStillFree /\ SwapStillFree /\ BookedOnce /\ SinglesNeverClash
    <2>1. IInv'
      BY NextInv DEF SerialInv
    <2>2. ASSUME NEW h \in Requests, NEW cart \in Carts, NEW start \in Starts,
                 CheckBooking(h, cart, start)
          PROVE  Rest'
      BY <2>2, CheckBookingSerial
    <2>3. ASSUME NEW h \in Requests, NEW o \in Orders, InsertBooking(h, o)
          PROVE  Rest'
      BY <2>3, InsertBookingSerial
    <2>4. ASSUME NEW h \in Requests, NEW o \in Orders, NEW source \in Staff,
                 NEW target \in Staff, CheckSwap(h, o, source, target)
          PROVE  Rest'
      BY <2>4, CheckSwapSerial
    <2>5. ASSUME NEW h \in Requests, NEW o \in Orders, NEW start \in Starts,
                 CheckReschedule(h, o, start)
          PROVE  Rest'
      BY <2>5, CheckRescheduleSerial
    <2>6. ASSUME NEW h \in Requests, WriteSwap(h) \/ WriteReschedule(h) \/ Abandon(h)
          PROVE  Rest'
      BY <2>6, WriteSwapSerial, WriteRescheduleSerial, AbandonSerial
    <2>7. ASSUME NEW o \in Orders, Proceed(o)
          PROVE  Rest'
      BY <2>7, ProceedSerial
    <2>8. ASSUME UNCHANGED vars PROVE Rest'
      <3>1. BookedOnce' /\ SinglesNeverClash'
        BY <2>8, SameOrders DEF SerialInv, vars
      <3>2. BookStillFree' /\ SwapStillFree'
        BY <2>8, StillFree DEF vars, SerialInv, IsActive
      <3>3. Alone'
        BY <2>8 DEF vars, SerialInv, Alone
      <3> QED BY <3>1, <3>2, <3>3
    <2> HIDE DEF Rest
    <2>9. Rest'
      BY <2>2, <2>3, <2>4, <2>5, <2>6, <2>7, <2>8 DEF Next
    <2> QED BY <2>1, <2>9 DEF SerialInv, Rest
  <1> QED BY <1>1, <1>2, PTL DEF Spec

\* When requests do not overlap, createBooking never gives two orders the same
\* person at the same time, as long as both stay as they were booked.
THEOREM BookedOnceAlways == ASSUME Serial PROVE Spec => []BookedOnce
  <1>1. SerialInv => BookedOnce
    BY DEF SerialInv
  <1> QED BY <1>1, SerialInvariance, PTL

\* When requests do not overlap, orders of a single service do not clash even
\* after swaps.
THEOREM SinglesNeverClashAlways == ASSUME Serial PROVE Spec => []SinglesNeverClash
  <1>1. SerialInv => SinglesNeverClash
    BY DEF SerialInv
  <1> QED BY <1>1, SerialInvariance, PTL
=============================================================================
