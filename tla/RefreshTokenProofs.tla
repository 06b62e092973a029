-------------------------- MODULE RefreshTokenProofs ---------------------------
(***************************************************************************)
(* Proofs about RefreshTokens, for any users, requests, life time, and     *)
(* bounds: its types, and that it implements SessionContract when          *)
(* refreshes do not overlap.                                               *)
(***************************************************************************)
EXTENDS RefreshTokens, FiniteSetTheorems, TLAPS

\* Nobody else is in flight, and the row that was found is live still: logins
\* and the clock revoke nothing.
FoundIsLive ==
  Serial =>
    /\ \A g, h \in Requests : txn[g] # Idle /\ txn[h] # Idle => g = h
    /\ \A h \in Requests : txn[h].op = "rotate" => ~rows[txn[h].row].revoked

IInv ==
  /\ TypeOK
  /\ txn \in [Requests -> Work]
  /\ FoundIsLive

-----------------------------------------------------------------------------
(* Rows                                                                    *)

LEMMA RowTypes ==
  ASSUME IInv
  PROVE  /\ Len(rows) \in Nat /\ RowIds = 1..Len(rows) /\ rows \in Seq(Row)
         /\ \A i \in RowIds : rows[i] \in Row
         /\ \A h \in Requests :
              /\ txn[h].op = "rotate" => txn[h].row \in RowIds /\ txn[h] # Idle
              /\ txn[h].op = "revokeAll" => txn[h].user \in Users /\ txn[h] # Idle
  <1>1. rows \in Seq(Row)
    BY DEF IInv, TypeOK
  <1>2. Len(rows) \in Nat /\ RowIds = 1..Len(rows)
    BY <1>1 DEF RowIds
  <1>3. \A i \in RowIds : rows[i] \in Row
    BY <1>1, <1>2
  <1>4. ASSUME NEW h \in Requests
        PROVE  /\ txn[h].op = "rotate" => txn[h].row \in RowIds /\ txn[h] # Idle
               /\ txn[h].op = "revokeAll" => txn[h].user \in Users /\ txn[h] # Idle
    <2>1. txn[h] \in Work
      BY DEF IInv
    <2> QED BY <2>1 DEF Work, Idle
  <1> QED BY <1>1, <1>2, <1>3, <1>4

\* A row is added; the others, none of them unrevoked by it, keep their user.
Grown(q) ==
  /\ q \in Seq(Row) /\ Len(q) = Len(rows)
  /\ \A i \in RowIds : q[i].user = rows[i].user /\ (rows[i].revoked => q[i].revoked)

LEMMA AppendRow ==
  ASSUME IInv, NEW q, Grown(q), NEW r \in Row, rows' = Append(q, r)
  PROVE  /\ rows' \in Seq(Row) /\ RowIds' = RowIds \cup {Len(rows) + 1}
         /\ Len(rows) + 1 \notin RowIds /\ Work \subseteq Work'
         /\ \A i \in RowIds : rows'[i] = q[i]
         /\ rows'[Len(rows) + 1] = r
  <1>1. q \in Seq(Row) /\ Len(q) = Len(rows) /\ Len(rows) \in Nat /\ RowIds = 1..Len(rows)
    BY RowTypes DEF Grown
  <1>2. /\ rows' \in Seq(Row) /\ RowIds' = 1..(Len(rows) + 1)
        /\ \A i \in 1..Len(rows) : rows'[i] = q[i]
        /\ rows'[Len(rows) + 1] = r
    BY <1>1 DEF RowIds
  <1>3. RowIds' = RowIds \cup {Len(rows) + 1} /\ Len(rows) + 1 \notin RowIds
    BY <1>1, <1>2
  <1>4. Work \subseteq Work'
    BY <1>3 DEF Work
  <1> QED BY <1>1, <1>2, <1>3, <1>4

LEMMA NewRowType ==
  ASSUME IInv, NEW u \in Users
  PROVE  NewRow(u) \in Row
  BY DEF IInv, TypeOK, NewRow, Row

LEMMA ExchangedRow ==
  ASSUME NEW x \in Row
  PROVE  LET r == [x EXCEPT !.revoked = TRUE, !.exchanged = @ + 1]
         IN  r \in Row /\ r.user = x.user /\ r.revoked
  <1>1. [x EXCEPT !.revoked = TRUE, !.exchanged = @ + 1] \in Row
    <2> DEFINE y == [x EXCEPT !.revoked = TRUE]
    <2>1. y \in Row
      BY DEF Row
    <2>2. y.exchanged = x.exchanged
      BY DEF Row
    <2> HIDE DEF y
    <2>3. [y EXCEPT !.exchanged = @ + 1] \in Row
      BY <2>1 DEF Row
    <2> QED BY <2>2, <2>3 DEF y
  <1>2. [x EXCEPT !.revoked = TRUE, !.exchanged = @ + 1].user = x.user
    BY DEF Row
  <1>3. [x EXCEPT !.revoked = TRUE, !.exchanged = @ + 1].revoked
    BY DEF Row
  <1> QED BY <1>1, <1>2, <1>3

\* What a successful refresh makes of the row it has found.
LEMMA Exchanged ==
  ASSUME IInv, NEW i \in RowIds
  PROVE  LET q == [rows EXCEPT ![i].revoked = TRUE, ![i].exchanged = @ + 1]
         IN  /\ Grown(q) /\ q[i].revoked
             /\ \A j \in RowIds \ {i} : q[j] = rows[j]
  <1> DEFINE q == [rows EXCEPT ![i].revoked = TRUE, ![i].exchanged = @ + 1]
             r == [rows[i] EXCEPT !.revoked = TRUE, !.exchanged = @ + 1]
  <1>1. rows[i] \in Row
    BY RowTypes
  <1>2. r \in Row /\ r.user = rows[i].user /\ r.revoked
    BY <1>1, ExchangedRow
  <1>3. q = [rows EXCEPT ![i] = r]
    OBVIOUS
  <1> HIDE DEF q, r
  <1>4. /\ q \in Seq(Row) /\ Len(q) = Len(rows) /\ q[i] = r
        /\ \A j \in RowIds \ {i} : q[j] = rows[j]
    BY <1>2, <1>3, RowTypes
  <1> QED BY <1>2, <1>4 DEF Grown, q

-----------------------------------------------------------------------------
(* The invariant                                                           *)

LEMMA InitInv == Init => IInv
  <1> SUFFICES ASSUME Init PROVE IInv
    OBVIOUS
  <1>1. TypeOK
    BY DEF Init, TypeOK, Work
  <1>2. txn \in [Requests -> Work] /\ \A h \in Requests : txn[h] = Idle
    BY DEF Init, Work
  <1> QED BY <1>1, <1>2 DEF IInv, FoundIsLive, Idle

\* Rows are added or kept, requests go on as they were: logins and the clock.
LEMMA LoginInv ==
  ASSUME IInv, NEW u \in Users, Login(u)
  PROVE  IInv'
  <1>1. Grown(rows) /\ NewRow(u) \in Row
    BY RowTypes, NewRowType DEF Grown
  <1>2. /\ rows' \in Seq(Row) /\ Work \subseteq Work'
        /\ \A i \in RowIds : rows'[i] = rows[i]
    BY <1>1, AppendRow DEF Login
  <1>3. TypeOK' /\ txn' \in [Requests -> Work']
    BY <1>2 DEF IInv, TypeOK, Login
  <1>4. FoundIsLive'
    BY <1>2, RowTypes DEF IInv, FoundIsLive, Login
  <1> QED BY <1>3, <1>4 DEF IInv

LEMMA FindInv ==
  ASSUME IInv, NEW h \in Requests, NEW i \in RowIds, FindToken(h, i)
  PROVE  IInv'
  <1>1. PICK j \in RowIds :
          txn' = [txn EXCEPT ![h] =
            IF rows[j].revoked THEN [op |-> "revokeAll", user |-> rows[j].user]
            ELSE [op |-> "rotate", row |-> j]]
    BY DEF FindToken
  <1> DEFINE w == IF rows[j].revoked THEN [op |-> "revokeAll", user |-> rows[j].user]
                  ELSE [op |-> "rotate", row |-> j]
  <1>2. rows[j] \in Row
    BY RowTypes
  <1>3. w \in Work /\ (w.op = "rotate" => ~rows[w.row].revoked)
    BY <1>2 DEF Row, Work
  <1>4. txn' = [txn EXCEPT ![h] = w]
    BY <1>1
  <1> HIDE DEF w
  <1>5. /\ txn' \in [Requests -> Work]
        /\ \A g \in Requests : txn'[g] = IF g = h THEN w ELSE txn[g]
    BY <1>3, <1>4 DEF IInv
  <1>6. UNCHANGED <<now, rows, logins, Work>>
    BY DEF FindToken, Work, RowIds
  <1>7. TypeOK'
    BY <1>5, <1>6 DEF IInv, TypeOK
  <1>8. FoundIsLive'
    BY <1>3, <1>5, <1>6 DEF IInv, FoundIsLive, FindToken, CanStart
  <1> QED BY <1>5, <1>6, <1>7, <1>8 DEF IInv

\* A request that ends: the rows keep their ids, what becomes of them is no other
\* request's concern.
LEMMA EndInv ==
  ASSUME IInv, NEW h \in Requests, txn[h] # Idle, txn' = [txn EXCEPT ![h] = Idle],
         UNCHANGED <<now, logins>>, rows' \in Seq(Row), RowIds \subseteq RowIds'
  PROVE  IInv'
  <1>1. Work \subseteq Work' /\ Idle \in Work'
    BY DEF Work
  <1>2. /\ txn' \in [Requests -> Work']
        /\ \A g \in Requests : txn'[g] = IF g = h THEN Idle ELSE txn[g]
    BY <1>1 DEF IInv
  <1>3. TypeOK'
    BY <1>2 DEF IInv, TypeOK
  <1>4. FoundIsLive'
    <2> SUFFICES ASSUME Serial PROVE \A g \in Requests : txn'[g] = Idle
      BY <1>2 DEF FoundIsLive, Idle
    <2> QED BY <1>2 DEF IInv, FoundIsLive
  <1> QED BY <1>2, <1>3, <1>4 DEF IInv

LEMMA RotateInv ==
  ASSUME IInv, NEW h \in Requests, Rotate(h)
  PROVE  IInv'
  <1> DEFINE i == txn[h].row
             q == [rows EXCEPT ![i].revoked = TRUE, ![i].exchanged = @ + 1]
  <1>1. i \in RowIds /\ txn[h] # Idle
    BY RowTypes DEF Rotate
  <1>2. rows[i].user \in Users
    BY <1>1, RowTypes DEF Row
  <1>3. rows' = Append(q, NewRow(rows[i].user)) /\ txn' = [txn EXCEPT ![h] = Idle]
        /\ UNCHANGED <<now, logins>>
    BY DEF Rotate
  <1>4. Grown(q) /\ NewRow(rows[i].user) \in Row
    BY <1>1, <1>2, Exchanged, NewRowType
  <1> HIDE DEF q, i
  <1>5. rows' \in Seq(Row) /\ RowIds \subseteq RowIds'
    BY <1>3, <1>4, AppendRow
  <1> QED BY <1>1, <1>3, <1>5, EndInv

LEMMA RevokedRows ==
  ASSUME IInv, NEW h \in Requests, RevokeAll(h)
  PROVE  /\ rows' \in Seq(Row) /\ RowIds' = RowIds /\ txn[h] # Idle /\ txn[h].user \in Users
         /\ \A i \in RowIds : /\ rows'[i].user = rows[i].user
                              /\ rows'[i].revoked = (rows[i].revoked \/ rows[i].user = txn[h].user)
  <1> DEFINE r(i) == IF rows[i].user = txn[h].user
                     THEN [rows[i] EXCEPT !.revoked = TRUE] ELSE rows[i]
  <1>1. ASSUME NEW i \in RowIds
        PROVE  /\ r(i) \in Row /\ r(i).user = rows[i].user
               /\ r(i).revoked = (rows[i].revoked \/ rows[i].user = txn[h].user)
    <2>1. rows[i] \in Row
      BY RowTypes
    <2> QED BY <2>1 DEF Row
  <1>2. rows' = [i \in RowIds |-> r(i)] /\ txn[h] # Idle /\ txn[h].user \in Users
    BY RowTypes DEF RevokeAll
  <1> HIDE DEF r
  <1>3. rows' \in Seq(Row) /\ RowIds' = RowIds
    BY <1>1, <1>2, RowTypes DEF RowIds
  <1> QED BY <1>1, <1>2, <1>3

LEMMA NextInv == IInv /\ [Next]_vars => IInv'
  <1> SUFFICES ASSUME IInv, [Next]_vars PROVE IInv'
    OBVIOUS
  <1>1. ASSUME NEW u \in Users, Login(u) PROVE IInv'
    BY <1>1, LoginInv
  <1>2. ASSUME NEW h \in Requests, NEW i \in RowIds, FindToken(h, i) PROVE IInv'
    BY <1>2, FindInv
  <1>3. ASSUME NEW h \in Requests, Rotate(h) PROVE IInv'
    BY <1>3, RotateInv
  <1>4. ASSUME NEW h \in Requests, RevokeAll(h) PROVE IInv'
    BY <1>4, RevokedRows, EndInv DEF RevokeAll
  <1>5. ASSUME NEW h \in Requests, Abort(h) PROVE IInv'
    <2>1. rows' \in Seq(Row) /\ RowIds \subseteq RowIds'
      BY <1>5, RowTypes DEF Abort, RowIds
    <2> QED BY <1>5, <2>1, EndInv DEF Abort
  <1>6. CASE Tick \/ UNCHANGED vars
    <2>1. UNCHANGED <<rows, txn, logins, Work>> /\ now' \in Nat
      BY <1>6 DEF Tick, vars, Work, RowIds, IInv, TypeOK
    <2> QED BY <2>1 DEF IInv, TypeOK, FoundIsLive
  <1> QED BY <1>1, <1>2, <1>3, <1>4, <1>5, <1>6 DEF Next

LEMMA Invariant == Spec => []IInv
  BY InitInv, NextInv, PTL DEF Spec

\* Rows keep their types, and requests point to rows and users there are.
THEOREM TypeCorrect == Spec => []TypeOK
  <1>1. IInv => TypeOK
    BY DEF IInv
  <1> QED BY <1>1, Invariant, PTL

-----------------------------------------------------------------------------
(* The refinement: live rows are counted                                   *)

Open == [u \in Users |-> Cardinality(Live(u))]

LEMMA LiveFinite ==
  ASSUME IInv, NEW u
  PROVE  IsFiniteSet(Live(u)) /\ Cardinality(Live(u)) \in Nat
  <1>1. IsFiniteSet(1..Len(rows))
    BY RowTypes, FS_Interval
  <1>2. Live(u) \in SUBSET (1..Len(rows))
    BY RowTypes DEF Live
  <1> QED BY <1>1, <1>2, FS_Subset, FS_CardinalityType

\* A login adds one live row of its user.
LEMMA LoginRefines ==
  ASSUME IInv, NEW u \in Users, Login(u)
  PROVE  Contract!Login(u)
  <1>1. Grown(rows) /\ NewRow(u) \in Row /\ rows' = Append(rows, NewRow(u))
    BY RowTypes, NewRowType DEF Grown, Login
  <1>2. PICK n : n = Len(rows) + 1
    OBVIOUS
  <1>3. /\ RowIds' = RowIds \cup {n} /\ n \notin RowIds
        /\ \A i \in RowIds : rows'[i] = rows[i]
        /\ rows'[n] = NewRow(u)
    BY <1>1, <1>2, AppendRow
  <1>4. rows'[n].user = u /\ ~rows'[n].revoked
    <2>1. NewRow(u).user = u /\ ~NewRow(u).revoked
      BY DEF NewRow
    <2> QED BY <1>3, <2>1
  <1>5. \A v \in Users \ {u} : Live(v)' = Live(v)
    BY <1>3, <1>4 DEF Live
  <1>6. Live(u)' = Live(u) \cup {n} /\ n \notin Live(u)
    BY <1>3, <1>4 DEF Live
  <1>7. Cardinality(Live(u)') = Cardinality(Live(u)) + 1
    BY <1>6, LiveFinite, FS_AddElement
  <1>8. Open' = [Open EXCEPT ![u] = @ + 1]
    BY <1>5, <1>7 DEF Open
  <1> QED BY <1>8 DEF Contract!Login, Login, Open

\* When refreshes do not overlap, the row that is revoked was live: its user
\* has one live row less and one more.
LEMMA RotateRefines ==
  ASSUME IInv, Serial, NEW h \in Requests, Rotate(h)
  PROVE  UNCHANGED <<logins, Open>>
  <1>1. PICK i \in RowIds : i = txn[h].row
    BY RowTypes DEF Rotate
  <1>2. PICK u \in Users : u = rows[i].user
    BY <1>1, RowTypes DEF Row
  <1>3. PICK n : n = Len(rows) + 1
    OBVIOUS
  <1>4. PICK q : q = [rows EXCEPT ![i].revoked = TRUE, ![i].exchanged = @ + 1]
    OBVIOUS
  <1>5. ~rows[i].revoked
    BY <1>1, RowTypes DEF Rotate, IInv, FoundIsLive
  <1>6. rows' = Append(q, NewRow(u))
    BY <1>1, <1>2, <1>4 DEF Rotate
  <1>7. /\ Grown(q) /\ NewRow(u) \in Row /\ q[i].revoked
        /\ \A j \in RowIds \ {i} : q[j] = rows[j]
    BY <1>4, Exchanged, NewRowType
  <1>8. /\ RowIds' = RowIds \cup {n} /\ n \notin RowIds
        /\ \A j \in RowIds : rows'[j] = q[j]
        /\ rows'[n] = NewRow(u)
    BY <1>3, <1>6, <1>7, AppendRow
  <1>9. /\ \A j \in RowIds \ {i} : rows'[j] = rows[j]
        /\ rows'[i].revoked /\ rows'[i].user = u
        /\ rows'[n].user = u /\ ~rows'[n].revoked
    BY <1>2, <1>7, <1>8 DEF Grown, NewRow
  <1>10. \A v \in Users \ {u} : Live(v)' = Live(v)
    BY <1>2, <1>8, <1>9 DEF Live
  <1>11. Live(u)' = (Live(u) \ {i}) \cup {n} /\ i \in Live(u) /\ n \notin Live(u)
    BY <1>2, <1>5, <1>8, <1>9 DEF Live
  <1>12. /\ IsFiniteSet(Live(u)) /\ Cardinality(Live(u)) \in Nat
         /\ IsFiniteSet(Live(u) \ {i}) /\ Cardinality(Live(u) \ {i}) = Cardinality(Live(u)) - 1
    BY <1>11, LiveFinite, FS_RemoveElement
  <1>13. Cardinality((Live(u) \ {i}) \cup {n}) = Cardinality(Live(u) \ {i}) + 1
    BY <1>11, <1>12, FS_AddElement
  <1>14. ASSUME NEW v \in Users PROVE Cardinality(Live(v)') = Cardinality(Live(v))
    <2>1. CASE v = u
      <3>1. Cardinality(Live(u)') = Cardinality(Live(u) \ {i}) + 1
        BY <1>11, <1>13
      <3> QED BY <1>12, <2>1, <3>1
    <2>2. CASE v # u
      BY <1>10, <2>2
    <2> QED BY <2>1, <2>2
  <1> QED BY <1>14 DEF Rotate, Open

LEMMA RevokeRefines ==
  ASSUME IInv, NEW h \in Requests, RevokeAll(h)
  PROVE  Contract!CloseAll(txn[h].user)
  <1> DEFINE u == txn[h].user
  <1>1. \A v \in Users : Live(v)' = IF v = u THEN {} ELSE Live(v)
    BY RevokedRows DEF Live
  <1>2. Open' = [Open EXCEPT ![u] = 0]
    BY <1>1, RevokedRows, FS_EmptySet DEF Open
  <1> QED BY <1>2 DEF Contract!CloseAll, RevokeAll, Open

\* When refreshes do not overlap, tokens implement sessions: each user has as
\* many live tokens as logins whose sessions no replay has closed.
THEOREM SessionsImplemented == ASSUME Serial PROVE Spec => ImplementsContract
  <1>1. Init => Contract!Init
    <2> SUFFICES ASSUME Init PROVE \A u \in Users : Cardinality(Live(u)) = 0
      BY DEF Init, Contract!Init
    <2>1. \A u \in Users : Live(u) = {}
      BY DEF Init, Live, RowIds
    <2> QED BY <2>1, FS_EmptySet
  <1>2. IInv /\ [Next]_vars => [Contract!Next]_<<logins, Open>>
    <2> SUFFICES ASSUME IInv, [Next]_vars PROVE [Contract!Next]_<<logins, Open>>
      OBVIOUS
    <2>1. ASSUME NEW u \in Users, Login(u) PROVE Contract!Next
      BY <2>1, LoginRefines DEF Contract!Next
    <2>2. ASSUME NEW h \in Requests, Rotate(h) PROVE UNCHANGED <<logins, Open>>
      BY <2>2, RotateRefines
    <2>3. ASSUME NEW h \in Requests, RevokeAll(h) PROVE Contract!Next
      BY <2>3, RevokeRefines, RevokedRows DEF Contract!Next
    <2>4. ASSUME UNCHANGED <<rows, logins>> PROVE UNCHANGED <<logins, Open>>
      BY <2>4 DEF Open, Live, RowIds
    <2> QED BY <2>1, <2>2, <2>3, <2>4 DEF Next, vars, FindToken, Abort, Tick
  <1>3. <<logins, Open>> = Contract!svars
    BY DEF Open, Contract!svars
  <1> QED BY <1>1, <1>2, <1>3, Invariant, PTL
          DEF Spec, ImplementsContract, Contract!Spec, Open, Contract!svars
=============================================================================
