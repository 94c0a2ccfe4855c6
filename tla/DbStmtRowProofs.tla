--------------------------- MODULE DbStmtRowProofs --------------------------
(***************************************************************************)
(* Proofs about the rows a statement hands over: once each, in order,      *)
(* without a gap, all of them before the end is reported, and as           *)
(* ResultSets describes.  OInv, WInv and CInv are the inductive            *)
(* invariants, each on top of the one before; all three look at the rows   *)
(* in resultSetInC and in the hands of a fetch together with those         *)
(* delivered, since a step moves rows between them.                        *)
(***************************************************************************)
EXTENDS DbStmtMemoryProofs

-----------------------------------------------------------------------------
(* Rows in a sequence *)

\* No two entries are the same row; NoRow is not a row.
Once(q) ==
    \A i, j \in 1..Len(q) : i # j /\ Seen(q[i]) = Seen(q[j]) => q[i] = NoRow
Apart(q, r) ==
    \A i \in 1..Len(q), j \in 1..Len(r) :
        Seen(q[i]) = Seen(r[j]) => q[i] = NoRow /\ r[j] = NoRow

\* The entries were read by the time p rows of result set n had been.
Past(q, n, p) ==
    \A i \in 1..Len(q) :
        /\ q[i].run < n \/ (q[i].run = n /\ q[i].pos <= p)
        /\ q[i].pos = 0 => q[i] = NoRow

\* The entries are those that follow row p of result set n, or nothing.
Fresh(q, n, p) ==
    \/ \A i \in 1..Len(q) : Seen(q[i]) = At(n, p + i)
    \/ \A i \in 1..Len(q) : q[i] = NoRow

\* The entries of a concatenation.
LEMMA ConcatEntries ==
    ASSUME NEW S, NEW q \in Seq(S), NEW r \in Seq(S)
    PROVE  LET t == q \o r
           IN  /\ t \in Seq(S) /\ Len(q) \in Nat /\ Len(r) \in Nat
               /\ Len(t) = Len(q) + Len(r)
               /\ \A i \in 1..Len(q) : i \in 1..Len(t) /\ t[i] = q[i]
               /\ \A j \in 1..Len(r) : Len(q) + j \in 1..Len(t) /\ t[Len(q) + j] = r[j]
               /\ \A i \in 1..Len(t) : i \in 1..Len(q) \/ (\E j \in 1..Len(r) : i = Len(q) + j)
  <1>. DEFINE t == q \o r
  <1>1. /\ t \in Seq(S) /\ Len(q) \in Nat /\ Len(r) \in Nat /\ Len(t) = Len(q) + Len(r)
        /\ \A i \in 1..Len(q) : t[i] = q[i]
        /\ \A i \in 1..Len(r) : t[Len(q) + i] = r[i]
    OBVIOUS
  <1>. HIDE DEF t
  <1>2. ASSUME NEW i \in 1..Len(t), i \notin 1..Len(q)
        PROVE  \E j \in 1..Len(r) : i = Len(q) + j
    <2>1. i - Len(q) \in 1..Len(r) /\ i = Len(q) + (i - Len(q))
      BY <1>1, <1>2
    <2>. QED  BY <2>1
  <1>3. /\ \A i \in 1..Len(q) : i \in 1..Len(t)
        /\ \A j \in 1..Len(r) : Len(q) + j \in 1..Len(t)
    BY <1>1
  <1>. QED  BY <1>1, <1>2, <1>3 DEF t

LEMMA OnceConcat ==
    ASSUME NEW q \in Seq(Row), NEW r \in Seq(Row)
    PROVE  Once(q \o r) <=> Once(q) /\ Once(r) /\ Apart(q, r)
  <1>. DEFINE s == q \o r
  <1>1. /\ Len(q) \in Nat /\ Len(r) \in Nat
        /\ \A i \in 1..Len(q) : i \in 1..Len(s) /\ s[i] = q[i]
        /\ \A j \in 1..Len(r) : Len(q) + j \in 1..Len(s) /\ s[Len(q) + j] = r[j]
    BY ConcatEntries
  <1>2. \A i \in 1..Len(s) : i \in 1..Len(q) \/ (\E j \in 1..Len(r) : i = Len(q) + j)
    BY ConcatEntries
  <1>. HIDE DEF s
  <1>3. ASSUME Once(s)
        PROVE  Once(q) /\ Once(r) /\ Apart(q, r)
    <2>1. Once(q)
      BY <1>1, <1>3 DEF Once
    <2>2. Once(r)
      <3>. SUFFICES ASSUME NEW i \in 1..Len(r), NEW j \in 1..Len(r), i # j, Seen(r[i]) = Seen(r[j])
                    PROVE  r[i] = NoRow
        BY DEF Once
      <3>1. Len(q) + i \in 1..Len(s) /\ Len(q) + j \in 1..Len(s) /\ Len(q) + i # Len(q) + j
        BY <1>1
      <3>. QED  BY <1>1, <1>3, <3>1 DEF Once
    <2>3. Apart(q, r)
      <3>. SUFFICES ASSUME NEW i \in 1..Len(q), NEW j \in 1..Len(r), Seen(q[i]) = Seen(r[j])
                    PROVE  q[i] = NoRow /\ r[j] = NoRow
        BY DEF Apart
      <3>1. i \in 1..Len(s) /\ Len(q) + j \in 1..Len(s) /\ i # Len(q) + j
        BY <1>1
      <3>. QED  BY <1>1, <1>3, <3>1 DEF Once
    <2>. QED  BY <2>1, <2>2, <2>3
  <1>4. ASSUME Once(q), Once(r), Apart(q, r)
        PROVE  Once(s)
    <2>. SUFFICES ASSUME NEW i \in 1..Len(s), NEW j \in 1..Len(s), i # j, Seen(s[i]) = Seen(s[j])
                  PROVE  s[i] = NoRow
      BY DEF Once
    <2>1. CASE i \in 1..Len(q) /\ j \in 1..Len(q)
      BY <1>1, <1>4, <2>1 DEF Once
    <2>2. ASSUME NEW k \in 1..Len(r), j = Len(q) + k, i \in 1..Len(q)
          PROVE  s[i] = NoRow
      BY <1>1, <1>4, <2>2 DEF Apart
    <2>3. ASSUME NEW k \in 1..Len(r), i = Len(q) + k, j \in 1..Len(q)
          PROVE  s[i] = NoRow
      BY <1>1, <1>4, <2>3 DEF Apart
    <2>4. ASSUME NEW k \in 1..Len(r), i = Len(q) + k, NEW l \in 1..Len(r), j = Len(q) + l
          PROVE  s[i] = NoRow
      BY <1>1, <1>4, <2>4 DEF Once
    <2>. QED  BY <1>2, <2>1, <2>2, <2>3, <2>4
  <1>. QED  BY <1>3, <1>4 DEF s

LEMMA ApartConcat ==
    ASSUME NEW q \in Seq(Row), NEW r \in Seq(Row), NEW s
    PROVE  /\ Apart(q \o r, s) <=> Apart(q, s) /\ Apart(r, s)
           /\ Apart(q, s) <=> Apart(s, q)
  <1>. DEFINE t == q \o r
  <1>1. /\ Len(q) \in Nat /\ Len(r) \in Nat
        /\ \A i \in 1..Len(q) : i \in 1..Len(t) /\ t[i] = q[i]
        /\ \A j \in 1..Len(r) : Len(q) + j \in 1..Len(t) /\ t[Len(q) + j] = r[j]
    BY ConcatEntries
  <1>2. \A i \in 1..Len(t) : i \in 1..Len(q) \/ (\E j \in 1..Len(r) : i = Len(q) + j)
    BY ConcatEntries
  <1>. HIDE DEF t
  <1>3. Apart(t, s) => Apart(q, s)
    BY <1>1, <1>2 DEF Apart
  <1>4. Apart(t, s) => Apart(r, s)
    <2>. SUFFICES ASSUME Apart(t, s), NEW i \in 1..Len(r), NEW j \in 1..Len(s),
                         Seen(r[i]) = Seen(s[j])
                  PROVE  r[i] = NoRow /\ s[j] = NoRow
      BY DEF Apart
    <2>1. Len(q) + i \in 1..Len(t) /\ t[Len(q) + i] = r[i]
      BY <1>1, <1>2
    <2>. QED  BY <2>1 DEF Apart
  <1>5. Apart(q, s) /\ Apart(r, s) => Apart(t, s)
    <2>. SUFFICES ASSUME Apart(q, s), Apart(r, s), NEW i \in 1..Len(t), NEW j \in 1..Len(s),
                         Seen(t[i]) = Seen(s[j])
                  PROVE  t[i] = NoRow /\ s[j] = NoRow
      BY DEF Apart
    <2>1. CASE i \in 1..Len(q)
      BY <1>1, <2>1 DEF Apart
    <2>2. ASSUME NEW k \in 1..Len(r), i = Len(q) + k
          PROVE  t[i] = NoRow /\ s[j] = NoRow
      BY SMTT(30), <1>1, <2>2 DEF Apart
    <2>. QED  BY <1>2, <2>1, <2>2
  <1>6. Apart(q, s) <=> Apart(s, q)
    BY DEF Apart
  <1>. QED  BY <1>3, <1>4, <1>5, <1>6 DEF t

LEMMA PastConcat ==
    ASSUME NEW q \in Seq(Row), NEW r \in Seq(Row), NEW n, NEW p
    PROVE  Past(q \o r, n, p) <=> Past(q, n, p) /\ Past(r, n, p)
  <1>. DEFINE t == q \o r
  <1>1. /\ Len(q) \in Nat /\ Len(r) \in Nat
        /\ \A i \in 1..Len(q) : i \in 1..Len(t) /\ t[i] = q[i]
        /\ \A j \in 1..Len(r) : Len(q) + j \in 1..Len(t) /\ t[Len(q) + j] = r[j]
    BY ConcatEntries
  <1>2. \A i \in 1..Len(t) : i \in 1..Len(q) \/ (\E j \in 1..Len(r) : i = Len(q) + j)
    BY ConcatEntries
  <1>. HIDE DEF t
  <1>3. Past(t, n, p) => Past(q, n, p)
    BY <1>1, <1>2 DEF Past
  <1>4. Past(t, n, p) => Past(r, n, p)
    <2>. SUFFICES ASSUME Past(t, n, p), NEW i \in 1..Len(r)
                  PROVE  /\ r[i].run < n \/ (r[i].run = n /\ r[i].pos <= p)
                         /\ r[i].pos = 0 => r[i] = NoRow
      BY DEF Past
    <2>1. Len(q) + i \in 1..Len(t) /\ t[Len(q) + i] = r[i]
      BY <1>1, <1>2
    <2>. QED  BY <2>1 DEF Past
  <1>5. Past(q, n, p) /\ Past(r, n, p) => Past(t, n, p)
    <2>. SUFFICES ASSUME Past(q, n, p), Past(r, n, p), NEW i \in 1..Len(t)
                  PROVE  /\ t[i].run < n \/ (t[i].run = n /\ t[i].pos <= p)
                         /\ t[i].pos = 0 => t[i] = NoRow
      BY DEF Past
    <2>1. CASE i \in 1..Len(q)
      BY <1>1, <2>1 DEF Past
    <2>2. ASSUME NEW k \in 1..Len(r), i = Len(q) + k
          PROVE  /\ t[i].run < n \/ (t[i].run = n /\ t[i].pos <= p)
                 /\ t[i].pos = 0 => t[i] = NoRow
      BY <1>1, <2>2 DEF Past
    <2>. QED  BY <1>2, <2>1, <2>2
  <1>. QED  BY <1>3, <1>4, <1>5 DEF t

LEMMA FreshRows ==
    ASSUME NEW n \in Nat, NEW p \in Nat, NEW q \in Seq(Row), Fresh(q, n, p),
           NEW r \in Seq(Row), Past(r, n, p)
    PROVE  /\ Once(q) /\ Apart(r, q) /\ Past(q, n, p + Len(q)) /\ Past(r, n, p + Len(q))
  <1>0. Len(q) \in Nat
    OBVIOUS
  <1>1. ASSUME NEW i \in 1..Len(r)
        PROVE  r[i].run \in Nat /\ r[i].pos \in Nat
    <2>1. r[i] \in Row
      OBVIOUS
    <2>. QED  BY <2>1 DEF Row
  <1>2. Past(r, n, p + Len(q))
    BY <1>0, <1>1 DEF Past
  <1>3. CASE \A i \in 1..Len(q) : q[i] = NoRow
    <2>1. NoRow.run = 0 /\ NoRow.pos = 0
      BY DEF NoRow
    <2>2. Once(q)
      BY <1>3 DEF Once
    <2>3. Past(q, n, p + Len(q))
      BY <1>0, <1>3, <2>1 DEF Past
    <2>4. Apart(r, q)
      <3>. SUFFICES ASSUME NEW i \in 1..Len(r), NEW j \in 1..Len(q), Seen(r[i]) = Seen(q[j])
                    PROVE  r[i] = NoRow
        BY <1>3 DEF Apart
      <3>1. r[i].pos = 0
        BY <1>3, <2>1 DEF Seen
      <3>. QED  BY <3>1 DEF Past
    <2>. QED  BY <1>2, <2>2, <2>3, <2>4
  <1>4. CASE \A i \in 1..Len(q) : Seen(q[i]) = At(n, p + i)
    <2>1. \A i \in 1..Len(q) : q[i].run = n /\ q[i].pos = p + i
      BY <1>4 DEF Seen, At
    <2>2. Once(q)
      BY <1>0, <2>1 DEF Once, Seen
    <2>3. Past(q, n, p + Len(q))
      BY <1>0, <2>1 DEF Past
    <2>4. Apart(r, q)
      <3>. SUFFICES ASSUME NEW i \in 1..Len(r), NEW j \in 1..Len(q), Seen(r[i]) = Seen(q[j])
                    PROVE  FALSE
        BY DEF Apart
      <3>1. r[i].run = n /\ r[i].pos = p + j
        BY <2>1 DEF Seen
      <3>. QED  BY <1>0, <1>1, <3>1 DEF Past
    <2>. QED  BY <1>2, <2>2, <2>3, <2>4
  <1>. QED  BY <1>3, <1>4 DEF Fresh

\* Rows put in between.
LEMMA OnceInserted ==
    ASSUME NEW a \in Seq(Row), NEW b \in Seq(Row), NEW q \in Seq(Row),
           NEW n \in Nat, NEW p \in Nat, Fresh(q, n, p), Once(a \o b), Past(a \o b, n, p)
    PROVE  Once((a \o q) \o b) /\ Past((a \o q) \o b, n, p + Len(q))
  <1>1. Once(a) /\ Once(b) /\ Apart(a, b) /\ Past(a, n, p) /\ Past(b, n, p)
    BY OnceConcat, PastConcat
  <1>2. /\ Once(q) /\ Apart(a, q) /\ Apart(b, q) /\ Past(q, n, p + Len(q))
        /\ Past(a, n, p + Len(q)) /\ Past(b, n, p + Len(q))
    BY <1>1, FreshRows
  <1>3. a \o q \in Seq(Row) /\ Once(a \o q) /\ Past(a \o q, n, p + Len(q))
    BY <1>1, <1>2, OnceConcat, PastConcat
  <1>4. Apart(a \o q, b)
    BY <1>1, <1>2, ApartConcat
  <1>. HIDE DEF Once, Past, Apart, Fresh
  <1>. QED  BY <1>1, <1>2, <1>3, <1>4, OnceConcat, PastConcat

-----------------------------------------------------------------------------
(* All rows that were read and not lost *)

Hand    == IF FetchInHand THEN <<BoundRow(stmt)>> ELSE <<>>
Ahead   == delivered \o Hand
AllRows == Ahead \o stmt.resultSetInC

LEMMA AllRowsType ==
    ASSUME TypeOK, Good(stmt)
    PROVE  /\ delivered \in Seq(Row) /\ Hand \in Seq(Row) /\ Ahead \in Seq(Row)
           /\ stmt.resultSetInC \in Seq(Row) /\ AllRows \in Seq(Row)
           /\ stmt.run \in Nat /\ stmt.pos \in Nat
  <1>1. delivered \in Seq(Row) /\ stmt.resultSetInC \in Seq(Row) /\ stmt.run \in Nat
        /\ stmt.pos \in Nat
    BY DEF TypeOK, Good, Stmt
  <1>2. Hand \in Seq(Row)
    BY BoundRowType DEF Hand
  <1>. QED  BY <1>1, <1>2, ConcatProperties DEF Ahead, AllRows

LEMMA RowsAssociative ==
    ASSUME NEW a \in Seq(Row), NEW b \in Seq(Row), NEW c \in Seq(Row)
    PROVE  a \o (b \o c) = (a \o b) \o c
  BY SMTT(30), ConcatAssociative

\* What a step does to them.
Unmoved ==
    /\ AllRows' = AllRows /\ UNCHANGED failed
    /\ \/ /\ stmt'.run = stmt.run /\ stmt'.pos = stmt.pos
          /\ stmt'.bindingRowAllocated => stmt.bindingRowAllocated \/ Binding
       \/ stmt'.run = stmt.run + 1 /\ stmt'.pos = 0
Grown ==
    \E q : /\ Read(q) /\ AllRows' = AllRows \o q
           /\ failed' \in {failed, failed \cup {stmt.run}}
Inserted ==
    \E q : /\ Read(q) /\ AllRows' = (Ahead \o q) \o stmt.resultSetInC
           /\ MayOverlap \/ ~Bulk
           /\ UNCHANGED failed
Dropped ==
    \E q : Read(q) /\ AllRows' = delivered /\ failed' = failed \cup {stmt.run}
Refilled ==
    \E q \in Seq(Row) :
        /\ stmt'.run = stmt.run + 1 /\ stmt'.pos = Len(q)
        /\ \A i \in 1..Len(q) : Seen(q[i]) = At(stmt'.run, i)
        /\ AllRows' = AllRows \o q /\ UNCHANGED failed

LEMMA RowsMove ==
    ASSUME TypeOK, Good(stmt), TypeOK', Good(stmt'), HandStep
    PROVE  Unmoved \/ Grown \/ Inserted \/ Dropped \/ Refilled
  <1>0. /\ delivered \in Seq(Row) /\ Hand \in Seq(Row) /\ Ahead \in Seq(Row)
        /\ stmt.resultSetInC \in Seq(Row) /\ AllRows \in Seq(Row)
        /\ delivered' \in Seq(Row) /\ stmt'.resultSetInC \in Seq(Row)
    BY AllRowsType DEF TypeOK, Good, Stmt
  <1>. DEFINE d == delivered
              r == stmt.resultSetInC
  <1>00. /\ delivered' \o <<>> = delivered'
         /\ \A q \in Seq(Row) : d \o (r \o q) = (d \o r) \o q
    <2>1. delivered' \o <<>> = delivered'
      BY <1>0, ConcatEmptySeq
    <2>2. d \in Seq(Row) /\ r \in Seq(Row)
      BY <1>0
    <2>3. ASSUME NEW q \in Seq(Row)
          PROVE  d \o (r \o q) = (d \o r) \o q
      <3>. HIDE DEF d, r
      <3>. QED  BY <2>2, <2>3, RowsAssociative
    <2>. QED  BY <2>1, <2>3
  <1>1. CASE UNCHANGED vars
    <2>1. AllRows' = AllRows /\ UNCHANGED failed /\ stmt' = stmt
      BY <1>1 DEF vars, hist, AllRows, Ahead, Hand, FetchInHand
    <2>. QED  BY <2>1 DEF Unmoved
  <1>2. CASE ~FetchInHand /\ ~FetchInHand'
             /\ (\/ Same \/ Binding \/ Reading \/ HandingOver \/ Failing
                 \/ (MayOverlap \/ ~Bulk) /\ (Opening \/ ExecSyncing \/ Nexting))
    <2>1. Ahead = d /\ AllRows = d \o r
      BY <1>0, <1>2, ConcatEmptySeq DEF Ahead, AllRows, Hand
    <2>2. Ahead' = delivered' /\ AllRows' = delivered' \o stmt'.resultSetInC
      BY <1>0, <1>2, ConcatEmptySeq DEF Ahead, AllRows, Hand
    <2>. HIDE DEF Hand, Ahead, AllRows, FetchInHand
    <2>3. CASE Same \/ Binding
      BY <2>1, <2>2, <2>3 DEF Same, Binding, Still, SameRows, hist, Unmoved
    <2>4. CASE Opening
      BY <2>1, <2>2, <2>4 DEF Opening, hist, Unmoved
    <2>5. CASE Reading
      <3>1. PICK q : /\ Read(q) /\ Len(q) = 1 /\ UNCHANGED hist
                     /\ stmt'.resultSetInC = r \o q
        BY <2>5 DEF Reading
      <3>2. q \in Seq(Row)
        BY <3>1 DEF Read, NewRows
      <3>3. AllRows' = AllRows \o q
        BY <1>00, <2>1, <2>2, <3>1, <3>2 DEF hist
      <3>. QED  BY <3>1, <3>3 DEF Grown, hist
    <2>6. CASE HandingOver
      <3>1. PICK q : /\ Read(q) /\ stmt'.resultSetInC = <<>>
                     /\ delivered' = d \o (r \o q) /\ UNCHANGED failed
        BY <2>6 DEF HandingOver
      <3>2. q \in Seq(Row)
        BY <3>1 DEF Read, NewRows
      <3>3. AllRows' = d \o (r \o q)
        BY <1>00, <2>2, <3>1
      <3>4. AllRows' = AllRows \o q
        BY <1>00, <2>1, <3>2, <3>3
      <3>. QED  BY <3>1, <3>4 DEF Grown
    <2>7. CASE Failing
      <3>1. PICK q : /\ Read(q)
                     /\ stmt'.resultSetInC \in {r \o q, <<>>}
                     /\ delivered' = d /\ failed' = failed \cup {stmt.run}
        BY <2>7 DEF Failing
      <3>2. q \in Seq(Row)
        BY <3>1 DEF Read, NewRows
      <3>3. CASE stmt'.resultSetInC = r \o q
        <4>1. AllRows' = AllRows \o q
          BY <1>00, <2>1, <2>2, <3>1, <3>2, <3>3
        <4>. QED  BY <3>1, <4>1 DEF Grown
      <3>4. CASE stmt'.resultSetInC = <<>>
        <4>1. AllRows' = d
          BY <1>00, <2>2, <3>1, <3>4
        <4>. QED  BY <3>1, <4>1 DEF Dropped
      <3>. QED  BY <3>1, <3>3, <3>4
    <2>8. CASE Nexting /\ (MayOverlap \/ ~Bulk)
      <3>1. PICK q : /\ Read(q) /\ Len(q) = 1 /\ stmt'.resultSetInC = r
                     /\ delivered' = d \o q /\ UNCHANGED failed
        BY <2>8 DEF Nexting
      <3>. QED  BY <2>1, <2>2, <2>8, <3>1 DEF Inserted
    <2>9. CASE ExecSyncing
      <3>1. PICK q \in Seq(Row) :
              /\ stmt'.run = stmt.run + 1 /\ stmt'.pos = Len(q)
              /\ \A i \in 1..Len(q) : Seen(q[i]) = At(stmt'.run, i)
              /\ stmt'.resultSetInC = <<>>
              /\ delivered' = d \o (r \o q) /\ UNCHANGED failed
        BY <2>9 DEF ExecSyncing
      <3>3. AllRows' = d \o (r \o q)
        BY <1>00, <2>2, <3>1
      <3>4. AllRows' = AllRows \o q
        BY <1>00, <2>1, <3>1, <3>3
      <3>. QED  BY <3>1, <3>4 DEF Refilled
    <2>. QED  BY <1>2, <2>3, <2>4, <2>5, <2>6, <2>7, <2>8, <2>9
  <1>3. CASE ~FetchInHand /\ FetchInHand' /\ ~Bulk /\ Holding
    <2>. DEFINE q == <<BoundRow(stmt')>>
    <2>1. Ahead = d
      BY <1>0, <1>3, ConcatEmptySeq DEF Ahead, Hand
    <2>2. Read(q) /\ UNCHANGED hist /\ stmt'.resultSetInC = r
      BY <1>3 DEF Holding
    <2>3. Hand' = q
      BY <1>3 DEF Hand
    <2>. HIDE DEF q
    <2>4. AllRows' = (d \o q) \o r
      BY <2>2, <2>3 DEF AllRows, Ahead, hist
    <2>. QED  BY <1>3, <2>1, <2>2, <2>4 DEF Inserted, hist
  <1>4. CASE FetchInHand /\ ~FetchInHand' /\ Answering
    <2>1. Ahead = delivered \o <<BoundRow(stmt)>>
      BY <1>4 DEF Ahead, Hand
    <2>2. Still(stmt, stmt') /\ UNCHANGED failed /\ delivered' = Ahead
      BY <1>4, <2>1 DEF Answering
    <2>3. Ahead' = Ahead
      BY <1>0, <1>4, <2>2, ConcatEmptySeq DEF Ahead, Hand
    <2>4. AllRows' = AllRows
      BY <2>2, <2>3 DEF AllRows, Still, SameRows
    <2>. QED  BY <2>2, <2>4 DEF Unmoved, Still, SameRows
  <1>. QED  BY <1>1, <1>2, <1>3, <1>4 DEF HandStep

-----------------------------------------------------------------------------
(* Every row once *)

\* The inductive invariant of RowOnce: no two rows handed over, in hand or in
\* resultSetInC are the same, and all of them lie behind the cursor, so that
\* rows read later differ from them.
OnceInv == Once(AllRows) /\ Past(AllRows, stmt.run, stmt.pos)

LEMMA ReadFresh ==
    ASSUME NEW q, Read(q)
    PROVE  /\ q \in Seq(Row) /\ Fresh(q, stmt.run, stmt.pos)
           /\ stmt'.run = stmt.run /\ stmt'.pos = stmt.pos + Len(q)
  BY DEF Read, ReadsOn, NewRows, Fresh

LEMMA PastLater ==
    ASSUME NEW q \in Seq(Row), NEW n \in Nat, NEW p \in Nat, Past(q, n, p)
    PROVE  /\ Past(q, n + 1, 0)
           /\ \A k \in Nat : Past(q, n, p + k)
  <1>1. ASSUME NEW i \in 1..Len(q)
        PROVE  q[i].run \in Nat /\ q[i].pos \in Nat
    <2>1. q[i] \in Row
      OBVIOUS
    <2>. QED  BY <2>1 DEF Row
  <1>. QED  BY <1>1 DEF Past

LEMMA MoveKeepsOnce ==
    ASSUME TypeOK, Good(stmt), OnceInv, Unmoved \/ Grown \/ Inserted \/ Dropped \/ Refilled
    PROVE  OnceInv'
  <1>. DEFINE n == stmt.run
              p == stmt.pos
              r == stmt.resultSetInC
  <1>0. /\ delivered \in Seq(Row) /\ Hand \in Seq(Row) /\ Ahead \in Seq(Row)
        /\ r \in Seq(Row) /\ AllRows \in Seq(Row) /\ n \in Nat /\ p \in Nat
    BY AllRowsType
  <1>1. Once(AllRows) /\ Past(AllRows, n, p)
    BY DEF OnceInv
  <1>2. AllRows = Ahead \o r /\ Ahead = delivered \o Hand
    BY DEF AllRows, Ahead
  <1>. HIDE DEF AllRows, Ahead, Hand, Once, Past
  <1>3. CASE Unmoved
    <2>1. AllRows' = AllRows
      BY <1>3 DEF Unmoved
    <2>2. Past(AllRows, stmt'.run, stmt'.pos)
      BY <1>0, <1>1, <1>3, PastLater DEF Unmoved
    <2>. QED  BY <1>1, <2>1, <2>2 DEF OnceInv, Once, Past
  <1>4. CASE Grown
    <2>1. PICK q : Read(q) /\ AllRows' = AllRows \o q
      BY <1>4 DEF Grown
    <2>2. /\ q \in Seq(Row) /\ Fresh(q, n, p) /\ stmt'.run = n /\ stmt'.pos = p + Len(q)
      BY <2>1, ReadFresh
    <2>3. Once(q) /\ Apart(AllRows, q) /\ Past(q, n, p + Len(q)) /\ Past(AllRows, n, p + Len(q))
      BY <1>0, <1>1, <2>2, FreshRows
    <2>4. Once(AllRows \o q) /\ Past(AllRows \o q, n, p + Len(q))
      BY <1>0, <1>1, <2>2, <2>3, OnceConcat, PastConcat
    <2>. QED  BY <2>1, <2>2, <2>4 DEF OnceInv, Once, Past
  <1>5. CASE Inserted
    <2>1. PICK q : Read(q) /\ AllRows' = (Ahead \o q) \o r
      BY <1>5 DEF Inserted
    <2>2. /\ q \in Seq(Row) /\ Fresh(q, n, p) /\ stmt'.run = n /\ stmt'.pos = p + Len(q)
      BY <2>1, ReadFresh
    <2>3. Once((Ahead \o q) \o r) /\ Past((Ahead \o q) \o r, n, p + Len(q))
      BY <1>0, <1>1, <1>2, <2>2, OnceInserted
    <2>. QED  BY <2>1, <2>2, <2>3 DEF OnceInv, Once, Past
  <1>6. CASE Dropped
    <2>1. PICK q : Read(q) /\ AllRows' = delivered
      BY <1>6 DEF Dropped
    <2>2. q \in Seq(Row) /\ stmt'.run = n /\ stmt'.pos = p + Len(q)
      BY <2>1, ReadFresh
    <2>3. Once(delivered) /\ Past(delivered, n, p)
      BY <1>0, <1>1, <1>2, OnceConcat, PastConcat
    <2>4. Past(delivered, n, p + Len(q))
      BY <1>0, <2>2, <2>3, PastLater
    <2>. QED  BY <2>1, <2>2, <2>3, <2>4 DEF OnceInv, Once, Past
  <1>7. CASE Refilled
    <2>1. PICK q \in Seq(Row) :
            /\ stmt'.run = stmt.run + 1 /\ stmt'.pos = Len(q)
            /\ \A i \in 1..Len(q) : Seen(q[i]) = At(stmt'.run, i)
            /\ AllRows' = AllRows \o q
      BY <1>7 DEF Refilled
    <2>2. Fresh(q, n + 1, 0)
      <3>1. \A i \in 1..Len(q) : 0 + i = i
        OBVIOUS
      <3>. QED  BY <2>1, <3>1 DEF Fresh
    <2>3. Past(AllRows, n + 1, 0)
      BY <1>0, <1>1, PastLater
    <2>4. Once(q) /\ Apart(AllRows, q) /\ Past(q, n + 1, Len(q)) /\ Past(AllRows, n + 1, Len(q))
      <3>1. n + 1 \in Nat /\ 0 \in Nat /\ 0 + Len(q) = Len(q)
        BY <1>0
      <3>. QED  BY <1>0, <2>2, <2>3, <3>1, FreshRows
    <2>5. Once(AllRows \o q) /\ Past(AllRows \o q, n + 1, Len(q))
      BY <1>0, <1>1, <2>4, OnceConcat, PastConcat
    <2>. QED  BY <2>1, <2>5 DEF OnceInv, Once, Past
  <1>. QED  BY <1>3, <1>4, <1>5, <1>6, <1>7

LEMMA OnceInvShowsOnce ==
    ASSUME TypeOK, Good(stmt), OnceInv
    PROVE  RowOnce
  <1>1. delivered \in Seq(Row) /\ Hand \in Seq(Row) /\ Ahead \in Seq(Row)
        /\ stmt.resultSetInC \in Seq(Row)
    BY AllRowsType
  <1>2. Once(delivered)
    <2>. HIDE DEF Once
    <2>1. Once(Ahead)
      BY <1>1, OnceConcat DEF OnceInv, AllRows
    <2>. QED  BY <1>1, <2>1, OnceConcat DEF Ahead
  <1>3. DOMAIN delivered = 1..Len(delivered)
    BY <1>1
  <1>. QED  BY <1>2, <1>3 DEF Once, RowOnce

LEMMA InitOnce ==
    ASSUME Init
    PROVE  OnceInv /\ Alone /\ AllRows = <<>>
  <1>1. ~FetchInHand /\ Outstanding = {}
    BY DEF Init, Idle, FetchInHand, Outstanding
  <1>2. AllRows = <<>>
    BY <1>1, ConcatEmptySeq DEF Init, AllRows, Ahead, Hand
  <1>. QED  BY <1>1, <1>2 DEF OnceInv, Once, Past, Alone

\* The inductive invariant of the rows for a client that waits for its calls,
\* or one that does not and has no asynchronous fetch.
Waits == ~MayOverlap => Alone
OInv  == RInv /\ Waits /\ OnceInv

LEMMA HandSteps ==
    ASSUME ~MayOverlap \/ "fetch" \notin Ops, RInv, Waits, [Next]_vars
    PROVE  RInv' /\ RowStep /\ HandStep /\ Waits'
  <1>1. RInv' /\ RowStep
    BY NextKeepsRInv
  <1>2. HandStep
    BY <1>1, NeverInHand, AloneInHand DEF Waits, RInv
  <1>3. Waits'
    BY <1>1, RowStepAlone DEF Waits
  <1>. QED  BY <1>1, <1>2, <1>3

LEMMA NextKeepsOnce ==
    ASSUME ~MayOverlap \/ "fetch" \notin Ops, OInv, [Next]_vars
    PROVE  OInv'
  <1>1. RInv' /\ HandStep /\ Waits'
    BY HandSteps DEF OInv
  <1>2. Unmoved \/ Grown \/ Inserted \/ Dropped \/ Refilled
    BY <1>1, RowsMove DEF OInv, RInv, IInv
  <1>3. OnceInv'
    BY <1>2, MoveKeepsOnce DEF OInv, RInv, IInv
  <1>. QED  BY <1>1, <1>3 DEF OInv

\* Each row is handed over at most once, through any sequence of methods and
\* failing CLI calls (buildJsObject and fetchData, dbstmt.cc:2386-2550), by the
\* clients that NeverRaces is about: those that wait for their calls, and those
\* that let calls overlap but leave the cursor and its rows to exec.
THEOREM RowsHandedOverOnce ==
    ASSUME ~MayOverlap \/ CursorClient
    PROVE  Spec => []RowOnce
  <1>0. ~MayOverlap \/ "fetch" \notin Ops
    BY DEF CursorClient
  <1>1. Init => OInv
    BY InitRInv, InitOnce DEF OInv, Waits
  <1>2. OInv /\ [Next]_vars => OInv'
    BY <1>0, NextKeepsOnce
  <1>3. OInv => RowOnce
    BY OnceInvShowsOnce DEF OInv, RInv, IInv
  <1>. QED  BY <1>1, <1>2, <1>3, PTL DEF Spec

-----------------------------------------------------------------------------
(* Rows in order *)

\* The rows of the result sets in G stand in order and without a gap.
InOrder(q, G) ==
    \A i \in 1..Len(q) : q[i].run \in G =>
        /\ \A j \in 1..(i - 1) : q[j].run = q[i].run => q[j].pos < q[i].pos
        /\ q[i].pos > 1 =>
             \E j \in 1..(i - 1) : q[j].run = q[i].run /\ q[j].pos = q[i].pos - 1

Holds(q, n, p) == \E i \in 1..Len(q) : Seen(q[i]) = At(n, p)

\* A prefix, and fewer result sets.
LEMMA InOrderPrefix ==
    ASSUME NEW q \in Seq(Row), NEW r \in Seq(Row), NEW G, NEW H, H \subseteq G,
           InOrder(q \o r, G)
    PROVE  InOrder(q, H)
  <1>. DEFINE t == q \o r
  <1>1. /\ Len(q) \in Nat /\ Len(r) \in Nat /\ Len(t) = Len(q) + Len(r)
        /\ \A i \in 1..Len(q) : i \in 1..Len(t) /\ t[i] = q[i]
    BY ConcatEntries
  <1>2. InOrder(t, G)
    OBVIOUS
  <1>. HIDE DEF t
  <1>. SUFFICES ASSUME NEW i \in 1..Len(q), q[i].run \in H
                PROVE  /\ \A j \in 1..(i - 1) : q[j].run = q[i].run => q[j].pos < q[i].pos
                       /\ q[i].pos > 1 =>
                            \E j \in 1..(i - 1) : q[j].run = q[i].run /\ q[j].pos = q[i].pos - 1
    BY DEF InOrder
  <1>3. i \in 1..Len(t) /\ t[i] = q[i] /\ t[i].run \in G
    BY <1>1
  <1>4. \A j \in 1..(i - 1) : t[j] = q[j]
    <2>1. \A j \in 1..(i - 1) : j \in 1..Len(q)
      BY <1>1
    <2>. QED  BY <1>1, <2>1
  <1>. QED  BY <1>2, <1>3, <1>4 DEF InOrder

\* Rows of other result sets put behind.
LEMMA InOrderOthers ==
    ASSUME NEW q \in Seq(Row), NEW r \in Seq(Row), NEW G, InOrder(q, G),
           \A i \in 1..Len(r) : r[i].run \notin G
    PROVE  InOrder(q \o r, G)
  <1>. DEFINE t == q \o r
  <1>1. /\ Len(q) \in Nat /\ Len(r) \in Nat /\ Len(t) = Len(q) + Len(r)
        /\ \A i \in 1..Len(q) : i \in 1..Len(t) /\ t[i] = q[i]
        /\ \A j \in 1..Len(r) : Len(q) + j \in 1..Len(t) /\ t[Len(q) + j] = r[j]
    BY ConcatEntries
  <1>10. \A i \in 1..Len(t) : i \in 1..Len(q) \/ (\E j \in 1..Len(r) : i = Len(q) + j)
    BY ConcatEntries
  <1>. HIDE DEF t
  <1>2. SUFFICES ASSUME NEW i \in 1..Len(t), t[i].run \in G
                 PROVE  /\ \A j \in 1..(i - 1) : t[j].run = t[i].run => t[j].pos < t[i].pos
                        /\ t[i].pos > 1 =>
                            \E j \in 1..(i - 1) : t[j].run = t[i].run /\ t[j].pos = t[i].pos - 1
    BY DEF InOrder, t
  <1>3. i \in 1..Len(q)
    BY <1>1, <1>10, <1>2
  <1>4. \A j \in 1..(i - 1) : t[j] = q[j]
    <2>1. \A j \in 1..(i - 1) : j \in 1..Len(q)
      BY <1>1, <1>3
    <2>. QED  BY <1>1, <2>1
  <1>5. t[i] = q[i]
    BY <1>1, <1>3
  <1>. QED  BY <1>2, <1>3, <1>4, <1>5 DEF InOrder

\* The next rows of result set n put behind those read before.
LEMMA InOrderFresh ==
    ASSUME NEW q \in Seq(Row), NEW r \in Seq(Row), NEW G, InOrder(q, G),
           NEW n \in Nat, NEW p \in Nat, Past(q, n, p),
           \A i \in 1..Len(r) : Seen(r[i]) = At(n, p + i),
           p > 0 /\ n \in G => Holds(q, n, p)
    PROVE  InOrder(q \o r, G)
  <1>. DEFINE t == q \o r
  <1>11. /\ Len(q) \in Nat /\ Len(r) \in Nat /\ Len(t) = Len(q) + Len(r)
         /\ \A i \in 1..Len(q) : i \in 1..Len(t) /\ t[i] = q[i]
    BY ConcatEntries
  <1>12. \A j \in 1..Len(r) : Len(q) + j \in 1..Len(t) /\ t[Len(q) + j] = r[j]
    BY SMTT(30), ConcatEntries
  <1>1. /\ Len(q) \in Nat /\ Len(r) \in Nat /\ Len(t) = Len(q) + Len(r)
        /\ \A i \in 1..Len(q) : i \in 1..Len(t) /\ t[i] = q[i]
        /\ \A j \in 1..Len(r) : Len(q) + j \in 1..Len(t) /\ t[Len(q) + j] = r[j]
    BY <1>11, <1>12
  <1>10. \A i \in 1..Len(t) : i \in 1..Len(q) \/ (\E j \in 1..Len(r) : i = Len(q) + j)
    BY ConcatEntries
  <1>0. \A i \in 1..Len(r) : r[i].run = n /\ r[i].pos = p + i
    BY DEF Seen, At
  <1>. HIDE DEF t
  <1>2. SUFFICES ASSUME NEW i \in 1..Len(t), t[i].run \in G
                 PROVE  /\ \A j \in 1..(i - 1) : t[j].run = t[i].run => t[j].pos < t[i].pos
                        /\ t[i].pos > 1 =>
                            \E j \in 1..(i - 1) : t[j].run = t[i].run /\ t[j].pos = t[i].pos - 1
    BY DEF InOrder, t
  <1>3. CASE i \in 1..Len(q)
    <2>1. \A j \in 1..(i - 1) : t[j] = q[j]
      <3>1. \A j \in 1..(i - 1) : j \in 1..Len(q)
        BY <1>1, <1>3
      <3>. QED  BY <1>1, <3>1
    <2>2. t[i] = q[i]
      BY <1>1, <1>3
    <2>. QED  BY <1>2, <1>3, <2>1, <2>2 DEF InOrder
  <1>4. ASSUME NEW k \in 1..Len(r), i = Len(q) + k
        PROVE  /\ \A j \in 1..(i - 1) : t[j].run = t[i].run => t[j].pos < t[i].pos
               /\ t[i].pos > 1 =>
                   \E j \in 1..(i - 1) : t[j].run = t[i].run /\ t[j].pos = t[i].pos - 1
    <2>1. t[i].run = n /\ t[i].pos = p + k
      BY <1>0, <1>1, <1>4
    <2>2. ASSUME NEW j \in 1..(i - 1), t[j].run = n
          PROVE  t[j].pos < p + k
      <3>1. CASE j \in 1..Len(q)
        <4>1. t[j] = q[j] /\ q[j] \in Row
          BY <1>1, <3>1
        <4>2. q[j].run = n /\ q[j].pos \in Nat
          BY <2>2, <4>1 DEF Row
        <4>3. q[j].pos <= p
          BY <3>1, <4>2 DEF Past
        <4>. QED  BY <4>1, <4>2, <4>3
      <3>2. CASE j \notin 1..Len(q)
        <4>0. j \in 1..Len(t)
          BY <1>1
        <4>1. PICK l \in 1..Len(r) : j = Len(q) + l
          BY <1>10, <3>2, <4>0
        <4>2. t[j].pos = p + l
          BY <1>0, <1>1, <4>1
        <4>3. l < k
          BY <1>1, <1>4, <4>1
        <4>. QED  BY <4>2, <4>3
      <3>. QED  BY <3>1, <3>2
    <2>3. ASSUME p + k > 1
          PROVE  \E j \in 1..(i - 1) : t[j].run = n /\ t[j].pos = p + k - 1
      <3>1. CASE k > 1
        <4>1. Len(q) + (k - 1) \in 1..(i - 1) /\ k - 1 \in 1..Len(r)
          BY SMTT(30), <1>1, <1>4, <3>1
        <4>2. t[Len(q) + (k - 1)] = r[k - 1]
          BY <1>1, <4>1
        <4>3. r[k - 1].run = n /\ r[k - 1].pos = p + (k - 1)
          BY <1>0, <4>1
        <4>. QED  BY <4>1, <4>2, <4>3
      <3>2. CASE k = 1
        <4>1. p > 0
          BY <2>3, <3>2
        <4>2. n \in G
          BY <1>2, <2>1
        <4>3. PICK j \in 1..Len(q) : Seen(q[j]) = At(n, p)
          BY <4>1, <4>2 DEF Holds
        <4>4. j \in 1..(i - 1) /\ t[j] = q[j]
          BY <1>1, <1>4, <3>2
        <4>5. q[j].run = n /\ q[j].pos = p + k - 1
          BY <3>2, <4>3 DEF Seen, At
        <4>. QED  BY <4>4, <4>5
      <3>. QED  BY <3>1, <3>2
    <2>. QED  BY <2>1, <2>2, <2>3
  <1>. QED  BY <1>10, <1>3, <1>4

LEMMA HoldsConcat ==
    ASSUME NEW q \in Seq(Row), NEW r \in Seq(Row), NEW n, NEW p
    PROVE  Holds(q \o r, n, p) <=> Holds(q, n, p) \/ Holds(r, n, p)
  <1>. DEFINE t == q \o r
  <1>11. \A i \in 1..Len(q) : i \in 1..Len(t) /\ t[i] = q[i]
    BY ConcatEntries
  <1>12. \A j \in 1..Len(r) : Len(q) + j \in 1..Len(t) /\ t[Len(q) + j] = r[j]
    BY ConcatEntries
  <1>1. /\ \A i \in 1..Len(q) : i \in 1..Len(t) /\ t[i] = q[i]
        /\ \A j \in 1..Len(r) : Len(q) + j \in 1..Len(t) /\ t[Len(q) + j] = r[j]
    BY <1>11, <1>12
  <1>10. \A i \in 1..Len(t) : i \in 1..Len(q) \/ (\E j \in 1..Len(r) : i = Len(q) + j)
    BY ConcatEntries
  <1>. HIDE DEF t
  <1>2. Holds(t, n, p) => Holds(q, n, p) \/ Holds(r, n, p)
    BY <1>1, <1>10 DEF Holds
  <1>3. Holds(q, n, p) => Holds(t, n, p)
    BY <1>1 DEF Holds
  <1>4. Holds(r, n, p) => Holds(t, n, p)
    <2>. SUFFICES ASSUME NEW j \in 1..Len(r), Seen(r[j]) = At(n, p)
                  PROVE  Holds(t, n, p)
      BY DEF Holds
    <2>1. Len(q) + j \in 1..Len(t) /\ t[Len(q) + j] = r[j]
      BY <1>1
    <2>. QED  BY <2>1 DEF Holds
  <1>. QED  BY <1>2, <1>3, <1>4 DEF t

-----------------------------------------------------------------------------
(* What a waiting client leaves in resultSetInC *)

\* exec fetches only where there are columns, and no row of a result set is
\* read before its columns are bound.
Prompt(c) ==
    /\ calls[c].pc = "fetching" /\ calls[c].op = "exec" => stmt.colCount > 0
    /\ calls[c].pc = "bind" => stmt.pos = 0 \/ ~stmt.live

\* Rows wait in resultSetInC for the call that is reading them, or because a
\* fetch of their result set failed, or they are no rows.
Kept(q) == \A i \in 1..Len(q) : q[i].run \in failed \/ q[i] = NoRow
Filed(q) ==
    \A i \in 1..Len(q) :
        q[i].run \in failed \/ q[i] = NoRow \/ (q[i].run = stmt.run /\ Bulk)

\* While the columns are bound, every row that was read is accounted for.
Complete ==
    stmt.bindingRowAllocated /\ stmt.run \notin failed =>
        \A p \in 1..stmt.pos : Holds(AllRows, stmt.run, p)

Known    == 1..stmt.run \ failed
OrderInv ==
    /\ InOrder(AllRows, Known) /\ Complete /\ Filed(stmt.resultSetInC)
    /\ \A c \in Calls : Prompt(c)

\* One worker reads at a time, and then none of the others do anything.
LEMMA OneBulk ==
    ASSUME Alone, NEW c \in Calls, calls[c].pc # "idle"
    PROVE  Bulk <=> InBulk(c)
  BY OnlyOne DEF Bulk, InBulk

LEMMA FiledKept ==
    ASSUME NEW q, Filed(q), ~Bulk
    PROVE  Kept(q)
  BY DEF Filed, Kept

\* Rows just read are filed with those read before.
LEMMA FiledConcat ==
    ASSUME NEW q, NEW r \in Seq(Row), Filed(r), Read(q)
    PROVE  \A i \in 1..Len(r \o q) :
             \/ (r \o q)[i].run \in failed \/ (r \o q)[i] = NoRow
             \/ (r \o q)[i].run = stmt.run
  <1>. DEFINE t == r \o q
  <1>1. q \in Seq(Row)
    BY DEF Read, NewRows
  <1>2. ASSUME NEW i \in 1..Len(q)
        PROVE  q[i] = NoRow \/ q[i].run = stmt.run
    <2>1. Seen(q[i]) = At(stmt.run, stmt.pos + i) \/ q[i] = NoRow
      BY DEF Read, NewRows
    <2>. QED  BY <2>1 DEF Seen, At
  <1>31. \A i \in 1..Len(r) : t[i] = r[i]
    BY <1>1, ConcatEntries
  <1>32. \A j \in 1..Len(q) : t[Len(r) + j] = q[j]
    BY <1>1, ConcatEntries
  <1>4. \A i \in 1..Len(t) : i \in 1..Len(r) \/ (\E j \in 1..Len(q) : i = Len(r) + j)
    BY <1>1, ConcatEntries
  <1>. HIDE DEF t
  <1>5. ASSUME NEW i \in 1..Len(t)
        PROVE  t[i].run \in failed \/ t[i] = NoRow \/ t[i].run = stmt.run
    <2>1. CASE i \in 1..Len(r)
      BY <1>31, <2>1 DEF Filed
    <2>2. ASSUME NEW j \in 1..Len(q), i = Len(r) + j
          PROVE  t[i] = NoRow \/ t[i].run = stmt.run
      BY <1>2, <1>32, <2>2
    <2>. QED  BY <1>4, <2>1, <2>2
  <1>. QED  BY <1>5 DEF t

LEMMA StepKeepsFiled ==
    ASSUME ~MayOverlap, Alone, RInv, Filed(stmt.resultSetInC), \A c \in Calls : Prompt(c), RowStep
    PROVE  Filed(stmt.resultSetInC)'
  <1>. DEFINE r == stmt.resultSetInC
  <1>0. r \in Seq(Row)
    BY DEF RInv, IInv, Good, Stmt
  <1>1. Same \/ Opening \/ Binding \/ Holding \/ Nexting \/ Answering
          => stmt'.resultSetInC = r /\ failed' = failed
    BY DEF Same, Opening, Binding, Holding, Nexting, Answering, Still, SameRows, hist
  <1>2. HandingOver \/ ExecSyncing => stmt'.resultSetInC = <<>>
    BY DEF HandingOver, ExecSyncing
  <1>3. stmt'.resultSetInC = <<>> => Filed(r)'
    BY DEF Filed
  <1>4. stmt'.resultSetInC = r /\ failed' = failed /\ ~Bulk => Filed(r)'
    BY DEF Filed
  <1>5. Failing => Filed(r)'
    <2>. SUFFICES ASSUME Failing PROVE Filed(r)'
      OBVIOUS
    <2>1. PICK q : /\ Read(q) /\ stmt'.resultSetInC \in {r \o q, <<>>}
                   /\ failed' = failed \cup {stmt.run}
      BY DEF Failing
    <2>2. CASE stmt'.resultSetInC = r \o q
      <3>1. \A i \in 1..Len(r \o q) :
                \/ (r \o q)[i].run \in failed \/ (r \o q)[i] = NoRow
             \/ (r \o q)[i].run = stmt.run
        BY <1>0, <2>1, FiledConcat
      <3>. QED  BY <2>1, <2>2, <3>1 DEF Filed
    <2>. QED  BY <1>3, <2>1, <2>2
  <1>6. CASE UNCHANGED vars
    <2>1. UNCHANGED <<stmt, calls, failed>>
      BY <1>6 DEF vars, hist
    <2>. QED  BY <2>1 DEF Filed, Bulk, InBulk
  <1>7. CASE SyncStep
    <2>1. ~Bulk
      BY <1>7, NoneOutstanding DEF SyncStep, Alone
    <2>. QED  BY <1>1, <1>2, <1>3, <1>4, <1>5, <1>7, <2>1 DEF SyncStep, SyncKinds
  <1>8. ASSUME NEW c \in Calls, Queueing(c)
        PROVE  Filed(r)'
    <2>1. ~Bulk
      BY <1>8, NoneOutstanding DEF Queueing
    <2>. QED  BY <1>1, <1>4, <1>8, <2>1 DEF Queueing
  <1>9. ASSUME NEW c \in Calls, WorkerKinds(c)
        PROVE  Filed(r)'
    <2>1. Bulk <=> InBulk(c)
      BY <1>9, OneBulk, WorkerKindsOfRows
    <2>2. CASE FetchesRow(c)
      <3>1. CASE Reading /\ Becomes(c, "fetching")
        <4>1. PICK q : Read(q) /\ UNCHANGED hist /\ stmt'.resultSetInC = r \o q
          BY <3>1 DEF Reading
        <4>2. Bulk'
          BY <3>1 DEF Becomes, Bulk, InBulk
        <4>3. stmt'.run = stmt.run /\ failed' = failed
          BY <4>1 DEF Read, ReadsOn, hist
        <4>4. \A i \in 1..Len(r \o q) :
                \/ (r \o q)[i].run \in failed \/ (r \o q)[i] = NoRow
                \/ (r \o q)[i].run = stmt.run
          BY <1>0, <4>1, FiledConcat
        <4>. QED  BY <4>1, <4>2, <4>3, <4>4 DEF Filed
      <3>2. ASSUME NEW f, Same, Becomes(c, "done"), FetchRc(stmt, f) # "success",
                   calls'[c].err <=> FetchRc(stmt, f) = "error" /\ calls[c].op = "fetchAll"
            PROVE  Filed(r)'
        <4>1. calls[c].pc = "fetching" /\ stmt'.colCount = stmt.colCount
          BY <2>2 DEF FetchesRow
        <4>2. calls[c].op \in {"exec", "fetchAll"}
          BY <4>1 DEF RInv, Sane
        <4>3. calls[c].op = "exec" => stmt'.colCount > 0 /\ ~calls'[c].err
          BY <3>2, <4>1 DEF Prompt
        <4>4. Bulk'
          BY <3>2, <4>2, <4>3 DEF Becomes, Bulk, InBulk
        <4>5. stmt'.run = stmt.run
          BY <3>2 DEF Same, Still, SameRows
        <4>. QED  BY <1>1, <3>2, <4>4, <4>5 DEF Filed
      <3>. QED  BY <2>2, <3>1, <3>2 DEF FetchesRow
    <2>3. CASE ~FetchesRow(c)
      <3>1. calls[c].pc \in {"queued", "cli", "bind"} /\ (Same \/ Opening \/ Binding \/ Holding)
        BY <1>9, <2>3 DEF WorkerKinds, Starting, Executing, Preparing, BindsColumns, HoldsRow
      <3>2. ~Bulk
        BY <2>1, <3>1 DEF InBulk
      <3>. QED  BY <1>1, <1>4, <3>1, <3>2
    <2>. QED  BY <2>2, <2>3
  <1>10. ASSUME NEW c \in Calls, DeliverKinds(c)
         PROVE  Filed(r)'
    <2>0. calls[c].pc = "done"
      BY <1>10 DEF DeliverKinds, Settled
    <2>1. Bulk <=> InBulk(c)
      BY <2>0, OneBulk
    <2>2. CASE Failing \/ HandingOver
      BY <1>2, <1>3, <1>5, <2>2
    <2>3. CASE ~(Failing \/ HandingOver)
      <3>1. Same \/ Answering
        BY <1>10, <2>3 DEF DeliverKinds
      <3>2. ~InBulk(c)
        BY <1>10, <2>0, <2>3 DEF DeliverKinds, InBulk, FetchOps
      <3>. QED  BY <1>1, <1>4, <2>1, <3>1, <3>2
    <2>. QED  BY <2>2, <2>3
  <1>. QED  BY <1>6, <1>7, <1>8, <1>9, <1>10 DEF RowStep

LEMMA StepKeepsPrompt ==
    ASSUME ~MayOverlap, Alone, RInv, \A c \in Calls : Prompt(c), RowStep
    PROVE  \A c \in Calls : Prompt(c)'
  <1>1. CASE UNCHANGED vars
    BY <1>1 DEF vars, Prompt
  <1>2. CASE SyncStep
    <2>1. \A c \in Calls : calls[c].pc = "idle"
      BY <1>2, NoneOutstanding DEF SyncStep, Alone
    <2>. QED  BY <1>2, <2>1 DEF SyncStep, Prompt
  <1>3. ASSUME NEW c \in Calls, Queueing(c)
        PROVE  \A d \in Calls : Prompt(d)'
    <2>1. \A d \in Calls : calls[d].pc = "idle"
      BY <1>3, NoneOutstanding DEF Queueing
    <2>. QED  BY <1>3, <2>1 DEF Queueing, Others, Prompt
  <1>4. ASSUME NEW c \in Calls, WorkerKinds(c) \/ DeliverKinds(c)
        PROVE  \A d \in Calls : Prompt(d)'
    <2>1. calls[c].pc # "idle" /\ Others(c)
      BY <1>4, WorkerKindsOfRows DEF DeliverKinds, Settled
    <2>2. \A d \in Calls : d # c => calls'[d].pc = "idle"
      BY <2>1, OnlyOne DEF Others
    <2>3. SUFFICES Prompt(c)'
      BY <2>2 DEF Prompt
    <2>4. CASE DeliverKinds(c)
      BY <2>4 DEF DeliverKinds, Settled, Idle, Prompt
    <2>5. CASE Starting(c)
      <3>1. calls[c].op = "fetchAll" \/ calls'[c].pc = "cli"
        BY <2>5 DEF Starting, Becomes
      <3>2. calls'[c].op = calls[c].op /\ calls'[c].pc \in {"cli", "fetching"}
        BY <2>5 DEF Starting, Becomes
      <3>. QED  BY <3>1, <3>2 DEF Prompt
    <2>6. CASE Executing(c)
      <3>1. CASE calls'[c].pc = "bind"
        <4>1. stmt'.pos = 0 \/ ~stmt'.live
          BY <2>6, <3>1 DEF Executing, Opening, Becomes
        <4>. QED  BY <3>1, <4>1 DEF Prompt
      <3>2. CASE calls'[c].pc # "bind"
        BY <2>6, <3>2 DEF Executing, Becomes, Prompt
      <3>. QED  BY <3>1, <3>2
    <2>7. CASE Preparing(c) \/ HoldsRow(c)
      BY <2>7 DEF Preparing, HoldsRow, Becomes, Prompt
    <2>8. CASE BindsColumns(c)
      BY <2>8 DEF BindsColumns, Becomes, Prompt
    <2>9. CASE FetchesRow(c)
      BY <2>9 DEF FetchesRow, Becomes, Prompt
    <2>. QED  BY <1>4, <2>4, <2>5, <2>6, <2>7, <2>8, <2>9 DEF WorkerKinds
  <1>. QED  BY <1>1, <1>2, <1>3, <1>4 DEF RowStep

\* Reading on, where every row before is accounted for.
LEMMA ReadInOrder ==
    ASSUME NEW a \in Seq(Row), NEW q, Read(q), stmt.run \in Nat, stmt.pos \in Nat,
           Past(a, stmt.run, stmt.pos), NEW G, G \subseteq Known, InOrder(a, G),
           stmt.bindingRowAllocated /\ stmt.run \notin failed =>
              \A p \in 1..stmt.pos : Holds(a, stmt.run, p)
    PROVE  /\ q \in Seq(Row) /\ InOrder(a \o q, G)
           /\ stmt.bindingRowAllocated /\ stmt.run \notin failed =>
                \A p \in 1..(stmt.pos + Len(q)) : Holds(a \o q, stmt.run, p)
  <1>1. q \in Seq(Row) /\ Len(q) \in Nat
    BY DEF Read, NewRows
  <1>2. CASE stmt.bindingRowAllocated
    <2>1. \A i \in 1..Len(q) : Seen(q[i]) = At(stmt.run, stmt.pos + i)
      BY <1>2 DEF Read, NewRows
    <2>2. stmt.pos > 0 /\ stmt.run \in G => Holds(a, stmt.run, stmt.pos)
      BY <1>2 DEF Known
    <2>3. InOrder(a \o q, G)
      BY <1>1, <2>1, <2>2, InOrderFresh
    <2>4. ASSUME stmt.run \notin failed, NEW p \in 1..(stmt.pos + Len(q))
          PROVE  Holds(a \o q, stmt.run, p)
      <3>1. CASE p \in 1..stmt.pos
        BY <1>1, <1>2, <2>4, <3>1, HoldsConcat
      <3>2. CASE p \notin 1..stmt.pos
        <4>1. p - stmt.pos \in 1..Len(q) /\ stmt.pos + (p - stmt.pos) = p
          BY <1>1, <3>2
        <4>2. Holds(q, stmt.run, p)
          BY <2>1, <4>1 DEF Holds
        <4>. QED  BY <1>1, <4>2, HoldsConcat
      <3>. QED  BY <3>1, <3>2
    <2>. QED  BY <1>1, <2>3, <2>4
  <1>3. CASE ~stmt.bindingRowAllocated
    <2>1. \A i \in 1..Len(q) : q[i] = NoRow
      BY <1>3 DEF Read, NewRows
    <2>2. \A i \in 1..Len(q) : q[i].run \notin G
      BY <2>1 DEF NoRow, Known
    <2>. QED  BY <1>1, <1>3, <2>2, InOrderOthers
  <1>. QED  BY <1>2, <1>3

LEMMA PastRuns ==
    ASSUME NEW q \in Seq(Row), NEW n \in Nat, NEW p \in Nat, Past(q, n, p),
           NEW i \in 1..Len(q)
    PROVE  q[i].run \in Nat /\ q[i].run <= n
  <1>1. q[i] \in Row
    OBVIOUS
  <1>2. q[i].run \in Nat
    BY <1>1 DEF Row
  <1>. QED  BY <1>2 DEF Past

LEMMA MoveKeepsOrder ==
    ASSUME ~MayOverlap, RInv, RInv', OnceInv, OrderInv,
           Unmoved \/ Grown \/ Inserted \/ Dropped \/ Refilled
    PROVE  InOrder(AllRows, Known)' /\ Complete'
  <1>. DEFINE n == stmt.run
              p == stmt.pos
              r == stmt.resultSetInC
  <1>0. /\ delivered \in Seq(Row) /\ Hand \in Seq(Row) /\ Ahead \in Seq(Row)
        /\ r \in Seq(Row) /\ AllRows \in Seq(Row) /\ n \in Nat /\ p \in Nat
    BY AllRowsType DEF RInv, IInv
  <1>1. Past(AllRows, n, p) /\ InOrder(AllRows, Known) /\ Complete
    BY DEF OnceInv, OrderInv
  <1>2. AllRows = Ahead \o r /\ Ahead = delivered \o Hand
    BY DEF AllRows, Ahead
  <1>3. ASSUME NEW q \in Seq(Row), NEW G, AllRows' = q, InOrder(q, G), Known' = G
        PROVE  InOrder(AllRows, Known)'
    BY <1>3 DEF InOrder
  <1>4. ASSUME NEW i \in 1..Len(AllRows)
        PROVE  AllRows[i].run \in Nat /\ AllRows[i].run <= n
    BY <1>0, <1>1, <1>4, PastRuns
  <1>. HIDE DEF AllRows, Ahead, Hand, InOrder, Past
  <1>5. CASE Unmoved /\ stmt'.run = n /\ stmt'.pos = p
    <2>1. Known' = Known /\ AllRows' = AllRows
      BY <1>5 DEF Known, Unmoved
    <2>2. InOrder(AllRows, Known)'
      BY <1>0, <1>1, <1>3, <2>1
    <2>3. Complete'
      <3>1. CASE Binding
        <4>1. PICK c \in Calls : calls[c].pc = "bind"
          BY <3>1 DEF Binding
        <4>2. p = 0 \/ ~stmt.live
          BY <4>1 DEF OrderInv, Prompt
        <4>3. CASE p = 0
          BY <1>5, <4>3 DEF Complete
        <4>4. CASE ~stmt.live
          <5>1. stmt'.bindingRowAllocated => stmt.bindingRowAllocated
            BY <3>1, <4>4 DEF Binding
          <5>. QED  BY <1>1, <1>5, <2>1, <5>1 DEF Complete, Unmoved, Holds
        <4>. QED  BY <4>2, <4>3, <4>4
      <3>2. CASE stmt'.bindingRowAllocated => stmt.bindingRowAllocated
        BY <1>1, <1>5, <2>1, <3>2 DEF Complete, Unmoved, Holds
      <3>. QED  BY <1>5, <1>0, <3>1, <3>2 DEF Unmoved
    <2>. QED  BY <2>2, <2>3
  <1>6. CASE Unmoved /\ stmt'.run = n + 1 /\ stmt'.pos = 0
    <2>1. AllRows' = AllRows /\ Known' = 1..(n + 1) \ failed
      BY <1>6 DEF Known, Unmoved
    <2>2. InOrder(AllRows, 1..(n + 1) \ failed)
      <3>1. \A i \in 1..Len(AllRows) : AllRows[i].run \in 1..(n + 1) \ failed
                                        => AllRows[i].run \in Known
        BY <1>0, <1>4 DEF Known
      <3>. QED  BY <1>1, <3>1 DEF InOrder
    <2>3. InOrder(AllRows, Known)'
      BY <1>0, <1>3, <2>1, <2>2
    <2>. QED  BY <1>6, <2>3 DEF Complete
  <1>7. CASE Grown
    <2>1. PICK q : /\ Read(q) /\ AllRows' = AllRows \o q
                   /\ failed' \in {failed, failed \cup {n}}
      BY <1>7 DEF Grown
    <2>2. stmt'.run = n /\ stmt'.pos = p + Len(q)
          /\ stmt'.bindingRowAllocated = stmt.bindingRowAllocated
      BY <2>1 DEF Read, ReadsOn
    <2>3. Known' = 1..n \ failed' /\ Known' \subseteq Known
      BY <2>1, <2>2 DEF Known
    <2>. DEFINE G == 1..n \ failed'
    <2>4. InOrder(AllRows, G)
      BY <1>1, <2>3 DEF InOrder
    <2>5. /\ q \in Seq(Row) /\ InOrder(AllRows \o q, G)
          /\ stmt.bindingRowAllocated /\ n \notin failed =>
                \A k \in 1..(p + Len(q)) : Holds(AllRows \o q, n, k)
      BY <1>0, <1>1, <2>1, <2>3, <2>4, ReadInOrder DEF Complete
    <2>6. AllRows \o q \in Seq(Row)
      BY <1>0, <2>5, ConcatProperties
    <2>7. InOrder(AllRows, Known)'
      BY <1>3, <2>1, <2>3, <2>5, <2>6
    <2>8. Complete'
      BY <2>1, <2>2, <2>5 DEF Complete, Holds
    <2>. QED  BY <2>7, <2>8
  <1>8. CASE Inserted
    <2>1. PICK q : Read(q) /\ AllRows' = (Ahead \o q) \o r /\ ~Bulk /\ UNCHANGED failed
      BY <1>8 DEF Inserted
    <2>2. stmt'.run = n /\ stmt'.pos = p + Len(q)
          /\ stmt'.bindingRowAllocated = stmt.bindingRowAllocated
      BY <2>1 DEF Read, ReadsOn
    <2>3. Known' = Known
      BY <2>1, <2>2 DEF Known
    <2>4. Kept(r)
      BY <2>1, FiledKept DEF OrderInv
    <2>5. \A i \in 1..Len(r) : r[i].run \notin Known
      BY <2>4 DEF Kept, Known, NoRow
    <2>6. Past(Ahead, n, p) /\ InOrder(Ahead, Known)
      BY <1>0, <1>1, <1>2, PastConcat, InOrderPrefix
    <2>7. stmt.bindingRowAllocated /\ n \notin failed => \A k \in 1..p : Holds(Ahead, n, k)
      <3>1. ASSUME stmt.bindingRowAllocated, n \notin failed, NEW k \in 1..p
            PROVE  Holds(Ahead, n, k)
        <4>1. Holds(Ahead, n, k) \/ Holds(r, n, k)
          BY <1>0, <1>1, <1>2, <3>1, HoldsConcat DEF Complete
        <4>2. ~Holds(r, n, k)
          <5>1. ASSUME NEW i \in 1..Len(r), Seen(r[i]) = At(n, k)
                PROVE  FALSE
            <6>1. r[i].run = n /\ r[i].pos = k
              BY <5>1 DEF Seen, At
            <6>2. r[i] # NoRow
              BY <1>0, <3>1, <6>1 DEF NoRow
            <6>. QED  BY <2>4, <3>1, <6>1, <6>2 DEF Kept
          <5>. QED  BY <5>1 DEF Holds
        <4>. QED  BY <4>1, <4>2
      <3>. QED  BY <3>1
    <2>8. /\ q \in Seq(Row) /\ InOrder(Ahead \o q, Known)
          /\ stmt.bindingRowAllocated /\ n \notin failed =>
                \A k \in 1..(p + Len(q)) : Holds(Ahead \o q, n, k)
      BY <1>0, <2>1, <2>6, <2>7, ReadInOrder
    <2>9. Ahead \o q \in Seq(Row) /\ (Ahead \o q) \o r \in Seq(Row)
      BY <1>0, <2>8, ConcatProperties
    <2>10. InOrder((Ahead \o q) \o r, Known)
      BY <1>0, <2>5, <2>8, <2>9, InOrderOthers
    <2>11. InOrder(AllRows, Known)'
      BY <1>3, <2>1, <2>3, <2>9, <2>10
    <2>12. Complete'
      <3>1. ASSUME NEW k, Holds(Ahead \o q, n, k)
            PROVE  Holds((Ahead \o q) \o r, n, k)
        BY <1>0, <2>9, <3>1, HoldsConcat
      <3>2. stmt.bindingRowAllocated /\ n \notin failed =>
                \A k \in 1..(p + Len(q)) : Holds((Ahead \o q) \o r, n, k)
        BY <2>8, <3>1
      <3>. QED  BY <2>1, <2>2, <3>2 DEF Complete, Holds
    <2>. QED  BY <2>11, <2>12
  <1>9. CASE Dropped
    <2>1. PICK q : Read(q) /\ AllRows' = delivered /\ failed' = failed \cup {n}
      BY <1>9 DEF Dropped
    <2>2. stmt'.run = n
      BY <2>1 DEF Read, ReadsOn
    <2>3. Known' \subseteq Known
      BY <2>1, <2>2 DEF Known
    <2>4. InOrder(Ahead, Known)
      BY <1>0, <1>1, <1>2, InOrderPrefix
    <2>5. InOrder(delivered, Known')
      BY <1>0, <1>2, <2>3, <2>4, InOrderPrefix
    <2>6. InOrder(AllRows, Known)'
      BY <1>0, <1>3, <2>1, <2>5
    <2>. QED  BY <2>1, <2>2, <2>6 DEF Complete
  <1>10. CASE Refilled
    <2>1. PICK q \in Seq(Row) :
            /\ stmt'.run = n + 1 /\ stmt'.pos = Len(q)
            /\ \A i \in 1..Len(q) : Seen(q[i]) = At(stmt'.run, i)
            /\ AllRows' = AllRows \o q /\ UNCHANGED failed
      BY <1>10 DEF Refilled
    <2>. DEFINE G == 1..(n + 1) \ failed
    <2>2. Known' = G
      BY <2>1 DEF Known
    <2>3. InOrder(AllRows, G)
      <3>1. \A i \in 1..Len(AllRows) : AllRows[i].run \in G => AllRows[i].run \in Known
        BY <1>0, <1>4 DEF Known
      <3>. QED  BY <1>1, <3>1 DEF InOrder
    <2>4. Past(AllRows, n + 1, 0)
      BY <1>0, <1>1, PastLater
    <2>5. InOrder(AllRows \o q, G)
      <3>1. n + 1 \in Nat /\ 0 \in Nat /\ \A i \in 1..Len(q) : 0 + i = i
        BY <1>0
      <3>2. \A i \in 1..Len(q) : Seen(q[i]) = At(n + 1, 0 + i)
        BY <2>1, <3>1
      <3>. HIDE DEF G
      <3>. QED  BY <1>0, <2>3, <2>4, <3>1, <3>2, InOrderFresh
    <2>6. AllRows \o q \in Seq(Row)
      BY <1>0, ConcatProperties
    <2>7. InOrder(AllRows, Known)'
      BY <1>3, <2>1, <2>2, <2>5, <2>6
    <2>8. \A k \in 1..Len(q) : Holds(AllRows \o q, n + 1, k)
      <3>1. \A k \in 1..Len(q) : Holds(q, n + 1, k)
        BY <2>1 DEF Holds
      <3>. QED  BY <1>0, <3>1, HoldsConcat
    <2>. QED  BY <2>1, <2>7, <2>8 DEF Complete, Holds
  <1>. QED  BY <1>5, <1>6, <1>7, <1>8, <1>9, <1>10 DEF Unmoved

LEMMA OrderInvShowsOrder ==
    ASSUME TypeOK, Good(stmt), OrderInv
    PROVE  RowsInOrder
  <1>1. delivered \in Seq(Row) /\ Hand \in Seq(Row) /\ Ahead \in Seq(Row)
        /\ stmt.resultSetInC \in Seq(Row)
    BY AllRowsType
  <1>2. InOrder(delivered, Known)
    <2>1. InOrder(Ahead, Known)
      BY <1>1, InOrderPrefix DEF OrderInv, AllRows
    <2>. QED  BY <1>1, <2>1, InOrderPrefix DEF Ahead
  <1>3. DOMAIN delivered = 1..Len(delivered)
    BY <1>1
  <1>. SUFFICES ASSUME NEW i \in 1..Len(delivered), delivered[i].run \in Known
                PROVE  /\ \A j \in {k \in 1..(i - 1) : delivered[k].run = delivered[i].run} :
                              delivered[j].pos < delivered[i].pos
                       /\ delivered[i].pos > 1 =>
                            \E j \in {k \in 1..(i - 1) : delivered[k].run = delivered[i].run} :
                                delivered[j].pos = delivered[i].pos - 1
    BY <1>3 DEF RowsInOrder, Known
  <1>. QED  BY <1>2 DEF InOrder

LEMMA InitOrder ==
    ASSUME Init
    PROVE  OrderInv
  <1>1. AllRows = <<>> /\ stmt.resultSetInC = <<>> /\ ~stmt.bindingRowAllocated
    BY InitOnce DEF Init
  <1>2. \A c \in Calls : Prompt(c)
    BY DEF Init, Idle, Prompt
  <1>. QED  BY <1>1, <1>2 DEF OrderInv, InOrder, Complete, Filed

\* The inductive invariant of the rows for a client that waits.
WInv == OInv /\ OrderInv

LEMMA InitWInv ==
    ASSUME Init
    PROVE  WInv
  BY InitRInv, InitOnce, InitOrder DEF WInv, OInv, Waits

LEMMA NextKeepsOrder ==
    ASSUME ~MayOverlap, WInv, [Next]_vars
    PROVE  WInv'
  <1>1. RInv' /\ RowStep /\ HandStep /\ OInv'
    BY HandSteps, NextKeepsOnce DEF WInv, OInv
  <1>2. Alone /\ RInv
    BY DEF WInv, OInv, Waits
  <1>3. Unmoved \/ Grown \/ Inserted \/ Dropped \/ Refilled
    BY <1>1, RowsMove DEF WInv, OInv, RInv, IInv
  <1>4. InOrder(AllRows, Known)' /\ Complete'
    BY <1>1, <1>3, MoveKeepsOrder DEF WInv, OInv
  <1>5. Filed(stmt.resultSetInC)' /\ \A c \in Calls : Prompt(c)'
    BY <1>1, <1>2, StepKeepsFiled, StepKeepsPrompt DEF WInv, OrderInv
  <1>. QED  BY <1>1, <1>4, <1>5 DEF WInv, OrderInv

LEMMA WaitingInvariant ==
    ASSUME ~MayOverlap
    PROVE  Spec => []WInv
  BY InitWInv, NextKeepsOrder, PTL DEF Spec

\* A client that waits for its calls gets the rows of a result set in their
\* order and without a gap, whichever methods it mixes and whichever CLI calls
\* fail, as long as no fetch of that result set reported an error (fetchData
\* and the callbacks, dbstmt.cc:2386-2550, 2899-2939).
THEOREM RowsHandedOverInOrder ==
    ASSUME ~MayOverlap
    PROVE  Spec => []RowsInOrder
  <1>1. WInv => RowsInOrder
    BY OrderInvShowsOrder DEF WInv, OInv, RInv, IInv
  <1>. QED  BY <1>1, WaitingInvariant, PTL

-----------------------------------------------------------------------------
(* What failures leave behind *)

\* Rows are read, and result sets are opened, where the columns are bound.
LEMMA StepsWhereReady ==
    ASSUME Calm, MInv, RowStep
    PROVE  Ready(stmt) \/ UNCHANGED vars \/ Binding
  <1>1. CASE \E c \in Calls : calls[c].pc = "bind"
    <2>1. PICK c \in Calls : calls[c].pc = "bind"
      BY <1>1
    <2>2. \A d \in Calls : d # c => calls[d].pc = "idle"
      BY <2>1, OnlyOne DEF MInv
    <2>3. ~SyncStep
      BY <2>1 DEF SyncStep, Outstanding, Calm, MInv
    <2>4. ASSUME NEW d \in Calls, Queueing(d) \/ WorkerKinds(d) \/ DeliverKinds(d)
          PROVE  Binding
      <3>1. CASE Queueing(d)
        BY <2>1, <3>1 DEF Queueing, Outstanding, Calm
      <3>2. CASE DeliverKinds(d)
        BY <2>1, <2>2, <3>2 DEF DeliverKinds, Settled
      <3>3. CASE WorkerKinds(d)
        <4>1. d = c
          BY <2>2, <3>3, WorkerKindsOfRows
        <4>. QED
          BY <2>1, <3>3, <4>1 DEF WorkerKinds, Starting, Executing, Preparing, BindsColumns,
             FetchesRow, HoldsRow
      <3>. QED  BY <2>4, <3>1, <3>2, <3>3
    <2>. QED  BY <2>3, <2>4 DEF RowStep
  <1>2. CASE ~Binds
    BY <1>2 DEF MInv
  <1>. QED  BY <1>1, <1>2 DEF Binds

\* Rows that are read belong to the open result set.
LEMMA ReadReal ==
    ASSUME Tied(stmt), Ready(stmt), NEW q, Read(q)
    PROVE  /\ q \in Seq(Row) /\ Len(q) \in Nat
           /\ \A i \in 1..Len(q) : Seen(q[i]) = At(stmt.run, stmt.pos + i) /\ stmt.run > 0
  <1>1. q \in Seq(Row) /\ Len(q) \in Nat
    BY DEF Read, NewRows
  <1>2. CASE q = <<>>
    BY <1>1, <1>2
  <1>3. CASE q # <<>>
    BY <1>1, <1>3 DEF Read, NewRows, Ready, Tied
  <1>. QED  BY <1>1, <1>2, <1>3

Real(q) == \A i \in 1..Len(q) : q[i].run # 0

LEMMA RealConcat ==
    ASSUME NEW q \in Seq(Row), NEW r \in Seq(Row), Real(q), Real(r)
    PROVE  Real(q \o r)
  <1>. DEFINE t == q \o r
  <1>1. /\ \A i \in 1..Len(q) : t[i] = q[i]
        /\ \A j \in 1..Len(r) : t[Len(q) + j] = r[j]
    BY ConcatEntries
  <1>2. \A i \in 1..Len(t) : i \in 1..Len(q) \/ (\E j \in 1..Len(r) : i = Len(q) + j)
    BY ConcatEntries
  <1>. HIDE DEF t
  <1>3. Real(t)
    BY <1>1, <1>2 DEF Real
  <1>. QED  BY <1>3 DEF t

LEMMA StepKeepsReal ==
    ASSUME Calm, MInv, Real(stmt.resultSetInC), RowStep, HandStep
    PROVE  Real(stmt.resultSetInC)'
  <1>. DEFINE r == stmt.resultSetInC
  <1>0. r \in Seq(Row) /\ Tied(stmt) /\ stmt.run \in Nat
    BY DEF MInv, RInv, IInv, Good, Stmt
  <1>1. CASE stmt'.resultSetInC = r
    BY <1>1 DEF Real
  <1>2. CASE stmt'.resultSetInC = <<>>
    BY <1>2 DEF Real
  <1>3. CASE Reading \/ Failing
    <2>1. PICK q : Read(q) /\ stmt'.resultSetInC \in {r \o q, <<>>}
      BY <1>3 DEF Reading, Failing
    <2>2. CASE Ready(stmt)
      <3>0. q \in Seq(Row) /\ \A i \in 1..Len(q) : Seen(q[i]) = At(stmt.run, stmt.pos + i)
                                                     /\ stmt.run > 0
        BY <1>0, <2>1, <2>2, ReadReal
      <3>00. ASSUME NEW i \in 1..Len(q)
             PROVE  q[i].run = stmt.run /\ stmt.run # 0
        <4>1. Seen(q[i]) = At(stmt.run, stmt.pos + i) /\ stmt.run > 0
          BY <3>0
        <4>. QED  BY <1>0, <4>1 DEF Seen, At
      <3>1. q \in Seq(Row) /\ Real(q)
        BY <3>0, <3>00 DEF Real
      <3>2. Real(r \o q)
        BY <1>0, <3>1, RealConcat
      <3>. QED  BY <1>2, <2>1, <3>2 DEF Real
    <2>3. CASE UNCHANGED vars \/ Binding
      BY <1>1, <2>3 DEF vars, Binding, SameRows
    <2>. QED  BY <2>2, <2>3, StepsWhereReady
  <1>4. \/ Reading \/ Failing
        \/ stmt'.resultSetInC \in {r, <<>>}
    BY DEF HandStep, vars, Same, Still, SameRows, Binding, HandingOver, Opening, ExecSyncing,
           Nexting, Holding, Answering
  <1>. QED  BY <1>1, <1>2, <1>3, <1>4

-----------------------------------------------------------------------------
(* A client that waits, and does not use execSync *)

\* After the end of the data was reported nothing happens but by the client.
EndReply ==
    /\ reply.kind = "value" /\ reply.op \in FetchOps
    /\ reply.op \in {"fetchAll", "fetchAllSync"} \/ reply.rc = "no_data"
Ended ==
    /\ EndReply => Drained
    /\ Outstanding # {} => ~EndReply

\* The inductive invariant of that client.
CInv == WInv /\ MInv /\ Real(stmt.resultSetInC) /\ Ended

LEMMA AnswerEnds ==
    ASSUME NEW s, NEW op, NEW kind, NEW t, NEW rows, NEW rc,
           Return(s, Answer(op, kind, t, rows, rc))
    PROVE  /\ stmt' = s
           /\ EndReply' => /\ kind = "value" /\ op \in FetchOps
                           /\ op \in {"fetchAll", "fetchAllSync"} \/ rc = "no_data"
  BY AnswerFields DEF Return, EndReply

LEMMA ValueEnds ==
    ASSUME NEW s, NEW op, NEW t, NEW rows, Return(s, Value(op, t, rows))
    PROVE  stmt' = s /\ (EndReply' => op \in {"fetchAll", "fetchAllSync"})
  BY AnswerEnds DEF Value

LEMMA FailureEnds ==
    ASSUME NEW s, NEW op, NEW t, Return(s, Failure(op, t))
    PROVE  ~EndReply'
  BY AnswerEnds DEF Failure

LEMMA RejectedEnds ==
    ASSUME NEW op, Rejected(op)
    PROVE  ~EndReply'
  BY AnswerFields DEF Rejected, Failure, EndReply

LEMMA FetchSyncEnds ==
    ASSUME Safe(stmt), FetchSync
    PROVE  EndReply' => Drained'
  <1>1. CASE Rejected("fetchSync")
    BY <1>1, RejectedEnds
  <1>2. ASSUME NEW f, Return(SQLFetch(stmt, f), Failure("fetchSync", SQLFetch(stmt, f)))
        PROVE  ~EndReply'
    BY <1>2, FailureEnds
  <1>3. ASSUME NEW f, stmt.stmtAllocated,
               LET s1 == SQLFetch(stmt, f)
               IN  Return(ReadRow(s1), Answer("fetchSync", "value", s1, <<BoundRow(s1)>>,
                                              FetchRc(stmt, f)))
        PROVE  EndReply' => Drained'
    <2>. DEFINE s1 == SQLFetch(stmt, f)
                m  == s1.misuse \cup ColumnsMisuse(s1) \cup BindingsMisuse(s1)
    <2>1. stmt' = ReadRow(s1) /\ (EndReply' => FetchRc(stmt, f) = "no_data")
      BY <1>3, AnswerEnds
    <2>2. stmt.live
      BY <1>3 DEF Safe, Good, Handled
    <2>3. FetchRc(stmt, f) = "no_data" => s1.open # NoShape /\ s1.pos = NRows
      BY <2>2, DrainedAtEnd, SQLFetchSafe
    <2>4. s1 \in Stmt
      BY SQLFetchSafe DEF Safe, Good
    <2>5. ReadRow(s1) = [s1 EXCEPT !.misuse = m]
      BY DEF ReadRow
    <2>. HIDE DEF s1, m
    <2>6. ReadRow(s1).open = s1.open /\ ReadRow(s1).pos = s1.pos
      BY <2>4, <2>5 DEF Stmt
    <2>. QED  BY <2>1, <2>3, <2>6 DEF Drained
  <1>. QED  BY <1>1, <1>2, <1>3 DEF FetchSync, Checked

LEMMA FetchAllSyncEnds ==
    ASSUME Safe(stmt), NEW cb, FetchAllSync(cb)
    PROVE  EndReply' => Drained'
  <1>1. CASE Rejected("fetchAllSync")
    BY <1>1, RejectedEnds
  <1>2. ASSUME NEW end \in FetchEnds(stmt), stmt.stmtAllocated, stmt.resultSetAvailable,
               LET s1 == FetchData(stmt, end.got)
               IN  IF end.rc = "no_data"
                   THEN Return(BuildJsObject(s1), Value("fetchAllSync", s1, s1.resultSetInC))
                   ELSE \/ Return(s1, Answer("fetchAllSync", "silent", s1, <<>>, end.rc))
                        \/ Return(BuildJsObject(s1), Failure("fetchAllSync", s1))
        PROVE  EndReply' => Drained'
    <2>. DEFINE s1 == FetchData(stmt, end.got)
    <2>1. CASE end.rc = "no_data"
      <3>1. stmt' = BuildJsObject(s1)
        BY <1>2, <2>1, ReturnSets
      <3>2. end.got \in Nat /\ end.got <= Left(stmt)
        BY FetchEndsType DEF Safe
      <3>3. stmt.live /\ stmt.bindingRowAllocated
        BY <1>2, AvailableBound
      <3>4. stmt.open # NoShape /\ stmt.pos + end.got = NRows
        BY <2>1, <3>3, ShapeAssumption DEF FetchEnds, Left, Safe, Good, Stmt
      <3>5. /\ Safe(s1) /\ s1.bindingRowAllocated
            /\ s1.open = stmt.open /\ s1.pos = stmt.pos + end.got
        BY <3>2, <3>3, FetchDataSafe
      <3>. HIDE DEF s1
      <3>6. BuildJsObject(s1).open = s1.open /\ BuildJsObject(s1).pos = s1.pos
        BY <3>5, BuildJsObjectSafe
      <3>. QED  BY <3>1, <3>4, <3>5, <3>6 DEF Drained
    <2>2. CASE end.rc # "no_data"
      BY <1>2, <2>2, AnswerEnds, FailureEnds
    <2>. QED  BY <2>1, <2>2
  <1>. QED  BY <1>1, <1>2 DEF FetchAllSync, Checked

LEMMA SyncEnds ==
    ASSUME Calm, ~inCallback, Safe(stmt), SyncCall
    PROVE  EndReply' => Drained'
  <1>1. ASSUME NEW q \in Queries, NEW cb \in BOOLEAN, ExecSync(q, cb)
        PROVE  FALSE
    BY <1>1 DEF ExecSync, MainCall, Calm
  <1>2. ~ExecSyncReturn
    BY DEF ExecSyncReturn
  <1>3. CASE FetchSync
    BY <1>3, FetchSyncEnds
  <1>4. ASSUME NEW cb \in BOOLEAN, FetchAllSync(cb)
        PROVE  EndReply' => Drained'
    BY <1>4, FetchAllSyncEnds
  <1>5. ASSUME NEW op, op \notin FetchOps,
               \/ Rejected(op)
               \/ \E s, t, rows : Return(s, Value(op, t, rows))
               \/ \E s, t : Return(s, Failure(op, t))
               \/ \E s, kind, t, rows, rc : Return(s, Answer(op, kind, t, rows, rc))
        PROVE  ~EndReply'
    BY <1>5, RejectedEnds, ValueEnds, FailureEnds, AnswerEnds DEF FetchOps
  <1>. DEFINE Replies(op) ==
                 \/ Rejected(op)
                 \/ \E s, t, rows : Return(s, Value(op, t, rows))
                 \/ \E s, t : Return(s, Failure(op, t))
                 \/ \E s, kind, t, rows, rc : Return(s, Answer(op, kind, t, rows, rc))
  <1>6. ASSUME NEW q \in Queries, PrepareSync(q)
        PROVE  Replies("prepareSync")
    BY <1>6 DEF PrepareSync, Checked
  <1>7. ExecuteSync => Replies("executeSync")
    BY DEF ExecuteSync
  <1>8. NextResult => Replies("nextResult")
    BY DEF NextResult
  <1>9. CloseCursor => Replies("closeCursor")
    BY DEF CloseCursor
  <1>10. Close => Replies("close")
    BY DEF Close
  <1>11. NumFields => Replies("numFields")
    BY DEF NumFields, Checked
  <1>12. ASSUME NEW op, NEW i, ColumnEntry(op, i)
         PROVE  Replies(op)
    BY <1>12 DEF ColumnEntry, Checked
  <1>13. ASSUME NEW op, NEW kinds, HandleCall(op, kinds)
         PROVE  Replies(op)
    BY <1>13 DEF HandleCall, Checked
  <1>. HIDE DEF Replies
  <1>14. ASSUME NEW op, op \notin FetchOps, Replies(op)
         PROVE  ~EndReply'
    BY <1>5, <1>14 DEF Replies
  <1>15. \/ \E q \in Queries : PrepareSync(q)
         \/ ExecuteSync \/ NextResult \/ CloseCursor \/ Close \/ NumFields
         \/ \E i : FieldValue(i) \/ FieldInfo(i)
         \/ SetStmtAttr \/ GetStmtAttr \/ NumRows \/ StmtError
         => \E op : op \notin FetchOps /\ Replies(op)
    BY <1>6, <1>7, <1>8, <1>9, <1>10, <1>11, <1>12, <1>13
    DEF FetchOps, FieldValue, FieldInfo, SetStmtAttr, GetStmtAttr, NumRows, StmtError
  <1>. QED  BY <1>1, <1>2, <1>3, <1>4, <1>14, <1>15 DEF SyncCall

LEMMA DeliverEnds ==
    ASSUME MInv, NEW c \in Calls, Deliver(c)
    PROVE  EndReply' => Drained'
  <1>. DEFINE op == calls[c].op
  <1>1. Settle(c)
    BY DEF Deliver, OnOK, OnError, ExecOnOK, PrepareOnOK, ExecuteOnOK, FetchOnOK, FetchAllOnOK
  <1>2. calls[c].pc = "done"
    BY <1>1 DEF Settle
  <1>3. Safe(stmt)
    BY <1>2, OnlyOne, MInvOf DEF MInv
  <1>4. CASE OnError(c)
    BY <1>4, FailureEnds DEF OnError
  <1>5. CASE ExecOnOK(c) \/ PrepareOnOK(c) \/ ExecuteOnOK(c)
    BY <1>5, ValueEnds DEF ExecOnOK, PrepareOnOK, ExecuteOnOK
  <1>6. CASE FetchOnOK(c)
    <2>. DEFINE m == stmt.misuse \cup ColumnsMisuse(stmt) \cup BindingsMisuse(stmt)
    <2>1. /\ op = "fetch" /\ ~calls[c].err
          /\ Return(ReadRow(stmt), Answer("fetch", "value", stmt, <<BoundRow(stmt)>>, calls[c].rc))
      BY <1>6 DEF FetchOnOK, OnOK
    <2>2. stmt' = ReadRow(stmt) /\ (EndReply' => calls[c].rc = "no_data")
      BY <2>1, AnswerEnds
    <2>3. calls[c].rc = "no_data" => Drained
      BY <1>2, <2>1 DEF MInv, Poised
    <2>4. ReadRow(stmt) = [stmt EXCEPT !.misuse = m]
      BY DEF ReadRow
    <2>. HIDE DEF m
    <2>5. ReadRow(stmt).open = stmt.open /\ ReadRow(stmt).pos = stmt.pos
      BY <1>3, <2>4 DEF Safe, Good, Stmt
    <2>. QED  BY <2>2, <2>3, <2>5 DEF Drained
  <1>7. CASE FetchAllOnOK(c)
    <2>1. /\ op = "fetchAll" /\ ~calls[c].err /\ stmt' = BuildJsObject(stmt)
      BY <1>7, ReturnSets DEF FetchAllOnOK, OnOK
    <2>2. Drained /\ stmt.live /\ stmt.resultSetAvailable
      BY <1>2, <2>1 DEF MInv, Poised
    <2>3. BuildJsObject(stmt).open = stmt.open /\ BuildJsObject(stmt).pos = stmt.pos
      BY <1>3, <2>2, BuildJsObjectSafe DEF Safe, Ready
    <2>. QED  BY <2>1, <2>2, <2>3 DEF Drained
  <1>. QED  BY <1>4, <1>5, <1>6, <1>7 DEF Deliver

LEMMA StepKeepsEnded ==
    ASSUME Calm, MInv, MInv', Ended, [Next]_vars
    PROVE  Ended'
  <1>1. CASE UNCHANGED vars
    BY <1>1 DEF vars, Ended, EndReply, Drained, Outstanding
  <1>2. CASE SyncCall
    <2>1. Outstanding = {} /\ calls' = calls
      BY <1>2, SyncCallCallback, SyncLeavesCalls DEF Calm, MInv
    <2>2. Safe(stmt)
      BY <2>1 DEF MInv, RInv, IInv, Outstanding, Binds, Safe
    <2>3. EndReply' => Drained'
      BY <1>2, <2>2, SyncEnds DEF MInv
    <2>. QED  BY <2>1, <2>3 DEF Ended, Outstanding
  <1>3. ASSUME NEW c \in Calls, AsyncCall(c)
        PROVE  Ended'
    <2>1. \E op, q, guard : Queue(c, op, q, guard)
      BY <1>3 DEF AsyncCall, Exec, Prepare, Execute, Fetch, FetchAll
    <2>2. ~EndReply'
      <3>1. ASSUME NEW op, reply' = Answer(op, "accepted", stmt, <<>>, "success")
            PROVE  ~EndReply'
        BY <3>1, AnswerFields DEF EndReply
      <3>. QED  BY <2>1, <3>1, RejectedEnds DEF Queue
    <2>. QED  BY <2>2 DEF Ended
  <1>4. ASSUME NEW c \in Calls, WorkerStep(c)
        PROVE  Ended'
    <2>1. WorkerKinds(c)
      BY <1>4, WorkerRows DEF MInv, RInv, IInv
    <2>2. calls[c].pc # "idle"
      BY <2>1, WorkerKindsOfRows
    <2>3. c \in Outstanding
      BY <2>2 DEF Outstanding
    <2>4. reply' = reply
      BY <1>4 DEF WorkerStep, Start, Worker, ExecAsyncWorkerExec, ExecuteAsyncWorkerExec,
         PrepareAsyncWorkerExec, ExecAsyncWorkerBind, ExecuteAsyncWorkerBind, WorkerFetchData,
         FetchAsyncWorkerExec
    <2>. QED  BY <2>3, <2>4 DEF Ended, EndReply
  <1>5. ASSUME NEW c \in Calls, Deliver(c)
        PROVE  Ended'
    <2>1. EndReply' => Drained'
      BY <1>5, DeliverEnds
    <2>2. DeliverKinds(c)
      BY <1>5, DeliverRows DEF MInv, RInv, IInv
    <2>3. calls[c].pc # "idle" /\ calls'[c].pc = "idle" /\ Others(c)
      BY <2>2 DEF DeliverKinds, Settled, Idle
    <2>4. Outstanding' = {}
      BY <2>3, OnlyOne DEF Outstanding, Others, MInv
    <2>. QED  BY <2>1, <2>4 DEF Ended
  <1>. QED  BY <1>1, <1>2, <1>3, <1>4, <1>5 DEF Next

LEMMA InitCInv ==
    ASSUME Init
    PROVE  CInv
  <1>1. WInv /\ MInv
    BY InitWInv, InitMInv
  <1>2. stmt.resultSetInC = <<>> /\ reply.kind = "none"
    BY DEF Init
  <1>3. Real(stmt.resultSetInC) /\ Ended
    BY <1>2 DEF Real, Ended, EndReply
  <1>. QED  BY <1>1, <1>3 DEF CInv

LEMMA NextKeepsCInv ==
    ASSUME Calm, CInv, [Next]_vars
    PROVE  CInv' /\ RowStep /\ HandStep
  <1>1. WInv' /\ MInv'
    BY NextKeepsOrder, NextKeepsMInv DEF Calm, CInv
  <1>2. RowStep /\ HandStep
    BY HandSteps DEF CInv, WInv, OInv, Calm
  <1>3. Real(stmt.resultSetInC)' /\ Ended'
    BY <1>1, <1>2, StepKeepsReal, StepKeepsEnded DEF CInv
  <1>. QED  BY <1>1, <1>2, <1>3 DEF CInv

LEMMA CalmInvariant ==
    ASSUME Calm
    PROVE  Spec => []CInv
  <1>1. Init => CInv
    BY InitCInv
  <1>2. CInv /\ [Next]_vars => CInv'
    BY NextKeepsCInv
  <1>. QED  BY <1>1, <1>2, PTL DEF Spec

\* Outside of a bulk read resultSetInC holds rows of failed fetches only.
LEMMA LeftByFailures ==
    ASSUME CInv, NEW i \in 1..Len(stmt.resultSetInC)
    PROVE  \/ stmt.resultSetInC[i].run \in failed
           \/ Bulk /\ stmt.resultSetInC[i].run = stmt.run
  <1>1. stmt.resultSetInC[i] # NoRow
    BY DEF CInv, Real, NoRow
  <1>. QED  BY <1>1 DEF CInv, WInv, OrderInv, Filed

\* OnlyFailuresLeaveRows for a client that waits for its calls and does not
\* use execSync, while describing, binding and dropping work: rows of an
\* earlier result set wait in resultSetInC only because a fetch of it failed
\* (fetchAllSync, FetchAllAsyncWorker and ExecAsyncWorker, dbstmt.cc:2386-2470).
THEOREM OnlyFailuresLeave ==
    ASSUME Calm
    PROVE  Spec => []OnlyFailuresLeaveRows
  <1>1. CInv => OnlyFailuresLeaveRows
    <2>. SUFFICES ASSUME CInv, NEW i \in DOMAIN stmt.resultSetInC,
                         stmt.resultSetInC[i].run # stmt.run
                  PROVE  stmt.resultSetInC[i].run \in failed
      BY DEF OnlyFailuresLeaveRows
    <2>1. DOMAIN stmt.resultSetInC = 1..Len(stmt.resultSetInC)
      BY DEF CInv, MInv, RInv, IInv, Good, Stmt
    <2>. QED  BY <2>1, LeftByFailures
  <1>. QED  BY <1>1, CalmInvariant, PTL

\* Rows that were read from an unfailed result set are delivered, once no
\* call has them in hand.
LEMMA DrainedIsDelivered ==
    ASSUME CInv, Outstanding = {}, Drained, stmt.run \notin failed, NEW p \in 1..NRows
    PROVE  Holds(delivered, stmt.run, p)
  <1>. DEFINE r == stmt.resultSetInC
  <1>1. ~FetchInHand /\ ~Bulk /\ ~Binds
    BY NoneOutstanding DEF Binds
  <1>2. stmt.bindingRowAllocated /\ stmt.pos = NRows
    BY <1>1 DEF CInv, MInv, Drained, Ready
  <1>3. Holds(AllRows, stmt.run, p)
    BY <1>2 DEF CInv, WInv, OrderInv, Complete
  <1>4. delivered \in Seq(Row) /\ r \in Seq(Row) /\ Ahead = delivered
    <2>1. delivered \in Seq(Row) /\ r \in Seq(Row)
      BY AllRowsType DEF CInv, MInv, RInv, IInv
    <2>. QED  BY <1>1, <2>1, ConcatEmptySeq DEF Ahead, Hand
  <1>5. Holds(delivered, stmt.run, p) \/ Holds(r, stmt.run, p)
    BY <1>3, <1>4, HoldsConcat DEF AllRows
  <1>6. ~Holds(r, stmt.run, p)
    <2>1. \A i \in 1..Len(r) : r[i].run \in failed
      BY <1>1, LeftByFailures
    <2>2. ASSUME NEW i \in 1..Len(r), Seen(r[i]) = At(stmt.run, p)
          PROVE  FALSE
      <3>1. r[i].run = stmt.run
        BY <2>2 DEF Seen, At
      <3>. QED  BY <2>1, <3>1
    <2>. QED  BY <2>2 DEF Holds
  <1>. QED  BY <1>5, <1>6

\* EndMeansAll for a client that waits for its calls and does not use
\* execSync, while describing, binding and dropping work: when fetch or
\* fetchSync reports SQL_NO_DATA_FOUND, or fetchAll or fetchAllSync returns
\* without an error, every row of the result set was handed over, unless a
\* fetch of it had failed (dbstmt.cc:1425-1500, 2386-2550, 2899-2939).
THEOREM EndIsAll ==
    ASSUME Calm
    PROVE  Spec => []EndMeansAll
  <1>1. CInv => EndMeansAll
    <2>. SUFFICES ASSUME CInv, EndReply, stmt.run \notin failed, NEW p \in 1..NRows
                  PROVE  \E i \in DOMAIN delivered :
                            delivered[i].run = stmt.run /\ delivered[i].pos = p
      BY DEF EndMeansAll, EndReply
    <2>1. Drained /\ Outstanding = {}
      BY DEF CInv, Ended
    <2>2. PICK i \in 1..Len(delivered) : Seen(delivered[i]) = At(stmt.run, p)
      BY <2>1, DrainedIsDelivered DEF Holds
    <2>3. DOMAIN delivered = 1..Len(delivered)
      BY DEF CInv, MInv, RInv, IInv, TypeOK
    <2>4. delivered[i].run = stmt.run /\ delivered[i].pos = p
      BY <2>2 DEF Seen, At
    <2>. QED  BY <2>3, <2>4
  <1>. QED  BY <1>1, CalmInvariant, PTL

-----------------------------------------------------------------------------
(* The rows as the client sees them *)

Spot == [run : Nat, pos : Nat]

LEMMA SeenRowsEntries ==
    ASSUME NEW q \in Seq(Row)
    PROVE  /\ SeenRows(q) \in Seq(Spot)
           /\ DOMAIN SeenRows(q) = 1..Len(q) /\ Len(SeenRows(q)) = Len(q)
           /\ \A i \in 1..Len(q) : SeenRows(q)[i] = Seen(q[i])
  <1>. DEFINE n == Len(q)
              s == [i \in 1..n |-> Seen(q[i])]
  <1>1. n \in Nat /\ DOMAIN q = 1..n /\ \A i \in 1..n : q[i] \in Row
    OBVIOUS
  <1>2. SeenRows(q) = s
    BY <1>1 DEF SeenRows
  <1>3. \A i \in 1..n : Seen(q[i]) \in Spot
    <2>. TAKE i \in 1..n
    <2>1. q[i].run \in Nat /\ q[i].pos \in Nat
      BY <1>1 DEF Row
    <2>. QED  BY <2>1 DEF Seen, Spot
  <1>. HIDE DEF n
  <1>4. s \in Seq(Spot) /\ DOMAIN s = 1..n /\ Len(s) = n
    BY <1>1, <1>3
  <1>. QED  BY <1>2, <1>4 DEF n

LEMMA SeenRowsConcat ==
    ASSUME NEW q \in Seq(Row), NEW r \in Seq(Row)
    PROVE  SeenRows(q \o r) = SeenRows(q) \o SeenRows(r)
  <1>. DEFINE t == q \o r
              a == SeenRows(q)
              b == SeenRows(r)
              u == a \o b
  <1>1. /\ t \in Seq(Row) /\ Len(q) \in Nat /\ Len(r) \in Nat /\ Len(t) = Len(q) + Len(r)
        /\ \A i \in 1..Len(q) : i \in 1..Len(t) /\ t[i] = q[i]
        /\ \A j \in 1..Len(r) : Len(q) + j \in 1..Len(t) /\ t[Len(q) + j] = r[j]
    BY ConcatEntries
  <1>2. \A i \in 1..Len(t) : i \in 1..Len(q) \/ (\E j \in 1..Len(r) : i = Len(q) + j)
    BY ConcatEntries
  <1>3. /\ a \in Seq(Spot) /\ Len(a) = Len(q) /\ \A i \in 1..Len(q) : a[i] = Seen(q[i])
        /\ b \in Seq(Spot) /\ Len(b) = Len(r) /\ \A i \in 1..Len(r) : b[i] = Seen(r[i])
    BY SeenRowsEntries
  <1>. HIDE DEF a, b
  <1>4. /\ u \in Seq(Spot) /\ Len(u) = Len(a) + Len(b)
        /\ \A i \in 1..Len(a) : u[i] = a[i]
        /\ \A j \in 1..Len(b) : u[Len(a) + j] = b[j]
    <2>1. a \in Seq(Spot) /\ b \in Seq(Spot)
      BY <1>3
    <2>. QED  BY <2>1
  <1>. HIDE DEF t, u
  <1>5. /\ SeenRows(t) \in Seq(Spot) /\ Len(SeenRows(t)) = Len(t)
        /\ \A i \in 1..Len(t) : SeenRows(t)[i] = Seen(t[i])
    BY <1>1, SeenRowsEntries
  <1>6. ASSUME NEW i \in 1..Len(t)
        PROVE  SeenRows(t)[i] = u[i]
    <2>1. CASE i \in 1..Len(q)
      BY <1>1, <1>3, <1>4, <1>5, <2>1
    <2>2. ASSUME NEW j \in 1..Len(r), i = Len(q) + j
          PROVE  SeenRows(t)[i] = u[i]
      BY <1>1, <1>3, <1>4, <1>5, <2>2
    <2>. QED  BY <1>2, <2>1, <2>2
  <1>7. SeenRows(t) = u
    BY <1>1, <1>3, <1>4, <1>5, <1>6, SeqEqual
  <1>. QED  BY <1>7 DEF t, u, a, b

LEMMA SeenUpcoming ==
    ASSUME NEW q \in Seq(Row), \A i \in 1..Len(q) : Seen(q[i]) = At(stmt.run, stmt.pos + i)
    PROVE  SeenRows(q) = Cursor!Upcoming(Len(q))
  <1>1. DOMAIN q = 1..Len(q)
    OBVIOUS
  <1>2. \A i \in 1..Len(q) : Seen(q[i]) = [run |-> stmt.run, pos |-> stmt.pos + i]
    BY DEF At
  <1>. QED  BY <1>1, <1>2 DEF SeenRows, Cursor!Upcoming

\* Nothing is on its way while the rows that stay behind are of failed fetches.
LEMMA NothingInFlight ==
    ASSUME CInv, ~FetchInHand, ~Bulk
    PROVE  ~Cursor!InFlight
  <1>. DEFINE r == stmt.resultSetInC
  <1>1. r \in Seq(Row)
    BY AllRowsType DEF CInv, MInv, RInv, IInv
  <1>. HIDE DEF r
  <1>2. DOMAIN SeenRows(r) = 1..Len(r) /\ \A i \in 1..Len(r) : SeenRows(r)[i] = Seen(r[i])
    BY <1>1, SeenRowsEntries
  <1>20. \A i \in 1..Len(r) : SeenRows(r)[i].run = r[i].run
    BY <1>2 DEF Seen
  <1>3. \A i \in 1..Len(r) : r[i].run \in failed
    BY LeftByFailures DEF r
  <1>. QED  BY <1>2, <1>20, <1>3 DEF Cursor!InFlight, r

LEMMA ReadAdvances ==
    ASSUME Good(stmt), Good(stmt)', Tied(stmt), Ready(stmt), NEW q, Read(q)
    PROVE  /\ q \in Seq(Row) /\ Len(q) \in 0..NRows
           /\ Cursor!Advance(Len(q)) /\ SeenRows(q) = Cursor!Upcoming(Len(q))
  <1>1. q \in Seq(Row) /\ Len(q) \in Nat
    BY ReadReal
  <1>2. SeenRows(q) = Cursor!Upcoming(Len(q))
    <2>1. \A i \in 1..Len(q) : Seen(q[i]) = At(stmt.run, stmt.pos + i)
      BY ReadReal
    <2>. QED  BY <1>1, <2>1, SeenUpcoming
  <1>3. stmt'.run = stmt.run /\ stmt'.pos = stmt.pos + Len(q)
    BY DEF Read, ReadsOn
  <1>4. stmt.pos \in Nat /\ NRows \in Nat /\ stmt'.pos <= NRows
    BY ShapeAssumption DEF Good, Stmt
  <1>5. Len(q) \in 0..(NRows - stmt.pos) /\ Len(q) \in 0..NRows
    BY <1>1, <1>3, <1>4
  <1>. QED  BY <1>1, <1>2, <1>3, <1>5 DEF Cursor!Advance

\* Where nothing is read, the client sees nothing.
LEMMA SeesNothing ==
    ASSUME ~FetchInHand, ~FetchInHand', SameRows(stmt, stmt'), UNCHANGED hist
    PROVE  UNCHANGED Cursor!vars
  BY DEF SameRows, hist, Cursor!vars

\* Each step of the statement is a step of the rows or leaves them alone.
LEMMA StepOfCursor ==
    ASSUME Calm, CInv, CInv', RowStep, HandStep
    PROVE  [Cursor!Next]_(Cursor!vars)
  <1>. DEFINE d == delivered
              r == stmt.resultSetInC
  <1>0. /\ d \in Seq(Row) /\ r \in Seq(Row) /\ Good(stmt) /\ Good(stmt)' /\ Tied(stmt)
    BY AllRowsType DEF CInv, MInv, RInv, IInv
  <1>1. Ready(stmt) \/ UNCHANGED vars \/ Binding
    BY StepsWhereReady DEF CInv
  <1>2. CASE UNCHANGED vars
    BY <1>2 DEF vars, hist, Cursor!vars, FetchInHand
  <1>3. CASE ~FetchInHand /\ ~FetchInHand' /\ (Same \/ Binding)
    BY <1>3, SeesNothing DEF Same, Still, Binding
  <1>4. ASSUME Reading, ~FetchInHand, ~FetchInHand', Ready(stmt)
        PROVE  Cursor!Read
    <2>1. PICK q : /\ Read(q) /\ Len(q) = 1 /\ UNCHANGED hist
                   /\ stmt'.resultSetInC = r \o q
      BY <1>4 DEF Reading
    <2>2. q \in Seq(Row) /\ Cursor!Advance(1) /\ SeenRows(q) = Cursor!Upcoming(1)
      BY <1>0, <1>4, <2>1, ReadAdvances
    <2>3. SeenRows(r \o q) = SeenRows(r) \o SeenRows(q)
      BY <1>0, <2>2, SeenRowsConcat
    <2>. QED  BY <1>4, <2>1, <2>2, <2>3 DEF Cursor!Read, hist
  <1>5. ASSUME HandingOver, ~FetchInHand, ~FetchInHand', Ready(stmt)
        PROVE  \E k \in 0..NRows : Cursor!HandOver(k)
    <2>1. PICK q : /\ Read(q) /\ stmt'.resultSetInC = <<>>
                   /\ delivered' = d \o (r \o q) /\ UNCHANGED failed
      BY <1>5 DEF HandingOver
    <2>2. /\ q \in Seq(Row) /\ Len(q) \in 0..NRows
          /\ Cursor!Advance(Len(q)) /\ SeenRows(q) = Cursor!Upcoming(Len(q))
      BY <1>0, <1>5, <2>1, ReadAdvances
    <2>3. SeenRows(delivered') = (SeenRows(d) \o SeenRows(r)) \o SeenRows(q)
      <3>1. d \o r \in Seq(Row) /\ d \o (r \o q) = (d \o r) \o q
        <4>. HIDE DEF d, r
        <4>. QED  BY <1>0, <2>2, RowsAssociative, ConcatProperties
      <3>2. SeenRows((d \o r) \o q) = SeenRows(d \o r) \o SeenRows(q)
        <4>. HIDE DEF d, r
        <4>. QED  BY <2>2, <3>1, SeenRowsConcat
      <3>3. SeenRows(d \o r) = SeenRows(d) \o SeenRows(r)
        <4>. HIDE DEF d, r
        <4>. QED  BY <1>0, SeenRowsConcat
      <3>. QED  BY <2>1, <3>1, <3>2, <3>3
    <2>4. SeenRows(<<>>) = <<>>
      BY DEF SeenRows
    <2>5. Cursor!HandOver(Len(q))
      BY <1>5, <2>1, <2>2, <2>3, <2>4 DEF Cursor!HandOver
    <2>. QED  BY <2>2, <2>5
  <1>6. ASSUME Failing, ~FetchInHand, ~FetchInHand', Ready(stmt)
        PROVE  \E k \in 0..NRows : Cursor!Fail(k)
    <2>1. PICK q : /\ Read(q)
                   /\ stmt'.resultSetInC \in {r \o q, <<>>}
                   /\ delivered' = d /\ failed' = failed \cup {stmt.run}
      BY <1>6 DEF Failing
    <2>2. /\ q \in Seq(Row) /\ Len(q) \in 0..NRows
          /\ Cursor!Advance(Len(q)) /\ SeenRows(q) = Cursor!Upcoming(Len(q))
      BY <1>0, <1>6, <2>1, ReadAdvances
    <2>3. SeenRows(r \o q) = SeenRows(r) \o SeenRows(q)
      BY <1>0, <2>2, SeenRowsConcat
    <2>4. SeenRows(<<>>) = <<>>
      BY DEF SeenRows
    <2>5. SeenRows(stmt'.resultSetInC) \in {SeenRows(r) \o Cursor!Upcoming(Len(q)), <<>>}
      BY <2>1, <2>2, <2>3, <2>4
    <2>6. Cursor!Fail(Len(q))
      BY <1>6, <2>1, <2>2, <2>5 DEF Cursor!Fail
    <2>. QED  BY <2>2, <2>6
  <1>7. ASSUME Opening, ~FetchInHand, ~FetchInHand', ~Bulk
        PROVE  Cursor!Open
    <2>1. ~Cursor!InFlight
      BY <1>7, NothingInFlight
    <2>. QED  BY <1>7, <2>1 DEF Opening, hist, Cursor!Open
  <1>8. ASSUME Nexting, ~FetchInHand, ~FetchInHand', ~Bulk, Ready(stmt)
        PROVE  Cursor!Next1
    <2>1. PICK q : /\ Read(q) /\ Len(q) = 1 /\ stmt'.resultSetInC = r
                   /\ delivered' = d \o q /\ UNCHANGED failed
      BY <1>8 DEF Nexting
    <2>2. q \in Seq(Row) /\ Cursor!Advance(1) /\ SeenRows(q) = Cursor!Upcoming(1)
      BY <1>0, <1>8, <2>1, ReadAdvances
    <2>3. SeenRows(d \o q) = SeenRows(d) \o SeenRows(q)
      BY <1>0, <2>2, SeenRowsConcat
    <2>4. ~Cursor!InFlight
      BY <1>8, NothingInFlight
    <2>. QED  BY <1>8, <2>1, <2>2, <2>3, <2>4 DEF Cursor!Next1
  <1>9. ASSUME Holding, ~FetchInHand, FetchInHand', ~Bulk, Ready(stmt)
        PROVE  Cursor!Hold
    <2>. DEFINE b == BoundRow(stmt')
                q == <<b>>
    <2>1. Read(q) /\ Len(q) = 1 /\ UNCHANGED hist /\ stmt'.resultSetInC = r
      BY <1>9 DEF Holding
    <2>. HIDE DEF b
    <2>2. q \in Seq(Row) /\ Cursor!Advance(1) /\ SeenRows(q) = Cursor!Upcoming(1)
      <3>. HIDE DEF q
      <3>. QED  BY <1>0, <1>9, <2>1, ReadAdvances
    <2>3. SeenRows(q) = <<Seen(b)>>
      BY DEF SeenRows
    <2>4. ~Cursor!InFlight
      BY <1>9, NothingInFlight
    <2>. QED  BY <1>9, <2>1, <2>2, <2>3, <2>4 DEF Cursor!Hold, hist, b
  <1>10. ASSUME Answering, FetchInHand, ~FetchInHand'
         PROVE  Cursor!Answer
    <2>. DEFINE b == BoundRow(stmt)
                q == <<b>>
    <2>1. b \in Row
      BY <1>0, BoundRowType
    <2>2. delivered' = d \o q /\ Still(stmt, stmt') /\ UNCHANGED failed
      BY <1>10 DEF Answering
    <2>. HIDE DEF b
    <2>3. SeenRows(q) = <<Seen(b)>>
      BY DEF SeenRows
    <2>4. SeenRows(d \o q) = SeenRows(d) \o SeenRows(q)
      <3>1. q \in Seq(Row)
        BY <2>1
      <3>. HIDE DEF q, d
      <3>. QED  BY <1>0, <3>1, SeenRowsConcat
    <2>. QED  BY <1>10, <2>2, <2>3, <2>4 DEF Cursor!Answer, Still, SameRows, b
  <1>11. CASE ~FetchInHand /\ ~FetchInHand'
              /\ (\/ Same \/ Binding \/ Reading \/ HandingOver \/ Failing
                  \/ ~Bulk /\ (Opening \/ Nexting))
    <2>1. CASE Ready(stmt)
      BY <1>3, <1>4, <1>5, <1>6, <1>7, <1>8, <1>11, <2>1 DEF Cursor!Next
    <2>. QED  BY <1>1, <1>2, <1>3, <1>11, <2>1
  <1>12. CASE ~FetchInHand /\ FetchInHand' /\ ~Bulk /\ Holding
    <2>1. ~Binding
      <3>1. stmt'.pos = stmt.pos + 1 /\ stmt.pos \in Nat
        <4>1. Len(<<BoundRow(stmt')>>) = 1
          OBVIOUS
        <4>. QED  BY <1>0, <1>12, <4>1 DEF Holding, Read, ReadsOn, Good, Stmt
      <3>. QED  BY <3>1 DEF Binding, SameRows
    <2>. QED  BY <1>1, <1>2, <1>9, <1>12, <2>1 DEF Cursor!Next
  <1>13. CASE FetchInHand /\ ~FetchInHand' /\ Answering
    BY <1>10, <1>13 DEF Cursor!Next
  <1>14. ~MayOverlap /\ ~ExecSyncing
    BY DEF Calm, ExecSyncing
  <1>. QED  BY <1>2, <1>11, <1>12, <1>13, <1>14 DEF HandStep

\* CursorView for a client that waits for its calls and does not use
\* execSync, while describing, binding and dropping work: whatever mixture of
\* exec, execute, fetch, fetchAll, nextResult and their Sync forms drains the
\* result sets, the client sees the rows of ResultSets
\* (dbstmt.cc:2386-2550, 2899-2939).
THEOREM ImplementsResultSets ==
    ASSUME Calm
    PROVE  Spec => CursorView
  <1>1. Init => CInv /\ Cursor!Init
    <2>1. ASSUME Init
          PROVE  Cursor!Init
      <3>1. stmt.run = 0 /\ stmt.pos = 0 /\ stmt.resultSetInC = <<>>
            /\ delivered = <<>> /\ failed = {} /\ ~FetchInHand
        BY <2>1 DEF Init, FetchInHand, Idle
      <3>2. SeenRows(<<>>) = <<>>
        BY DEF SeenRows
      <3>. QED  BY <3>1, <3>2 DEF Cursor!Init
    <2>. QED  BY <2>1, InitCInv
  <1>2. CInv /\ [Next]_vars => CInv' /\ [Cursor!Next]_(Cursor!vars)
    BY NextKeepsCInv, StepOfCursor
  <1>. QED  BY <1>1, <1>2, PTL DEF Spec, CursorView, Cursor!Spec
=============================================================================
