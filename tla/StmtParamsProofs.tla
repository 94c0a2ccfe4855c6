-------------------------- MODULE StmtParamsProofs --------------------------
(***************************************************************************)
(* Proofs about StmtParams.  Whatever the client does, parameter memory is *)
(* freed once and outputs are handed over once.  For a careful client no   *)
(* freed memory is used, every execution reads the values bound last, and  *)
(* execute hands over the outputs of its own execution.  The invariants    *)
(* build on one another: IInv (memory), TInv (types and where the markers  *)
(* point), GInv (outputs not handed over yet), DInv (what param holds for  *)
(* a careful client).                                                      *)
(***************************************************************************)
EXTENDS StmtParams, FiniteSetTheorems, WellFoundedInduction, TLAPS

-----------------------------------------------------------------------------
(* The invariant *)

\* The arrays of parameters are numbered as they are allocated: only older
\* ones were freed, each once, and the present one was not.
Owned(s) ==
    /\ s.at <= s.binds
    /\ s.freed \subseteq 1..s.binds
    /\ s.at \notin s.freed
    /\ "double" \notin s.misuse

\* Every marker of the prepared statement is bound to the present array.
MarkersBound(s) ==
    \A i \in DOMAIN MarkersOf(s.prepared) : s.bound[i].b = s.at

\* What "fresh" stands for.
FreshBound(s, cl) == cl.careful /\ cl.state = "fresh" => s.live /\ MarkersBound(s)

\* The state in which a careful client executes.
Executable(s, cl) ==
    cl.state = "fresh" \/ (cl.state = "none" /\ MarkersOf(s.prepared) = <<>>)

\* A careful client has one call at a time, and while it executes the
\* parameters stay as they were.
CallInOrder(c) ==
    client.careful /\ calls[c].pc # "idle" =>
        /\ \A d \in Calls : calls[d].pc # "idle" => d = c
        /\ calls[c].op = "execute" /\ calls[c].pc \in {"queued", "cli"} =>
              Executable(stmt, client)
        /\ calls[c].pc = "cli" => calls[c].q = stmt.prepared

\* A careless client is never "fresh" again.
ClientOK(cl) == cl \in Client /\ (cl.careful \/ cl.state = "stale")

StateTypes ==
    /\ stmt \in Stmt
    /\ calls \in [Calls -> Call]
    /\ ClientOK(client)

IInv ==
    /\ StateTypes
    /\ Owned(stmt)
    /\ BuffersLive
    /\ FreshBound(stmt, client)
    /\ \A c \in Calls : CallInOrder(c)

-----------------------------------------------------------------------------
(* Lemmas about the operators *)

LEMMA MarkersType ==
    ASSUME NEW q \in Queries \cup {NoQuery}
    PROVE  /\ MarkersOf(q) \in Seq(Marker)
           /\ DOMAIN MarkersOf(q) \subseteq 1..MaxMarkers
<1>1. CASE q = NoQuery
  BY <1>1 DEF MarkersOf
<1>2. CASE q # NoQuery
  <2>1. Markers[q] \in Seq(Marker) /\ Len(Markers[q]) <= MaxMarkers
    BY <1>2, ParamAssumption
  <2>2. DOMAIN Markers[q] = 1..Len(Markers[q]) /\ Len(Markers[q]) \in Nat
    BY <2>1
  <2> QED
    BY <1>2, <2>1, <2>2, ParamAssumption DEF MarkersOf
<1> QED
  BY <1>1, <1>2

\* freeSp() frees the present array, if there is one, for the first time.
LEMMA FreeSpFrees ==
    ASSUME NEW s \in Stmt, Owned(s)
    PROVE  /\ FreeSp(s) \in Stmt
           /\ Owned(FreeSp(s))
           /\ FreeSp(s).at = 0
           /\ FreeSp(s).binds = s.binds
           /\ FreeSp(s).misuse = s.misuse
           /\ FreeSp(s).bound = s.bound
           /\ FreeSp(s).live = s.live
           /\ FreeSp(s).prepared = s.prepared
<1>1. CASE s.at = 0
  BY <1>1 DEF FreeSp
<1>2. CASE s.at # 0
  <2>1. FreeSp(s) = [s EXCEPT !.at = 0, !.param = <<>>,
                              !.freed = s.freed \cup {s.at}, !.misuse = s.misuse]
    BY <1>2 DEF FreeSp, Owned
  <2>2. s.at \in 1..s.binds
    BY <1>2 DEF Owned, Stmt
  <2>3. <<>> \in Seq(Slot) /\ 0 \in Nat
    OBVIOUS
  <2> DEFINE fr == s.freed \cup {s.at}
  <2>4. /\ fr \subseteq 1..s.binds /\ fr \subseteq Nat /\ 0 \notin fr
        /\ s.misuse \subseteq {"freed", "double"} /\ s.binds \in Nat
    BY <2>2 DEF Owned, Stmt
  <2> HIDE DEF fr
  <2>5. FreeSp(s) \in Stmt
    BY <2>1, <2>3, <2>4 DEF fr, Stmt
  <2>6. /\ FreeSp(s).at = 0 /\ FreeSp(s).binds = s.binds /\ FreeSp(s).freed = fr
        /\ FreeSp(s).misuse = s.misuse /\ FreeSp(s).bound = s.bound
        /\ FreeSp(s).live = s.live /\ FreeSp(s).prepared = s.prepared
    BY <2>1 DEF fr, Stmt
  <2>7. Owned(FreeSp(s))
    BY <2>4, <2>6 DEF Owned
  <2> QED
    BY <2>5, <2>6, <2>7
<1> QED
  BY <1>1, <1>2

LEMMA OtherType == \A k \in {"null", "blank", "garbage"} : Other(k) \in Value
  BY DEF Other, Value

LEMMA Int32Type == ASSUME NEW v \in Int PROVE Int32Value(v) \in Int
<1> DEFINE w == 2 * Half
           u == v + Half
<1>1. w \in Nat \ {0} /\ u \in Int /\ Half \in Nat
  BY ParamAssumption
<1> HIDE DEF w, u
<1>2. u % w \in Int
  BY <1>1
<1>3. Int32Value(v) = (u % w) - Half
  BY DEF Int32Value, w, u
<1> QED
  BY <1>1, <1>2, <1>3

\* What bindParams() puts in an entry it fills in.
LEMMA SentType ==
    ASSUME NEW p \in Param, NEW m \in Marker, NEW b \in Nat, p.kind # "bad" \/ Bare(p)
    PROVE  /\ Io(p) \in Directions
           /\ TypeOf(p, m) \in Types \cup {"none"}
           /\ Sent(p, m, b) \in Value
<1>1. p.v \in Int /\ p.io \in Directions \cup {"unsaid"}
      /\ p.kind \in Types \cup {"null", "bad", "half"} /\ m.type \in Types
  BY DEF Param, Marker
<1>2. Io(p) \in Directions
  BY <1>1 DEF Io, Bare, Directions
<1>3. TypeOf(p, m) \in Types \cup {"none"}
  BY <1>1 DEF TypeOf, StopsHalfway
<1>4. In(b, 0) \in Value /\ In(b, Int32Value(p.v)) \in Value
  BY <1>1, Int32Type DEF In, Value
<1>5. Null \in Value /\ Blank \in Value /\ Garbage \in Value
  BY OtherType DEF Null, Blank, Garbage
<1>6. Sent(p, m, b) \in {Null, Blank, Garbage, In(b, 0), In(b, Int32Value(p.v))}
  BY DEF Sent
<1> QED
  BY <1>2, <1>3, <1>4, <1>5, <1>6

LEMMA FilledType ==
    ASSUME NEW s \in Stmt, NEW ps \in Seq(Param), NEW b \in Nat, NEW end \in BindEnds(s, ps)
    PROVE  Filled(MarkersOf(s.prepared), ps, b, end.filled) \in Seq(Slot)
<1> DEFINE ms == MarkersOf(s.prepared)
           entry(i) == IF i > end.filled THEN Empty
                       ELSE [io |-> Io(ps[i]), type |-> TypeOf(ps[i], ms[i]),
                             val |-> Sent(ps[i], ms[i], b)]
<1>1. ms \in Seq(Marker)
  BY MarkersType DEF Stmt
<1>2. /\ end.filled \in Nat
      /\ \A i \in 1..end.filled : i \in DOMAIN ms /\ (ps[i].kind # "bad" \/ Bare(ps[i]))
  BY DEF BindEnds
<1> HIDE DEF ms
<1>3. ASSUME NEW i \in 1..Len(ps) PROVE entry(i) \in Slot
  <2>1. CASE i > end.filled
    BY <2>1, OtherType DEF Empty, Slot, Garbage
  <2>2. CASE ~(i > end.filled)
    <3>1. i \in 1..end.filled
      BY <1>2, <2>2
    <3>2. ps[i] \in Param /\ ms[i] \in Marker /\ (ps[i].kind # "bad" \/ Bare(ps[i]))
      BY <1>1, <1>2, <3>1
    <3>3. /\ Io(ps[i]) \in Directions /\ TypeOf(ps[i], ms[i]) \in Types \cup {"none"}
          /\ Sent(ps[i], ms[i], b) \in Value
      BY <3>2, SentType
    <3> QED
      BY <2>2, <3>3 DEF Slot
  <2> QED
    BY <2>1, <2>2
<1>4. Filled(ms, ps, b, end.filled) = [i \in 1..Len(ps) |-> entry(i)]
  BY DEF Filled
<1> HIDE DEF entry
<1> QED
  BY <1>3, <1>4 DEF ms

\* After a bindParams() that bound as many parameters as there are markers,
\* all of them are bound to the new array.
LEMMA BindParamsBinds ==
    ASSUME NEW s \in Stmt, Owned(s), NEW ps \in Seq(Param),
           NEW end \in BindEnds(s, ps)
    PROVE  /\ BindParams(s, ps, end) \in Stmt
           /\ Owned(BindParams(s, ps, end))
           /\ BindParams(s, ps, end).misuse = s.misuse
           /\ BindParams(s, ps, end).live = s.live
           /\ BindParams(s, ps, end).prepared = s.prepared
           /\ end.bound = Len(MarkersOf(s.prepared)) => MarkersBound(BindParams(s, ps, end))
<1> DEFINE s1 == FreeSp(s)
           b  == s1.binds + 1
           r  == BindParams(s, ps, end)
           bnd == [i \in 1..MaxMarkers |->
                     IF i <= end.bound THEN [b |-> b, io |-> Io(ps[i])] ELSE s1.bound[i]]
<1>1. /\ s1 \in Stmt /\ Owned(s1) /\ s1.at = 0 /\ s1.binds = s.binds
      /\ s1.misuse = s.misuse /\ s1.bound = s.bound /\ s1.live = s.live
      /\ s1.prepared = s.prepared
  BY FreeSpFrees
<1> HIDE DEF s1
<1>2. end.bound \in Int /\ end.filled \in Nat /\ end.bound <= Len(ps)
  BY DEF BindEnds
<1>3. b \in Nat /\ Filled(MarkersOf(s.prepared), ps, b, end.filled) \in Seq(Slot)
  <2>1. b \in Nat
    BY <1>1 DEF Stmt
  <2> HIDE DEF b
  <2> QED
    BY <2>1, FilledType
<1>4. r = [s1 EXCEPT !.binds = b, !.at = b, !.bound = bnd,
                     !.param = Filled(MarkersOf(s.prepared), ps, b, end.filled)]
  BY <1>1 DEF BindParams, s1, Stmt
<1>5. bnd \in [1..MaxMarkers -> Binding]
  <2> SUFFICES ASSUME NEW i \in 1..MaxMarkers
               PROVE (IF i <= end.bound THEN [b |-> b, io |-> Io(ps[i])]
                      ELSE s1.bound[i]) \in Binding
    OBVIOUS
  <2>1. CASE i <= end.bound
    <3>1. i \in 1..Len(ps)
      BY <1>2, <2>1, ParamAssumption
    <3>2. ps[i] \in Param
      BY <3>1
    <3>3. [b |-> b, io |-> Io(ps[i])] \in Binding
      BY <1>3, <3>2 DEF Binding, Param, Io, Bare, Directions
    <3> QED
      BY <2>1, <3>3
  <2>2. CASE ~(i <= end.bound)
    <3>1. s1.bound[i] \in Binding
      BY <1>1 DEF Stmt
    <3> QED
      BY <2>2, <3>1
  <2> QED
    BY <2>1, <2>2
<1> HIDE DEF bnd
<1>6. r \in Stmt
  BY <1>1, <1>3, <1>4, <1>5 DEF Stmt
<1>7. Owned(r)
  BY <1>1, <1>3, <1>4 DEF Owned, Stmt
<1>8. r.misuse = s.misuse /\ r.live = s.live /\ r.prepared = s.prepared
  BY <1>1, <1>4 DEF Stmt
<1>9. ASSUME end.bound = Len(MarkersOf(s.prepared))
      PROVE  MarkersBound(r)
  <2> SUFFICES ASSUME NEW i \in DOMAIN MarkersOf(s.prepared)
               PROVE  r.bound[i].b = r.at
    BY <1>8 DEF MarkersBound
  <2>1. /\ MarkersOf(s.prepared) \in Seq(Marker)
        /\ DOMAIN MarkersOf(s.prepared) \subseteq 1..MaxMarkers
    BY MarkersType DEF Stmt
  <2>2. i \in 1..MaxMarkers /\ i <= end.bound
    BY <1>9, <2>1
  <2>3. bnd[i] = [b |-> b, io |-> Io(ps[i])]
    BY <2>2 DEF bnd
  <2>4. r.bound = bnd /\ r.at = b
    BY <1>1, <1>4 DEF Stmt
  <2> QED
    BY <2>3, <2>4
<1> QED
  BY <1>6, <1>7, <1>8, <1>9

\* What an execution does to the object when it reads ...
LEMMA ReadKeeps ==
    ASSUME NEW s \in Stmt, Owned(s), NEW rc
    PROVE  /\ ExecuteRead(s, rc) \in Stmt
           /\ Owned(ExecuteRead(s, rc))
           /\ ExecuteRead(s, rc).live = s.live
           /\ ExecuteRead(s, rc).prepared = s.prepared
           /\ ExecuteRead(s, rc).bound = s.bound
           /\ ExecuteRead(s, rc).at = s.at
           /\ MarkersBound(s) => ExecuteRead(s, rc).misuse = s.misuse
<1>1. CASE Ran(rc)
  <2> DEFINE m == IF \E i \in DOMAIN MarkersOf(s.prepared) : s.bound[i].b \in s.freed
                  THEN s.misuse \cup {"freed"} ELSE s.misuse
  <2>1. ExecuteRead(s, rc) = [s EXCEPT !.misuse = m, !.execs = s.execs + 1]
    BY <1>1 DEF ExecuteRead, Touch, Stmt
  <2>2. m \in SUBSET {"freed", "double"} /\ ("double" \in m => "double" \in s.misuse)
    BY DEF Stmt
  <2>3. MarkersBound(s) => m = s.misuse
    BY DEF MarkersBound, Owned
  <2> HIDE DEF m
  <2>4. s.execs + 1 \in Nat
    BY DEF Stmt
  <2> DEFINE k == s.execs + 1
  <2> HIDE DEF k
  <2>5. ExecuteRead(s, rc) \in Stmt
    BY <2>1, <2>2, <2>4 DEF k, Stmt
  <2> QED
    BY <2>1, <2>2, <2>3, <2>5 DEF Owned, Stmt
<1>2. CASE ~Ran(rc)
  BY <1>2 DEF ExecuteRead, Owned, Stmt
<1> QED
  BY <1>1, <1>2

\* ... and when it writes.
LEMMA WriteKeeps ==
    ASSUME NEW s \in Stmt, Owned(s), NEW q \in Queries \cup {NoQuery},
           NEW sets \in Value
    PROVE  /\ ExecuteWrite(s, q, sets) \in Stmt
           /\ Owned(ExecuteWrite(s, q, sets))
           /\ ExecuteWrite(s, q, sets).live = s.live
           /\ ExecuteWrite(s, q, sets).prepared = s.prepared
           /\ ExecuteWrite(s, q, sets).bound = s.bound
           /\ ExecuteWrite(s, q, sets).at = s.at
           /\ q = s.prepared /\ MarkersBound(s) =>
                 ExecuteWrite(s, q, sets).misuse = s.misuse
<1> DEFINE m == IF \E i \in DOMAIN MarkersOf(q) : s.bound[i].b \in s.freed
                THEN s.misuse \cup {"freed"} ELSE s.misuse
           written(i) == /\ i \in DOMAIN MarkersOf(q) /\ MarkersOf(q)[i].io # "in"
                         /\ s.bound[i].b = s.at /\ s.bound[i].io # "in"
           after(slot) == IF sets # Null /\ slot.type = "none" THEN Garbage ELSE sets
           p == [i \in 1..Len(s.param) |->
                   IF written(i)
                   THEN [s.param[i] EXCEPT !.val = after(s.param[i])]
                   ELSE s.param[i]]
<1>1. ExecuteWrite(s, q, sets) = [s EXCEPT !.misuse = m, !.param = p]
  BY DEF ExecuteWrite, Touch, Stmt
<1>2. m \in SUBSET {"freed", "double"} /\ ("double" \in m => "double" \in s.misuse)
  BY DEF Stmt
<1>3. q = s.prepared /\ MarkersBound(s) => m = s.misuse
  BY DEF MarkersBound, Owned
<1>4. p \in Seq(Slot)
  <2>1. s.param \in Seq(Slot)
    BY DEF Stmt
  <2>2. \A i \in 1..Len(s.param) : after(s.param[i]) \in Value
    BY OtherType DEF Garbage
  <2>3. \A i \in 1..Len(s.param) : s.param[i] \in Slot
    BY <2>1
  <2>4. \A i \in 1..Len(s.param) :
           [s.param[i] EXCEPT !.val = after(s.param[i])] \in Slot
    BY <2>2, <2>3 DEF Slot
  <2>5. \A i \in 1..Len(s.param) :
           (IF written(i)
            THEN [s.param[i] EXCEPT !.val = after(s.param[i])]
            ELSE s.param[i]) \in Slot
    BY <2>3, <2>4
  <2> QED
    BY <2>1, <2>5
<1> HIDE DEF m, p
<1> QED
  BY <1>1, <1>2, <1>3, <1>4 DEF Owned, Stmt

LEMMA FetchSpFrees ==
    ASSUME NEW s \in Stmt, Owned(s)
    PROVE  /\ FetchSp(s) \in Stmt
           /\ Owned(FetchSp(s))
           /\ FetchSp(s).misuse = s.misuse
           /\ FetchSp(s).live = s.live
           /\ FetchSp(s).prepared = s.prepared
  BY FreeSpFrees DEF FetchSp
-----------------------------------------------------------------------------
(* Lemmas about the client *)

LEMMA KnowsType ==
    ASSUME NEW st \in {"none", "fresh", "stale"}, NEW b \in Nat,
           NEW ps \in Lists \cup {<<>>}
    PROVE  /\ ClientOK(Knows(st, b, ps))
           /\ Knows(st, b, ps).careful /\ Knows(st, b, ps).state = st
  BY DEF Knows, Client, ClientOK

LEMMA CarelessType == ClientOK(Careless) /\ ~Careless.careful
  BY DEF Careless, Knows, Client, ClientOK

LEMMA BehavesType ==
    ASSUME ClientOK(client), NEW good \in BOOLEAN
    PROVE  /\ ClientOK(Behaves(good))
           /\ Behaves(good).careful => client.careful /\ good /\ Behaves(good) = client
  BY CarelessType DEF Behaves

\* Only a list bound as a whole, on a live handle, makes the client "fresh".
LEMMA AfterBindFresh ==
    ASSUME NEW cl, ClientOK(cl), NEW s \in Stmt, NEW ps \in Lists \cup {<<>>}, NEW n
    PROVE  /\ ClientOK(AfterBind(cl, s, ps, n))
           /\ AfterBind(cl, s, ps, n).careful => cl.careful
           /\ AfterBind(cl, s, ps, n).careful /\ AfterBind(cl, s, ps, n).state = "fresh"
                 => s.live /\ n = Len(MarkersOf(s.prepared))
<1>1. s.binds \in Nat /\ 0 \in Nat /\ <<>> \in Lists \cup {<<>>}
  BY DEF Stmt
<1> QED
  BY <1>1, KnowsType, CarelessType DEF AfterBind

LEMMA OutdatedStale ==
    ASSUME NEW cl, ClientOK(cl)
    PROVE  /\ ClientOK(Outdated(cl))
           /\ Outdated(cl).careful => cl.careful
           /\ Outdated(cl).state # "fresh"
<1>1. ClientOK(Knows("stale", 0, <<>>)) /\ Knows("stale", 0, <<>>).state = "stale"
  BY KnowsType
<1> QED
  BY <1>1 DEF Outdated, ClientOK

LEMMA AfterExecuteNone ==
    ASSUME NEW cl, ClientOK(cl)
    PROVE  /\ ClientOK(AfterExecute(cl))
           /\ AfterExecute(cl).careful => cl.careful
           /\ AfterExecute(cl).state # "fresh"
<1>1. ClientOK(Knows("none", 0, <<>>)) /\ Knows("none", 0, <<>>).state = "none"
  BY KnowsType
<1>2. Careless.state # "fresh"
  BY CarelessType DEF ClientOK
<1> QED
  BY <1>1, <1>2, CarelessType DEF AfterExecute

LEMMA ExecEndsType ==
    ASSUME NEW s \in Stmt, NEW end \in ExecEnds(s)
    PROVE  end.rc \in Rcs /\ end.sets \in Value
<1> DEFINE outs == {Out(s.execs + 1, v) : v \in OutInts}
<1>1. Null \in Value
  BY OtherType DEF Null
<1>2. outs \subseteq Value
  BY ParamAssumption DEF Out, Value, Stmt
<1>3. \/ \E rc \in {"invalid", "error", "no_data"} : end = Ended(rc, Null)
      \/ \E sets \in {Null} \cup outs : end = Ended("success", sets)
  BY Zenon DEF ExecEnds
<1> HIDE DEF outs
<1>4. \A rc, sets : Ended(rc, sets).rc = rc /\ Ended(rc, sets).sets = sets
  BY DEF Ended
<1> QED
  BY <1>1, <1>2, <1>3, <1>4 DEF Rcs

-----------------------------------------------------------------------------
(* The invariant holds *)

\* What is left to show of a step that leaves the client careless ...
LEMMA CarelessStep ==
    ASSUME StateTypes', Owned(stmt'), ~client'.careful
    PROVE  IInv'
  BY DEF IInv, BuffersLive, FreshBound, CallInOrder

\* ... and of one after which no call is outstanding.
LEMMA QuietStep ==
    ASSUME StateTypes', Owned(stmt'), BuffersLive', FreshBound(stmt, client)',
           \A c \in Calls : calls'[c].pc = "idle"
    PROVE  IInv'
  BY DEF IInv, CallInOrder

LEMMA AloneMeansIdle == Alone => \A c \in Calls : calls[c].pc = "idle"
  BY DEF Alone, Outstanding

LEMMA BindSyncKeepsInv ==
    ASSUME IInv, NEW ps \in Lists, BindSync(ps)
    PROVE  IInv'
<1> USE DEF IInv, StateTypes
<1>1. PICK end \in BindEnds(stmt, ps) :
        /\ stmt' = BindParams(stmt, ps, end)
        /\ client' = AfterBind(Behaves(Alone), stmt', ps, end.bound)
  BY DEF BindSync
<1>2. calls' = calls
  BY DEF BindSync
<1>3. ps \in Seq(Param) /\ ps \in Lists \cup {<<>>}
  BY ParamAssumption
<1>4. /\ stmt' \in Stmt /\ Owned(stmt') /\ stmt'.misuse = stmt.misuse
      /\ stmt'.live = stmt.live /\ stmt'.prepared = stmt.prepared
      /\ end.bound = Len(MarkersOf(stmt.prepared)) => MarkersBound(stmt')
  BY <1>1, <1>3, BindParamsBinds
<1>5. Alone \in BOOLEAN
  BY DEF Alone
<1>6. /\ ClientOK(Behaves(Alone))
      /\ Behaves(Alone).careful => client.careful /\ Alone
  BY <1>5, BehavesType
<1>7. /\ ClientOK(client') /\ (client'.careful => client.careful /\ Alone)
      /\ client'.careful /\ client'.state = "fresh" =>
            stmt'.live /\ end.bound = Len(MarkersOf(stmt'.prepared))
  BY SMTT(30), <1>1, <1>3, <1>4, <1>6, AfterBindFresh
<1>8. StateTypes'
  BY <1>2, <1>4, <1>7
<1>9. CASE client'.careful
  <2>1. \A c \in Calls : calls'[c].pc = "idle"
    BY <1>2, <1>7, <1>9, AloneMeansIdle
  <2>2. BuffersLive'
    BY <1>4, <1>7 DEF BuffersLive
  <2>3. FreshBound(stmt, client)'
    BY <1>4, <1>7 DEF FreshBound
  <2> QED
    BY <1>4, <1>8, <2>1, <2>2, <2>3, QuietStep
<1>10. CASE ~client'.careful
  BY <1>4, <1>8, <1>10, CarelessStep
<1> QED
  BY <1>9, <1>10

LEMMA ExecuteSyncKeepsInv ==
    ASSUME IInv, ExecuteSync
    PROVE  IInv'
<1> USE DEF IInv, StateTypes
<1>1. PICK end \in ExecEnds(stmt) :
        LET cl == Behaves(ReadyToExecute)
            s1 == ExecuteRead(stmt, end.rc)
        IN  IF end.rc = "success"
            THEN /\ ReportOutputs(ExecuteWrite(s1, s1.prepared, end.sets))
                 /\ client' = AfterExecute(cl)
            ELSE ReportError(s1) /\ client' = cl
  BY DEF ExecuteSync
<1>2. calls' = calls
  BY DEF ExecuteSync
<1> DEFINE cl == Behaves(ReadyToExecute)
           s1 == ExecuteRead(stmt, end.rc)
           s2 == ExecuteWrite(s1, s1.prepared, end.sets)
<1>3. ReadyToExecute \in BOOLEAN
  BY DEF ReadyToExecute
<1>4. ClientOK(cl) /\ (cl.careful => client.careful /\ ReadyToExecute /\ cl = client)
  BY <1>3, BehavesType
<1>5. cl.careful => Alone /\ MarkersBound(stmt)
  <2> SUFFICES ASSUME cl.careful PROVE Alone /\ MarkersBound(stmt)
    OBVIOUS
  <2>1. client.careful /\ ReadyToExecute
    BY <1>4
  <2>2. CASE client.state = "fresh"
    BY <2>1, <2>2 DEF ReadyToExecute, FreshBound
  <2>3. CASE client.state = "none" /\ MarkersOf(stmt.prepared) = <<>>
    BY <2>1, <2>3 DEF ReadyToExecute, MarkersBound
  <2> QED
    BY <2>1, <2>2, <2>3 DEF ReadyToExecute
<1>6. /\ s1 \in Stmt /\ Owned(s1) /\ s1.live = stmt.live /\ s1.at = stmt.at
      /\ s1.prepared = stmt.prepared /\ s1.bound = stmt.bound
      /\ MarkersBound(stmt) => s1.misuse = stmt.misuse
  BY ReadKeeps
<1>7. MarkersBound(stmt) => MarkersBound(s1)
  BY <1>6 DEF MarkersBound
<1>8. BuffersLive /\ FreshBound(stmt, client)
  OBVIOUS
<1> HIDE DEF cl, s1
<1>9. CASE end.rc = "success"
  <2>1. s1.prepared \in Queries \cup {NoQuery} /\ end.sets \in Value
    BY <1>6, ExecEndsType DEF Stmt
  <2>2. /\ s2 \in Stmt /\ Owned(s2)
        /\ MarkersBound(s1) => s2.misuse = s1.misuse
    BY <1>6, <2>1, WriteKeeps
  <2>3. stmt' = FetchSp(s2) /\ client' = AfterExecute(cl)
    BY <1>1, <1>9 DEF ReportOutputs, s1, cl
  <2> HIDE DEF s2
  <2>4. stmt' \in Stmt /\ Owned(stmt') /\ stmt'.misuse = s2.misuse
    BY <2>2, <2>3, FetchSpFrees
  <2>5. /\ ClientOK(client') /\ (client'.careful => cl.careful)
        /\ client'.state # "fresh"
    BY <1>4, <2>3, AfterExecuteNone
  <2>6. StateTypes'
    BY <1>2, <2>4, <2>5
  <2>7. CASE client'.careful
    <3>1. \A c \in Calls : calls'[c].pc = "idle"
      BY <1>2, <1>5, <2>5, <2>7, AloneMeansIdle
    <3>2. BuffersLive'
      BY <1>4, <1>5, <1>6, <1>7, <1>8, <2>2, <2>4, <2>5 DEF BuffersLive
    <3>3. FreshBound(stmt, client)'
      BY <2>5 DEF FreshBound
    <3> QED
      BY <2>4, <2>6, <3>1, <3>2, <3>3, QuietStep
  <2> QED
    BY <2>4, <2>6, <2>7, CarelessStep
<1>10. CASE end.rc # "success"
  <2>1. stmt' = s1 /\ client' = cl
    BY <1>1, <1>10 DEF ReportError, s1, cl
  <2>2. StateTypes'
    BY <1>2, <1>4, <1>6, <2>1
  <2>3. CASE client'.careful
    <3>1. \A c \in Calls : calls'[c].pc = "idle"
      BY <1>2, <1>5, <2>1, <2>3, AloneMeansIdle
    <3>2. BuffersLive'
      BY <1>4, <1>5, <1>6, <1>8, <2>1 DEF BuffersLive
    <3>3. FreshBound(stmt, client)'
      BY <1>4, <1>6, <1>7, <1>8, <2>1 DEF FreshBound
    <3> QED
      BY <1>6, <2>1, <2>2, <3>1, <3>2, <3>3, QuietStep
  <2> QED
    BY <1>6, <2>1, <2>2, <2>3, CarelessStep
<1> QED
  BY <1>9, <1>10

\* prepare, reset and close leave the memory alone.
LEMMA OutdatingKeepsInv ==
    ASSUME IInv, stmt' \in Stmt,
           stmt'.at = stmt.at, stmt'.binds = stmt.binds,
           stmt'.freed = stmt.freed, stmt'.misuse = stmt.misuse,
           calls' = calls, client' = Outdated(Behaves(Alone))
    PROVE  IInv'
<1> USE DEF IInv, StateTypes
<1>1. Alone \in BOOLEAN
  BY DEF Alone
<1>2. /\ ClientOK(Behaves(Alone))
      /\ Behaves(Alone).careful => client.careful /\ Alone
  BY <1>1, BehavesType
<1>3. /\ ClientOK(client') /\ (client'.careful => client.careful /\ Alone)
      /\ client'.state # "fresh"
  BY <1>2, OutdatedStale
<1>4. StateTypes' /\ Owned(stmt')
  BY <1>3 DEF Owned
<1>5. CASE client'.careful
  <2>1. \A c \in Calls : calls'[c].pc = "idle"
    BY <1>3, <1>5, AloneMeansIdle
  <2>2. BuffersLive' /\ FreshBound(stmt, client)'
    BY <1>3 DEF BuffersLive, FreshBound
  <2> QED
    BY <1>4, <2>1, <2>2, QuietStep
<1> QED
  BY <1>4, <1>5, CarelessStep

LEMMA UnboundType == [i \in 1..MaxMarkers |-> Unbound] \in [1..MaxMarkers -> Binding]
  BY DEF Unbound, Binding

LEMMA SyncKeepsInv ==
    ASSUME IInv, SyncCall
    PROVE  IInv'
<1>1. stmt \in Stmt
  BY DEF IInv, StateTypes
<1>2. CASE \E ps \in Lists : BindParamSync(ps) \/ BindParametersSync(ps)
  BY <1>2, BindSyncKeepsInv DEF BindParamSync, BindParametersSync
<1>3. CASE \E q \in Queries : Prepare(q)
  <2>1. PICK q \in Queries : Prepare(q)
    BY <1>3
  <2>2. calls' = calls /\ client' = Outdated(Behaves(Alone))
    BY <2>1 DEF Prepare
  <2>3. stmt' = stmt \/ stmt' = [stmt EXCEPT !.prepared = q]
    BY <2>1 DEF Prepare
  <2>4. /\ stmt' \in Stmt /\ stmt'.at = stmt.at /\ stmt'.binds = stmt.binds
        /\ stmt'.freed = stmt.freed /\ stmt'.misuse = stmt.misuse
    BY <1>1, <2>3 DEF Stmt
  <2> QED
    BY <2>2, <2>4, OutdatingKeepsInv
<1>4. CASE ExecuteSync
  BY <1>4, ExecuteSyncKeepsInv
<1> DEFINE none == [i \in 1..MaxMarkers |-> Unbound]
<1>5. none \in [1..MaxMarkers -> Binding]
  BY UnboundType
<1>6. CASE Reset
  <2>1. calls' = calls /\ client' = Outdated(Behaves(Alone))
    BY <1>6 DEF Reset
  <2>2. stmt' = stmt \/ stmt' = [stmt EXCEPT !.bound = none]
    BY <1>6 DEF Reset
  <2> HIDE DEF none
  <2>3. /\ stmt' \in Stmt /\ stmt'.at = stmt.at /\ stmt'.binds = stmt.binds
        /\ stmt'.freed = stmt.freed /\ stmt'.misuse = stmt.misuse
    BY <1>1, <1>5, <2>2 DEF Stmt
  <2> QED
    BY <2>1, <2>3, OutdatingKeepsInv
<1>7. CASE Close
  <2>1. calls' = calls /\ client' = Outdated(Behaves(Alone))
    BY <1>7 DEF Close
  <2>2. stmt' = [stmt EXCEPT !.stmtAllocated = FALSE, !.live = FALSE,
                             !.prepared = NoQuery, !.bound = none]
    BY <1>7 DEF Close
  <2> HIDE DEF none
  <2>3. /\ stmt' \in Stmt /\ stmt'.at = stmt.at /\ stmt'.binds = stmt.binds
        /\ stmt'.freed = stmt.freed /\ stmt'.misuse = stmt.misuse
    BY <1>1, <1>5, <2>2 DEF Stmt
  <2> QED
    BY <2>1, <2>3, OutdatingKeepsInv
<1> QED
  BY <1>2, <1>3, <1>4, <1>6, <1>7 DEF SyncCall

LEMMA IdleType == Idle \in Call /\ Idle.pc = "idle" /\ Idle.op = "none"
  BY OtherType DEF Idle, Call, Rcs, Null

\* A call is queued by a careful client only when no other is outstanding,
\* and an execution only when the parameters are bound.
LEMMA QueueKeepsInv ==
    ASSUME IInv, NEW c \in Calls, NEW new \in Call, NEW good \in BOOLEAN,
           calls' = [calls EXCEPT ![c] = new], stmt' = stmt,
           client' = Behaves(good), new.pc = "queued",
           good => Alone /\ (new.op = "execute" => Executable(stmt, client))
    PROVE  IInv'
<1> USE DEF IInv, StateTypes
<1>1. /\ ClientOK(client')
      /\ client'.careful => client.careful /\ good /\ client' = client
  BY BehavesType
<1>2. StateTypes' /\ Owned(stmt')
  BY <1>1
<1>3. CASE client'.careful
  <2>1. client.careful /\ client' = client /\ Alone
        /\ (new.op = "execute" => Executable(stmt, client))
    BY <1>1, <1>3
  <2>2. \A d \in Calls : d # c => calls'[d].pc = "idle"
    BY <2>1, AloneMeansIdle
  <2>3. calls'[c] = new
    OBVIOUS
  <2>4. \A d \in Calls : CallInOrder(d)'
    BY <2>1, <2>2, <2>3 DEF CallInOrder, Executable
  <2>5. BuffersLive' /\ FreshBound(stmt, client)'
    BY <2>1 DEF BuffersLive, FreshBound, MarkersBound
  <2> QED
    BY <1>2, <2>4, <2>5
<1> QED
  BY <1>2, <1>3, CarelessStep

LEMMA AsyncCallKeepsInv ==
    ASSUME IInv, NEW c \in Calls, AsyncCall(c)
    PROVE  IInv'
<1>1. CASE Execute(c)
  <2> DEFINE new == [Idle EXCEPT !.op = "execute", !.pc = "queued"]
  <2>1. new \in Call /\ new.pc = "queued"
    BY IdleType DEF Call
  <2>2. calls' = [calls EXCEPT ![c] = new] /\ stmt' = stmt /\ client' = Behaves(ReadyToExecute)
    BY <1>1 DEF Execute, Queue
  <2>3. ReadyToExecute \in BOOLEAN
    BY DEF ReadyToExecute
  <2>4. ReadyToExecute => Alone /\ Executable(stmt, client)
    BY DEF ReadyToExecute, Executable
  <2> HIDE DEF new
  <2> QED
    BY <2>1, <2>2, <2>3, <2>4, QueueKeepsInv
<1>2. ASSUME NEW ps \in Lists, NEW op \in BindOps, QueueBind(c, op, ps)
      PROVE  IInv'
  <2> DEFINE new == [Idle EXCEPT !.op = op, !.pc = "queued", !.ps = ps]
  <2>1. new \in Call /\ new.pc = "queued" /\ new.op = op
    BY IdleType DEF Call, BindOps
  <2>2. calls' = [calls EXCEPT ![c] = new] /\ stmt' = stmt /\ client' = Behaves(Alone)
    BY <1>2 DEF QueueBind, Queue
  <2>3. Alone \in BOOLEAN /\ op # "execute"
    BY DEF Alone, BindOps
  <2> HIDE DEF new
  <2> QED
    BY <2>1, <2>2, <2>3, QueueKeepsInv
<1>3. CASE \E ps \in Lists : BindParam(c, ps) \/ BindParameters(c, ps)
  <2>1. "bindParam" \in BindOps /\ "bindParameters" \in BindOps
    BY DEF BindOps
  <2>2. PICK ps \in Lists : BindParam(c, ps) \/ BindParameters(c, ps)
    BY <1>3
  <2>3. CASE BindParam(c, ps)
    BY <1>2, <2>1, <2>3 DEF BindParam
  <2>4. CASE BindParameters(c, ps)
    BY <1>2, <2>1, <2>4 DEF BindParameters
  <2> QED
    BY <2>2, <2>3, <2>4
<1> QED
  BY <1>1, <1>3 DEF AsyncCall

\* A careful client's execution finds every marker bound to live memory.
LEMMA ExecutionBound ==
    ASSUME IInv, NEW c \in Calls, client.careful,
           calls[c].op = "execute", calls[c].pc \in {"queued", "cli"}
    PROVE  MarkersBound(stmt)
<1>1. Executable(stmt, client)
  BY DEF IInv, CallInOrder
<1>2. CASE client.state = "fresh"
  BY <1>2 DEF IInv, FreshBound
<1>3. CASE MarkersOf(stmt.prepared) = <<>>
  BY <1>3 DEF MarkersBound
<1> QED
  BY <1>1, <1>2, <1>3 DEF Executable

LEMMA WorkerKeepsOrder ==
    ASSUME IInv, NEW c \in Calls, NEW new \in Call, calls[c].pc # "idle",
           calls' = [calls EXCEPT ![c] = new], client' = client,
           stmt'.prepared = stmt.prepared, new.op = calls[c].op,
           new.pc \in {"queued", "cli"} => calls[c].pc \in {"queued", "cli"},
           new.pc = "cli" => new.q = stmt.prepared
    PROVE  \A d \in Calls : CallInOrder(d)'
<1> SUFFICES ASSUME NEW d \in Calls, client.careful, calls'[d].pc # "idle"
             PROVE  CallInOrder(d)'
  BY DEF CallInOrder
<1>1. \A e \in Calls : calls[e].pc # "idle" => e = c
  BY DEF IInv, CallInOrder
<1>2. \A e \in Calls : e # c => calls'[e] = calls[e]
  BY DEF IInv, StateTypes
<1>3. d = c /\ calls'[c] = new
  BY <1>1, <1>2 DEF IInv, StateTypes
<1>4. CallInOrder(c)
  BY DEF IInv
<1>5. \A e \in Calls : calls'[e].pc # "idle" => e = c
  BY <1>1, <1>2
<1> QED
  BY <1>3, <1>4, <1>5 DEF CallInOrder, Executable

\* SQLExecute changes what is in the buffers, not where the markers are bound.
LEMMA FreshBoundKept ==
    ASSUME FreshBound(stmt, client), client' = client,
           stmt'.live = stmt.live, stmt'.prepared = stmt.prepared,
           stmt'.bound = stmt.bound, stmt'.at = stmt.at
    PROVE  FreshBound(stmt, client)'
  BY DEF FreshBound, MarkersBound

LEMMA WorkerStepKeepsInv ==
    ASSUME IInv, NEW c \in Calls, WorkerStep(c)
    PROVE  IInv'
<1> USE DEF IInv, StateTypes
<1>1. calls[c] \in Call
  OBVIOUS
<1>2. ASSUME NEW op \in BindOps, BindWorkerExec(c, op)
      PROVE  IInv'
  <2> DEFINE new == [calls[c] EXCEPT !.pc = "done"]
  <2>1. /\ new \in Call /\ new.pc = "done" /\ new.op = calls[c].op
        /\ calls' = [calls EXCEPT ![c] = new] /\ calls[c].pc # "idle"
        /\ stmt' = stmt /\ client' = client
    BY <1>1, <1>2 DEF BindWorkerExec, hist, Call
  <2> HIDE DEF new
  <2>2. \A d \in Calls : CallInOrder(d)'
    BY <2>1, WorkerKeepsOrder
  <2>3. FreshBound(stmt, client)' /\ BuffersLive'
    BY <2>1, FreshBoundKept DEF BuffersLive
  <2> QED
    BY <2>1, <2>2, <2>3
<1>3. CASE ExecuteStarts(c)
  <2>1. PICK end \in ExecEnds(stmt) :
          /\ stmt' = ExecuteRead(stmt, end.rc)
          /\ calls' = [calls EXCEPT ![c].pc = "cli", ![c].q = stmt.prepared,
                                    ![c].rc = end.rc, ![c].sets = end.sets]
    BY <1>3, Zenon DEF ExecuteStarts
  <2> DEFINE new == [calls[c] EXCEPT !.pc = "cli", !.q = stmt.prepared, !.rc = end.rc,
                                     !.sets = end.sets]
  <2>2. /\ calls[c].op = "execute" /\ calls[c].pc = "queued" /\ client' = client
    BY <1>3 DEF ExecuteStarts
  <2>3. end.rc \in Rcs /\ end.sets \in Value
    BY ExecEndsType
  <2>4. stmt.prepared \in Queries \cup {NoQuery}
    BY DEF Stmt
  <2>5. calls' = [calls EXCEPT ![c] = new]
    BY <1>1, <2>1
  <2>6. new \in Call /\ new.pc = "cli" /\ new.q = stmt.prepared /\ new.op = "execute"
    BY <1>1, <2>2, <2>3, <2>4 DEF Call
  <2> HIDE DEF new
  <2>7. /\ stmt' \in Stmt /\ Owned(stmt') /\ stmt'.live = stmt.live
        /\ stmt'.prepared = stmt.prepared /\ stmt'.bound = stmt.bound
        /\ stmt'.at = stmt.at /\ (MarkersBound(stmt) => stmt'.misuse = stmt.misuse)
    BY <2>1, ReadKeeps
  <2>8. \A d \in Calls : CallInOrder(d)'
    BY <2>2, <2>5, <2>6, <2>7, WorkerKeepsOrder
  <2>9. FreshBound(stmt, client)'
    BY <2>2, <2>7, FreshBoundKept
  <2>10. BuffersLive'
    BY <2>2, <2>7, ExecutionBound DEF BuffersLive
  <2> QED
    BY <2>2, <2>5, <2>6, <2>7, <2>8, <2>9, <2>10
<1>4. CASE ExecuteReturns(c)
  <2>1. /\ calls[c].op = "execute" /\ calls[c].pc = "cli" /\ client' = client
        /\ stmt' = IF calls[c].rc = "success" /\ stmt.live
                   THEN ExecuteWrite(stmt, calls[c].q, calls[c].sets)
                   ELSE stmt
    BY <1>4 DEF ExecuteReturns, hist
  <2>2. PICK err \in BOOLEAN :
          calls' = [calls EXCEPT ![c] = [calls[c] EXCEPT !.pc = "done", !.err = err]]
    BY <1>1, <1>4 DEF ExecuteReturns
  <2> DEFINE new == [calls[c] EXCEPT !.pc = "done", !.err = err]
  <2>3. new \in Call /\ new.pc = "done" /\ new.op = calls[c].op
    BY <1>1 DEF Call
  <2>4. calls' = [calls EXCEPT ![c] = new]
    BY <2>2
  <2> HIDE DEF new
  <2>5. calls[c].q \in Queries \cup {NoQuery} /\ calls[c].sets \in Value
    BY <1>1 DEF Call
  <2>6. /\ stmt' \in Stmt /\ Owned(stmt') /\ stmt'.live = stmt.live
        /\ stmt'.prepared = stmt.prepared /\ stmt'.bound = stmt.bound
        /\ stmt'.at = stmt.at
        /\ calls[c].q = stmt.prepared /\ MarkersBound(stmt) => stmt'.misuse = stmt.misuse
    BY <2>1, <2>5, WriteKeeps
  <2>7. \A d \in Calls : CallInOrder(d)'
    BY <2>1, <2>3, <2>4, <2>6, WorkerKeepsOrder
  <2>8. FreshBound(stmt, client)'
    BY <2>1, <2>6, FreshBoundKept
  <2>9. client.careful => calls[c].q = stmt.prepared
    BY <2>1 DEF CallInOrder
  <2>10. BuffersLive'
    BY <2>1, <2>6, <2>9, ExecutionBound DEF BuffersLive
  <2> QED
    BY <2>1, <2>3, <2>4, <2>6, <2>7, <2>8, <2>10
<1>5. CASE BindParamAsyncWorkerExec(c) \/ BindParametersAsyncWorkerExec(c)
  <2>1. "bindParam" \in BindOps /\ "bindParameters" \in BindOps
    BY DEF BindOps
  <2> QED
    BY <1>2, <1>5, <2>1 DEF BindParamAsyncWorkerExec, BindParametersAsyncWorkerExec
<1> QED
  BY <1>3, <1>4, <1>5 DEF WorkerStep

\* With its callback the only call of a careful client ends.
LEMMA CallEnds ==
    ASSUME IInv, NEW c \in Calls, calls[c].pc # "idle", client.careful,
           calls' = [calls EXCEPT ![c] = Idle]
    PROVE  \A d \in Calls : calls'[d].pc = "idle"
<1>1. \A d \in Calls : calls[d].pc # "idle" => d = c
  BY DEF IInv, CallInOrder
<1>2. calls'[c] = Idle /\ \A d \in Calls : d # c => calls'[d] = calls[d]
  BY DEF IInv, StateTypes
<1> QED
  BY <1>1, <1>2, IdleType

LEMMA DeliverKeepsInv ==
    ASSUME IInv, NEW c \in Calls, Deliver(c)
    PROVE  IInv'
<1> USE DEF IInv, StateTypes
<1>1. calls' = [calls EXCEPT ![c] = Idle] /\ calls[c].pc # "idle"
  BY DEF Deliver, BindParamOnOK, BindParametersOnOK, BindOnOK, ExecuteOnOK,
         ExecuteOnError
<1>2. calls' \in [Calls -> Call] /\ calls[c] \in Call
  BY <1>1, IdleType
<1>3. client.careful => \A d \in Calls : calls'[d].pc = "idle"
  BY <1>1, CallEnds
<1>4. CASE BindParamOnOK(c) \/ BindParametersOnOK(c)
  <2> DEFINE ps == calls[c].ps
  <2>1. PICK end \in BindEnds(stmt, ps) :
          /\ stmt' = BindParams(stmt, ps, end)
          /\ client' = AfterBind(client, stmt', ps, end.bound)
    BY <1>4 DEF BindParamOnOK, BindParametersOnOK, BindOnOK
  <2>2. ps \in Lists \cup {<<>>} /\ ps \in Seq(Param)
    <3>1. ps \in Lists \cup {<<>>}
      BY <1>2 DEF Call
    <3>2. <<>> \in Seq(Param) /\ Lists \subseteq Seq(Param)
      BY ParamAssumption
    <3> QED
      BY <3>1, <3>2
  <2> HIDE DEF ps
  <2>3. /\ stmt' \in Stmt /\ Owned(stmt') /\ stmt'.misuse = stmt.misuse
        /\ stmt'.live = stmt.live /\ stmt'.prepared = stmt.prepared
        /\ end.bound = Len(MarkersOf(stmt.prepared)) => MarkersBound(stmt')
    BY <2>1, <2>2, BindParamsBinds
  <2>4. /\ ClientOK(client') /\ (client'.careful => client.careful)
        /\ client'.careful /\ client'.state = "fresh" =>
              stmt'.live /\ end.bound = Len(MarkersOf(stmt'.prepared))
    <3>1. ClientOK(client) /\ stmt' \in Stmt
      BY <2>3
    <3>2. /\ ClientOK(AfterBind(client, stmt', ps, end.bound))
          /\ AfterBind(client, stmt', ps, end.bound).careful => client.careful
          /\ /\ AfterBind(client, stmt', ps, end.bound).careful
             /\ AfterBind(client, stmt', ps, end.bound).state = "fresh"
             => stmt'.live /\ end.bound = Len(MarkersOf(stmt'.prepared))
      BY <2>2, <3>1, AfterBindFresh
    <3> QED
      BY <2>1, <3>2
  <2>5. BuffersLive' /\ FreshBound(stmt, client)'
    BY <2>3, <2>4 DEF BuffersLive, FreshBound
  <2> QED
    BY <1>2, <1>3, <2>3, <2>4, <2>5, QuietStep, CarelessStep
<1>5. CASE ExecuteOnOK(c)
  <2>1. stmt' = FetchSp(stmt) /\ client' = AfterExecute(client)
    BY <1>5 DEF ExecuteOnOK, ReportOutputs
  <2>2. stmt' \in Stmt /\ Owned(stmt') /\ stmt'.misuse = stmt.misuse
    BY <2>1, FetchSpFrees
  <2>3. /\ ClientOK(client') /\ (client'.careful => client.careful)
        /\ client'.state # "fresh"
    BY <2>1, AfterExecuteNone
  <2>4. BuffersLive' /\ FreshBound(stmt, client)'
    BY <2>2, <2>3 DEF BuffersLive, FreshBound
  <2> QED
    BY <1>2, <1>3, <2>2, <2>3, <2>4, QuietStep, CarelessStep
<1>6. CASE ExecuteOnError(c)
  <2>1. stmt' = stmt /\ client' = client
    BY <1>6 DEF ExecuteOnError, ReportError
  <2>2. BuffersLive' /\ FreshBound(stmt, client)'
    BY <2>1, FreshBoundKept DEF BuffersLive
  <2> QED
    BY <1>2, <1>3, <2>1, <2>2, QuietStep, CarelessStep
<1> QED
  BY <1>4, <1>5, <1>6 DEF Deliver

LEMMA InitEstablishesInv == Init => IInv
<1> SUFFICES ASSUME Init PROVE IInv
  OBVIOUS
<1>1. [i \in 1..MaxMarkers |-> Unbound] \in [1..MaxMarkers -> Binding]
  BY UnboundType
<1>2. <<>> \in Seq(Slot)
  OBVIOUS
<1>3. stmt \in Stmt /\ Owned(stmt)
  BY <1>1, <1>2 DEF Init, Stmt, Owned
<1>4. ClientOK(client) /\ client.state # "fresh"
  BY KnowsType DEF Init
<1>5. calls \in [Calls -> Call] /\ \A c \in Calls : calls[c].pc = "idle"
  BY IdleType DEF Init
<1> QED
  BY <1>3, <1>4, <1>5 DEF Init, IInv, StateTypes, BuffersLive, FreshBound, CallInOrder

\* IInv holds of every reachable state: param owns its memory, and a careful
\* client executes with its markers bound to the present array
\* (dbstmt.cc:2568-2870).
THEOREM Invariance == Spec => []IInv
<1>1. IInv /\ [Next]_vars => IInv'
  <2> SUFFICES ASSUME IInv, [Next]_vars PROVE IInv'
    OBVIOUS
  <2>1. CASE SyncCall
    BY <2>1, SyncKeepsInv
  <2>2. CASE \E c \in Calls : AsyncCall(c) \/ WorkerStep(c) \/ Deliver(c)
    BY <2>2, AsyncCallKeepsInv, WorkerStepKeepsInv, DeliverKeepsInv
  <2>3. CASE UNCHANGED vars
    BY <2>3 DEF vars, hist, IInv, StateTypes, BuffersLive, FreshBound, MarkersBound,
                CallInOrder, Executable
  <2> QED
    BY <2>1, <2>2, <2>3 DEF Next
<1> QED
  BY <1>1, InitEstablishesInv, PTL DEF Spec

\* Whatever the client does, every array of parameters that bindParams()
\* allocated is freed at most once, by bindParams() or by fetchSp().
THEOREM ParametersFreedOnce == Spec => []FreedOnce
<1>1. IInv => FreedOnce
  BY DEF IInv, Owned, FreedOnce
<1> QED
  BY <1>1, Invariance, PTL

\* While the client makes one call at a time and executes only with its
\* parameters bound, no SQLExecute touches a freed array, for any statements,
\* lists of parameters and failures.
THEOREM ParametersLive == Spec => []BuffersLive
<1>1. IInv => BuffersLive
  BY DEF IInv
<1> QED
  BY <1>1, Invariance, PTL

-----------------------------------------------------------------------------
(* The values handed over *)

LEMMA Least ==
    ASSUME NEW T, T \subseteq Nat, T # {}
    PROVE  \E m \in T : \A k \in T : m <= k
<1> DEFINE R == {ss \in Nat \X Nat : ss[1] < ss[2]}
<1>1. IsWellFoundedOn(R, Nat)
  BY NatLessThanWellFounded DEF OpToRel
<1> HIDE DEF R
<1>2. PICK m \in T : \A k \in T : ~(<<k, m>> \in R)
  BY <1>1, WFMin
<1>3. \A k \in T : ~(k < m)
  BY <1>2 DEF R
<1> QED
  BY <1>3

\* The members of a finite set of numbers have the places from 1 on, each one.
LEMMA PlaceIn ==
    ASSUME NEW n \in Nat, NEW S, S \subseteq 1..n, NEW i \in Int
    PROVE  /\ IsFiniteSet(S) /\ Cardinality(S) \in Nat
           /\ Place(S, i) \in 0..Cardinality(S)
           /\ i \in S => Place(S, i) # 0
<1> DEFINE K == {k \in S : k <= i}
<1>0. IsFiniteSet(1..n)
  BY FS_Interval
<1>1. IsFiniteSet(S) /\ Cardinality(S) \in Nat
  BY <1>0, FS_Subset, FS_CardinalityType
<1>2. IsFiniteSet(K) /\ Cardinality(K) <= Cardinality(S)
  BY <1>1, FS_Subset
<1>3. Cardinality(K) \in Nat
  BY <1>2, FS_CardinalityType
<1>4. i \in S => K # {}
  OBVIOUS
<1>5. Cardinality(K) = 0 <=> K = {}
  BY <1>2, FS_EmptySet
<1>6. Place(S, i) = Cardinality(K)
  BY DEF Place
<1> HIDE DEF K
<1> QED
  BY <1>1, <1>2, <1>3, <1>4, <1>5, <1>6

LEMMA PlaceOrder ==
    ASSUME NEW n \in Nat, NEW S, S \subseteq 1..n, NEW i \in S, NEW k \in S, i < k
    PROVE  Place(S, i) < Place(S, k)
<1> DEFINE I == {j \in S : j <= i}
           K == {j \in S : j <= k}
<1>0. \A j \in S : j \in Int
  OBVIOUS
<1>1. IsFiniteSet(S) /\ i \in Int /\ k \in Int
  BY <1>0, PlaceIn
<1>2. IsFiniteSet(I) /\ IsFiniteSet(K)
  BY <1>1, FS_Subset
<1>30. k <= k /\ \A j \in S : j <= i => j <= k /\ j # k
  BY <1>0
<1>3. I \subseteq K \ {k} /\ k \in K
  BY <1>30, Zenon
<1>4. Place(S, i) = Cardinality(I) /\ Place(S, k) = Cardinality(K)
  BY DEF Place
<1> HIDE DEF I, K
<1>5. IsFiniteSet(K \ {k}) /\ Cardinality(K \ {k}) = Cardinality(K) - 1
  BY <1>2, <1>3, FS_RemoveElement
<1>6. Cardinality(I) <= Cardinality(K \ {k})
  BY <1>3, <1>5, FS_Subset
<1>7. Cardinality(I) \in Nat /\ Cardinality(K) \in Nat
  BY <1>2, FS_CardinalityType
<1> QED
  BY <1>4, <1>5, <1>6, <1>7

LEMMA PlaceTaken ==
    ASSUME NEW n \in Nat, NEW S, S \subseteq 1..n, NEW j \in 1..Cardinality(S)
    PROVE  \E i \in S : Place(S, i) = j
<1>1. IsFiniteSet(S) /\ Cardinality(S) \in Nat
  <2>1. 0 \in Int
    OBVIOUS
  <2> QED
    BY <2>1, PlaceIn
<1>0. ASSUME NEW i \in Int PROVE Place(S, i) \in Nat
  <2>1. Place(S, i) \in 0..Cardinality(S)
    BY PlaceIn
  <2> QED
    BY <1>1, <2>1
<1> DEFINE T == {i \in Nat : Place(S, i) >= j}
<1>2. n \in T
  <2>0. \A k \in S : k <= n
    OBVIOUS
  <2>1. {k \in S : k <= n} = S
    BY <2>0, Zenon
  <2> QED
    BY <1>1, <2>1 DEF Place
<1>3. PICK m \in T : \A k \in T : m <= k
  <2> HIDE DEF T
  <2>1. T \subseteq Nat
    BY DEF T
  <2> QED
    BY <1>2, <2>1, Least
<1>4. m # 0
  <2>0. \A k \in S : ~(k <= 0)
    OBVIOUS
  <2>1. {k \in S : k <= 0} = {}
    BY <2>0, Zenon
  <2>2. Place(S, 0) = 0
    BY <2>1, FS_EmptySet DEF Place
  <2> QED
    BY <2>2
<1>5. m - 1 \in Nat /\ m - 1 \notin T
  BY <1>3, <1>4
<1>6. Place(S, m - 1) < j /\ Place(S, m) >= j
  BY <1>0, <1>1, <1>5
<1> DEFINE L == {k \in S : k <= m - 1}
           M == {k \in S : k <= m}
<1>7. Place(S, m - 1) = Cardinality(L) /\ Place(S, m) = Cardinality(M)
  BY DEF Place
<1>8. IsFiniteSet(L)
  BY <1>1, FS_Subset
<1>9. CASE m \in S
  <2>0. /\ \A k \in S : k <= m <=> k <= m - 1 \/ k = m
        /\ ~(m <= m - 1)
    OBVIOUS
  <2>1. M = L \cup {m} /\ m \notin L
    BY <1>9, <2>0, Zenon
  <2> HIDE DEF L, M
  <2>2. Cardinality(M) = Cardinality(L) + 1
    BY <1>8, <2>1, FS_AddElement
  <2>3. Cardinality(L) \in Nat
    BY <1>8, FS_CardinalityType
  <2> QED
    BY <1>6, <1>7, <1>9, <2>2, <2>3
<1>10. CASE m \notin S
  <2>0. \A k \in S : k <= m <=> k <= m - 1 \/ k = m
    OBVIOUS
  <2>1. M = L
    BY <1>10, <2>0, Zenon
  <2> HIDE DEF L, M
  <2> QED
    BY <1>1, <1>5, <1>6, <1>7, <2>1
<1> QED
  BY <1>9, <1>10

LEMMA HandedOverType ==
    ASSUME NEW slot \in Slot
    PROVE  /\ HandedOver(slot) \in Value
           /\ HandedOver(slot).kind = slot.val.kind
           /\ HandedOver(slot).n = slot.val.n
<1>1. slot.val \in Value /\ slot.val.v \in Int
  BY DEF Slot, Value
<1>2. Int32Value(slot.val.v) \in Int
  BY <1>1, Int32Type
<1> DEFINE x == Int32Value(slot.val.v)
<1>3. HandedOver(slot) \in {slot.val, [slot.val EXCEPT !.v = x]}
  BY DEF HandedOver
<1> HIDE DEF x
<1>4. /\ [slot.val EXCEPT !.v = x] \in Value
      /\ [slot.val EXCEPT !.v = x].kind = slot.val.kind
      /\ [slot.val EXCEPT !.v = x].n = slot.val.n
  BY <1>1, <1>2 DEF Value, x
<1> QED
  BY <1>1, <1>3, <1>4

\* Each of the entries S is handed over, in its place, and nothing else.
LEMMA ValuesAt ==
    ASSUME NEW s \in Stmt, NEW S, S \subseteq DOMAIN s.param
    PROVE  /\ Values(s, S) \in Seq(Value)
           /\ Len(Values(s, S)) = Cardinality(S)
           /\ \A i \in S : Values(s, S)[Place(S, i)] = HandedOver(s.param[i])
           /\ \A j \in 1..Len(Values(s, S)) :
                \E i \in S : Values(s, S)[j] = HandedOver(s.param[i])
<1> DEFINE N == Cardinality(S)
           at(j) == CHOOSE i \in S : Place(S, i) = j
<1>1. s.param \in Seq(Slot) /\ DOMAIN s.param = 1..Len(s.param) /\ Len(s.param) \in Nat
  BY DEF Stmt
<1>2. N \in Nat /\ \A i \in S : Place(S, i) \in 1..N
  <2>1. ASSUME NEW i \in S PROVE N \in Nat /\ Place(S, i) \in 1..N
    <3>1. i \in Int
      BY <1>1
    <3> QED
      BY <1>1, <3>1, PlaceIn
  <2>2. N \in Nat
    BY <1>1, PlaceIn
  <2> QED
    BY <2>1, <2>2
<1>3. \A j \in 1..N : at(j) \in S /\ Place(S, at(j)) = j
  BY <1>1, PlaceTaken
<1>4. \A i, k \in S : Place(S, i) = Place(S, k) => i = k
  <2> SUFFICES ASSUME NEW i \in S, NEW k \in S, i < k
               PROVE  Place(S, i) # Place(S, k)
    BY <1>1
  <2>1. Place(S, i) < Place(S, k)
    BY <1>1, PlaceOrder
  <2> QED
    BY <1>2, <2>1
<1>5. Values(s, S) = [j \in 1..N |-> HandedOver(s.param[at(j)])]
  BY DEF Values
<1> HIDE DEF at, N
<1>6. \A i \in S : at(Place(S, i)) = i
  BY <1>2, <1>3, <1>4
<1>7. \A j \in 1..N : HandedOver(s.param[at(j)]) \in Value
  <2> SUFFICES ASSUME NEW j \in 1..N PROVE HandedOver(s.param[at(j)]) \in Value
    OBVIOUS
  <2>1. s.param[at(j)] \in Slot
    BY <1>1, <1>3
  <2> QED
    BY <2>1, HandedOverType
<1> DEFINE out(j) == HandedOver(s.param[at(j)])
<1>8. Values(s, S) = [j \in 1..N |-> out(j)]
  BY <1>5
<1>9. \A j \in 1..N : out(j) \in Value
  BY <1>7
<1>10. \A i \in S : out(Place(S, i)) = HandedOver(s.param[i])
  BY <1>6
<1>11. \A j \in 1..N : \E i \in S : out(j) = HandedOver(s.param[i])
  BY <1>3
<1> HIDE DEF out
<1>12. Values(s, S) \in Seq(Value) /\ Len(Values(s, S)) = N
  BY <1>2, <1>8, <1>9
<1>13. \A j \in 1..N : Values(s, S)[j] = out(j)
  BY <1>8
<1> QED
  BY <1>2, <1>10, <1>11, <1>12, <1>13 DEF N

-----------------------------------------------------------------------------
(* What the operations do to the parameters *)

\* param = NULL holds no parameters, and a marker that is bound to the present
\* array is bound to an entry of it.
Placed(s) ==
    /\ s.at = 0 => s.param = <<>>
    /\ \A i \in 1..MaxMarkers :
         /\ s.bound[i].b <= s.binds
         /\ s.at # 0 /\ s.bound[i].b = s.at => i \in DOMAIN s.param

\* Where bindParams() leaves the markers.
Rebound(s, ps, n) ==
    [i \in 1..MaxMarkers |->
        IF i <= n THEN [b |-> s.binds + 1, io |-> Io(ps[i])] ELSE s.bound[i]]

LEMMA BindParamsFields ==
    ASSUME NEW s \in Stmt, Owned(s), NEW ps \in Seq(Param), NEW end \in BindEnds(s, ps)
    PROVE  LET r == BindParams(s, ps, end)
           IN  /\ r \in Stmt
               /\ r.binds = s.binds + 1 /\ r.at = s.binds + 1 /\ r.execs = s.execs
               /\ r.param = Filled(MarkersOf(s.prepared), ps, s.binds + 1, end.filled)
               /\ r.bound = Rebound(s, ps, end.bound)
               /\ r.stmtAllocated = s.stmtAllocated
               /\ r.live = s.live /\ r.prepared = s.prepared
<1> DEFINE r == BindParams(s, ps, end)
           s1 == FreeSp(s)
           b  == s1.binds + 1
           pm == Filled(MarkersOf(s.prepared), ps, b, end.filled)
           bd == [i \in 1..MaxMarkers |->
                    IF i <= end.bound THEN [b |-> b, io |-> Io(ps[i])] ELSE s1.bound[i]]
<1>1. s1 \in Stmt /\ s1.binds = s.binds /\ s1.bound = s.bound /\ s1.prepared = s.prepared
      /\ s1.live = s.live
  BY FreeSpFrees
<1>2. s1.execs = s.execs /\ s1.stmtAllocated = s.stmtAllocated
  BY DEF FreeSp, Stmt
<1> HIDE DEF s1
<1>3. r = [s1 EXCEPT !.binds = b, !.at = b, !.param = pm, !.bound = bd]
  BY <1>1 DEF BindParams, s1, Stmt
<1>4. b = s.binds + 1
  BY <1>1
<1>5. bd = Rebound(s, ps, end.bound)
  BY <1>1 DEF Rebound
<1>6. pm = Filled(MarkersOf(s.prepared), ps, s.binds + 1, end.filled)
  BY <1>4
<1> HIDE DEF b, pm, bd
<1>7. /\ r.binds = b /\ r.at = b /\ r.param = pm /\ r.bound = bd
      /\ r.execs = s1.execs /\ r.stmtAllocated = s1.stmtAllocated
      /\ r.live = s1.live /\ r.prepared = s1.prepared
  BY <1>1, <1>3 DEF Stmt
<1>8. r \in Stmt
  BY BindParamsBinds
<1> HIDE DEF r
<1>9. /\ r \in Stmt
      /\ r.binds = s.binds + 1 /\ r.at = s.binds + 1 /\ r.execs = s.execs
      /\ r.param = Filled(MarkersOf(s.prepared), ps, s.binds + 1, end.filled)
      /\ r.bound = Rebound(s, ps, end.bound)
      /\ r.stmtAllocated = s.stmtAllocated
      /\ r.live = s.live /\ r.prepared = s.prepared
  BY <1>1, <1>2, <1>4, <1>5, <1>6, <1>7, <1>8
<1> QED
  BY <1>9 DEF r

LEMMA BindParamsPlaced ==
    ASSUME NEW s \in Stmt, Owned(s), Placed(s), NEW ps \in Seq(Param),
           NEW end \in BindEnds(s, ps)
    PROVE  Placed(BindParams(s, ps, end))
<1> DEFINE r == BindParams(s, ps, end)
<1>1. /\ r.binds = s.binds + 1 /\ r.at = s.binds + 1
      /\ r.param = Filled(MarkersOf(s.prepared), ps, s.binds + 1, end.filled)
      /\ r.bound = Rebound(s, ps, end.bound)
  BY BindParamsFields
<1> HIDE DEF r
<1>2. s.binds \in Nat /\ s.bound \in [1..MaxMarkers -> Binding] /\ MaxMarkers \in Nat
  BY ParamAssumption DEF Stmt
<1>3. end.bound \in Int /\ end.bound <= Len(ps)
  BY DEF BindEnds
<1>4. DOMAIN r.param = 1..Len(ps)
  BY <1>1 DEF Filled
<1>5. ASSUME NEW i \in 1..MaxMarkers
      PROVE  /\ r.bound[i].b <= r.binds
             /\ r.bound[i].b = r.at => i \in DOMAIN r.param
  <2>1. CASE i <= end.bound
    <3>1. r.bound[i].b = s.binds + 1
      BY <1>1, <2>1 DEF Rebound
    <3>2. i \in 1..Len(ps)
      BY <1>2, <1>3, <2>1
    <3> QED
      BY <1>1, <1>2, <1>4, <3>1, <3>2
  <2>2. CASE ~(i <= end.bound)
    <3>1. r.bound[i] = s.bound[i]
      BY <1>1, <2>2 DEF Rebound
    <3>2. s.bound[i].b \in Nat /\ s.bound[i].b <= s.binds
      BY <1>2 DEF Placed, Binding
    <3> QED
      BY <1>1, <1>2, <3>1, <3>2
  <2> QED
    BY <2>1, <2>2
<1> QED
  BY <1>1, <1>2, <1>5 DEF Placed, r

LEMMA ReadFields ==
    ASSUME NEW s \in Stmt, NEW rc
    PROVE  LET t == ExecuteRead(s, rc)
           IN  /\ t.param = s.param /\ t.at = s.at /\ t.bound = s.bound /\ t.binds = s.binds
               /\ t.stmtAllocated = s.stmtAllocated /\ t.live = s.live
               /\ t.prepared = s.prepared /\ t.execs = s.execs + 1
<1> DEFINE k == s.execs + 1
           m == IF \E i \in DOMAIN MarkersOf(s.prepared) : s.bound[i].b \in s.freed
                THEN s.misuse \cup {"freed"} ELSE s.misuse
<1>1. ExecuteRead(s, rc) = IF Ran(rc) THEN [s EXCEPT !.misuse = m, !.execs = k]
                           ELSE [s EXCEPT !.execs = k]
  BY DEF ExecuteRead, Touch, Stmt
<1> HIDE DEF k, m
<1>2. CASE Ran(rc)
  BY <1>1, <1>2 DEF k, Stmt
<1>3. CASE ~Ran(rc)
  BY <1>1, <1>3 DEF k, Stmt
<1> QED
  BY <1>2, <1>3

\* The entries SQLExecute writes, and with what.
Written(s, q, i) ==
    /\ i \in DOMAIN MarkersOf(q) /\ MarkersOf(q)[i].io # "in"
    /\ s.bound[i].b = s.at /\ s.bound[i].io # "in"
Stored(slot, sets) == IF sets # Null /\ slot.type = "none" THEN Garbage ELSE sets

LEMMA WriteFields ==
    ASSUME NEW s \in Stmt, NEW q, NEW sets
    PROVE  LET t == ExecuteWrite(s, q, sets)
           IN  /\ t.at = s.at /\ t.bound = s.bound /\ t.binds = s.binds
               /\ t.stmtAllocated = s.stmtAllocated /\ t.live = s.live
               /\ t.prepared = s.prepared /\ t.execs = s.execs
               /\ Len(t.param) = Len(s.param) /\ DOMAIN t.param = DOMAIN s.param
               /\ \A i \in DOMAIN s.param :
                    t.param[i] = IF Written(s, q, i)
                                 THEN [s.param[i] EXCEPT !.val = Stored(s.param[i], sets)]
                                 ELSE s.param[i]
<1> DEFINE m == IF \E i \in DOMAIN MarkersOf(q) : s.bound[i].b \in s.freed
                THEN s.misuse \cup {"freed"} ELSE s.misuse
           e(i) == IF Written(s, q, i)
                   THEN [s.param[i] EXCEPT !.val = Stored(s.param[i], sets)]
                   ELSE s.param[i]
           p == [i \in 1..Len(s.param) |-> e(i)]
<1>1. ExecuteWrite(s, q, sets) = [s EXCEPT !.misuse = m, !.param = p]
  BY DEF ExecuteWrite, Touch, Written, Stored, Stmt
<1>2. Len(s.param) \in Nat /\ DOMAIN s.param = 1..Len(s.param)
  BY DEF Stmt
<1> HIDE DEF e
<1>3. Len(p) = Len(s.param) /\ DOMAIN p = DOMAIN s.param /\ \A i \in DOMAIN s.param : p[i] = e(i)
  BY <1>2
<1> HIDE DEF m, p
<1> DEFINE t == ExecuteWrite(s, q, sets)
<1>4. /\ t.at = s.at /\ t.bound = s.bound /\ t.binds = s.binds
      /\ t.stmtAllocated = s.stmtAllocated /\ t.live = s.live
      /\ t.prepared = s.prepared /\ t.execs = s.execs /\ t.param = p
  BY <1>1 DEF Stmt
<1> HIDE DEF t
<1> QED
  BY <1>3, <1>4 DEF t, e

LEMMA FetchSpFields ==
    ASSUME NEW s \in Stmt, Placed(s)
    PROVE  LET t == FetchSp(s)
           IN  /\ t.param = <<>> /\ t.bound = s.bound /\ t.binds = s.binds
               /\ t.at \in {0, s.at}
               /\ t.stmtAllocated = s.stmtAllocated /\ t.live = s.live
               /\ t.prepared = s.prepared /\ t.execs = s.execs
<1>1. CASE ParamsBound(s)
  <2> DEFINE fr == s.freed \cup {s.at}
             m  == IF s.at \in s.freed THEN s.misuse \cup {"double"} ELSE s.misuse
  <2>1. FetchSp(s) = [s EXCEPT !.at = 0, !.param = <<>>, !.freed = fr, !.misuse = m]
    BY <1>1 DEF FetchSp, FreeSp, ParamsBound, Stmt
  <2> HIDE DEF fr, m
  <2> QED
    BY <2>1 DEF Stmt
<1>2. CASE ~ParamsBound(s)
  BY <1>2 DEF FetchSp, ParamsBound, Placed
<1> QED
  BY <1>1, <1>2

\* Steps that leave the array of parameters where it is.
LEMMA PlacedKept ==
    ASSUME NEW s, NEW t, Placed(s), t.at = s.at, t.bound = s.bound, t.binds = s.binds,
           DOMAIN t.param = DOMAIN s.param, s.param = <<>> => t.param = <<>>
    PROVE  Placed(t)
  BY DEF Placed

-----------------------------------------------------------------------------
(* The types of the replies and of the history *)

\* What fetchSp() returns.
OutsOf(s) == IF ParamsBound(s) THEN Outputs(s) ELSE <<>>

\* Types, and param = NULL, or an entry for each marker bound to it.
TInv ==
    /\ reply \in Reply
    /\ last \in Execution
    /\ given \in Seq(SUBSET Nat)
    /\ Placed(stmt)

LEMMA OutsOfType ==
    ASSUME NEW s \in Stmt
    PROVE  /\ OutsOf(s) \in Seq(Value)
           /\ \A j \in 1..Len(OutsOf(s)) :
                \E i \in DOMAIN s.param : OutsOf(s)[j] = HandedOver(s.param[i])
<1>1. Returned(s) \subseteq DOMAIN s.param
  BY DEF Returned
<1>2. CASE ParamsBound(s)
  <2>1. OutsOf(s) = Values(s, Returned(s))
    BY <1>2 DEF OutsOf, Outputs
  <2> QED
    BY <1>1, <2>1, ValuesAt
<1>3. CASE ~ParamsBound(s)
  BY <1>3 DEF OutsOf
<1> QED
  BY <1>2, <1>3

LEMMA ExecutionsInType ==
    ASSUME NEW outs \in Seq(Value)
    PROVE  ExecutionsIn(outs) \in SUBSET Nat
<1>1. ASSUME NEW i \in DOMAIN outs PROVE outs[i].n \in Nat
  <2>1. outs[i] \in Value
    OBVIOUS
  <2> QED
    BY <2>1 DEF Value
<1> QED
  BY <1>1 DEF ExecutionsIn

LEMMA ReadValuesType ==
    ASSUME NEW s \in Stmt, Placed(s)
    PROVE  ReadValues(s, s.prepared) \in Seq(Value)
<1> DEFINE ms == MarkersOf(s.prepared)
<1>1. ms \in Seq(Marker) /\ DOMAIN ms \subseteq 1..MaxMarkers
  BY MarkersType DEF Stmt
<1> HIDE DEF ms
<1>2. \A i \in 1..Len(ms) : i \in 1..MaxMarkers
  BY <1>1
<1>3. Garbage \in Value
  BY OtherType DEF Garbage
<1>4. ASSUME NEW i \in 1..Len(ms), s.at # 0, s.bound[i].b = s.at
      PROVE  s.param[i].val \in Value
  <2>1. s.param[i] \in Slot
    BY <1>2, <1>4 DEF Placed, Stmt
  <2> QED
    BY <2>1 DEF Slot
<1>5. ReadValues(s, s.prepared) =
        [i \in 1..Len(ms) |->
            IF s.at # 0 /\ s.bound[i].b = s.at THEN s.param[i].val ELSE Garbage]
  BY DEF ReadValues, ms
<1> QED
  BY <1>1, <1>3, <1>4, <1>5

LEMMA StartedType ==
    ASSUME NEW s \in Stmt, Placed(s), last \in Execution, NEW cl, ClientOK(cl),
           NEW end \in ExecEnds(s)
    PROVE  Started(s, cl, end) \in Execution
<1>1. ReadValues(s, s.prepared) \in Seq(Value)
  BY ReadValuesType
<1>2. end.sets \in Value
  BY ExecEndsType
<1>3. s.prepared \in Queries \cup {NoQuery} /\ cl.b \in Nat /\ cl.ps \in Lists \cup {<<>>}
  BY DEF Stmt, ClientOK, Client
<1> DEFINE rd == ReadValues(s, s.prepared)
<1>4. Started(s, cl, end) \in
        {last, [q |-> s.prepared, b |-> cl.b, ps |-> cl.ps, read |-> rd, sets |-> end.sets]}
  BY DEF Started
<1> HIDE DEF rd
<1> QED
  BY <1>1, <1>2, <1>3, <1>4 DEF Execution, rd

LEMMA AnswerType ==
    ASSUME NEW kind \in {"none", "pending", "value", "error"}, NEW outs \in Seq(Value)
    PROVE  Answer(kind, outs) \in Reply
  BY DEF Answer, Reply

LEMMA ReportErrorKeepsTypes ==
    ASSUME TInv, NEW s, Placed(s), ReportError(s), last' \in Execution
    PROVE  TInv'
<1>1. <<>> \in Seq(Value)
  OBVIOUS
<1>2. Answer("error", <<>>) \in Reply
  BY <1>1, AnswerType
<1> QED
  BY <1>2 DEF ReportError, TInv

LEMMA ReportOutputsKeepsTypes ==
    ASSUME TInv, NEW s \in Stmt, Placed(s), ReportOutputs(s), last' \in Execution
    PROVE  TInv'
<1>1. /\ stmt' = FetchSp(s) /\ reply' = Answer("value", OutsOf(s))
      /\ given' = given \/ given' = Append(given, ExecutionsIn(OutsOf(s)))
  BY DEF ReportOutputs, OutsOf
<1>2. OutsOf(s) \in Seq(Value)
  BY OutsOfType
<1>3. ExecutionsIn(OutsOf(s)) \in SUBSET Nat
  BY <1>2, ExecutionsInType
<1>4. reply' \in Reply
  BY <1>1, <1>2, AnswerType
<1>5. given' \in Seq(SUBSET Nat)
  BY <1>1, <1>3 DEF TInv
<1>6. Placed(stmt')
  <2>1. /\ stmt'.param = <<>> /\ stmt'.bound = s.bound /\ stmt'.binds = s.binds
        /\ stmt'.at \in {0, s.at}
    BY <1>1, FetchSpFields
  <2>2. CASE stmt'.at = 0
    BY <2>1, <2>2 DEF Placed
  <2>3. CASE stmt'.at # 0
    <3>1. s.at # 0 /\ stmt'.at = s.at /\ stmt' = s
      BY <1>1, <2>1, <2>3 DEF FetchSp, FreeSp, Stmt
    <3> QED
      BY <3>1
  <2> QED
    BY <2>2, <2>3
<1> QED
  BY <1>4, <1>5, <1>6 DEF TInv

LEMMA ReadPlaced ==
    ASSUME NEW s \in Stmt, Placed(s), NEW rc
    PROVE  Placed(ExecuteRead(s, rc))
<1> DEFINE t == ExecuteRead(s, rc)
<1>1. t.param = s.param /\ t.at = s.at /\ t.bound = s.bound /\ t.binds = s.binds
  BY ReadFields
<1> HIDE DEF t
<1>2. Placed(t)
  BY <1>1, PlacedKept
<1> QED
  BY <1>2 DEF t

LEMMA WritePlaced ==
    ASSUME NEW s \in Stmt, Placed(s), Owned(s), NEW q \in Queries \cup {NoQuery},
           NEW sets \in Value
    PROVE  Placed(ExecuteWrite(s, q, sets))
<1> DEFINE t == ExecuteWrite(s, q, sets)
<1>1. /\ t.at = s.at /\ t.bound = s.bound /\ t.binds = s.binds
      /\ Len(t.param) = Len(s.param) /\ DOMAIN t.param = DOMAIN s.param
  BY WriteFields
<1>2. t.param \in Seq(Slot) /\ s.param \in Seq(Slot)
  BY WriteKeeps DEF Stmt
<1> HIDE DEF t
<1>3. s.param = <<>> => t.param = <<>>
  BY <1>1, <1>2
<1>4. Placed(t)
  BY <1>1, <1>3, PlacedKept
<1> QED
  BY <1>4 DEF t

\* A bindParams() that is called, now or in OnOK.
BindsNow(ps, cl) ==
    \E end \in BindEnds(stmt, ps) :
        /\ stmt' = BindParams(stmt, ps, end)
        /\ client' = AfterBind(cl, stmt', ps, end.bound)

LEMMA ListType ==
    ASSUME NEW ps \in Lists \cup {<<>>}
    PROVE  ps \in Seq(Param)
<1>1. <<>> \in Seq(Param)
  OBVIOUS
<1> QED
  BY <1>1, ParamAssumption

LEMMA BindSyncBinds ==
    ASSUME NEW ps \in Lists, BindParamSync(ps) \/ BindParametersSync(ps)
    PROVE  /\ BindsNow(ps, Behaves(Alone)) /\ ps \in Lists \cup {<<>>}
           /\ UNCHANGED <<calls, reply, last, given>>
  BY DEF BindParamSync, BindParametersSync, BindSync, BindsNow

LEMMA BindOnOKBinds ==
    ASSUME IInv, NEW c \in Calls, BindParamOnOK(c) \/ BindParametersOnOK(c)
    PROVE  /\ BindsNow(calls[c].ps, client) /\ calls[c].ps \in Lists \cup {<<>>}
           /\ calls' = [calls EXCEPT ![c] = Idle] /\ calls[c].pc = "done"
           /\ calls[c].op \in BindOps
           /\ UNCHANGED <<reply, last, given>>
<1>1. calls[c].ps \in Lists \cup {<<>>}
  BY DEF IInv, StateTypes, Call
<1>2. PICK op \in BindOps : BindOnOK(c, op)
  BY DEF BindParamOnOK, BindParametersOnOK, BindOps
<1> QED
  BY <1>1, <1>2 DEF BindOnOK, BindsNow

LEMMA BindingKeepsTypes ==
    ASSUME IInv, TInv, NEW ps \in Lists \cup {<<>>}, NEW cl, BindsNow(ps, cl),
           UNCHANGED <<reply, last, given>>
    PROVE  TInv'
<1>1. PICK end \in BindEnds(stmt, ps) : stmt' = BindParams(stmt, ps, end)
  BY DEF BindsNow
<1>2. ps \in Seq(Param)
  BY ListType
<1>3. Placed(stmt')
  BY <1>1, <1>2, BindParamsPlaced DEF IInv, StateTypes, TInv
<1> QED
  BY <1>3 DEF TInv

\* Prepare, reset and close leave param alone.
Outdates ==
    /\ \/ UNCHANGED stmt
       \/ \E q \in Queries : stmt' = [stmt EXCEPT !.prepared = q]
       \/ stmt' = [stmt EXCEPT !.bound = [i \in 1..MaxMarkers |-> Unbound]]
       \/ stmt' = [stmt EXCEPT !.stmtAllocated = FALSE, !.live = FALSE,
                               !.prepared = NoQuery,
                               !.bound = [i \in 1..MaxMarkers |-> Unbound]]
    /\ client' = Outdated(Behaves(Alone))
    /\ UNCHANGED <<calls, reply, last, given>>

LEMMA SyncOutdates ==
    ASSUME Reset \/ Close \/ \E q \in Queries : Prepare(q)
    PROVE  Outdates
  BY DEF Reset, Close, Prepare, Outdates

LEMMA OutdatesFields ==
    ASSUME stmt \in Stmt, Outdates
    PROVE  /\ stmt'.param = stmt.param /\ stmt'.at = stmt.at /\ stmt'.binds = stmt.binds
           /\ stmt'.execs = stmt.execs
           /\ (stmt.stmtAllocated <=> stmt.live) => (stmt'.stmtAllocated <=> stmt'.live)
           /\ stmt'.bound \in {stmt.bound, [i \in 1..MaxMarkers |-> Unbound]}
<1> DEFINE none == [i \in 1..MaxMarkers |-> Unbound]
<1>1. \/ UNCHANGED stmt
      \/ \E q \in Queries : stmt' = [stmt EXCEPT !.prepared = q]
      \/ stmt' = [stmt EXCEPT !.bound = none]
      \/ stmt' = [stmt EXCEPT !.stmtAllocated = FALSE, !.live = FALSE,
                              !.prepared = NoQuery, !.bound = none]
  BY DEF Outdates
<1> HIDE DEF none
<1> QED
  BY <1>1 DEF Stmt, none

LEMMA OutdatesKeepsTypes ==
    ASSUME IInv, TInv, Outdates
    PROVE  TInv'
<1>1. /\ stmt'.param = stmt.param /\ stmt'.at = stmt.at /\ stmt'.binds = stmt.binds
      /\ stmt'.bound \in {stmt.bound, [i \in 1..MaxMarkers |-> Unbound]}
  BY OutdatesFields DEF IInv, StateTypes
<1>2. stmt.binds \in Nat
  BY DEF IInv, StateTypes, Stmt
<1>3. CASE stmt'.bound = stmt.bound
  BY <1>1, <1>3 DEF Outdates, TInv, Placed
<1>4. CASE stmt'.bound = [i \in 1..MaxMarkers |-> Unbound]
  <2>1. \A i \in 1..MaxMarkers : stmt'.bound[i].b = 0
    BY <1>4 DEF Unbound
  <2>2. Placed(stmt')
    BY <1>1, <1>2, <2>1 DEF Placed, TInv
  <2> QED
    BY <2>2 DEF Outdates, TInv
<1> QED
  BY <1>1, <1>3, <1>4

\* What execSync comes to.
LEMMA ExecuteSyncEnds ==
    ASSUME IInv, ExecuteSync
    PROVE  \E end \in ExecEnds(stmt) :
             LET cl == Behaves(ReadyToExecute)
                 s1 == ExecuteRead(stmt, end.rc)
                 s2 == ExecuteWrite(s1, stmt.prepared, end.sets)
             IN  /\ last' = Started(stmt, cl, end) /\ calls' = calls
                 /\ \/ end.rc = "success" /\ ReportOutputs(s2) /\ client' = AfterExecute(cl)
                    \/ end.rc # "success" /\ ReportError(s1) /\ client' = cl
<1>1. PICK end \in ExecEnds(stmt) :
        LET cl == Behaves(ReadyToExecute)
            s1 == ExecuteRead(stmt, end.rc)
        IN  /\ last' = Started(stmt, cl, end)
            /\ IF end.rc = "success"
               THEN /\ ReportOutputs(ExecuteWrite(s1, s1.prepared, end.sets))
                    /\ client' = AfterExecute(cl)
               ELSE ReportError(s1) /\ client' = cl
  BY DEF ExecuteSync
<1>2. ExecuteRead(stmt, end.rc).prepared = stmt.prepared
  BY ReadFields DEF IInv, StateTypes
<1> QED
  BY <1>1, <1>2 DEF ExecuteSync

LEMMA ExecuteSyncKeepsTypes ==
    ASSUME IInv, TInv, ExecuteSync
    PROVE  TInv'
<1> DEFINE cl == Behaves(ReadyToExecute)
<1>1. PICK end \in ExecEnds(stmt) :
        LET s1 == ExecuteRead(stmt, end.rc)
            s2 == ExecuteWrite(s1, stmt.prepared, end.sets)
        IN  /\ last' = Started(stmt, cl, end)
            /\ ReportOutputs(s2) \/ ReportError(s1)
  BY ExecuteSyncEnds
<1> DEFINE s1 == ExecuteRead(stmt, end.rc)
           s2 == ExecuteWrite(s1, stmt.prepared, end.sets)
<1>2. stmt \in Stmt /\ Owned(stmt) /\ Placed(stmt) /\ ClientOK(client)
  BY DEF IInv, StateTypes, TInv
<1>3. ClientOK(cl)
  <2>1. ReadyToExecute \in BOOLEAN
    BY DEF ReadyToExecute
  <2> QED
    BY <1>2, <2>1, BehavesType
<1> HIDE DEF cl
<1>4. last' \in Execution
  BY <1>1, <1>2, <1>3, StartedType DEF TInv
<1>5. s1 \in Stmt /\ Owned(s1) /\ Placed(s1)
  BY <1>2, ReadKeeps, ReadPlaced
<1>6. stmt.prepared \in Queries \cup {NoQuery} /\ end.sets \in Value
  BY <1>2, ExecEndsType DEF Stmt
<1>7. ReportOutputs(s2) \/ ReportError(s1)
  BY <1>1
<1> HIDE DEF s1
<1>8. s2 \in Stmt /\ Placed(s2)
  BY <1>5, <1>6, WriteKeeps, WritePlaced
<1> HIDE DEF s2
<1>9. CASE ReportOutputs(s2)
  BY <1>4, <1>8, <1>9, ReportOutputsKeepsTypes
<1>10. CASE ReportError(s1)
  BY <1>4, <1>5, <1>10, ReportErrorKeepsTypes
<1> QED
  BY <1>7, <1>9, <1>10

LEMMA SyncKeepsTypes ==
    ASSUME IInv, TInv, SyncCall
    PROVE  TInv'
<1>1. CASE \E ps \in Lists : BindParamSync(ps) \/ BindParametersSync(ps)
  <2>1. PICK ps \in Lists : BindParamSync(ps) \/ BindParametersSync(ps)
    BY <1>1
  <2>2. /\ BindsNow(ps, Behaves(Alone)) /\ ps \in Lists \cup {<<>>}
        /\ UNCHANGED <<reply, last, given>>
    BY <2>1, BindSyncBinds
  <2> QED
    BY <2>2, BindingKeepsTypes
<1>2. CASE Reset \/ Close \/ \E q \in Queries : Prepare(q)
  BY <1>2, SyncOutdates, OutdatesKeepsTypes
<1>3. CASE ExecuteSync
  BY <1>3, ExecuteSyncKeepsTypes
<1> QED
  BY <1>1, <1>2, <1>3 DEF SyncCall

LEMMA ExecuteStartsKeepsTypes ==
    ASSUME IInv, TInv, NEW c \in Calls, ExecuteStarts(c)
    PROVE  TInv'
<1>1. PICK end \in ExecEnds(stmt) :
        stmt' = ExecuteRead(stmt, end.rc) /\ last' = Started(stmt, client, end)
  BY Zenon DEF ExecuteStarts
<1>2. stmt \in Stmt /\ Placed(stmt) /\ ClientOK(client) /\ last \in Execution
  BY DEF IInv, StateTypes, TInv
<1>3. last' \in Execution
  BY <1>1, <1>2, StartedType
<1>4. Placed(stmt')
  BY <1>1, <1>2, ReadPlaced
<1>5. reply' = reply /\ given' = given
  BY DEF ExecuteStarts
<1> QED
  BY <1>3, <1>4, <1>5 DEF TInv

LEMMA ExecuteReturnsKeepsTypes ==
    ASSUME IInv, TInv, NEW c \in Calls, ExecuteReturns(c)
    PROVE  TInv'
<1>1. /\ stmt' = stmt \/ stmt' = ExecuteWrite(stmt, calls[c].q, calls[c].sets)
      /\ reply' = reply /\ last' = last /\ given' = given
  BY DEF ExecuteReturns, hist
<1>2. calls[c].q \in Queries \cup {NoQuery} /\ calls[c].sets \in Value
  BY DEF IInv, StateTypes, Call
<1>3. Placed(stmt')
  BY <1>1, <1>2, WritePlaced DEF IInv, StateTypes, TInv
<1> QED
  BY <1>1, <1>3 DEF TInv

LEMMA AsyncKeepsTypes ==
    ASSUME IInv, TInv, NEW c \in Calls, AsyncCall(c) \/ WorkerStep(c) \/ Deliver(c)
    PROVE  TInv'
<1>1. CASE Execute(c)
  <2>1. <<>> \in Seq(Value)
    OBVIOUS
  <2>2. reply' \in Reply
    BY <1>1, <2>1, AnswerType DEF Execute
  <2> QED
    BY <1>1, <2>2 DEF Execute, Queue, TInv
<1>2. CASE \E ps \in Lists : BindParam(c, ps) \/ BindParameters(c, ps)
  BY <1>2 DEF BindParam, BindParameters, QueueBind, Queue, TInv
<1>3. CASE BindParamAsyncWorkerExec(c) \/ BindParametersAsyncWorkerExec(c)
  BY <1>3 DEF BindParamAsyncWorkerExec, BindParametersAsyncWorkerExec, BindWorkerExec,
              hist, TInv
<1>4. CASE ExecuteStarts(c)
  BY <1>4, ExecuteStartsKeepsTypes
<1>5. CASE ExecuteReturns(c)
  BY <1>5, ExecuteReturnsKeepsTypes
<1>6. CASE BindParamOnOK(c) \/ BindParametersOnOK(c)
  BY <1>6, BindOnOKBinds, BindingKeepsTypes
<1>7. CASE ExecuteOnOK(c)
  <2>1. ReportOutputs(stmt) /\ last' = last
    BY <1>7 DEF ExecuteOnOK
  <2> QED
    BY <2>1, ReportOutputsKeepsTypes DEF IInv, StateTypes, TInv
<1>8. CASE ExecuteOnError(c)
  <2>1. ReportError(stmt) /\ last' = last
    BY <1>8 DEF ExecuteOnError
  <2> QED
    BY <2>1, ReportErrorKeepsTypes DEF TInv
<1> QED
  BY <1>1, <1>2, <1>3, <1>4, <1>5, <1>6, <1>7, <1>8 DEF AsyncCall, WorkerStep, Deliver

LEMMA InitEstablishesTypes == Init => TInv
<1> SUFFICES ASSUME Init PROVE TInv
  OBVIOUS
<1>1. <<>> \in Seq(Value) /\ <<>> \in Seq(SUBSET Nat)
  OBVIOUS
<1>2. Null \in Value
  BY OtherType DEF Null
<1>3. last \in Execution
  BY <1>1, <1>2 DEF Init, Execution
<1>4. reply \in Reply
  BY <1>1, AnswerType DEF Init
<1>5. Placed(stmt)
  BY DEF Init, Placed, Unbound
<1> QED
  BY <1>1, <1>3, <1>4, <1>5 DEF Init, TInv

LEMMA TypesKept ==
    ASSUME IInv, TInv, [Next]_vars
    PROVE  TInv'
<1>1. CASE SyncCall
  BY <1>1, SyncKeepsTypes
<1>2. CASE \E c \in Calls : AsyncCall(c) \/ WorkerStep(c) \/ Deliver(c)
  BY <1>2, AsyncKeepsTypes
<1>3. CASE UNCHANGED vars
  BY <1>3 DEF vars, hist, TInv
<1> QED
  BY <1>1, <1>2, <1>3 DEF Next

\* TInv holds of every reachable state: replies and history have their types, and
\* markers bound to the present array are bound to entries of it
\* (dbstmt.cc:2579-2897).
THEOREM TypeInvariance == Spec => []TInv
<1>1. IInv /\ TInv /\ [Next]_vars => TInv'
  BY TypesKept
<1> QED
  BY <1>1, InitEstablishesTypes, Invariance, PTL DEF Spec

\* Whatever the client does, the object, its workers, its replies and the
\* recorded history keep their types: in particular fetchSp() returns a value
\* for every entry it counts, and a marker bound to the present param is bound
\* to one of its entries (dbstmt.cc:2579-2897).
THEOREM TypeCorrect == Spec => []TypeOK
<1>1. IInv /\ TInv => TypeOK
  BY DEF IInv, StateTypes, ClientOK, TInv, TypeOK
<1> QED
  BY <1>1, Invariance, TypeInvariance, PTL

-----------------------------------------------------------------------------
(* Outputs are handed over once *)

\* The executions whose outputs param holds.
OutsIn(s) == {s.param[i].val.n : i \in {j \in DOMAIN s.param : s.param[j].val.kind = "out"}}

\* An execution that took place and whose outputs no reply held.
Unused(s, n) == n \in 1..s.execs /\ \A i \in DOMAIN given : n \notin given[i]

\* A worker in SQLExecute that will write outputs, of an execution no other has.
Pending(c) == calls[c].pc = "cli" /\ calls[c].sets.kind = "out"
Holding(c) ==
    Pending(c) =>
        /\ Unused(stmt, calls[c].sets.n) /\ calls[c].sets.n \notin OutsIn(stmt)
        /\ \A d \in Calls : Pending(d) /\ d # c => calls[d].sets.n # calls[c].sets.n

GivenOf(s) ==
    /\ \A i \in DOMAIN given : given[i] \subseteq 1..s.execs
    /\ \A n \in OutsIn(s) : Unused(s, n)

GInv == GivenOf(stmt) /\ OutputsOnce /\ \A c \in Calls : Holding(c)

LEMMA OutsInMembers ==
    ASSUME NEW s, NEW n
    PROVE  n \in OutsIn(s) <=>
             \E i \in DOMAIN s.param : s.param[i].val.kind = "out" /\ s.param[i].val.n = n
  BY DEF OutsIn

\* fetchSp() hands over outputs that param held.
LEMMA OutsOfMembers ==
    ASSUME NEW s \in Stmt
    PROVE  ExecutionsIn(OutsOf(s)) \subseteq OutsIn(s)
<1> SUFFICES ASSUME NEW j \in DOMAIN OutsOf(s), OutsOf(s)[j].kind = "out"
             PROVE  OutsOf(s)[j].n \in OutsIn(s)
  BY DEF ExecutionsIn
<1>1. OutsOf(s) \in Seq(Value)
  BY OutsOfType
<1>2. j \in 1..Len(OutsOf(s))
  BY <1>1
<1>3. PICK i \in DOMAIN s.param : OutsOf(s)[j] = HandedOver(s.param[i])
  BY <1>2, OutsOfType
<1>4. s.param[i] \in Slot
  BY DEF Stmt
<1>5. s.param[i].val.kind = "out" /\ s.param[i].val.n = OutsOf(s)[j].n
  BY <1>3, <1>4, HandedOverType
<1> QED
  BY <1>5, OutsInMembers

LEMMA ReportingOnce ==
    ASSUME NEW s \in Stmt, Placed(s), GivenOf(s), OutputsOnce, given \in Seq(SUBSET Nat),
           ReportOutputs(s)
    PROVE  /\ GivenOf(stmt)' /\ OutputsOnce' /\ OutsIn(stmt') = {}
           /\ \A n : Unused(s, n) /\ n \notin OutsIn(s) => Unused(stmt, n)'
<1> DEFINE E == ExecutionsIn(OutsOf(s))
<1>1. stmt' = FetchSp(s) /\ (given' = given \/ given' = Append(given, E))
  BY DEF ReportOutputs, OutsOf
<1>2. E \subseteq OutsIn(s) /\ \A n \in E : Unused(s, n)
  BY OutsOfMembers DEF GivenOf
<1>20. E \in SUBSET Nat
  BY OutsOfType, ExecutionsInType
<1> HIDE DEF E
<1>3. stmt'.param = <<>> /\ stmt'.execs = s.execs
  BY <1>1, FetchSpFields
<1>4. OutsIn(stmt') = {}
  BY <1>3, OutsInMembers
<1>5. \A i \in DOMAIN given' :
         \/ i \in DOMAIN given /\ given'[i] = given[i]
         \/ i \notin DOMAIN given /\ i = Len(given) + 1 /\ given'[i] = E
  BY <1>1, <1>20
<1>6. \A i \in DOMAIN given' : given'[i] \subseteq 1..s.execs
  BY <1>2, <1>5 DEF GivenOf, Unused
<1>7. GivenOf(stmt)'
  BY <1>3, <1>4, <1>6 DEF GivenOf
<1>8. ASSUME NEW i \in DOMAIN given', NEW j \in DOMAIN given', i # j
      PROVE  given'[i] \cap given'[j] = {}
  <2>1. CASE i \in DOMAIN given /\ j \in DOMAIN given
    BY <1>5, <1>8, <2>1 DEF OutputsOnce
  <2>2. CASE i \in DOMAIN given /\ j \notin DOMAIN given
    BY <1>2, <1>5, <2>2 DEF Unused
  <2>3. CASE i \notin DOMAIN given /\ j \in DOMAIN given
    BY <1>2, <1>5, <2>3 DEF Unused
  <2>4. CASE i \notin DOMAIN given /\ j \notin DOMAIN given
    BY <1>5, <1>8, <2>4
  <2> QED
    BY <2>1, <2>2, <2>3, <2>4
<1>9. OutputsOnce'
  BY <1>8 DEF OutputsOnce
<1>10. ASSUME NEW n, Unused(s, n), n \notin OutsIn(s)
       PROVE  Unused(stmt, n)'
  BY <1>2, <1>3, <1>5, <1>10 DEF Unused
<1> QED
  BY <1>4, <1>7, <1>9, <1>10

\* No bindParams() puts an output in param.
LEMMA BindParamsNoOuts ==
    ASSUME NEW s \in Stmt, Owned(s), NEW ps \in Seq(Param), NEW end \in BindEnds(s, ps)
    PROVE  OutsIn(BindParams(s, ps, end)) = {}
<1> DEFINE r == BindParams(s, ps, end)
           ms == MarkersOf(s.prepared)
<1>1. r.param = Filled(ms, ps, s.binds + 1, end.filled)
  BY BindParamsFields
<1>2. ASSUME NEW p, NEW m, NEW b
      PROVE  Sent(p, m, b).kind # "out"
  <2> DEFINE x == Int32Value(p.v)
  <2>1. \/ Sent(p, m, b) \in {Null, Blank, Garbage, In(b, 0)}
        \/ Sent(p, m, b) = In(b, x)
    BY DEF Sent
  <2> HIDE DEF x
  <2> QED
    BY <2>1 DEF Null, Blank, Garbage, In, Other
<1> HIDE DEF r, ms
<1>3. ASSUME NEW i \in DOMAIN r.param
      PROVE  r.param[i].val.kind # "out"
  <2>1. i \in 1..Len(ps)
    BY <1>1, <1>3 DEF Filled
  <2>2. CASE i > end.filled
    BY <1>1, <2>1, <2>2 DEF Filled, Empty, Garbage, Other
  <2>3. CASE ~(i > end.filled)
    <3>1. r.param[i].val = Sent(ps[i], ms[i], s.binds + 1)
      BY <1>1, <2>1, <2>3 DEF Filled
    <3> QED
      BY <1>2, <3>1
  <2> QED
    BY <2>2, <2>3
<1>4. OutsIn(r) = {}
  BY <1>3, OutsInMembers
<1> QED
  BY <1>4 DEF r

\* SQLExecute adds the outputs it sets, at most.
LEMMA WriteOuts ==
    ASSUME NEW s \in Stmt, NEW q, NEW sets, NEW n \in OutsIn(ExecuteWrite(s, q, sets))
    PROVE  n \in OutsIn(s) \/ (sets.kind = "out" /\ n = sets.n)
<1> DEFINE t == ExecuteWrite(s, q, sets)
<1>1. /\ DOMAIN t.param = DOMAIN s.param
      /\ \A i \in DOMAIN s.param :
           t.param[i] = IF Written(s, q, i)
                        THEN [s.param[i] EXCEPT !.val = Stored(s.param[i], sets)]
                        ELSE s.param[i]
  BY WriteFields
<1>2. \E i \in DOMAIN t.param : t.param[i].val.kind = "out" /\ t.param[i].val.n = n
  BY OutsInMembers
<1> HIDE DEF t
<1>3. PICK i \in DOMAIN s.param : t.param[i].val.kind = "out" /\ t.param[i].val.n = n
  BY <1>1, <1>2
<1>4. s.param[i] \in Slot
  BY DEF Stmt
<1>5. CASE Written(s, q, i)
  <2>1. t.param[i].val = Stored(s.param[i], sets)
    BY <1>1, <1>4, <1>5 DEF Slot
  <2>2. Stored(s.param[i], sets) \in {sets, Garbage}
    BY DEF Stored
  <2>3. Garbage.kind # "out"
    BY DEF Garbage, Other
  <2> QED
    BY <1>3, <2>1, <2>2, <2>3
<1>6. CASE ~Written(s, q, i)
  <2>1. t.param[i] = s.param[i]
    BY <1>1, <1>6
  <2> QED
    BY <1>3, <2>1, OutsInMembers
<1> QED
  BY <1>5, <1>6

\* The outputs an execution sets carry its number.
LEMMA ExecEndsNumber ==
    ASSUME NEW s, NEW end \in ExecEnds(s), end.sets.kind = "out"
    PROVE  end.sets.n = s.execs + 1 /\ end.rc = "success"
<1> DEFINE k == s.execs + 1
           outs == {Out(k, v) : v \in OutInts}
<1>1. \/ \E rc : end = Ended(rc, Null)
      \/ \E sets \in {Null} \cup outs : end = Ended("success", sets)
  BY Zenon DEF ExecEnds
<1> HIDE DEF k
<1>2. \A o \in outs : o.n = k
  BY DEF Out
<1> HIDE DEF outs
<1>3. Null.kind # "out"
  BY DEF Null, Other
<1>4. \A rc, sets : Ended(rc, sets).rc = rc /\ Ended(rc, sets).sets = sets
  BY DEF Ended
<1> QED
  BY <1>1, <1>2, <1>3, <1>4 DEF k

\* Workers go on holding their outputs when nothing else changes about them.
LEMMA StillHolding ==
    ASSUME GInv,
           ASSUME NEW c \in Calls, Pending(c)'
           PROVE  /\ Pending(c) /\ calls'[c].sets = calls[c].sets
                  /\ Unused(stmt, calls[c].sets.n)'
                  /\ calls[c].sets.n \notin OutsIn(stmt')
    PROVE  \A c \in Calls : Holding(c)'
<1> SUFFICES ASSUME NEW c \in Calls, Pending(c)'
             PROVE  Holding(c)'
  BY DEF Holding
<1>1. /\ Pending(c) /\ calls'[c].sets = calls[c].sets
      /\ Unused(stmt, calls[c].sets.n)' /\ calls[c].sets.n \notin OutsIn(stmt')
  OBVIOUS
<1>2. ASSUME NEW d \in Calls, Pending(d)', d # c
      PROVE  calls'[d].sets.n # calls'[c].sets.n
  <2>1. Pending(d) /\ calls'[d].sets = calls[d].sets
    BY <1>2
  <2> QED
    BY <1>1, <1>2, <2>1 DEF GInv, Holding
<1> QED
  BY <1>1, <1>2 DEF Holding

\* Steps after which param holds the same outputs, or none.
LEMMA QuietKeepsOnce ==
    ASSUME GInv, OutsIn(stmt') \subseteq OutsIn(stmt), stmt'.execs = stmt.execs,
           given' = given,
           \A c \in Calls : Pending(c)' => Pending(c) /\ calls'[c].sets = calls[c].sets
    PROVE  GInv'
<1>1. \A n : Unused(stmt, n)' <=> Unused(stmt, n)
  BY DEF Unused
<1>2. GivenOf(stmt)' /\ OutputsOnce'
  BY <1>1 DEF GInv, GivenOf, OutputsOnce
<1>3. ASSUME NEW c \in Calls, Pending(c)'
      PROVE  /\ Pending(c) /\ calls'[c].sets = calls[c].sets
             /\ Unused(stmt, calls[c].sets.n)'
             /\ calls[c].sets.n \notin OutsIn(stmt')
  <2>1. Pending(c) /\ Holding(c) /\ calls'[c].sets = calls[c].sets
    BY <1>3 DEF GInv
  <2>2. Unused(stmt, calls[c].sets.n)'
    BY <1>1, <2>1 DEF Holding
  <2>3. calls[c].sets.n \notin OutsIn(stmt')
    BY <2>1 DEF Holding
  <2> QED
    BY <2>1, <2>2, <2>3
<1>4. \A c \in Calls : Holding(c)'
  BY <1>3, StillHolding
<1> QED
  BY <1>2, <1>4 DEF GInv

LEMMA BindingKeepsOnce ==
    ASSUME IInv, GInv, NEW ps \in Lists \cup {<<>>}, NEW cl, BindsNow(ps, cl), given' = given,
           \A c \in Calls : Pending(c)' => Pending(c) /\ calls'[c].sets = calls[c].sets
    PROVE  GInv'
<1>1. PICK end \in BindEnds(stmt, ps) : stmt' = BindParams(stmt, ps, end)
  BY DEF BindsNow
<1>2. ps \in Seq(Param) /\ stmt \in Stmt /\ Owned(stmt)
  BY ListType DEF IInv, StateTypes
<1>3. OutsIn(stmt') = {} /\ stmt'.execs = stmt.execs
  BY <1>1, <1>2, BindParamsNoOuts, BindParamsFields
<1> QED
  BY <1>3, QuietKeepsOnce

\* With one execution more, and nothing else changed.
LEMMA OneMore ==
    ASSUME stmt \in Stmt, GInv, NEW s, s.execs = stmt.execs + 1, s.param = stmt.param
    PROVE  /\ GivenOf(s) /\ OutsIn(s) = OutsIn(stmt)
           /\ Unused(s, s.execs) /\ s.execs \notin OutsIn(stmt)
           /\ \A n : Unused(stmt, n) => Unused(s, n) /\ n # s.execs
<1>1. stmt.execs \in Nat
  BY DEF Stmt
<1>2. OutsIn(s) = OutsIn(stmt)
  BY DEF OutsIn
<1>3. \A n : Unused(stmt, n) => Unused(s, n) /\ n # s.execs
  BY <1>1 DEF Unused
<1>4. \A i \in DOMAIN given : given[i] \subseteq 1..s.execs /\ s.execs \notin given[i]
  BY <1>1 DEF GInv, GivenOf
<1>5. Unused(s, s.execs)
  BY <1>1, <1>4 DEF Unused
<1>6. s.execs \notin OutsIn(stmt)
  BY <1>3 DEF GInv, GivenOf
<1>7. GivenOf(s)
  BY <1>2, <1>3, <1>4 DEF GInv, GivenOf
<1> QED
  BY <1>2, <1>3, <1>5, <1>6, <1>7

LEMMA ExecuteSyncKeepsOnce ==
    ASSUME IInv, TInv, GInv, ExecuteSync
    PROVE  GInv'
<1>1. PICK end \in ExecEnds(stmt) :
        LET s1 == ExecuteRead(stmt, end.rc)
            s2 == ExecuteWrite(s1, stmt.prepared, end.sets)
        IN  calls' = calls /\ (ReportOutputs(s2) \/ ReportError(s1))
  BY ExecuteSyncEnds
<1> DEFINE s1 == ExecuteRead(stmt, end.rc)
           s2 == ExecuteWrite(s1, stmt.prepared, end.sets)
<1>2. calls' = calls /\ (ReportOutputs(s2) \/ ReportError(s1))
  BY <1>1
<1>3. stmt \in Stmt /\ Owned(stmt) /\ Placed(stmt)
  BY DEF IInv, StateTypes, TInv
<1>4. /\ s1 \in Stmt /\ Owned(s1) /\ Placed(s1)
      /\ s1.execs = stmt.execs + 1 /\ s1.param = stmt.param
  BY <1>3, ReadKeeps, ReadPlaced, ReadFields
<1>5. stmt.prepared \in Queries \cup {NoQuery} /\ end.sets \in Value
  BY <1>3, ExecEndsType DEF Stmt
<1>6. end.sets.kind = "out" => end.sets.n = stmt.execs + 1
  BY ExecEndsNumber
<1> HIDE DEF s1
<1>7. s2 \in Stmt /\ Placed(s2) /\ s2.execs = s1.execs
  BY <1>4, <1>5, WriteKeeps, WritePlaced, WriteFields
<1>8. \A n \in OutsIn(s2) : n \in OutsIn(stmt) \/ n = s1.execs
  BY <1>4, <1>6, WriteOuts, OneMore, <1>3
<1> HIDE DEF s2
<1>9. /\ GivenOf(s1) /\ OutsIn(s1) = OutsIn(stmt) /\ Unused(s1, s1.execs)
      /\ \A n : Unused(stmt, n) => Unused(s1, n) /\ n # s1.execs
  BY <1>3, <1>4, OneMore
<1>10. GivenOf(s2)
  <2>1. \A n : Unused(s2, n) <=> Unused(s1, n)
    BY <1>7 DEF Unused
  <2> QED
    BY <1>7, <1>8, <1>9, <2>1 DEF GivenOf
<1>11. CASE ReportOutputs(s2)
  <2>1. /\ GivenOf(stmt)' /\ OutputsOnce' /\ OutsIn(stmt') = {}
        /\ \A n : Unused(s2, n) /\ n \notin OutsIn(s2) => Unused(stmt, n)'
    BY <1>7, <1>10, <1>11, ReportingOnce DEF GInv, TInv
  <2>2. ASSUME NEW c \in Calls, Pending(c)'
        PROVE  /\ Pending(c) /\ calls'[c].sets = calls[c].sets
               /\ Unused(stmt, calls[c].sets.n)'
               /\ calls[c].sets.n \notin OutsIn(stmt')
    <3>1. Pending(c) /\ calls'[c].sets = calls[c].sets
      BY <1>2, <2>2 DEF Pending
    <3>2. Unused(stmt, calls[c].sets.n) /\ calls[c].sets.n \notin OutsIn(stmt)
      BY <3>1 DEF GInv, Holding
    <3>3. Unused(s2, calls[c].sets.n) /\ calls[c].sets.n \notin OutsIn(s2)
      BY <1>7, <1>8, <1>9, <3>2 DEF Unused
    <3> QED
      BY <2>1, <3>1, <3>3
  <2>3. \A c \in Calls : Holding(c)'
    BY <2>2, StillHolding
  <2> QED
    BY <2>1, <2>3 DEF GInv
<1>12. CASE ReportError(s1)
  <2>1. stmt' = s1 /\ given' = given
    BY <1>12 DEF ReportError
  <2>2. \A n : Unused(stmt, n)' <=> Unused(s1, n)
    BY <2>1 DEF Unused
  <2>3. GivenOf(stmt)' /\ OutputsOnce'
    BY <1>9, <2>1, <2>2 DEF GInv, GivenOf, OutputsOnce
  <2>4. ASSUME NEW c \in Calls, Pending(c)'
        PROVE  /\ Pending(c) /\ calls'[c].sets = calls[c].sets
               /\ Unused(stmt, calls[c].sets.n)'
               /\ calls[c].sets.n \notin OutsIn(stmt')
    <3>1. Pending(c) /\ calls'[c].sets = calls[c].sets
      BY <1>2, <2>4 DEF Pending
    <3>2. Unused(stmt, calls[c].sets.n) /\ calls[c].sets.n \notin OutsIn(stmt)
      BY <3>1 DEF GInv, Holding
    <3> QED
      BY <1>9, <2>1, <2>2, <3>1, <3>2
  <2>5. \A c \in Calls : Holding(c)'
    BY <2>4, StillHolding
  <2> QED
    BY <2>3, <2>5 DEF GInv
<1> QED
  BY <1>2, <1>11, <1>12

LEMMA ExecuteStartsKeepsOnce ==
    ASSUME IInv, GInv, NEW c \in Calls, ExecuteStarts(c)
    PROVE  GInv'
<1>1. PICK end \in ExecEnds(stmt) :
        /\ stmt' = ExecuteRead(stmt, end.rc)
        /\ calls' = [calls EXCEPT ![c].pc = "cli", ![c].q = stmt.prepared,
                                  ![c].rc = end.rc, ![c].sets = end.sets]
  BY Zenon DEF ExecuteStarts
<1>2. given' = given
  BY DEF ExecuteStarts
<1>3. stmt \in Stmt /\ calls \in [Calls -> Call]
  BY DEF IInv, StateTypes
<1>4. stmt'.execs = stmt.execs + 1 /\ stmt'.param = stmt.param
  BY <1>1, <1>3, ReadFields
<1>5. end.sets.kind = "out" => end.sets.n = stmt'.execs
  BY <1>4, ExecEndsNumber
<1>6. /\ calls'[c].sets = end.sets
      /\ \A d \in Calls : d # c => calls'[d] = calls[d]
  BY <1>1, <1>3 DEF Call
<1>7. /\ GivenOf(stmt') /\ OutsIn(stmt') = OutsIn(stmt)
      /\ Unused(stmt', stmt'.execs) /\ stmt'.execs \notin OutsIn(stmt)
      /\ \A n : Unused(stmt, n) => Unused(stmt', n) /\ n # stmt'.execs
  BY <1>3, <1>4, OneMore
<1>8. /\ GivenOf(stmt)' <=> GivenOf(stmt')
      /\ \A n : Unused(stmt, n)' <=> Unused(stmt', n)
  BY <1>2 DEF GivenOf, Unused
<1>9. OutputsOnce'
  BY <1>2 DEF GInv, OutputsOnce
<1>10. ASSUME NEW d \in Calls, Pending(d)', d # c
       PROVE  /\ Pending(d) /\ calls'[d] = calls[d]
              /\ Unused(stmt, calls[d].sets.n) /\ calls[d].sets.n \notin OutsIn(stmt)
  BY <1>6, <1>10 DEF GInv, Holding, Pending
<1>11. ASSUME NEW d \in Calls, Pending(d)'
       PROVE  /\ Unused(stmt', calls'[d].sets.n) /\ calls'[d].sets.n \notin OutsIn(stmt')
              /\ \A e \in Calls : Pending(e)' /\ e # d => calls'[e].sets.n # calls'[d].sets.n
  <2>1. Pending(c)' => calls'[c].sets.n = stmt'.execs
    BY <1>5, <1>6 DEF Pending
  <2>2. CASE d = c
    BY <1>7, <1>10, <1>11, <2>1, <2>2
  <2>3. CASE d # c
    <3>1. Pending(d) /\ calls'[d] = calls[d]
          /\ Unused(stmt, calls[d].sets.n) /\ calls[d].sets.n \notin OutsIn(stmt)
      BY <1>10, <1>11, <2>3
    <3>2. ASSUME NEW e \in Calls, Pending(e)', e # d
          PROVE  calls'[e].sets.n # calls'[d].sets.n
      <4>1. CASE e = c
        BY <1>7, <2>1, <3>1, <3>2, <4>1
      <4>2. CASE e # c
        <5>1. Pending(e) /\ calls'[e] = calls[e]
          BY <1>10, <3>2, <4>2
        <5> QED
          BY <3>1, <3>2, <5>1 DEF GInv, Holding
      <4> QED
        BY <4>1, <4>2
    <3> QED
      BY <1>7, <3>1, <3>2
  <2> QED
    BY <2>2, <2>3
<1>12. \A d \in Calls : Holding(d)'
  BY <1>8, <1>11 DEF Holding
<1> QED
  BY <1>7, <1>8, <1>9, <1>12 DEF GInv

LEMMA ExecuteReturnsKeepsOnce ==
    ASSUME IInv, GInv, NEW c \in Calls, ExecuteReturns(c)
    PROVE  GInv'
<1>1. /\ calls[c].pc = "cli" /\ given' = given
      /\ stmt' = stmt \/ stmt' = ExecuteWrite(stmt, calls[c].q, calls[c].sets)
  BY DEF ExecuteReturns, hist
<1>2. stmt \in Stmt /\ calls \in [Calls -> Call]
  BY DEF IInv, StateTypes
<1>3. calls'[c].pc = "done" /\ \A d \in Calls : d # c => calls'[d] = calls[d]
  BY <1>2 DEF ExecuteReturns, Call
<1>4. stmt'.execs = stmt.execs
  BY <1>1, <1>2, WriteFields
<1>5. \A n : Unused(stmt, n)' <=> Unused(stmt, n)
  BY <1>1, <1>4 DEF Unused
<1>6. \A n \in OutsIn(stmt') :
         n \in OutsIn(stmt) \/ (Pending(c) /\ n = calls[c].sets.n)
  BY <1>1, <1>2, WriteOuts DEF Pending
<1>7. Holding(c)
  BY DEF GInv
<1>8. GivenOf(stmt)' /\ OutputsOnce'
  BY <1>1, <1>4, <1>5, <1>6, <1>7 DEF GInv, GivenOf, OutputsOnce, Holding
<1>9. ASSUME NEW d \in Calls, Pending(d)'
      PROVE  /\ Pending(d) /\ calls'[d].sets = calls[d].sets
             /\ Unused(stmt, calls[d].sets.n)'
             /\ calls[d].sets.n \notin OutsIn(stmt')
  <2>1. d # c
    BY <1>3, <1>9 DEF Pending
  <2>2. Pending(d) /\ calls'[d] = calls[d]
    BY <1>3, <1>9, <2>1 DEF Pending
  <2>3. Holding(d)
    BY DEF GInv
  <2>4. Unused(stmt, calls[d].sets.n)'
    BY <1>5, <2>2, <2>3 DEF Holding
  <2>5. calls[d].sets.n \notin OutsIn(stmt')
    BY <1>6, <1>7, <2>1, <2>2, <2>3 DEF Holding
  <2> QED
    BY <2>2, <2>4, <2>5
<1>10. \A d \in Calls : Holding(d)'
  BY <1>9, StillHolding
<1> QED
  BY <1>8, <1>10 DEF GInv

LEMMA OnOKKeepsOnce ==
    ASSUME IInv, TInv, GInv, NEW c \in Calls, ExecuteOnOK(c)
    PROVE  GInv'
<1>1. ReportOutputs(stmt) /\ calls' = [calls EXCEPT ![c] = Idle]
  BY DEF ExecuteOnOK
<1>2. stmt \in Stmt /\ Placed(stmt) /\ calls \in [Calls -> Call]
  BY DEF IInv, StateTypes, TInv
<1>3. /\ GivenOf(stmt)' /\ OutputsOnce' /\ OutsIn(stmt') = {}
      /\ \A n : Unused(stmt, n) /\ n \notin OutsIn(stmt) => Unused(stmt, n)'
  BY <1>1, <1>2, ReportingOnce DEF GInv, TInv
<1>4. ASSUME NEW d \in Calls, Pending(d)'
      PROVE  /\ Pending(d) /\ calls'[d].sets = calls[d].sets
             /\ Unused(stmt, calls[d].sets.n)'
             /\ calls[d].sets.n \notin OutsIn(stmt')
  <2>1. calls'[c] = Idle /\ \A e \in Calls : e # c => calls'[e] = calls[e]
    BY <1>1, <1>2
  <2>2. Pending(d) /\ calls'[d] = calls[d]
    BY <1>4, <2>1, IdleType DEF Pending
  <2>3. Unused(stmt, calls[d].sets.n) /\ calls[d].sets.n \notin OutsIn(stmt)
    BY <2>2 DEF GInv, Holding
  <2> QED
    BY <1>3, <2>2, <2>3
<1>5. \A d \in Calls : Holding(d)'
  BY <1>4, StillHolding
<1> QED
  BY <1>3, <1>5 DEF GInv

LEMMA OnceKept ==
    ASSUME IInv, TInv, GInv, [Next]_vars
    PROVE  GInv'
<1>0. stmt \in Stmt /\ calls \in [Calls -> Call]
  BY DEF IInv, StateTypes
<1>1. ASSUME NEW c \in Calls, NEW new, calls' = [calls EXCEPT ![c] = new], new.pc # "cli"
      PROVE  \A d \in Calls : Pending(d)' => Pending(d) /\ calls'[d].sets = calls[d].sets
  <2>1. calls'[c] = new /\ \A d \in Calls : d # c => calls'[d] = calls[d]
    BY <1>0, <1>1
  <2> QED
    BY <1>1, <2>1 DEF Pending
<1>2. ASSUME NEW c \in Calls, NEW new, calls' = [calls EXCEPT ![c] = new], new.pc # "cli",
             stmt' = stmt, given' = given
      PROVE  GInv'
  BY <1>1, <1>2, QuietKeepsOnce
<1>3. CASE \E ps \in Lists : BindParamSync(ps) \/ BindParametersSync(ps)
  <2>1. PICK ps \in Lists : BindParamSync(ps) \/ BindParametersSync(ps)
    BY <1>3
  <2>2. /\ BindsNow(ps, Behaves(Alone)) /\ ps \in Lists \cup {<<>>}
        /\ calls' = calls /\ given' = given
    BY <2>1, BindSyncBinds
  <2> QED
    BY <2>2, BindingKeepsOnce DEF Pending
<1>4. CASE Reset \/ Close \/ \E q \in Queries : Prepare(q)
  <2>1. Outdates
    BY <1>4, SyncOutdates
  <2>2. stmt'.param = stmt.param /\ stmt'.execs = stmt.execs
    BY <1>0, <2>1, OutdatesFields
  <2>3. OutsIn(stmt') = OutsIn(stmt)
    BY <2>2 DEF OutsIn
  <2> QED
    BY <2>1, <2>2, <2>3, QuietKeepsOnce DEF Outdates, Pending
<1>5. CASE ExecuteSync
  BY <1>5, ExecuteSyncKeepsOnce
<1>6. ASSUME NEW c \in Calls, AsyncCall(c) \/ WorkerStep(c) \/ Deliver(c)
      PROVE  GInv'
  <2>1. CASE Execute(c)
    <3> DEFINE new == [Idle EXCEPT !.op = "execute", !.pc = "queued"]
    <3>1. calls' = [calls EXCEPT ![c] = new] /\ stmt' = stmt /\ given' = given
      BY <2>1 DEF Execute, Queue
    <3>2. new.pc # "cli"
      BY DEF Idle
    <3> HIDE DEF new
    <3> QED
      BY <1>2, <3>1, <3>2
  <2>2. CASE \E ps \in Lists : BindParam(c, ps) \/ BindParameters(c, ps)
    <3>1. PICK ps \in Lists, op \in BindOps : QueueBind(c, op, ps)
      BY <2>2 DEF BindParam, BindParameters, BindOps
    <3> DEFINE new == [Idle EXCEPT !.op = op, !.pc = "queued", !.ps = ps]
    <3>2. calls' = [calls EXCEPT ![c] = new] /\ stmt' = stmt /\ given' = given
      BY <3>1 DEF QueueBind, Queue
    <3>3. new.pc # "cli"
      BY DEF Idle
    <3> HIDE DEF new
    <3> QED
      BY <1>2, <3>2, <3>3
  <2>3. CASE BindParamAsyncWorkerExec(c) \/ BindParametersAsyncWorkerExec(c)
    <3> DEFINE new == [calls[c] EXCEPT !.pc = "done"]
    <3>1. calls' = [calls EXCEPT ![c] = new] /\ stmt' = stmt /\ given' = given
      BY <1>0, <2>3 DEF BindParamAsyncWorkerExec, BindParametersAsyncWorkerExec,
                        BindWorkerExec, hist
    <3>2. new.pc # "cli"
      BY <1>0 DEF Call
    <3> HIDE DEF new
    <3> QED
      BY <1>2, <3>1, <3>2
  <2>4. CASE BindParamOnOK(c) \/ BindParametersOnOK(c)
    <3>1. /\ BindsNow(calls[c].ps, client) /\ calls[c].ps \in Lists \cup {<<>>}
          /\ calls' = [calls EXCEPT ![c] = Idle] /\ given' = given
      BY <2>4, BindOnOKBinds
    <3>2. \A d \in Calls : Pending(d)' => Pending(d) /\ calls'[d].sets = calls[d].sets
      BY <1>1, <3>1, IdleType
    <3> QED
      BY <3>1, <3>2, BindingKeepsOnce
  <2>5. CASE ExecuteOnError(c)
    <3>1. stmt' = stmt /\ given' = given /\ calls' = [calls EXCEPT ![c] = Idle]
      BY <2>5 DEF ExecuteOnError, ReportError
    <3> QED
      BY <1>2, <3>1, IdleType
  <2>6. CASE ExecuteStarts(c) \/ ExecuteReturns(c) \/ ExecuteOnOK(c)
    BY <2>6, ExecuteStartsKeepsOnce, ExecuteReturnsKeepsOnce, OnOKKeepsOnce
  <2> QED
    BY <1>6, <2>1, <2>2, <2>3, <2>4, <2>5, <2>6 DEF AsyncCall, WorkerStep, Deliver
<1>7. CASE UNCHANGED vars
  <2>1. stmt' = stmt /\ calls' = calls /\ given' = given
    BY <1>7 DEF vars, hist
  <2> QED
    BY <2>1, QuietKeepsOnce DEF Pending
<1> QED
  BY <1>3, <1>4, <1>5, <1>6, <1>7 DEF Next, SyncCall

LEMMA InitEstablishesOnce == Init => GInv
<1> SUFFICES ASSUME Init PROVE GInv
  OBVIOUS
<1>1. \A c \in Calls : ~Pending(c)
  BY IdleType DEF Init, Pending
<1>2. stmt.param = <<>> /\ given = <<>>
  BY DEF Init
<1>3. OutsIn(stmt) = {}
  BY <1>2, OutsInMembers
<1> QED
  BY <1>1, <1>2, <1>3 DEF GInv, GivenOf, Holding, OutputsOnce

\* Whatever the client does and however its executions overlap, each execution's
\* outputs go to at most one callback or return value: fetchSp() takes them from
\* param, which no later execution finds (dbstmt.cc:1073-1092, 2872-2897).
THEOREM OutputsHandedOverOnce == Spec => []OutputsOnce
<1>1. IInv /\ TInv /\ GInv /\ [Next]_vars => GInv'
  BY OnceKept
<1>2. GInv => OutputsOnce
  BY DEF GInv
<1> QED
  BY <1>1, <1>2, InitEstablishesOnce, Invariance, TypeInvariance, PTL DEF Spec

-----------------------------------------------------------------------------
(* What an execution reads and what it hands over *)

\* The list ps of the client is bound, as a whole, to the markers.
ListBound(s, cl) ==
    LET ms == MarkersOf(s.prepared)
    IN  /\ s.live /\ s.at = cl.b /\ cl.b # 0
        /\ Len(cl.ps) = Len(ms) /\ Len(s.param) = Len(ms)
        /\ \A i \in 1..Len(ms) :
             /\ cl.ps[i].kind # "bad" \/ Bare(cl.ps[i])
             /\ ~StopsHalfway(cl.ps[i])
             /\ s.bound[i] = [b |-> s.at, io |-> Io(cl.ps[i])]
             /\ s.param[i].io = Io(cl.ps[i])
             /\ s.param[i].type = TypeOf(cl.ps[i], ms[i])

\* Its values are in the buffers.
ListIntact(s, cl) ==
    \A i \in 1..Len(cl.ps) :
        s.param[i].val = Sent(cl.ps[i], MarkersOf(s.prepared)[i], cl.b)

\* What a careful client knows is so.
KnownState(s, cl) ==
    /\ cl.state = "fresh" => ListBound(s, cl)
    /\ cl.state = "none" => s.param = <<>> /\ cl.ps = <<>>

\* The record of an execution that starts now.
Recorded(s, cl, sets) ==
    [q |-> s.prepared, b |-> cl.b, ps |-> cl.ps,
     read |-> ReadValues(s, s.prepared), sets |-> sets]

\* UsesBoundValues and OutputsOfExecution, of an execution l and its outputs.
UsesOf(l) ==
    \A i \in DOMAIN MarkersOf(l.q) :
        /\ i \in DOMAIN l.ps
        /\ LET p == l.ps[i]
               misfit == Bare(p) /\ p.kind # Markers[l.q][i].type
           IN  p.io # "out" /\ FitsInt32(p.v) =>
               \/ l.read[i] = IF p.kind = "null" THEN Null ELSE In(l.b, p.v)
               \/ misfit /\ l.read[i] \in {Blank, Garbage}

ExpectedOf(l) == {i \in DOMAIN l.ps : l.ps[i].io # "in"}
OutputOf(l, i) == IF MarkersOf(l.q)[i].io # "in" THEN l.sets ELSE l.read[i]
Fulfils(l, i, out) ==
    \/ out = OutputOf(l, i)
    \/ out = [OutputOf(l, i) EXCEPT !.v = out.v] /\ ~FitsInt32(OutputOf(l, i).v)
    \/ out = Garbage /\ l.ps[i].kind = "null" /\ OutputOf(l, i) = l.sets
Answers(l, outs) ==
    /\ Len(outs) = Cardinality(ExpectedOf(l))
    /\ \A i \in ExpectedOf(l) : Fulfils(l, i, outs[Place(ExpectedOf(l), i)])

LEMMA PropertiesOfLast ==
    /\ UsesBoundValues <=> (client.careful => UsesOf(last))
    /\ OutputsOfExecution <=> (client.careful /\ reply.kind = "value" => Answers(last, reply.outs))
<1>1. UsesBoundValues <=> (client.careful => UsesOf(last))
  BY DEF UsesBoundValues, UsesOf
<1>2. Expected = ExpectedOf(last) /\ \A i : ExpectedOutput(i) = OutputOf(last, i)
  BY DEF Expected, ExpectedOf, ExpectedOutput, OutputOf
<1>3. OutputsOfExecution <=> (client.careful /\ reply.kind = "value" => Answers(last, reply.outs))
  BY <1>2, Zenon DEF OutputsOfExecution, Answers, Fulfils
<1> QED
  BY <1>1, <1>3

\* A number that fits is the same as an Int32.
LEMMA Int32Fits ==
    ASSUME NEW v \in Int, FitsInt32(v)
    PROVE  Int32Value(v) = v
<1> DEFINE w == 2 * Half
           u == v + Half
<1>1. w \in Nat \ {0} /\ u \in 0..(w - 1) /\ u - Half = v /\ Half \in Nat
  BY ParamAssumption DEF FitsInt32
<1> HIDE DEF w, u
<1>2. u % w = u
  BY <1>1
<1>3. Int32Value(v) = (u % w) - Half
  BY DEF Int32Value, w, u
<1> QED
  BY <1>1, <1>2, <1>3

LEMMA HandedOverAs ==
    ASSUME NEW slot \in Slot
    PROVE  LET out == HandedOver(slot)
           IN  \/ out = slot.val
               \/ out = [slot.val EXCEPT !.v = out.v] /\ ~FitsInt32(slot.val.v)
<1> DEFINE x == Int32Value(slot.val.v)
           out == HandedOver(slot)
<1>1. slot.val \in Value /\ slot.val.v \in Int
  BY DEF Slot, Value
<1>2. FitsInt32(slot.val.v) => x = slot.val.v
  BY <1>1, Int32Fits
<1>3. out = slot.val \/ out = [slot.val EXCEPT !.v = x]
  BY DEF HandedOver
<1> HIDE DEF x, out
<1>4. CASE out = slot.val
  BY <1>4 DEF out
<1>5. CASE out = [slot.val EXCEPT !.v = x]
  <2>1. out.v = x
    BY <1>1, <1>5 DEF Value
  <2>2. x = slot.val.v => out = slot.val
    BY <1>1, <1>5 DEF Value
  <2> QED
    BY <1>2, <1>5, <2>1, <2>2 DEF out
<1> QED
  BY <1>3, <1>4, <1>5

\* What goes into a buffer is the value the client gave, if it fits.
LEMMA SentValue ==
    ASSUME NEW p \in Param, NEW m \in Marker, NEW b \in Nat,
           p.kind # "bad" \/ Bare(p), ~StopsHalfway(p), p.kind = "int" \/ p.v = 0,
           p.io # "out", FitsInt32(p.v)
    PROVE  \/ Sent(p, m, b) = IF p.kind = "null" THEN Null ELSE In(b, p.v)
           \/ Bare(p) /\ p.kind # m.type /\ Sent(p, m, b) \in {Blank, Garbage}
<1>1. /\ p.v \in Int /\ m.type \in Types
      /\ p.kind \in Types \cup {"null", "bad", "half"}
  BY DEF Param, Marker
<1>2. Int32Value(p.v) = p.v
  BY <1>1, Int32Fits
<1>3. CASE p.kind = "null"
  BY <1>3 DEF Sent
<1>4. CASE p.kind # "null" /\ TypeOf(p, m) # p.kind
  <2>1. Bare(p) /\ p.kind # m.type
    BY <1>4 DEF TypeOf
  <2>2. Sent(p, m, b) \in {Blank, Garbage}
    BY <1>4 DEF Sent
  <2> QED
    BY <2>1, <2>2
<1>5. CASE p.kind # "null" /\ TypeOf(p, m) = p.kind
  <2>1. CASE p.kind = "int"
    BY <1>2, <1>5, <2>1 DEF Sent
  <2>2. CASE p.kind # "int"
    BY <1>5, <2>2 DEF Sent
  <2> QED
    BY <2>1, <2>2
<1> QED
  BY <1>3, <1>4, <1>5

\* A bindParams() that bound as many parameters as there are markers.
LEMMA BindParamsList ==
    ASSUME NEW s \in Stmt, Owned(s), NEW ps \in Lists \cup {<<>>},
           NEW end \in BindEnds(s, ps), s.live,
           end.bound = Len(ps), end.bound = Len(MarkersOf(s.prepared))
    PROVE  LET r == BindParams(s, ps, end)
               cl == Knows("fresh", r.binds, ps)
           IN  ListBound(r, cl) /\ ListIntact(r, cl)
<1> DEFINE r == BindParams(s, ps, end)
           b == s.binds + 1
           cl == Knows("fresh", r.binds, ps)
           ms == MarkersOf(s.prepared)
<1>1. ps \in Seq(Param)
  BY ListType
<1>2. /\ r.binds = b /\ r.at = b /\ r.live = s.live /\ r.prepared = s.prepared
      /\ r.param = Filled(ms, ps, b, end.filled) /\ r.bound = Rebound(s, ps, end.bound)
  BY <1>1, BindParamsFields
<1>3. /\ end.filled = Len(ps)
      /\ \A i \in 1..Len(ps) : (ps[i].kind # "bad" \/ Bare(ps[i])) /\ ~StopsHalfway(ps[i])
  <2>1. end.filled \in 0..Len(ps) /\ (end.bound = end.filled \/ end.bound = end.filled - 1)
    BY DEF BindEnds
  <2>2. end.filled = Len(ps)
    BY <1>1, <2>1
  <2>3. \A i \in 1..end.filled : ps[i].kind # "bad" \/ Bare(ps[i])
    BY DEF BindEnds
  <2>4. \A i \in 1..end.bound : ~StopsHalfway(ps[i])
    BY DEF BindEnds
  <2> QED
    BY <2>2, <2>3, <2>4
<1>4. cl.b = b /\ cl.ps = ps
  BY <1>2 DEF Knows
<1>5. b \in Nat \ {0} /\ Len(ps) \in Nat
  BY <1>1 DEF Stmt
<1>6. Len(ms) <= MaxMarkers
  <2>1. s.prepared \in Queries \cup {NoQuery}
    BY DEF Stmt
  <2> QED
    BY <2>1, ParamAssumption DEF MarkersOf
<1> HIDE DEF r, cl, ms, b
<1>7. ASSUME NEW i \in 1..Len(ps)
      PROVE  /\ r.bound[i] = [b |-> b, io |-> Io(ps[i])]
             /\ r.param[i].io = Io(ps[i]) /\ r.param[i].type = TypeOf(ps[i], ms[i])
             /\ r.param[i].val = Sent(ps[i], ms[i], b)
  <2> DEFINE n == Len(ps)
  <2>00. MaxMarkers \in Nat
    BY ParamAssumption
  <2>0. /\ n \in Nat /\ n <= MaxMarkers /\ i \in 1..n
        /\ end.bound = n /\ end.filled = n
    BY <1>3, <1>5, <1>6 DEF ms
  <2> HIDE DEF n
  <2>1. i \in 1..MaxMarkers /\ i <= end.bound /\ ~(i > end.filled)
    BY <2>00, <2>0
  <2>2. r.bound[i] = [b |-> b, io |-> Io(ps[i])]
    BY <1>2, <2>1 DEF Rebound, b
  <2>3. r.param[i] = [io |-> Io(ps[i]), type |-> TypeOf(ps[i], ms[i]),
                      val |-> Sent(ps[i], ms[i], b)]
    BY <1>2, <2>1 DEF Filled
  <2> QED
    BY <2>2, <2>3
<1>8. Len(r.param) = Len(ps)
  <2> DEFINE e(i) == IF i > end.filled THEN Empty
                     ELSE [io |-> Io(ps[i]), type |-> TypeOf(ps[i], ms[i]),
                           val |-> Sent(ps[i], ms[i], b)]
  <2>1. r.param = [i \in 1..Len(ps) |-> e(i)]
    BY <1>2 DEF Filled
  <2> DEFINE n == Len(ps)
  <2>2. n \in Nat /\ r.param = [i \in 1..n |-> e(i)]
    BY <1>5, <2>1
  <2> HIDE DEF e, n
  <2>3. Len(r.param) = n
    BY <2>2
  <2> QED
    BY <2>3 DEF n
<1>9. ListBound(r, cl)
  <2>1. Len(ms) = Len(ps) /\ MarkersOf(r.prepared) = ms
    BY <1>2 DEF ms
  <2>2. /\ r.live /\ r.at = cl.b /\ cl.b # 0
        /\ Len(cl.ps) = Len(ms) /\ Len(r.param) = Len(ms)
    BY <1>2, <1>4, <1>5, <1>8, <2>1
  <2>3. ASSUME NEW i \in 1..Len(ms)
        PROVE  /\ cl.ps[i].kind # "bad" \/ Bare(cl.ps[i])
               /\ ~StopsHalfway(cl.ps[i])
               /\ r.bound[i] = [b |-> r.at, io |-> Io(cl.ps[i])]
               /\ r.param[i].io = Io(cl.ps[i])
               /\ r.param[i].type = TypeOf(cl.ps[i], ms[i])
    <3>1. i \in 1..Len(ps)
      BY <2>1
    <3> QED
      BY <1>2, <1>3, <1>4, <1>7, <3>1
  <2> QED
    BY <2>1, <2>2, <2>3, Zenon DEF ListBound
<1>10. ListIntact(r, cl)
  BY <1>2, <1>4, <1>7 DEF ListIntact, ms
<1> QED
  BY <1>9, <1>10 DEF r, cl

\* An execution reads the values of the list.
LEMMA ReadsList ==
    ASSUME NEW s \in Stmt, NEW cl, ListBound(s, cl), ListIntact(s, cl),
           NEW i \in DOMAIN MarkersOf(s.prepared)
    PROVE  /\ i \in 1..Len(cl.ps)
           /\ ReadValues(s, s.prepared)[i] = s.param[i].val
           /\ s.param[i].val = Sent(cl.ps[i], MarkersOf(s.prepared)[i], cl.b)
<1> DEFINE ms == MarkersOf(s.prepared)
<1>1. ms \in Seq(Marker)
  BY MarkersType DEF Stmt
<1> HIDE DEF ms
<1>2. i \in 1..Len(ms) /\ Len(cl.ps) = Len(ms)
  BY <1>1 DEF ListBound, ms
<1>3. s.at # 0 /\ s.bound[i].b = s.at
  <2>1. s.at # 0 /\ s.bound[i] = [b |-> s.at, io |-> Io(cl.ps[i])]
    BY <1>2, Zenon DEF ListBound, ms
  <2> QED
    BY <2>1
<1>4. ReadValues(s, s.prepared)[i] = s.param[i].val
  BY <1>2, <1>3 DEF ReadValues, ms
<1>5. s.param[i].val = Sent(cl.ps[i], MarkersOf(s.prepared)[i], cl.b)
  BY <1>2 DEF ListIntact
<1> QED
  BY <1>2, <1>4, <1>5

LEMMA RecordedUses ==
    ASSUME NEW s \in Stmt, NEW cl \in Client, KnownState(s, cl), Executable(s, cl),
           cl.state = "fresh" => ListIntact(s, cl), NEW sets
    PROVE  UsesOf(Recorded(s, cl, sets))
<1> DEFINE ms == MarkersOf(s.prepared)
           l  == Recorded(s, cl, sets)
<1>1. /\ l.q = s.prepared /\ l.b = cl.b /\ l.ps = cl.ps
      /\ l.read = ReadValues(s, s.prepared)
  BY DEF Recorded
<1>2. ms \in Seq(Marker) /\ cl.ps \in Lists \cup {<<>>} /\ cl.b \in Nat
  BY MarkersType DEF Stmt, Client
<1>20. cl.ps \in Seq(Param)
  BY <1>2, ListType
<1> HIDE DEF ms, l
<1> SUFFICES ASSUME NEW i \in DOMAIN ms
             PROVE  /\ i \in DOMAIN l.ps
                    /\ LET p == l.ps[i]
                           misfit == Bare(p) /\ p.kind # Markers[l.q][i].type
                       IN  p.io # "out" /\ FitsInt32(p.v) =>
                           \/ l.read[i] = IF p.kind = "null" THEN Null ELSE In(l.b, p.v)
                           \/ misfit /\ l.read[i] \in {Blank, Garbage}
  <2>1. UsesOf(l)
    BY <1>1, Zenon DEF UsesOf, ms
  <2> QED
    BY <2>1 DEF l
<1>3. cl.state = "fresh"
  BY DEF Executable, ms
<1>4. ListBound(s, cl) /\ ListIntact(s, cl)
  BY <1>3 DEF KnownState
<1>5. /\ i \in 1..Len(cl.ps)
      /\ l.read[i] = Sent(cl.ps[i], ms[i], cl.b)
  BY <1>1, <1>4, ReadsList DEF ms
<1> DEFINE p == cl.ps[i]
<1>6. /\ p \in Param /\ ms[i] \in Marker
      /\ i \in 1..Len(ms)
  BY <1>2, <1>20, <1>5
<1>7. (p.kind # "bad" \/ Bare(p)) /\ ~StopsHalfway(p)
  BY <1>4, <1>6 DEF ListBound, ms
<1>8. p.kind = "int" \/ p.v = 0
  <2>1. cl.ps \in Lists
    BY <1>2, <1>5
  <2>2. i \in DOMAIN cl.ps
    BY <1>5, <1>20
  <2> QED
    BY <2>1, <2>2, ParamAssumption
<1>9. ms[i] = Markers[s.prepared][i]
  <2>1. s.prepared # NoQuery
    BY DEF ms, MarkersOf
  <2> QED
    BY <2>1 DEF ms, MarkersOf
<1>10. ASSUME p.io # "out", FitsInt32(p.v)
       PROVE  \/ l.read[i] = IF p.kind = "null" THEN Null ELSE In(cl.b, p.v)
              \/ /\ Bare(p) /\ p.kind # Markers[s.prepared][i].type
                 /\ l.read[i] \in {Blank, Garbage}
  <2> HIDE DEF p
  <2>1. \/ Sent(p, ms[i], cl.b) = IF p.kind = "null" THEN Null ELSE In(cl.b, p.v)
        \/ Bare(p) /\ p.kind # ms[i].type /\ Sent(p, ms[i], cl.b) \in {Blank, Garbage}
    BY <1>2, <1>6, <1>7, <1>8, <1>10, SentValue
  <2> QED
    BY <1>5, <1>9, <2>1 DEF p
<1>11. i \in DOMAIN cl.ps
  BY <1>5, <1>20
<1> QED
  BY <1>1, <1>10, <1>11

\* t is s after SQLExecute stored the outputs sets, where there are any.
Produces(s, t, sets) ==
    /\ t.at = s.at /\ Len(t.param) = Len(s.param)
    /\ \A i \in 1..Len(s.param) :
         /\ t.param[i].io = s.param[i].io /\ t.param[i].type = s.param[i].type
         /\ t.param[i].val = IF Written(s, s.prepared, i) THEN Stored(s.param[i], sets)
                             ELSE s.param[i].val

LEMMA WriteProduces ==
    ASSUME NEW s \in Stmt, NEW u \in Stmt, NEW sets,
           u.param = s.param, u.at = s.at, u.bound = s.bound
    PROVE  Produces(s, ExecuteWrite(u, s.prepared, sets), sets)
<1> DEFINE t == ExecuteWrite(u, s.prepared, sets)
<1>1. /\ t.at = s.at /\ Len(t.param) = Len(s.param)
      /\ \A i \in DOMAIN s.param :
           t.param[i] = IF Written(u, s.prepared, i)
                        THEN [s.param[i] EXCEPT !.val = Stored(s.param[i], sets)]
                        ELSE s.param[i]
  BY WriteFields
<1> HIDE DEF t
<1>2. \A i : Written(u, s.prepared, i) <=> Written(s, s.prepared, i)
  BY DEF Written
<1>3. ASSUME NEW i \in 1..Len(s.param)
      PROVE  /\ t.param[i].io = s.param[i].io /\ t.param[i].type = s.param[i].type
             /\ t.param[i].val = IF Written(s, s.prepared, i) THEN Stored(s.param[i], sets)
                                 ELSE s.param[i].val
  <2>1. s.param[i] \in Slot /\ i \in DOMAIN s.param
    BY DEF Stmt
  <2>2. CASE Written(s, s.prepared, i)
    <3>1. t.param[i] = [s.param[i] EXCEPT !.val = Stored(s.param[i], sets)]
      BY <1>1, <1>2, <2>1, <2>2
    <3> QED
      BY <2>1, <2>2, <3>1 DEF Slot
  <2>3. CASE ~Written(s, s.prepared, i)
    <3>1. t.param[i] = s.param[i]
      BY <1>1, <1>2, <2>1, <2>3
    <3> QED
      BY <2>3, <3>1
  <2> QED
    BY <2>2, <2>3
<1> QED
  BY <1>1, <1>3 DEF Produces, t

LEMMA NothingProduces ==
    ASSUME NEW s, NoOuts(MarkersOf(s.prepared)), NEW sets
    PROVE  Produces(s, s, sets)
  BY DEF NoOuts, Produces, Written

\* A value of the list that execute hands over is the one it was asked for.
LEMMA ProducedFulfils ==
    ASSUME NEW s \in Stmt, NEW t \in Stmt, NEW cl \in Client, NEW sets,
           ListBound(s, cl), ListIntact(s, cl), Produces(s, t, sets),
           NEW i \in 1..Len(cl.ps), cl.ps[i].io # "in"
    PROVE  Fulfils(Recorded(s, cl, sets), i, HandedOver(t.param[i]))
<1> DEFINE ms == MarkersOf(s.prepared)
           l  == Recorded(s, cl, sets)
           p  == cl.ps[i]
           slot == t.param[i]
           out == HandedOver(slot)
<1>1. l.q = s.prepared /\ l.ps = cl.ps /\ l.read = ReadValues(s, s.prepared) /\ l.sets = sets
  BY DEF Recorded
<1>2. ms \in Seq(Marker) /\ cl.ps \in Seq(Param)
  BY MarkersType, ListType DEF Stmt, Client
<1>3. Len(cl.ps) = Len(ms) /\ Len(s.param) = Len(ms) /\ Len(t.param) = Len(ms)
  BY DEF ListBound, Produces, ms
<1> HIDE DEF l, ms
<1>4. /\ i \in DOMAIN ms /\ i \in 1..Len(ms) /\ i \in 1..Len(s.param) /\ i \in 1..Len(t.param)
      /\ p \in Param /\ ms[i] \in Marker
  BY <1>2, <1>3
<1>5. /\ p.kind # "bad" \/ Bare(p)
      /\ ~StopsHalfway(p)
      /\ s.bound[i] = [b |-> s.at, io |-> Io(p)]
      /\ s.param[i].type = TypeOf(p, ms[i])
  BY <1>4 DEF ListBound, ms
<1>6. slot \in Slot
  BY <1>4 DEF Stmt
<1>7. /\ slot.type = TypeOf(p, ms[i])
      /\ slot.val = IF Written(s, s.prepared, i) THEN Stored(s.param[i], sets)
                    ELSE s.param[i].val
  BY <1>4, <1>5 DEF Produces
<1> HIDE DEF slot, p
<1>8. \/ out = slot.val
      \/ out = [slot.val EXCEPT !.v = out.v] /\ ~FitsInt32(slot.val.v)
  BY <1>6, HandedOverAs
<1> HIDE DEF out
<1>9. CASE ms[i].io # "in"
  <2>1. Io(p) # "in"
    BY DEF Io, Bare, p
  <2>2. Written(s, s.prepared, i)
    BY <1>4, <1>5, <1>9, <2>1 DEF Written, ms
  <2>3. OutputOf(l, i) = sets
    BY <1>1, <1>9 DEF OutputOf, ms
  <2>4. CASE sets # Null /\ s.param[i].type = "none"
    <3>1. slot.val = Garbage
      BY <1>7, <2>2, <2>4 DEF Stored
    <3>2. p.kind = "null"
      <4>1. p.kind # "none" /\ ms[i].type # "none"
        BY <1>4 DEF Param, Marker, Types
      <4> QED
        BY <1>5, <2>4, <4>1 DEF TypeOf
    <3>3. FitsInt32(Garbage.v)
      BY ParamAssumption DEF FitsInt32, Garbage, Other
    <3>4. out = Garbage
      BY <1>8, <3>1, <3>3
    <3> QED
      BY <1>1, <2>3, <3>2, <3>4 DEF Fulfils, p, out, slot, l
  <2>5. CASE ~(sets # Null /\ s.param[i].type = "none")
    <3>1. slot.val = sets
      BY <1>7, <2>2, <2>5 DEF Stored
    <3> QED
      BY <1>8, <2>3, <3>1 DEF Fulfils, out, slot, l
  <2> QED
    BY <2>4, <2>5
<1>10. CASE ms[i].io = "in"
  <2>1. ~Written(s, s.prepared, i)
    BY <1>10 DEF Written, ms
  <2>2. slot.val = s.param[i].val
    BY <1>7, <2>1
  <2>3. OutputOf(l, i) = s.param[i].val
    BY <1>1, <1>4, <1>10, ReadsList DEF OutputOf, ms
  <2> QED
    BY <1>8, <2>2, <2>3 DEF Fulfils, out, slot, l
<1> QED
  BY <1>9, <1>10

LEMMA ProducedAnswers ==
    ASSUME NEW s \in Stmt, NEW t \in Stmt, NEW cl \in Client, NEW sets,
           KnownState(s, cl), Executable(s, cl),
           cl.state = "fresh" => ListIntact(s, cl), Produces(s, t, sets)
    PROVE  Answers(Recorded(s, cl, sets), OutsOf(t))
<1> DEFINE l == Recorded(s, cl, sets)
           E == ExpectedOf(l)
<1>1. l.ps = cl.ps
  BY DEF Recorded
<1>2. cl.ps \in Seq(Param) /\ Len(cl.ps) \in Nat /\ DOMAIN cl.ps = 1..Len(cl.ps)
  BY ListType DEF Client
<1>3. t.param \in Seq(Slot) /\ Len(t.param) = Len(s.param) /\ t.at = s.at
      /\ s.param \in Seq(Slot)
  BY DEF Produces, Stmt
<1> HIDE DEF l
<1>4. CASE Len(t.param) = 0
  <2>0. \A q \in Seq(Slot) : Len(q) = 0 => q = <<>>
    OBVIOUS
  <2>1. t.param = <<>> /\ s.param = <<>>
    BY <1>3, <1>4, <2>0
  <2>2. cl.ps = <<>>
    <3>1. CASE cl.state = "fresh"
      BY <1>2, <1>3, <1>4, <3>1 DEF KnownState, ListBound
    <3>2. CASE cl.state = "none"
      BY <3>2 DEF KnownState
    <3> QED
      BY <3>1, <3>2 DEF Executable
  <2>3. E = {} /\ OutsOf(t) = <<>>
    BY <1>1, <2>1, <2>2 DEF ExpectedOf, OutsOf, ParamsBound
  <2>4. Cardinality(E) = 0
    BY <2>3, FS_EmptySet
  <2> QED
    BY <2>3, <2>4 DEF Answers, l
<1>5. CASE Len(t.param) # 0
  <2>1. cl.state = "fresh"
    BY <1>3, <1>5 DEF Executable, KnownState
  <2>2. ListBound(s, cl) /\ ListIntact(s, cl)
    BY <2>1 DEF KnownState
  <2>3. Len(cl.ps) = Len(t.param) /\ t.at # 0
    BY <1>3, <2>2 DEF ListBound
  <2>4. OutsOf(t) = Values(t, Returned(t))
    BY <1>5, <2>3 DEF OutsOf, Outputs, ParamsBound
  <2>5. \A i \in 1..Len(cl.ps) : t.param[i].io = Io(cl.ps[i])
    BY <1>3, <2>2, <2>3 DEF ListBound, Produces
  <2>6. Returned(t) = E
    <3>1. \A i \in 1..Len(cl.ps) : t.param[i].io # "in" <=> cl.ps[i].io # "in"
      BY <2>5 DEF Io, Bare
    <3>2. DOMAIN t.param = 1..Len(cl.ps)
      BY <1>3, <2>3
    <3> QED
      BY <1>1, <1>2, <3>1, <3>2 DEF Returned, ExpectedOf
  <2>7. E \subseteq DOMAIN t.param /\ E \subseteq 1..Len(cl.ps)
        /\ \A i \in E : cl.ps[i].io # "in"
    BY <1>1, <1>2, <2>6 DEF Returned, ExpectedOf
  <2> HIDE DEF E
  <2>8. /\ Len(OutsOf(t)) = Cardinality(E)
        /\ \A i \in E : OutsOf(t)[Place(E, i)] = HandedOver(t.param[i])
    BY <2>4, <2>6, <2>7, ValuesAt
  <2>9. ASSUME NEW i \in E
        PROVE  Fulfils(l, i, OutsOf(t)[Place(E, i)])
    <3>1. i \in 1..Len(cl.ps) /\ cl.ps[i].io # "in"
      BY <2>7
    <3>2. Fulfils(l, i, HandedOver(t.param[i]))
      BY <2>2, <3>1, ProducedFulfils DEF l
    <3> QED
      BY <2>8, <3>2
  <2> QED
    BY <2>8, <2>9 DEF Answers, E, l
<1> QED
  BY <1>4, <1>5

-----------------------------------------------------------------------------
(* A careful client *)

\* The call c is an execution under way.
Executing(c) == calls[c].op = "execute" /\ calls[c].pc # "idle"

\* The outputs of an execution are in param, and its callback was not called yet.
OutputsWritten ==
    \E c \in Calls : Executing(c) /\ calls[c].pc = "done" /\ calls[c].rc = "success"

\* From the start of SQLExecute on, last is the record of the execution under way.
InStep(c) ==
    Executing(c) =>
        /\ reply.kind = "pending" /\ stmt.live /\ Executable(stmt, client)
        /\ calls[c].pc = "cli" /\ Ran(calls[c].rc) =>
             /\ last = Recorded(stmt, client, calls[c].sets)
             /\ calls[c].rc = "no_data" => NoOuts(MarkersOf(stmt.prepared))
        /\ calls[c].pc = "done" =>
             /\ calls[c].err <=> ~Ran(calls[c].rc)
             /\ Ran(calls[c].rc) => Answers(last, OutsOf(stmt))

\* What holds as long as the client is careful.
CarefulInv ==
    /\ KnownState(stmt, client)
    /\ client.state = "fresh" /\ ~OutputsWritten => ListIntact(stmt, client)
    /\ \A c \in Calls : InStep(c)
    /\ UsesOf(last)
    /\ reply.kind = "value" => Answers(last, reply.outs)

\* The handle is the one the object allocated.
HandleKept(s) == s.stmtAllocated <=> s.live

\* The invariant about careful clients.
DInv == HandleKept(stmt) /\ (client.careful => CarefulInv)

\* What is left to show when no execution is outstanding.
LEMMA QuietCareful ==
    ASSUME \A c \in Calls : ~Executing(c)', KnownState(stmt', client'),
           client'.state = "fresh" => ListIntact(stmt', client'),
           UsesOf(last'), reply'.kind = "value" => Answers(last', reply'.outs)
    PROVE  CarefulInv'
<1>1. \A c \in Calls : InStep(c)'
  BY DEF InStep
<1>2. ListIntact(stmt, client)' <=> ListIntact(stmt', client')
  BY DEF ListIntact
<1>3. KnownState(stmt, client)' <=> KnownState(stmt', client')
  BY DEF KnownState, ListBound
<1>4. UsesOf(last)' <=> UsesOf(last')
  BY DEF UsesOf
<1>5. Answers(last, reply.outs)' <=> Answers(last', reply'.outs)
  BY DEF Answers
<1> QED
  BY <1>1, <1>2, <1>3, <1>4, <1>5 DEF CarefulInv

LEMMA BindingCareful ==
    ASSUME IInv, DInv, NEW ps \in Lists \cup {<<>>}, NEW cl, ClientOK(cl), BindsNow(ps, cl),
           cl.careful => client.careful,
           client'.careful => \A c \in Calls : calls'[c].pc = "idle",
           reply' = reply, last' = last
    PROVE  DInv'
<1>1. PICK end \in BindEnds(stmt, ps) :
        /\ stmt' = BindParams(stmt, ps, end)
        /\ client' = AfterBind(cl, stmt', ps, end.bound)
  BY DEF BindsNow
<1>2. stmt \in Stmt /\ Owned(stmt) /\ ps \in Seq(Param)
  BY ListType DEF IInv, StateTypes
<1>3. /\ stmt' \in Stmt /\ stmt'.stmtAllocated = stmt.stmtAllocated
      /\ stmt'.live = stmt.live /\ stmt'.prepared = stmt.prepared
  BY <1>1, <1>2, BindParamsFields
<1>4. HandleKept(stmt')
  BY <1>3 DEF DInv, HandleKept
<1>5. ASSUME client'.careful
      PROVE  CarefulInv'
  <2>1. cl.careful /\ client.careful
    BY <1>1, <1>5, CarelessType DEF AfterBind
  <2>2. UsesOf(last') /\ (reply'.kind = "value" => Answers(last', reply'.outs))
    BY <2>1 DEF DInv, CarefulInv
  <2>3. \A c \in Calls : ~Executing(c)'
    BY <1>5 DEF Executing
  <2>4. CASE stmt'.live /\ end.bound = Len(ps) /\ end.bound = Len(MarkersOf(stmt'.prepared))
    <3>1. client' = Knows("fresh", stmt'.binds, ps)
      BY <1>1, <2>1, <2>4 DEF AfterBind
    <3>2. ListBound(stmt', client') /\ ListIntact(stmt', client')
      BY <1>1, <1>2, <1>3, <2>4, <3>1, BindParamsList
    <3>3. client'.state = "fresh"
      BY <3>1 DEF Knows
    <3>4. KnownState(stmt', client')
      BY <3>2, <3>3 DEF KnownState
    <3> QED
      BY <2>2, <2>3, <3>2, <3>4, QuietCareful
  <2>5. CASE ~(stmt'.live /\ end.bound = Len(ps) /\ end.bound = Len(MarkersOf(stmt'.prepared)))
    <3>1. client' = Knows("stale", 0, <<>>)
      BY <1>1, <2>1, <2>5 DEF AfterBind
    <3>2. client'.state = "stale"
      BY <3>1 DEF Knows
    <3>3. KnownState(stmt', client')
      BY <3>2 DEF KnownState
    <3> QED
      BY <2>2, <2>3, <3>2, <3>3, QuietCareful
  <2> QED
    BY <2>4, <2>5
<1> QED
  BY <1>4, <1>5 DEF DInv, HandleKept

LEMMA OutdatesCareful ==
    ASSUME IInv, DInv, Outdates
    PROVE  DInv'
<1>1. /\ stmt'.param = stmt.param
      /\ HandleKept(stmt) => HandleKept(stmt')
  BY OutdatesFields DEF IInv, StateTypes, HandleKept
<1>2. client' = Outdated(Behaves(Alone)) /\ calls' = calls /\ reply' = reply /\ last' = last
  BY DEF Outdates
<1>3. /\ ClientOK(Behaves(Alone))
      /\ Behaves(Alone).careful => client.careful /\ Alone /\ Behaves(Alone) = client
  <2>1. Alone \in BOOLEAN
    BY DEF Alone
  <2> QED
    BY <2>1, BehavesType DEF IInv, StateTypes
<1>4. ASSUME client'.careful
      PROVE  CarefulInv'
  <2>1. /\ client.careful /\ Alone /\ Behaves(Alone) = client
        /\ client'.state # "fresh"
    BY <1>2, <1>3, <1>4, OutdatedStale
  <2>2. UsesOf(last') /\ (reply'.kind = "value" => Answers(last', reply'.outs))
    BY <1>2, <2>1 DEF DInv, CarefulInv
  <2>3. \A c \in Calls : ~Executing(c)'
    BY <1>2, <2>1, AloneMeansIdle DEF Executing
  <2>4. client'.state = "none" => client' = client
    BY <1>2, <2>1 DEF Outdated, Knows
  <2>5. KnownState(stmt', client')
    BY <1>1, <2>1, <2>4 DEF DInv, CarefulInv, KnownState
  <2> QED
    BY <2>1, <2>2, <2>3, <2>5, QuietCareful
<1> QED
  BY <1>1, <1>4 DEF DInv, HandleKept

\* The record of an execution that ran.
LEMMA StartedRecords ==
    ASSUME NEW s, NEW cl, cl.careful, NEW end
    PROVE  Started(s, cl, end) = IF Ran(end.rc) THEN Recorded(s, cl, end.sets) ELSE last
  BY DEF Started, Recorded

\* The ends of an execution on a live handle.
LEMMA ExecEndsLive ==
    ASSUME NEW s, s.live, NEW end \in ExecEnds(s)
    PROVE  /\ end.rc # "invalid"
           /\ end.rc = "no_data" => NoOuts(MarkersOf(s.prepared))
<1> DEFINE outs == {Out(s.execs + 1, v) : v \in OutInts}
<1>1. \/ end = Ended("error", Null)
      \/ end = Ended("no_data", Null) /\ NoOuts(MarkersOf(s.prepared))
      \/ \E sets \in {Null} \cup outs : end = Ended("success", sets)
  BY Zenon DEF ExecEnds
<1> HIDE DEF outs
<1>2. \A rc, sets : Ended(rc, sets).rc = rc /\ Ended(rc, sets).sets = sets
  BY DEF Ended
<1> QED
  BY <1>1, <1>2

LEMMA ExecuteSyncCareful ==
    ASSUME IInv, TInv, DInv, ExecuteSync
    PROVE  DInv'
<1> DEFINE cl == Behaves(ReadyToExecute)
<1>1. PICK end \in ExecEnds(stmt) :
        LET s1 == ExecuteRead(stmt, end.rc)
            s2 == ExecuteWrite(s1, stmt.prepared, end.sets)
        IN  /\ last' = Started(stmt, cl, end) /\ calls' = calls
            /\ \/ end.rc = "success" /\ ReportOutputs(s2) /\ client' = AfterExecute(cl)
               \/ end.rc # "success" /\ ReportError(s1) /\ client' = cl
  BY ExecuteSyncEnds
<1> DEFINE s1 == ExecuteRead(stmt, end.rc)
           s2 == ExecuteWrite(s1, stmt.prepared, end.sets)
<1>2. /\ last' = Started(stmt, cl, end) /\ calls' = calls
      /\ \/ end.rc = "success" /\ ReportOutputs(s2) /\ client' = AfterExecute(cl)
         \/ end.rc # "success" /\ ReportError(s1) /\ client' = cl
  BY <1>1
<1>3. stmt \in Stmt /\ Owned(stmt) /\ Placed(stmt)
  BY DEF IInv, StateTypes, TInv
<1>4. /\ ClientOK(cl)
      /\ cl.careful => client.careful /\ ReadyToExecute /\ cl = client
  <2>1. ReadyToExecute \in BOOLEAN
    BY DEF ReadyToExecute
  <2> QED
    BY <2>1, BehavesType DEF IInv, StateTypes
<1> HIDE DEF cl
<1>5. /\ s1 \in Stmt /\ Owned(s1) /\ Placed(s1)
      /\ s1.param = stmt.param /\ s1.at = stmt.at /\ s1.bound = stmt.bound
      /\ s1.live = stmt.live /\ s1.stmtAllocated = stmt.stmtAllocated
      /\ s1.prepared = stmt.prepared
  BY <1>3, ReadKeeps, ReadPlaced, ReadFields
<1>6. stmt.prepared \in Queries \cup {NoQuery} /\ end.sets \in Value
  BY <1>3, ExecEndsType DEF Stmt
<1> HIDE DEF s1
<1>7. /\ s2 \in Stmt /\ Placed(s2)
      /\ s2.live = stmt.live /\ s2.stmtAllocated = stmt.stmtAllocated
  BY <1>5, <1>6, WriteKeeps, WritePlaced, WriteFields
<1>8. Produces(stmt, s2, end.sets)
  BY <1>3, <1>5, WriteProduces
<1> HIDE DEF s2
<1>9. cl.careful =>
        /\ client.careful /\ cl = client /\ Alone /\ client \in Client
        /\ KnownState(stmt, client) /\ Executable(stmt, client)
        /\ client.state = "fresh" => ListIntact(stmt, client)
        /\ UsesOf(last)
        /\ \A c \in Calls : ~Executing(c)'
  <2> SUFFICES ASSUME cl.careful
               PROVE  /\ client.careful /\ cl = client /\ Alone /\ client \in Client
                      /\ KnownState(stmt, client) /\ Executable(stmt, client)
                      /\ client.state = "fresh" => ListIntact(stmt, client)
                      /\ UsesOf(last)
                      /\ \A c \in Calls : ~Executing(c)'
    OBVIOUS
  <2>1. client.careful /\ ReadyToExecute /\ cl = client
    BY <1>4
  <2>2. Alone /\ Executable(stmt, client) /\ client \in Client
    BY <1>4, <2>1 DEF ReadyToExecute, Executable, ClientOK
  <2>3. \A c \in Calls : calls[c].pc = "idle"
    BY <2>2, AloneMeansIdle
  <2>4. ~OutputsWritten
    BY <2>3 DEF OutputsWritten, Executing
  <2>5. \A c \in Calls : ~Executing(c)'
    BY <1>2, <2>3 DEF Executing
  <2> QED
    BY <2>1, <2>2, <2>4, <2>5 DEF DInv, CarefulInv
<1>10. CASE end.rc = "success"
  <2>1. ReportOutputs(s2) /\ client' = AfterExecute(cl)
    BY <1>2, <1>10
  <2>2. stmt' = FetchSp(s2) /\ reply' = Answer("value", OutsOf(s2))
    BY <2>1 DEF ReportOutputs, OutsOf
  <2>3. /\ stmt'.param = <<>> /\ stmt'.live = stmt.live
        /\ stmt'.stmtAllocated = stmt.stmtAllocated
    BY <1>7, <2>2, FetchSpFields
  <2>4. HandleKept(stmt')
    BY <2>3 DEF DInv, HandleKept
  <2>5. ASSUME client'.careful
        PROVE  CarefulInv'
    <3>1. cl.careful /\ client' = Knows("none", 0, <<>>)
      BY <2>1, <2>5, CarelessType DEF AfterExecute
    <3>2. last' = Recorded(stmt, client, end.sets)
      BY <1>2, <1>9, <1>10, <3>1, StartedRecords DEF Ran
    <3>3. UsesOf(last')
      BY <1>3, <1>9, <3>1, <3>2, RecordedUses
    <3>4. Answers(last', OutsOf(s2))
      BY <1>3, <1>7, <1>8, <1>9, <3>1, <3>2, ProducedAnswers
    <3>5. reply'.outs = OutsOf(s2)
      BY <2>2 DEF Answer
    <3>6. client'.state = "none" /\ client'.ps = <<>>
      BY <3>1 DEF Knows
    <3>7. KnownState(stmt', client')
      BY <2>3, <3>6 DEF KnownState
    <3> QED
      BY <1>9, <3>1, <3>3, <3>4, <3>5, <3>6, <3>7, QuietCareful
  <2> QED
    BY <2>4, <2>5 DEF DInv, HandleKept
<1>11. CASE end.rc # "success"
  <2>1. stmt' = s1 /\ reply' = Answer("error", <<>>) /\ client' = cl
    BY <1>2, <1>11 DEF ReportError
  <2>2. HandleKept(stmt')
    BY <1>5, <2>1 DEF DInv, HandleKept
  <2>3. ASSUME client'.careful
        PROVE  CarefulInv'
    <3>1. cl.careful /\ client' = client
      BY <1>9, <2>1, <2>3
    <3>2. last' = IF Ran(end.rc) THEN Recorded(stmt, client, end.sets) ELSE last
      BY <1>2, <1>9, <3>1, StartedRecords
    <3>3. UsesOf(last')
      <4>1. UsesOf(Recorded(stmt, client, end.sets))
        BY <1>3, <1>9, <3>1, RecordedUses
      <4> QED
        BY <1>9, <3>1, <3>2, <4>1
    <3>4. reply'.kind # "value"
      BY <2>1 DEF Answer
    <3>5. KnownState(stmt', client')
      BY <1>5, <1>9, <2>1, <3>1 DEF KnownState, ListBound
    <3>6. client'.state = "fresh" => ListIntact(stmt', client')
      BY <1>5, <1>9, <2>1, <3>1 DEF ListIntact
    <3> QED
      BY <1>9, <3>1, <3>3, <3>4, <3>5, <3>6, QuietCareful
  <2> QED
    BY <2>2, <2>3 DEF DInv, HandleKept
<1> QED
  BY <1>10, <1>11

\* What is left to show when an execution is the only call.
LEMMA OneCareful ==
    ASSUME IInv, NEW c \in Calls, NEW new, calls' = [calls EXCEPT ![c] = new],
           \A d \in Calls : d # c => calls[d].pc = "idle", new.op = "execute",
           stmt'.live, Executable(stmt', client'), reply'.kind = "pending",
           KnownState(stmt', client'), UsesOf(last'),
           client'.state = "fresh" /\ ~(new.pc = "done" /\ new.rc = "success") =>
               ListIntact(stmt', client'),
           new.pc = "cli" /\ Ran(new.rc) =>
               /\ last' = Recorded(stmt', client', new.sets)
               /\ new.rc = "no_data" => NoOuts(MarkersOf(stmt'.prepared)),
           new.pc = "done" =>
               /\ new.err <=> ~Ran(new.rc)
               /\ Ran(new.rc) => Answers(last', OutsOf(stmt'))
    PROVE  CarefulInv'
<1>1. calls'[c] = new /\ \A d \in Calls : d # c => calls'[d].pc = "idle"
  BY DEF IInv, StateTypes
<1>2. /\ ListIntact(stmt, client)' <=> ListIntact(stmt', client')
      /\ KnownState(stmt, client)' <=> KnownState(stmt', client')
  BY DEF ListIntact, KnownState, ListBound
<1>3. /\ UsesOf(last)' <=> UsesOf(last')
      /\ Executable(stmt, client)' <=> Executable(stmt', client')
  BY DEF UsesOf, Executable
<1>4. /\ Recorded(stmt, client, calls[c].sets)' = Recorded(stmt', client', calls'[c].sets)
      /\ NoOuts(MarkersOf(stmt.prepared))' <=> NoOuts(MarkersOf(stmt'.prepared))
  BY DEF Recorded, ReadValues, NoOuts, MarkersOf
<1>5. /\ OutsOf(stmt)' = OutsOf(stmt')
      /\ Answers(last, OutsOf(stmt))' <=> Answers(last', OutsOf(stmt'))
  BY DEF OutsOf, Answers
<1>6. InStep(c)'
  BY <1>1, <1>3, <1>4, <1>5 DEF InStep
<1>7. \A d \in Calls : d # c => InStep(d)'
  BY <1>1 DEF InStep, Executing
<1>8. OutputsWritten' <=> new.pc = "done" /\ new.rc = "success"
  BY <1>1 DEF OutputsWritten, Executing
<1> QED
  BY <1>2, <1>3, <1>6, <1>7, <1>8 DEF CarefulInv

\* A careful client calls execute.
LEMMA ExecuteQueuesCareful ==
    ASSUME IInv, DInv, NEW c \in Calls, Execute(c)
    PROVE  DInv'
<1> DEFINE new == [Idle EXCEPT !.op = "execute", !.pc = "queued"]
<1>1. /\ calls' = [calls EXCEPT ![c] = new] /\ stmt' = stmt /\ last' = last
      /\ client' = Behaves(ReadyToExecute) /\ reply' = Answer("pending", <<>>)
  BY DEF Execute, Queue
<1>2. new.op = "execute" /\ new.pc = "queued"
  BY DEF Idle
<1> HIDE DEF new
<1>3. HandleKept(stmt')
  BY <1>1 DEF DInv
<1>4. ASSUME client'.careful
      PROVE  CarefulInv'
  <2>1. client.careful /\ ReadyToExecute /\ client' = client
    <3>1. ReadyToExecute \in BOOLEAN
      BY DEF ReadyToExecute
    <3> QED
      BY <1>1, <1>4, <3>1, BehavesType DEF IInv, StateTypes
  <2>2. Alone /\ stmt.stmtAllocated /\ Executable(stmt, client)
    BY <2>1 DEF ReadyToExecute, Executable
  <2>3. \A d \in Calls : calls[d].pc = "idle"
    BY <2>2, AloneMeansIdle
  <2>4. ~OutputsWritten
    BY <2>3 DEF OutputsWritten, Executing
  <2>5. stmt.live /\ CarefulInv
    BY <2>1, <2>2 DEF DInv, HandleKept
  <2>6. /\ stmt'.live /\ Executable(stmt', client') /\ KnownState(stmt', client')
        /\ UsesOf(last') /\ (client'.state = "fresh" => ListIntact(stmt', client'))
    BY <1>1, <2>1, <2>2, <2>4, <2>5 DEF CarefulInv
  <2>7. reply'.kind = "pending"
    BY <1>1 DEF Answer
  <2> QED
    BY <1>1, <1>2, <2>3, <2>6, <2>7, OneCareful
<1> QED
  BY <1>3, <1>4 DEF DInv, HandleKept

\* Neither a call of bindParam or bindParameters nor its worker changes
\* anything the properties speak of.
LEMMA BindWaitsCareful ==
    ASSUME IInv, DInv, UNCHANGED <<stmt, reply, last>>, client'.careful => client' = client,
           client'.careful => \A d \in Calls : ~Executing(d) /\ ~Executing(d)'
    PROVE  DInv'
<1>1. HandleKept(stmt')
  BY DEF DInv
<1>2. ASSUME client'.careful
      PROVE  CarefulInv'
  <2>1. CarefulInv /\ client' = client /\ ~OutputsWritten
    BY <1>2 DEF DInv, OutputsWritten
  <2>2. /\ KnownState(stmt', client') /\ UsesOf(last')
        /\ client'.state = "fresh" => ListIntact(stmt', client')
        /\ reply'.kind = "value" => Answers(last', reply'.outs)
    BY <2>1 DEF CarefulInv
  <2> QED
    BY <1>2, <2>2, QuietCareful
<1> QED
  BY <1>1, <1>2 DEF DInv, HandleKept

LEMMA QueueBindCareful ==
    ASSUME IInv, DInv, NEW c \in Calls, NEW op \in BindOps, NEW ps, QueueBind(c, op, ps)
    PROVE  DInv'
<1> DEFINE new == [Idle EXCEPT !.op = op, !.pc = "queued", !.ps = ps]
<1>1. /\ calls' = [calls EXCEPT ![c] = new] /\ stmt' = stmt /\ last' = last
      /\ client' = Behaves(Alone) /\ reply' = reply
  BY DEF QueueBind, Queue
<1>2. new.op # "execute"
  BY DEF Idle, BindOps
<1> HIDE DEF new
<1>3. calls'[c] = new /\ \A d \in Calls : d # c => calls'[d] = calls[d]
  BY <1>1 DEF IInv, StateTypes
<1>4. client'.careful => client' = client /\ Alone
  <2>1. Alone \in BOOLEAN
    BY DEF Alone
  <2> QED
    BY <1>1, <2>1, BehavesType DEF IInv, StateTypes
<1>5. client'.careful => \A d \in Calls : ~Executing(d) /\ ~Executing(d)'
  BY <1>2, <1>3, <1>4, AloneMeansIdle DEF Executing
<1> QED
  BY <1>1, <1>4, <1>5, BindWaitsCareful

LEMMA BindWorkerCareful ==
    ASSUME IInv, DInv, NEW c \in Calls, NEW op \in BindOps, BindWorkerExec(c, op)
    PROVE  DInv'
<1> DEFINE new == [calls[c] EXCEPT !.pc = "done"]
<1>1. /\ calls' = [calls EXCEPT ![c] = new] /\ calls[c].op = op /\ calls[c].pc = "queued"
      /\ UNCHANGED <<stmt, reply, client, last>>
  BY DEF BindWorkerExec, hist
<1>2. new.op # "execute" /\ op # "execute"
  BY <1>1 DEF IInv, StateTypes, Call, BindOps
<1> HIDE DEF new
<1>3. calls'[c] = new /\ \A d \in Calls : d # c => calls'[d] = calls[d]
  BY <1>1 DEF IInv, StateTypes
<1>4. client.careful => \A d \in Calls : d # c => calls[d].pc = "idle"
  BY <1>1 DEF IInv, CallInOrder
<1>5. client.careful => \A d \in Calls : ~Executing(d) /\ ~Executing(d)'
  BY <1>1, <1>2, <1>3, <1>4 DEF Executing
<1> QED
  BY <1>1, <1>5, BindWaitsCareful

\* A careful client's execution is its only call, on a live handle, with its
\* parameters bound and their values in place.
LEMMA ExecutionAlone ==
    ASSUME IInv, DInv, client.careful, NEW c \in Calls, Executing(c)
    PROVE  /\ \A d \in Calls : d # c => calls[d].pc = "idle"
           /\ stmt.live /\ reply.kind = "pending" /\ Executable(stmt, client)
           /\ KnownState(stmt, client) /\ UsesOf(last) /\ InStep(c)
           /\ client.state = "fresh" /\ ~(calls[c].pc = "done" /\ calls[c].rc = "success") =>
                ListIntact(stmt, client)
<1>1. CarefulInv
  BY DEF DInv
<1>2. \A d \in Calls : d # c => calls[d].pc = "idle"
  BY DEF IInv, CallInOrder, Executing
<1>3. OutputsWritten => calls[c].pc = "done" /\ calls[c].rc = "success"
  BY <1>2 DEF OutputsWritten, Executing
<1>4. InStep(c)
  BY <1>1 DEF CarefulInv
<1>5. stmt.live /\ reply.kind = "pending" /\ Executable(stmt, client)
  BY <1>4 DEF InStep
<1> QED
  BY <1>1, <1>2, <1>3, <1>4, <1>5 DEF CarefulInv

\* SQLExecute reads its parameters.
LEMMA ExecuteStartsCareful ==
    ASSUME IInv, TInv, DInv, NEW c \in Calls, ExecuteStarts(c)
    PROVE  DInv'
<1>0. stmt \in Stmt /\ Owned(stmt) /\ calls[c] \in Call /\ client \in Client
  BY DEF IInv, StateTypes, ClientOK
<1>1. PICK end \in ExecEnds(stmt) :
        /\ stmt' = ExecuteRead(stmt, end.rc)
        /\ last' = Started(stmt, client, end)
        /\ calls' = [calls EXCEPT ![c].pc = "cli", ![c].q = stmt.prepared,
                                  ![c].rc = end.rc, ![c].sets = end.sets]
  BY Zenon DEF ExecuteStarts
<1> DEFINE new == [calls[c] EXCEPT !.pc = "cli", !.q = stmt.prepared, !.rc = end.rc,
                                   !.sets = end.sets]
<1>2. /\ calls[c].op = "execute" /\ calls[c].pc = "queued" /\ client' = client
      /\ reply' = reply
  BY DEF ExecuteStarts
<1>3. calls' = [calls EXCEPT ![c] = new]
  BY <1>0, <1>1 DEF IInv, StateTypes
<1>4. new.pc = "cli" /\ new.op = "execute" /\ new.rc = end.rc /\ new.sets = end.sets
  BY <1>0, <1>2 DEF Call
<1> HIDE DEF new
<1>5. /\ stmt'.param = stmt.param /\ stmt'.at = stmt.at /\ stmt'.bound = stmt.bound
      /\ stmt'.live = stmt.live /\ stmt'.stmtAllocated = stmt.stmtAllocated
      /\ stmt'.prepared = stmt.prepared
  BY <1>1, ReadFields, <1>0
<1>6. HandleKept(stmt')
  BY <1>5 DEF DInv, HandleKept
<1>7. ASSUME client'.careful
      PROVE  CarefulInv'
  <2>1. Executing(c) /\ client.careful
    BY <1>2, <1>7 DEF Executing
  <2>2. /\ \A d \in Calls : d # c => calls[d].pc = "idle"
        /\ stmt.live /\ reply.kind = "pending" /\ Executable(stmt, client)
        /\ KnownState(stmt, client) /\ UsesOf(last)
        /\ client.state = "fresh" => ListIntact(stmt, client)
    BY <1>2, <2>1, ExecutionAlone
  <2>3. /\ stmt'.live /\ Executable(stmt', client') /\ KnownState(stmt', client')
        /\ client'.state = "fresh" => ListIntact(stmt', client')
    BY <1>2, <1>5, <2>2 DEF Executable, KnownState, ListBound, ListIntact
  <2>4. last' = IF Ran(end.rc) THEN Recorded(stmt, client, end.sets) ELSE last
    BY <1>1, <2>1, StartedRecords
  <2>5. Recorded(stmt', client', end.sets) = Recorded(stmt, client, end.sets)
    BY <1>2, <1>5 DEF Recorded, ReadValues
  <2>6. UsesOf(last')
    <3>1. UsesOf(Recorded(stmt, client, end.sets))
      BY <1>0, <2>2, RecordedUses
    <3> QED
      BY <2>2, <2>4, <3>1
  <2>7. end.rc = "no_data" => NoOuts(MarkersOf(stmt'.prepared))
    BY <1>5, <2>2, ExecEndsLive
  <2> QED
    BY <1>2, <1>3, <1>4, <2>2, <2>3, <2>4, <2>5, <2>6, <2>7, OneCareful
<1> QED
  BY <1>6, <1>7 DEF DInv, HandleKept

\* SQLExecute writes its outputs and returns.
LEMMA ExecuteReturnsCareful ==
    ASSUME IInv, TInv, DInv, NEW c \in Calls, ExecuteReturns(c)
    PROVE  DInv'
<1>0. stmt \in Stmt /\ calls[c] \in Call /\ client \in Client
  BY DEF IInv, StateTypes, ClientOK
<1>1. /\ calls[c].op = "execute" /\ calls[c].pc = "cli" /\ client' = client
      /\ reply' = reply /\ last' = last
      /\ stmt' = IF calls[c].rc = "success" /\ stmt.live
                 THEN ExecuteWrite(stmt, calls[c].q, calls[c].sets)
                 ELSE stmt
  BY DEF ExecuteReturns, hist
<1>2. PICK err \in IF Ran(calls[c].rc) THEN {FALSE}
                   ELSE IF stmt.live THEN {TRUE} ELSE BOOLEAN :
        calls' = [calls EXCEPT ![c] = [calls[c] EXCEPT !.pc = "done", !.err = err]]
  BY <1>0 DEF ExecuteReturns, IInv, StateTypes
<1> DEFINE new == [calls[c] EXCEPT !.pc = "done", !.err = err]
<1>3. calls' = [calls EXCEPT ![c] = new]
  BY <1>2
<1>4. /\ new.pc = "done" /\ new.op = "execute" /\ new.rc = calls[c].rc /\ new.err = err
  BY <1>0, <1>1 DEF Call
<1> HIDE DEF new
<1>5. /\ stmt'.at = stmt.at /\ stmt'.bound = stmt.bound
      /\ stmt'.live = stmt.live /\ stmt'.stmtAllocated = stmt.stmtAllocated
      /\ stmt'.prepared = stmt.prepared /\ stmt' \in Stmt
      /\ Len(stmt'.param) = Len(stmt.param) /\ DOMAIN stmt'.param = DOMAIN stmt.param
      /\ \A i \in DOMAIN stmt.param : /\ stmt'.param[i].io = stmt.param[i].io
                                      /\ stmt'.param[i].type = stmt.param[i].type
  <2>1. CASE calls[c].rc = "success" /\ stmt.live
    <3>1. stmt' = ExecuteWrite(stmt, calls[c].q, calls[c].sets)
      BY <1>1, <2>1
    <3>2. calls[c].q \in Queries \cup {NoQuery} /\ calls[c].sets \in Value
      BY <1>0 DEF Call
    <3>3. /\ stmt'.at = stmt.at /\ stmt'.bound = stmt.bound
          /\ stmt'.live = stmt.live /\ stmt'.stmtAllocated = stmt.stmtAllocated
          /\ stmt'.prepared = stmt.prepared
          /\ Len(stmt'.param) = Len(stmt.param) /\ DOMAIN stmt'.param = DOMAIN stmt.param
          /\ \A i \in DOMAIN stmt.param :
               stmt'.param[i] =
                 IF Written(stmt, calls[c].q, i)
                 THEN [stmt.param[i] EXCEPT !.val = Stored(stmt.param[i], calls[c].sets)]
                 ELSE stmt.param[i]
      BY <1>0, <3>1, WriteFields
    <3>4. stmt' \in Stmt
      BY <1>0, <3>1, <3>2, WriteKeeps DEF IInv
    <3>5. \A i \in DOMAIN stmt.param : stmt.param[i] \in Slot
      BY <1>0 DEF Stmt
    <3>6. ASSUME NEW i \in DOMAIN stmt.param
          PROVE  /\ stmt'.param[i].io = stmt.param[i].io
                 /\ stmt'.param[i].type = stmt.param[i].type
      BY <3>3, <3>5 DEF Slot
    <3> QED
      BY <3>3, <3>4, <3>6
  <2>2. CASE ~(calls[c].rc = "success" /\ stmt.live)
    BY <1>0, <1>1, <2>2
  <2> QED
    BY <2>1, <2>2
<1>6. HandleKept(stmt')
  BY <1>5 DEF DInv, HandleKept
<1>7. ASSUME client'.careful
      PROVE  CarefulInv'
  <2>1. Executing(c) /\ client.careful
    BY <1>1, <1>7 DEF Executing
  <2>2. /\ \A d \in Calls : d # c => calls[d].pc = "idle"
        /\ stmt.live /\ reply.kind = "pending" /\ Executable(stmt, client)
        /\ KnownState(stmt, client) /\ UsesOf(last)
        /\ client.state = "fresh" => ListIntact(stmt, client)
    BY <1>1, <2>1, ExecutionAlone
  <2>3. /\ Ran(calls[c].rc) => last = Recorded(stmt, client, calls[c].sets)
        /\ calls[c].rc = "no_data" => NoOuts(MarkersOf(stmt.prepared))
    <3>1. InStep(c)
      BY <2>1, ExecutionAlone
    <3> QED
      BY <1>1, <2>1, <3>1 DEF InStep, Ran
  <2>4. calls[c].q = stmt.prepared
    BY <1>1, <2>1 DEF IInv, CallInOrder
  <2>5. stmt'.live /\ Executable(stmt', client')
    BY <1>1, <1>5, <2>2 DEF Executable
  <2>6. KnownState(stmt', client')
    <3>1. ListBound(stmt, client) => ListBound(stmt', client)
      <4> DEFINE ms == MarkersOf(stmt.prepared)
      <4>1. stmt.param \in Seq(Slot)
        BY <1>0 DEF Stmt
      <4>2. DOMAIN stmt.param = 1..Len(stmt.param)
        BY <4>1
      <4> HIDE DEF ms
      <4> QED
        BY <1>5, <4>2 DEF ListBound, ms
    <3>2. stmt.param = <<>> => stmt'.param = <<>>
      <4>1. \A s \in Seq(Slot) : Len(s) = 0 => s = <<>>
        OBVIOUS
      <4> QED
        BY <1>5, <4>1 DEF Stmt
    <3> QED
      BY <1>1, <2>2, <3>1, <3>2 DEF KnownState
  <2>7. calls[c].rc # "success" => stmt' = stmt
    BY <1>1
  <2>8. err <=> ~Ran(calls[c].rc)
    BY <1>2, <2>2
  <2>9. Ran(calls[c].rc) => Answers(last', OutsOf(stmt'))
    <3>1. CASE calls[c].rc = "success"
      <4>1. stmt' = ExecuteWrite(stmt, stmt.prepared, calls[c].sets)
        BY <1>1, <2>2, <2>4, <3>1
      <4>2. Produces(stmt, stmt', calls[c].sets)
        BY <1>0, <4>1, WriteProduces
      <4> QED
        BY <1>0, <1>1, <1>5, <2>2, <2>3, <4>2, ProducedAnswers
    <3>2. CASE calls[c].rc = "no_data"
      <4>1. stmt' = stmt
        BY <2>7, <3>2
      <4>2. Produces(stmt, stmt', calls[c].sets)
        BY <2>3, <3>2, <4>1, NothingProduces
      <4> QED
        BY <1>0, <1>1, <1>5, <2>2, <2>3, <4>2, ProducedAnswers
    <3> QED
      BY <3>1, <3>2 DEF Ran
  <2>10. client'.state = "fresh" /\ calls[c].rc # "success" => ListIntact(stmt', client')
    BY <1>1, <2>2, <2>7
  <2> QED
    BY <1>1, <1>3, <1>4, <2>2, <2>5, <2>6, <2>8, <2>9, <2>10, OneCareful
<1> QED
  BY <1>6, <1>7 DEF DInv, HandleKept

\* execute calls back.
LEMMA ExecuteOnOKCareful ==
    ASSUME IInv, TInv, DInv, NEW c \in Calls, ExecuteOnOK(c)
    PROVE  DInv'
<1>1. /\ calls[c].op = "execute" /\ calls[c].pc = "done" /\ ~calls[c].err
      /\ calls' = [calls EXCEPT ![c] = Idle] /\ last' = last
      /\ stmt' = FetchSp(stmt) /\ reply' = Answer("value", OutsOf(stmt))
      /\ client' = AfterExecute(client)
  BY DEF ExecuteOnOK, ReportOutputs, OutsOf
<1>2. stmt \in Stmt /\ Placed(stmt)
  BY DEF IInv, StateTypes, TInv
<1>3. /\ stmt'.param = <<>> /\ stmt'.live = stmt.live
      /\ stmt'.stmtAllocated = stmt.stmtAllocated
  BY <1>1, <1>2, FetchSpFields
<1>4. HandleKept(stmt')
  BY <1>3 DEF DInv, HandleKept
<1>5. ASSUME client'.careful
      PROVE  CarefulInv'
  <2>1. client.careful /\ client' = Knows("none", 0, <<>>)
    BY <1>1, <1>5, CarelessType DEF AfterExecute
  <2>2. Executing(c)
    BY <1>1 DEF Executing
  <2>3. InStep(c) /\ UsesOf(last)
    BY <2>1, <2>2, ExecutionAlone
  <2>4. Answers(last, OutsOf(stmt))
    BY <1>1, <2>2, <2>3 DEF InStep
  <2>5. reply'.outs = OutsOf(stmt)
    BY <1>1 DEF Answer
  <2>6. client'.state = "none" /\ client'.ps = <<>>
    BY <2>1 DEF Knows
  <2>7. KnownState(stmt', client')
    BY <1>3, <2>6 DEF KnownState
  <2>8. \A d \in Calls : ~Executing(d)'
    BY <1>1, <2>1, CallEnds DEF Executing
  <2> QED
    BY <1>1, <2>3, <2>4, <2>5, <2>6, <2>7, <2>8, QuietCareful
<1> QED
  BY <1>4, <1>5 DEF DInv, HandleKept

LEMMA ExecuteOnErrorCareful ==
    ASSUME IInv, DInv, NEW c \in Calls, ExecuteOnError(c)
    PROVE  DInv'
<1>1. /\ calls[c].op = "execute" /\ calls[c].pc = "done" /\ calls[c].err
      /\ calls' = [calls EXCEPT ![c] = Idle] /\ last' = last
      /\ stmt' = stmt /\ reply' = Answer("error", <<>>) /\ client' = client
  BY DEF ExecuteOnError, ReportError
<1>2. HandleKept(stmt')
  BY <1>1 DEF DInv
<1>3. ASSUME client'.careful
      PROVE  CarefulInv'
  <2>1. Executing(c) /\ client.careful
    BY <1>1, <1>3 DEF Executing
  <2>2. InStep(c) /\ UsesOf(last) /\ KnownState(stmt, client)
    BY <2>1, ExecutionAlone
  <2>3. calls[c].rc # "success"
    BY <1>1, <2>1, <2>2 DEF InStep, Ran
  <2>4. client.state = "fresh" => ListIntact(stmt, client)
    BY <2>1, <2>3, ExecutionAlone
  <2>5. reply'.kind # "value"
    BY <1>1 DEF Answer
  <2>6. \A d \in Calls : ~Executing(d)'
    BY <1>1, <2>1, CallEnds DEF Executing
  <2> QED
    BY <1>1, <2>2, <2>4, <2>5, <2>6, QuietCareful
<1> QED
  BY <1>2, <1>3 DEF DInv, HandleKept

LEMMA InitCareful == Init => DInv
<1> SUFFICES ASSUME Init PROVE DInv
  OBVIOUS
<1>1. HandleKept(stmt) /\ stmt.param = <<>>
  BY DEF Init, HandleKept
<1>2. client.state = "none" /\ client.ps = <<>> /\ reply.kind = "none"
  BY DEF Init, Knows, Answer
<1>3. \A c \in Calls : InStep(c)
  BY IdleType DEF Init, InStep, Executing
<1>4. KnownState(stmt, client)
  BY <1>1, <1>2 DEF KnownState
<1>5. last.q = NoQuery
  BY DEF Init
<1>6. MarkersOf(last.q) = <<>>
  BY <1>5 DEF MarkersOf
<1>7. UsesOf(last)
  BY <1>6 DEF UsesOf
<1> QED
  BY <1>1, <1>2, <1>3, <1>4, <1>7 DEF DInv, CarefulInv

LEMMA CarefulKept ==
    ASSUME IInv, TInv, DInv, [Next]_vars
    PROVE  DInv'
<1>1. ASSUME NEW ps \in Lists, BindParamSync(ps) \/ BindParametersSync(ps)
      PROVE  DInv'
  <2>1. /\ BindsNow(ps, Behaves(Alone)) /\ ps \in Lists \cup {<<>>}
        /\ calls' = calls /\ reply' = reply /\ last' = last
    BY <1>1, BindSyncBinds
  <2>2. /\ ClientOK(Behaves(Alone))
        /\ Behaves(Alone).careful => client.careful /\ Alone
    <3>1. Alone \in BOOLEAN
      BY DEF Alone
    <3> QED
      BY <3>1, BehavesType DEF IInv, StateTypes
  <2>3. client'.careful => \A c \in Calls : calls'[c].pc = "idle"
    <3>1. client'.careful => Behaves(Alone).careful
      BY <2>1, CarelessType DEF BindsNow, AfterBind
    <3> QED
      BY <2>1, <2>2, <3>1, AloneMeansIdle
  <2> DEFINE cl == Behaves(Alone)
  <2>4. ClientOK(cl) /\ (cl.careful => client.careful) /\ BindsNow(ps, cl)
    BY <2>1, <2>2
  <2> HIDE DEF cl
  <2> QED
    BY <2>1, <2>3, <2>4, BindingCareful
<1>2. CASE ExecuteSync
  BY <1>2, ExecuteSyncCareful
<1>3. CASE Reset \/ Close \/ \E q \in Queries : Prepare(q)
  BY <1>3, SyncOutdates, OutdatesCareful
<1>4. ASSUME NEW c \in Calls, AsyncCall(c)
      PROVE  DInv'
  <2>1. CASE \E ps \in Lists : BindParam(c, ps) \/ BindParameters(c, ps)
    <3>1. PICK ps \in Lists, op \in BindOps : QueueBind(c, op, ps)
      BY <2>1 DEF BindParam, BindParameters, BindOps
    <3> QED
      BY <3>1, QueueBindCareful
  <2> QED
    BY <1>4, <2>1, ExecuteQueuesCareful DEF AsyncCall
<1>5. ASSUME NEW c \in Calls, WorkerStep(c)
      PROVE  DInv'
  <2>1. CASE BindParamAsyncWorkerExec(c) \/ BindParametersAsyncWorkerExec(c)
    <3>1. PICK op \in BindOps : BindWorkerExec(c, op)
      BY <2>1 DEF BindParamAsyncWorkerExec, BindParametersAsyncWorkerExec, BindOps
    <3> QED
      BY <3>1, BindWorkerCareful
  <2> QED
    BY <1>5, <2>1, ExecuteStartsCareful, ExecuteReturnsCareful DEF WorkerStep
<1>6. ASSUME NEW c \in Calls, Deliver(c)
      PROVE  DInv'
  <2>1. CASE BindParamOnOK(c) \/ BindParametersOnOK(c)
    <3>1. /\ BindsNow(calls[c].ps, client) /\ calls[c].ps \in Lists \cup {<<>>}
          /\ calls' = [calls EXCEPT ![c] = Idle] /\ calls[c].pc = "done"
          /\ reply' = reply /\ last' = last
      BY <2>1, BindOnOKBinds
    <3>2. ClientOK(client) /\ calls[c].pc # "idle"
      BY <3>1 DEF IInv, StateTypes
    <3>3. client'.careful => client.careful
      BY <3>1, CarelessType DEF BindsNow, AfterBind
    <3>4. client'.careful => \A d \in Calls : calls'[d].pc = "idle"
      BY <3>1, <3>2, <3>3, CallEnds
    <3> QED
      BY <3>1, <3>2, <3>4, BindingCareful
  <2> QED
    BY <1>6, <2>1, ExecuteOnOKCareful, ExecuteOnErrorCareful DEF Deliver
<1>7. CASE UNCHANGED vars
  <2>1. /\ stmt' = stmt /\ calls' = calls /\ reply' = reply /\ client' = client
        /\ last' = last
    BY <1>7 DEF vars, hist
  <2>2. /\ HandleKept(stmt)' <=> HandleKept(stmt)
        /\ KnownState(stmt, client)' <=> KnownState(stmt, client)
        /\ ListIntact(stmt, client)' <=> ListIntact(stmt, client)
    BY <2>1 DEF HandleKept, KnownState, ListBound, ListIntact
  <2>3. /\ UsesOf(last)' <=> UsesOf(last)
        /\ Answers(last, reply.outs)' <=> Answers(last, reply.outs)
    BY <2>1 DEF UsesOf, Answers
  <2>4. \A c \in Calls : InStep(c)' <=> InStep(c)
    <3> SUFFICES ASSUME NEW c \in Calls PROVE InStep(c)' <=> InStep(c)
      OBVIOUS
    <3>1. /\ Recorded(stmt, client, calls[c].sets)' = Recorded(stmt, client, calls[c].sets)
          /\ NoOuts(MarkersOf(stmt.prepared))' <=> NoOuts(MarkersOf(stmt.prepared))
          /\ Answers(last, OutsOf(stmt))' <=> Answers(last, OutsOf(stmt))
      BY <2>1 DEF Recorded, ReadValues, NoOuts, MarkersOf, Answers, OutsOf
    <3> QED
      BY <2>1, <3>1 DEF InStep, Executing, Executable
  <2>5. OutputsWritten' <=> OutputsWritten
    BY <2>1 DEF OutputsWritten, Executing
  <2>6. CarefulInv' <=> CarefulInv
    BY <2>1, <2>2, <2>3, <2>4, <2>5 DEF CarefulInv
  <2> QED
    BY <2>1, <2>2, <2>6 DEF DInv
<1> QED
  BY <1>1, <1>2, <1>3, <1>4, <1>5, <1>6, <1>7 DEF Next, SyncCall

\* DInv holds of every reachable state: for a careful client param holds the
\* list bound last until SQLExecute writes it, and its outputs until the
\* callback (dbstmt.cc:1049-1092, 2579-2897).
THEOREM CarefulInvariance == Spec => []DInv
<1>1. IInv /\ TInv /\ DInv /\ [Next]_vars => DInv'
  BY CarefulKept
<1> QED
  BY <1>1, InitCareful, Invariance, TypeInvariance, PTL DEF Spec

\* As long as the client keeps to one call at a time and executes only with its
\* parameters bound, each SQLExecute reads the values of the list it bound last,
\* however often it bound, prepared, reset or failed before: param still holds
\* them when the CLI looks at it (dbstmt.cc:2579-2870).
THEOREM ValuesBound == Spec => []UsesBoundValues
<1>1. DInv => UsesBoundValues
  BY PropertiesOfLast DEF DInv, CarefulInv
<1> QED
  BY <1>1, CarefulInvariance, PTL

\* And what its execute hands over are the outputs of that execution, one for
\* each parameter not bound for input only, in the order it bound them: they
\* stay in param from SQLExecute to the callback, and fetchSp() takes them from
\* there (dbstmt.cc:1073-1092, 2872-2897).
THEOREM OutputsBelong == Spec => []OutputsOfExecution
<1>1. DInv => OutputsOfExecution
  BY PropertiesOfLast DEF DInv, CarefulInv
<1> QED
  BY <1>1, CarefulInvariance, PTL
=============================================================================
