---------------------- MODULE PreparedStatementsProofs ----------------------
(***************************************************************************)
(* What a client's prepared statement means, for any number of names,      *)
(* queries, backends and cycles: BindMeaning is an invariant.              *)
(*                                                                         *)
(* The argument: every key is issued once, for one query (Issued).  The    *)
(* catalog, the frames planned or in flight and the statements standing on *)
(* the backends all agree with what was issued, so a backend that finds    *)
(* the key of a Bind finds the query it was issued for, and that is the    *)
(* query the client gave the name when the Bind was planned.               *)
(***************************************************************************)
EXTENDS PreparedStatements, TLAPS

(* Frames come from the client with a query where they need one.           *)
FrameOK(f) == f \in Frame /\ (f.tag \in {"P", "Q"} => f.query \in Query)

(* The variables the argument is about have their shapes.                  *)
Shapes ==
    /\ next \in Nat \ {0}
    /\ stmts \in [Name -> [key : Nat, query : Query \cup {None}]]
    /\ meant \in [Name -> Query \cup {None}]
    /\ buffer \in Seq(Frame) /\ \A i \in DOMAIN buffer : FrameOK(buffer[i])
    /\ todo \in Seq(Frame) /\ \A i \in DOMAIN todo : FrameOK(todo[i])
    /\ out \in Seq(BackendFrame)
    /\ inbox \in [Backend -> Seq(BackendFrame)]
    /\ on \in [Backend -> SUBSET [key : Nat, query : Query \cup {Foreign}, stale : BOOLEAN]]

(* A key below next_statement_id stands for one query.                     *)
Issued ==
    /\ issued \subseteq [key : Nat, query : Query]
    /\ \A r \in issued : r.key > 0 /\ r.key < next
    /\ \A r, s \in issued : r.key = s.key => r.query = s.query

Agrees(k, q) == [key |-> k, query |-> q] \in issued

(* The catalog: a name stands for the query it was issued for, which is    *)
(* the one the client means.                                               *)
CatalogAgrees ==
    \A n \in Name :
        /\ n = Unnamed => stmts[n].key = 0
        /\ n # Unnamed /\ stmts[n] # NoStatement =>
              stmts[n].key # 0 /\ Agrees(stmts[n].key, meant[n]) /\ meant[n] = stmts[n].query

FrameAgrees(f) ==
    /\ f.tag = "P" => f.key \in Nat /\ f.query \in Query /\ (f.key # 0 => Agrees(f.key, f.query))
    /\ f.tag = "B" /\ f.key # 0 /\ f.key # Raw => Agrees(f.key, f.want)

OutAgrees == \A i \in DOMAIN out : FrameAgrees(out[i])

InboxAgrees == \A b \in Backend : \A i \in DOMAIN inbox[b] : FrameAgrees(inbox[b][i])

ServerAgrees ==
    \A b \in Backend : \A s \in on[b] : s.key # 0 => Agrees(s.key, s.query)

IInv == Shapes /\ Issued /\ CatalogAgrees /\ OutAgrees /\ InboxAgrees /\ ServerAgrees
            /\ BindMeaning

-----------------------------------------------------------------------------
(* The initial state satisfies the invariant.                              *)
THEOREM InitAgrees == Init => IInv
<1> SUFFICES ASSUME Init PROVE IInv
  BY Zenon
<1>1. Shapes
  BY DEF Init, Shapes, NoStatement, FrameOK
<1>2. Issued /\ CatalogAgrees /\ OutAgrees /\ BindMeaning
  BY DEF Init, Issued, CatalogAgrees, OutAgrees, BindMeaning, NoStatement
<1>3. InboxAgrees /\ ServerAgrees
  BY DEF Init, InboxAgrees, ServerAgrees
<1> QED BY <1>1, <1>2, <1>3 DEF IInv

(* A step that leaves the keys, the names and the issued queries alone.    *)
Fixed == UNCHANGED <<next, stmts, meant, issued>>

(* Such a step keeps what is said of them.                                 *)
LEMMA FixedKeeps ==
    ASSUME IInv, Fixed
    PROVE  Issued' /\ CatalogAgrees' /\ (\A f : FrameAgrees(f) => FrameAgrees(f)')
  BY Zenon DEF IInv, Fixed, Issued, CatalogAgrees, FrameAgrees, Agrees

(* And what such a step leaves alone still agrees with what was issued.    *)
LEMMA UntouchedAgree ==
    ASSUME IInv, Fixed
    PROVE  /\ UNCHANGED out \/ out' = <<>> => OutAgrees'
           /\ UNCHANGED inbox => InboxAgrees'
           /\ UNCHANGED on => ServerAgrees'
           /\ UNCHANGED bound => BindMeaning'
<1>1. ASSUME UNCHANGED out \/ out' = <<>> PROVE OutAgrees'
  <2>1. OutAgrees
    BY Zenon DEF IInv
  <2>2. CASE UNCHANGED out
    BY <2>1, <2>2, FixedKeeps, Zenon DEF OutAgrees
  <2>3. CASE out' = <<>>
    BY <2>3 DEF OutAgrees
  <2> QED BY <1>1, <2>2, <2>3
<1>2. ASSUME UNCHANGED inbox PROVE InboxAgrees'
  <2>1. InboxAgrees
    BY Zenon DEF IInv
  <2> QED BY <1>2, <2>1, FixedKeeps DEF InboxAgrees
<1>3. ASSUME UNCHANGED on PROVE ServerAgrees'
  <2>1. ServerAgrees
    BY Zenon DEF IInv
  <2> QED BY <1>3, <2>1 DEF ServerAgrees, Agrees, Fixed
<1>4. ASSUME UNCHANGED bound PROVE BindMeaning'
  BY <1>4, Zenon DEF IInv, BindMeaning
<1> QED BY <1>1, <1>2, <1>3, <1>4

(* A client sends a batch.                                                 *)
LEMMA ClientSendsKeeps ==
    ASSUME IInv, NEW batch \in Batches, ClientSends(batch)
    PROVE  IInv'
<1>1. Fixed /\ UNCHANGED <<todo, out, inbox, on, bound>>
  BY Zenon DEF ClientSends, Fixed, catalog, server
<1>2. batch \in Seq(Frame) /\ \A i \in DOMAIN batch : FrameOK(batch[i])
  BY BatchesAssumption DEF FrameOK
<1>3. buffer' \in Seq(Frame) /\ \A i \in DOMAIN buffer' : FrameOK(buffer'[i])
  BY <1>2 DEF IInv, Shapes, ClientSends, FrameOK
<1>4. Shapes'
  BY <1>1, <1>3, Zenon DEF IInv, Shapes, Fixed
<1> QED BY <1>1, <1>4, FixedKeeps, UntouchedAgree DEF IInv

(* A cycle is cut off the client's buffer.                                 *)
LEMMA TakeCycleKeeps ==
    ASSUME IInv, NEW b \in Backend, NEW i \in 1..Len(buffer), TakeCycle(b, i)
    PROVE  IInv'
<1>1. Fixed /\ UNCHANGED <<inbox, on, bound>> /\ out' = <<>>
  BY Zenon DEF TakeCycle, Fixed, catalog, server
<1>2. todo' \in Seq(Frame) /\ \A j \in DOMAIN todo' : FrameOK(todo'[j])
  BY DEF IInv, Shapes, TakeCycle
<1>3. buffer' \in Seq(Frame) /\ \A j \in DOMAIN buffer' : FrameOK(buffer'[j])
  <2>1. buffer \in Seq(Frame) /\ i \in 1..Len(buffer)
        /\ buffer' = SubSeq(buffer, i + 1, Len(buffer))
    BY Zenon DEF IInv, Shapes, TakeCycle
  <2>2. buffer' \in Seq(Frame) /\ DOMAIN buffer' = 1..(Len(buffer) - i)
        /\ \A j \in 1..(Len(buffer) - i) : buffer'[j] = buffer[j + i]
    BY <2>1
  <2> QED BY <2>1, <2>2 DEF IInv, Shapes
<1>4. Shapes'
  BY <1>1, <1>2, <1>3 DEF IInv, Shapes, Fixed
<1> QED BY <1>1, <1>4, FixedKeeps, UntouchedAgree DEF IInv

(* The planned frames are written to the backend.                          *)
LEMMA SendCycleKeeps ==
    ASSUME IInv, SendCycle
    PROVE  IInv'
<1>1. Fixed /\ UNCHANGED <<buffer, todo, on, bound>> /\ out' = <<>>
      /\ inbox' = [inbox EXCEPT ![held] = @ \o out]
  BY Zenon DEF SendCycle, Fixed, catalog
<1>2. inbox' \in [Backend -> Seq(BackendFrame)]
  <2>1. inbox \in [Backend -> Seq(BackendFrame)] /\ out \in Seq(BackendFrame)
    BY Zenon DEF IInv, Shapes
  <2>2. ASSUME NEW b \in Backend PROVE inbox[b] \o out \in Seq(BackendFrame)
    BY <2>1
  <2> QED BY <1>1, <2>1, <2>2
<1>5. Shapes'
  <2>1. out' \in Seq(BackendFrame)
    BY <1>1
  <2> QED BY <1>1, <1>2, <2>1 DEF IInv, Shapes, Fixed
<1>3. InboxAgrees'
  <2> SUFFICES ASSUME NEW b \in Backend, NEW i \in DOMAIN inbox'[b]
               PROVE  FrameAgrees(inbox'[b][i])
    BY <1>1, FixedKeeps, Zenon DEF InboxAgrees, FrameAgrees, Agrees, Fixed
  <2>1. CASE b = held
    <3>1. inbox[b] \in Seq(BackendFrame) /\ out \in Seq(BackendFrame)
      BY Zenon DEF IInv, Shapes
    <3>2. inbox'[b] = inbox[b] \o out
      BY <1>1, <2>1, Zenon DEF IInv, Shapes
    <3>3. \/ inbox'[b][i] = inbox[b][i] /\ i \in DOMAIN inbox[b]
          \/ \E j \in DOMAIN out : inbox'[b][i] = out[j]
      BY <3>1, <3>2
    <3> QED BY <3>3 DEF IInv, InboxAgrees, OutAgrees
  <2>2. CASE b # held
    BY <1>1, <2>2, Zenon DEF IInv, Shapes, InboxAgrees
  <2> QED BY <2>1, <2>2
<1> QED BY <1>1, <1>3, <1>5, FixedKeeps, UntouchedAgree DEF IInv

(* What a concatenation is. *)
LEMMA ConcatOf ==
    ASSUME NEW S, NEW s \in Seq(S), NEW t \in Seq(S)
    PROVE  /\ s \o t \in Seq(S) /\ Len(s \o t) = Len(s) + Len(t)
           /\ \A i \in 1..Len(s) : (s \o t)[i] = s[i]
           /\ \A i \in Int : Len(s) < i /\ i <= Len(s) + Len(t) => (s \o t)[i] = t[i - Len(s)]
<1>1. s \o t \in Seq(S) /\ Len(s \o t) = Len(s) + Len(t)
  OBVIOUS
<1>2. ASSUME NEW i \in 1..Len(s)
      PROVE  (s \o t)[i] = s[i]
  OBVIOUS
<1>3. ASSUME NEW i \in Int, Len(s) < i, i <= Len(s) + Len(t)
      PROVE  (s \o t)[i] = t[i - Len(s)]
  BY <1>3
<1> QED BY <1>1, <1>2, <1>3

(* What appending two elements to a sequence gives.                        *)
LEMMA Concat ==
    ASSUME NEW S, NEW s \in Seq(S), NEW t \in Seq(S), Len(t) = 2
    PROVE  /\ s \o t \in Seq(S) /\ DOMAIN (s \o t) = 1..(Len(s) + 2)
           /\ DOMAIN s = 1..Len(s) /\ Len(s) \in Nat
           /\ \A i \in 1..Len(s) : (s \o t)[i] = s[i]
           /\ (s \o t)[Len(s) + 1] = t[1] /\ (s \o t)[Len(s) + 2] = t[2]
<1>1. Len(s) \in Nat /\ DOMAIN s = 1..Len(s)
  OBVIOUS
<1>2. /\ s \o t \in Seq(S) /\ Len(s \o t) = Len(s) + Len(t)
      /\ \A i \in 1..Len(s) : (s \o t)[i] = s[i]
      /\ \A i \in Int : Len(s) < i /\ i <= Len(s) + Len(t) => (s \o t)[i] = t[i - Len(s)]
  BY ONLY s \in Seq(S), t \in Seq(S), ConcatOf
<1>3. DOMAIN (s \o t) = 1..(Len(s) + 2)
  BY <1>2
<1>4. /\ Len(s) + 1 \in Int /\ Len(s) < Len(s) + 1 /\ Len(s) + 1 <= Len(s) + Len(t)
      /\ Len(s) + 2 \in Int /\ Len(s) < Len(s) + 2 /\ Len(s) + 2 <= Len(s) + Len(t)
      /\ Len(s) + 1 - Len(s) = 1 /\ Len(s) + 2 - Len(s) = 2
  BY <1>1
<1>5. (s \o t)[Len(s) + 1] = t[Len(s) + 1 - Len(s)] /\ (s \o t)[Len(s) + 2] = t[Len(s) + 2 - Len(s)]
  BY <1>2, <1>4
<1> QED BY <1>1, <1>2, <1>3, <1>4, <1>5, Zenon

(* A frame is planned: the keys, the catalog and the bytes to write.       *)
LEMMA PlanFrameKeeps ==
    ASSUME IInv, PlanFrame
    PROVE  IInv'
<1> DEFINE f == Head(todo)
<1>1. UNCHANGED <<buffer, inbox, on, bound>> /\ todo # <<>> /\ todo' = Tail(todo)
  BY Zenon DEF PlanFrame, server
<1>2. FrameOK(f) /\ todo' \in Seq(Frame) /\ \A i \in DOMAIN todo' : FrameOK(todo'[i])
  <2>1. todo \in Seq(Frame) /\ Len(todo) > 0 /\ 1 \in DOMAIN todo /\ f = todo[1]
    BY <1>1 DEF IInv, Shapes
  <2>2. todo' \in Seq(Frame) /\ DOMAIN todo' = 1..(Len(todo) - 1)
        /\ \A i \in 1..(Len(todo) - 1) : todo'[i] = todo[i + 1]
    BY <1>1, <2>1
  <2>3. \A i \in DOMAIN todo : FrameOK(todo[i])
    BY Zenon DEF IInv, Shapes
  <2>4. \A i \in 1..(Len(todo) - 1) : i + 1 \in DOMAIN todo
    BY <2>1
  <2> QED BY <2>1, <2>2, <2>3, <2>4
<1>3. f.name \in Name /\ f.tag \in Tag
  BY <1>2, Zenon DEF FrameOK, Frame
<1>4. CASE f.tag = "P" /\ PlanParse(f, NewKey(f.name))
  <2> DEFINE k == NewKey(f.name)
             sent_frame == [tag |-> "P", key |-> k, query |-> f.query, want |-> None]
  <2>1. f.query \in Query
    BY <1>2, <1>4, Zenon DEF FrameOK
  <2>2. /\ k \in Nat /\ (k = 0 <=> f.name = Unnamed) /\ k \in {0, next}
        /\ next \in Nat \ {0}
    BY Zenon DEF NewKey, IInv, Shapes
  <2>3. /\ stmts' = [stmts EXCEPT ![f.name] = [key |-> k, query |-> f.query]]
        /\ next' = IF f.name = Unnamed THEN next ELSE next + 1
        /\ out' = out \o <<sent_frame>>
        /\ meant' = [meant EXCEPT ![f.name] = f.query]
        /\ issued' = IF k = 0 THEN issued ELSE issued \cup {[key |-> k, query |-> f.query]}
    BY <1>4, Zenon DEF PlanParse, Emit
  <2> HIDE DEF k
  <2>4. issued \subseteq issued'
    BY <2>3, Zenon
  <2>5. sent_frame \in BackendFrame
    BY <2>1, <2>2, Zenon DEF BackendFrame, Tag
  <2>6. Issued'
    BY <2>1, <2>2, <2>3 DEF IInv, Issued
  <2>7. \A g : FrameAgrees(g) => FrameAgrees(g)'
    BY <2>4, Zenon DEF FrameAgrees, Agrees
  <2>8. \A g : g = sent_frame => FrameAgrees(g)'
    BY <2>1, <2>2, <2>3 DEF FrameAgrees, Agrees
  <2>9. Shapes'
    <3>1. next' \in Nat \ {0} /\ stmts' \in [Name -> [key : Nat, query : Query \cup {None}]]
          /\ meant' \in [Name -> Query \cup {None}]
      BY <2>1, <2>2, <2>3, <1>3 DEF IInv, Shapes
    <3>2. out' \in Seq(BackendFrame)
      BY <2>3, <2>5 DEF IInv, Shapes
    <3> QED BY <1>1, <1>2, <3>1, <3>2 DEF IInv, Shapes
  <2>10. CatalogAgrees'
    <3> SUFFICES ASSUME NEW n \in Name
                 PROVE  /\ n = Unnamed => stmts'[n].key = 0
                        /\ n # Unnamed /\ stmts'[n] # NoStatement =>
                              stmts'[n].key # 0
                              /\ [key |-> stmts'[n].key, query |-> meant'[n]] \in issued'
                              /\ meant'[n] = stmts'[n].query
      BY Zenon DEF CatalogAgrees, Agrees
    <3>1. CASE n = f.name
      BY <3>1, <2>2, <2>3, Zenon DEF IInv, Shapes
    <3>2. CASE n # f.name
      BY <3>2, <2>3, <2>4, Zenon DEF IInv, Shapes, CatalogAgrees, Agrees
    <3> QED BY <3>1, <3>2
  <2>11. OutAgrees'
    <3>1. \A i \in DOMAIN out' : (i \in DOMAIN out /\ out'[i] = out[i]) \/ out'[i] = sent_frame
      BY <2>3, <2>5 DEF IInv, Shapes
    <3> QED BY <3>1, <2>7, <2>8 DEF IInv, OutAgrees
  <2>12. InboxAgrees' /\ ServerAgrees' /\ BindMeaning'
    BY <1>1, <2>4, <2>7, Zenon DEF IInv, InboxAgrees, ServerAgrees, Agrees, BindMeaning
  <2> QED BY <2>6, <2>9, <2>10, <2>11, <2>12 DEF IInv
<1>5. CASE f.tag \in {"B", "D"} /\ PlanUse(f)
  <2> DEFINE k == stmts[f.name].key
             q == stmts[f.name].query
             prelude == Prelude(k, q)
             used == [tag |-> f.tag, key |-> k, query |-> None, want |-> meant[f.name]]
             parse == [tag |-> "P", key |-> k, query |-> q, want |-> None]
  <2>1. Fixed /\ out' = out \o Append(prelude, used) /\ Known(f.name)
    BY <1>5, Zenon DEF PlanUse, Emit, Fixed
  <2>2. k \in Nat /\ q \in Query \cup {None} /\ meant[f.name] \in Query \cup {None}
    BY <1>3, Zenon DEF IInv, Shapes
  <2>3. k # 0 => Agrees(k, meant[f.name]) /\ meant[f.name] = q /\ q \in Query
    BY <1>3, <2>1, <2>2, Zenon DEF IInv, CatalogAgrees, Known, Issued, Agrees
  <2>4. used \in BackendFrame /\ FrameAgrees(used)
    BY <1>3, <1>5, <2>2, <2>3, Zenon DEF BackendFrame, FrameAgrees, Tag
  <2>5. prelude = <<>> \/ (prelude = <<parse>> /\ parse \in BackendFrame /\ FrameAgrees(parse))
    <3>1. CASE k = 0
      BY <3>1, Zenon DEF Prelude, IsMaterialized
    <3>2. CASE k # 0
      BY <3>2, <2>2, <2>3, Zenon DEF Prelude, BackendFrame, FrameAgrees, Tag
    <3> QED BY <3>1, <3>2
  <2> HIDE DEF used, parse, prelude
  <2>6. /\ out' \in Seq(BackendFrame)
        /\ \A i \in DOMAIN out' : (i \in DOMAIN out /\ out'[i] = out[i])
                                   \/ out'[i] = used \/ (prelude = <<parse>> /\ out'[i] = parse)
    <3>1. CASE prelude = <<>>
      BY <3>1, <2>1, <2>4 DEF IInv, Shapes
    <3>2. CASE prelude = <<parse>> /\ parse \in BackendFrame
      <4> DEFINE both == Append(<<parse>>, used)
      <4>1. both \in Seq(BackendFrame) /\ Len(both) = 2 /\ both[1] = parse /\ both[2] = used
        BY <3>2, <2>4
      <4>2. out \in Seq(BackendFrame) /\ out' = out \o both
        BY <3>2, <2>1, Zenon DEF IInv, Shapes
      <4> HIDE DEF both
      <4>3. /\ out' \in Seq(BackendFrame) /\ DOMAIN out' = 1..(Len(out) + 2)
            /\ DOMAIN out = 1..Len(out) /\ Len(out) \in Nat
            /\ \A i \in 1..Len(out) : out'[i] = out[i]
            /\ out'[Len(out) + 1] = both[1] /\ out'[Len(out) + 2] = both[2]
        BY <4>1, <4>2, Concat
      <4>4. \A i \in DOMAIN out' : i \in 1..Len(out) \/ i = Len(out) + 1 \/ i = Len(out) + 2
        BY <4>3
      <4> QED BY <4>1, <4>3, <4>4, <3>2
    <3> QED BY <2>5, <3>1, <3>2
  <2>7. Shapes'
    BY <1>1, <1>2, <2>1, <2>6, Zenon DEF IInv, Shapes, Fixed
  <2>8. OutAgrees'
    BY <2>1, <2>4, <2>5, <2>6, FixedKeeps DEF IInv, OutAgrees
  <2>9. InboxAgrees' /\ ServerAgrees' /\ BindMeaning'
    BY <1>1, <2>1, UntouchedAgree, Zenon
  <2> QED BY <2>1, <2>7, <2>8, <2>9, FixedKeeps DEF IInv
<1>6. CASE f.tag = "C" /\ PlanClose(f)
  <2> DEFINE closed == [tag |-> "C", key |-> stmts[f.name].key, query |-> None, want |-> None]
  <2>1. /\ stmts' = [stmts EXCEPT ![f.name] = NoStatement]
        /\ meant' = [meant EXCEPT ![f.name] = None]
        /\ UNCHANGED <<next, issued>> /\ out' = out \o <<closed>>
    BY <1>6, Zenon DEF PlanClose, Emit
  <2>2. closed \in BackendFrame /\ FrameAgrees(closed)
    BY <1>3, Zenon DEF IInv, Shapes, BackendFrame, FrameAgrees, Tag
  <2> HIDE DEF closed
  <2>3. Shapes'
    <3>1. out' \in Seq(BackendFrame)
      BY <2>1, <2>2 DEF IInv, Shapes
    <3> QED BY <1>1, <1>2, <1>3, <2>1, <3>1 DEF IInv, Shapes, NoStatement
  <2>4. Issued' /\ CatalogAgrees'
    BY <1>3, <2>1, Zenon DEF IInv, Shapes, Issued, CatalogAgrees, Agrees, NoStatement
  <2>5. \A g : FrameAgrees(g) => FrameAgrees(g)'
    BY <2>1, Zenon DEF FrameAgrees, Agrees
  <2>6. OutAgrees'
    <3>1. \A i \in DOMAIN out' : (i \in DOMAIN out /\ out'[i] = out[i]) \/ out'[i] = closed
      BY <2>1, <2>2 DEF IInv, Shapes
    <3> QED BY <3>1, <2>2, <2>5 DEF IInv, OutAgrees
  <2>7. InboxAgrees' /\ ServerAgrees' /\ BindMeaning'
    BY <1>1, <2>1, <2>5, Zenon DEF IInv, InboxAgrees, ServerAgrees, Agrees, BindMeaning
  <2> QED BY <2>3, <2>4, <2>6, <2>7 DEF IInv
<1>7. CASE PlanOther(f)
  <2> DEFINE passed == [tag |-> f.tag, key |-> IF f.name = Unnamed THEN 0 ELSE Raw,
                        query |-> f.query, want |-> None]
  <2>1. Fixed /\ out' = out \o <<passed>> /\ f.tag # "P"
    BY <1>7, Zenon DEF PlanOther, Emit, Fixed, catalog
  <2>2. passed \in BackendFrame /\ FrameAgrees(passed)
    BY <1>2, <2>1, Zenon DEF BackendFrame, FrameAgrees, FrameOK, Frame
  <2> HIDE DEF passed
  <2>3. Shapes'
    <3>1. out' \in Seq(BackendFrame)
      BY <2>1, <2>2 DEF IInv, Shapes
    <3> QED BY <1>1, <1>2, <2>1, <3>1 DEF IInv, Shapes, Fixed
  <2>4. OutAgrees'
    <3>1. \A i \in DOMAIN out' : (i \in DOMAIN out /\ out'[i] = out[i]) \/ out'[i] = passed
      BY <2>1, <2>2 DEF IInv, Shapes
    <3> QED BY <3>1, <2>1, <2>2, FixedKeeps DEF IInv, OutAgrees
  <2>5. InboxAgrees' /\ ServerAgrees' /\ BindMeaning'
    BY <1>1, <2>1, UntouchedAgree, Zenon
  <2> QED BY <2>1, <2>3, <2>4, <2>5, FixedKeeps DEF IInv
<1> QED BY <1>4, <1>5, <1>6, <1>7 DEF PlanFrame

(* The statement found under a key is one the backend has under that key.  *)
LEMMA AtIsThere ==
    ASSUME NEW b, NEW k, Has(b, k)
    PROVE  At(b, k) \in on[b] /\ At(b, k).key = k
  BY Zenon DEF Has, At

(* The server executes a frame.                                            *)
LEMMA ServeKeeps ==
    ASSUME IInv, NEW b \in Backend, Serve(b)
    PROVE  IInv'
<1> DEFINE f == Head(inbox[b])
<1>1. /\ Fixed /\ UNCHANGED <<buffer, todo, out>>
      /\ inbox[b] # <<>> /\ inbox' = [inbox EXCEPT ![b] = Tail(@)]
  BY Zenon DEF Serve, Fixed, catalog
<1>2. \/ UNCHANGED <<on, bound>>
      \/ /\ on' = [on EXCEPT ![b] = StatementsAfter(b, f, Code(b, f))]
         /\ bound' = IF f.tag = "B" /\ f.key # 0 /\ Has(b, f.key)
                     THEN [want |-> f.want, got |-> At(b, f.key).query] ELSE bound
  BY Zenon DEF Serve
<1>3. f \in BackendFrame /\ FrameAgrees(f)
  <2>1. inbox[b] \in Seq(BackendFrame) /\ 1 \in DOMAIN inbox[b] /\ f = inbox[b][1]
    BY <1>1 DEF IInv, Shapes
  <2> QED BY <2>1 DEF IInv, InboxAgrees
<1>4. inbox' \in [Backend -> Seq(BackendFrame)] /\ InboxAgrees'
  <2>1. inbox[b] \in Seq(BackendFrame) /\ Tail(inbox[b]) \in Seq(BackendFrame)
    BY <1>1 DEF IInv, Shapes
  <2>2. inbox' \in [Backend -> Seq(BackendFrame)]
    BY <1>1, <2>1, Zenon DEF IInv, Shapes
  <2>3. \A i \in DOMAIN Tail(inbox[b]) : i + 1 \in DOMAIN inbox[b]
                                         /\ Tail(inbox[b])[i] = inbox[b][i + 1]
    BY <1>1, <2>1
  <2>4. \A i \in DOMAIN Tail(inbox[b]) : FrameAgrees(Tail(inbox[b])[i])
    BY <2>3, Zenon DEF IInv, InboxAgrees
  <2>5. \A g : FrameAgrees(g) => FrameAgrees(g)'
    BY <1>1, Zenon DEF FrameAgrees, Agrees, Fixed
  <2>6. ASSUME NEW c \in Backend, NEW i \in DOMAIN inbox'[c]
        PROVE  FrameAgrees(inbox'[c][i])
    <3>1. CASE c = b
      BY <3>1, <1>1, <2>4, Zenon DEF IInv, Shapes
    <3>2. CASE c # b
      BY <3>2, <1>1, Zenon DEF IInv, Shapes, InboxAgrees
    <3> QED BY <3>1, <3>2
  <2> QED BY <2>2, <2>5, <2>6 DEF InboxAgrees
<1>5. CASE UNCHANGED <<on, bound>>
  <2>1. Shapes'
    BY <1>1, <1>4, <1>5, Zenon DEF IInv, Shapes, Fixed
  <2> QED BY <1>1, <1>4, <1>5, <2>1, FixedKeeps, UntouchedAgree DEF IInv
<1>6. CASE /\ on' = [on EXCEPT ![b] = StatementsAfter(b, f, Code(b, f))]
           /\ bound' = IF f.tag = "B" /\ f.key # 0 /\ Has(b, f.key)
                       THEN [want |-> f.want, got |-> At(b, f.key).query] ELSE bound
  <2> DEFINE new == [key |-> f.key, query |-> f.query, stale |-> FALSE]
             after == StatementsAfter(b, f, Code(b, f))
  <2>1. \A s \in after : s \in on[b] \/ (f.tag = "P" /\ s = new)
    BY Zenon DEF StatementsAfter, Without
  <2>2. f.tag = "P" => /\ new \in [key : Nat, query : Query \cup {Foreign}, stale : BOOLEAN]
                       /\ new.key # 0 => Agrees(new.key, new.query)
    BY <1>3, Zenon DEF FrameAgrees, BackendFrame
  <2>3. on[b] \subseteq [key : Nat, query : Query \cup {Foreign}, stale : BOOLEAN]
        /\ \A s \in on[b] : s.key # 0 => Agrees(s.key, s.query)
    BY Zenon DEF IInv, Shapes, ServerAgrees
  <2> HIDE DEF new, after
  <2>4. /\ after \subseteq [key : Nat, query : Query \cup {Foreign}, stale : BOOLEAN]
        /\ \A s \in after : s.key # 0 => Agrees(s.key, s.query)
    BY <2>1, <2>2, <2>3, Zenon
  <2>5. on' = [on EXCEPT ![b] = after]
    BY <1>6, Zenon DEF after
  <2>6. on' \in [Backend -> SUBSET [key : Nat, query : Query \cup {Foreign}, stale : BOOLEAN]]
    BY <2>4, <2>5, Zenon DEF IInv, Shapes
  <2>7. ServerAgrees'
    <3>1. \A c \in Backend : on'[c] = IF c = b THEN after ELSE on[c]
      BY <2>5, Zenon DEF IInv, Shapes
    <3> QED BY <1>1, <2>4, <3>1 DEF IInv, ServerAgrees, Agrees, Fixed
  <2>8. BindMeaning'
    <3>1. CASE f.tag = "B" /\ f.key # 0 /\ Has(b, f.key)
      <4> DEFINE s == At(b, f.key)
      <4>1. s \in on[b] /\ s.key = f.key
        BY <3>1, AtIsThere, Zenon
      <4> HIDE DEF s
      <4>2. f.key # Raw /\ Agrees(f.key, s.query)
        BY <3>1, <4>1, <2>3 DEF Raw
      <4>3. Agrees(f.key, f.want)
        BY <3>1, <4>2, <1>3, Zenon DEF FrameAgrees
      <4>4. f.want = s.query
        BY <4>2, <4>3, Zenon DEF IInv, Issued, Agrees
      <4>5. bound' = [want |-> f.want, got |-> s.query]
        BY <1>6, <3>1, Zenon DEF s
      <4> QED BY <4>4, <4>5 DEF BindMeaning
    <3>2. CASE ~(f.tag = "B" /\ f.key # 0 /\ Has(b, f.key))
      BY <1>6, <3>2, Zenon DEF IInv, BindMeaning
    <3> QED BY <3>1, <3>2
  <2>9. Shapes'
    BY <1>1, <1>4, <2>6, Zenon DEF IInv, Shapes, Fixed
  <2> QED BY <1>1, <1>4, <2>7, <2>8, <2>9, FixedKeeps, UntouchedAgree DEF IInv
<1> QED BY <1>2, <1>5, <1>6

(* What the session reads, and the timeout, leave the names alone; the     *)
(* timeout empties the backend it discards.                                *)
LEMMA ReadBackendKeeps ==
    ASSUME IInv, NEW m, ReadBackend(m)
    PROVE  IInv'
<1>1. Fixed /\ UNCHANGED <<buffer, todo, out, on, inbox, bound>>
  BY Zenon DEF ReadBackend, Fixed
<1>2. Shapes'
  BY <1>1, Zenon DEF IInv, Shapes, Fixed
<1> QED BY <1>1, <1>2, FixedKeeps, UntouchedAgree DEF IInv

(* See ReadBackendKeeps.                                                   *)
LEMMA QueryTimeoutKeeps ==
    ASSUME IInv, QueryTimeout
    PROVE  IInv'
<1>1. /\ Fixed /\ UNCHANGED <<buffer, todo, out, bound>>
      /\ on' = [on EXCEPT ![held] = {}] /\ inbox' = [inbox EXCEPT ![held] = <<>>]
  BY Zenon DEF QueryTimeout, Fixed, catalog
<1>2. \A b \in Backend : on'[b] \subseteq on[b] /\ inbox'[b] \in {inbox[b], <<>>}
  BY <1>1, Zenon DEF IInv, Shapes
<1>3. Shapes'
  <2>1. inbox' \in [Backend -> Seq(BackendFrame)]
    <3>1. inbox \in [Backend -> Seq(BackendFrame)] /\ <<>> \in Seq(BackendFrame)
      BY DEF IInv, Shapes
    <3> QED BY <1>1, <3>1
  <2>2. on' \in [Backend -> SUBSET [key : Nat, query : Query \cup {Foreign}, stale : BOOLEAN]]
    BY <1>1, Zenon DEF IInv, Shapes
  <2> QED BY <1>1, <2>1, <2>2 DEF IInv, Shapes, Fixed
<1>4. InboxAgrees' /\ ServerAgrees'
  BY <1>1, <1>2, FixedKeeps DEF IInv, InboxAgrees, ServerAgrees, Agrees, Fixed
<1> QED BY <1>1, <1>3, <1>4, FixedKeeps, UntouchedAgree DEF IInv

(* Others change a backend's statements, never under a key of this session *)
(* except to drop it.                                                      *)
LEMMA TouchKeeps ==
    ASSUME IInv, NEW b \in Backend, NEW S, Touch(b, S),
           S \subseteq [key : Nat, query : Query \cup {Foreign}, stale : BOOLEAN],
           \A s \in S : s.key # 0 => Agrees(s.key, s.query)
    PROVE  IInv'
<1>1. Fixed /\ UNCHANGED <<buffer, todo, out, inbox, bound>> /\ on' = [on EXCEPT ![b] = S]
  BY Zenon DEF Touch, Fixed, catalog
<1>2. on' \in [Backend -> SUBSET [key : Nat, query : Query \cup {Foreign}, stale : BOOLEAN]]
  BY <1>1, Zenon DEF IInv, Shapes
<1>3. ServerAgrees'
  <2>1. \A c \in Backend : on'[c] = IF c = b THEN S ELSE on[c]
    BY <1>1, Zenon DEF IInv, Shapes
  <2> QED BY <1>1, <2>1 DEF IInv, ServerAgrees, Agrees, Fixed
<1>4. Shapes'
  BY <1>1, <1>2, Zenon DEF IInv, Shapes, Fixed
<1> QED BY <1>1, <1>3, <1>4, FixedKeeps, UntouchedAgree DEF IInv

(* Every step of the system preserves the invariant.                       *)
THEOREM NextKeeps == IInv /\ [Next]_vars => IInv'
<1> SUFFICES ASSUME IInv, [Next]_vars PROVE IInv'
  BY Zenon
<1> USE DEF NoStatement
<1>1. CASE \E batch \in Batches : ClientSends(batch)
  BY <1>1, ClientSendsKeeps, Zenon
<1>2. CASE \E b \in Backend, i \in 1..Len(buffer) : TakeCycle(b, i)
  BY <1>2, TakeCycleKeeps, Zenon
<1>3. CASE PlanFrame
  BY <1>3, PlanFrameKeeps, Zenon
<1>4. CASE SendCycle
  BY <1>4, SendCycleKeeps, Zenon
<1>5. CASE \E b \in Backend : Serve(b)
  BY <1>5, ServeKeeps, Zenon
<1>6. CASE held # None /\ \E m \in 1..Len(srv[held].outbox) : ReadBackend(m)
  BY <1>6, ReadBackendKeeps, Zenon
<1>7. CASE QueryTimeout
  BY <1>7, QueryTimeoutKeeps, Zenon
<1>8. ASSUME NEW b \in Backend, OtherParses(b) \/ OtherResets(b) \/ SchemaChange(b)
      PROVE  IInv'
  <2>1. on[b] \subseteq [key : Nat, query : Query \cup {Foreign}, stale : BOOLEAN]
        /\ \A s \in on[b] : s.key # 0 => Agrees(s.key, s.query)
    BY Zenon DEF IInv, Shapes, ServerAgrees
  <2>2. CASE OtherParses(b)
    <3> DEFINE S == Without(b, 0) \cup {[key |-> 0, query |-> Foreign, stale |-> FALSE]}
    <3>1. S \subseteq [key : Nat, query : Query \cup {Foreign}, stale : BOOLEAN]
          /\ \A s \in S : s.key # 0 => Agrees(s.key, s.query)
      <4>1. Without(b, 0) \subseteq on[b]
        BY Zenon DEF Without
      <4> DEFINE own == [key |-> 0, query |-> Foreign, stale |-> FALSE]
      <4>2. own \in [key : Nat, query : Query \cup {Foreign}, stale : BOOLEAN] /\ own.key = 0
        BY Zenon
      <4> HIDE DEF own
      <4>3. S = Without(b, 0) \cup {own}
        BY Zenon DEF own
      <4> QED BY <2>1, <4>1, <4>2, <4>3
    <3>2. Touch(b, S)
      BY <2>2, Zenon DEF OtherParses
    <3> HIDE DEF S
    <3> QED BY <3>1, <3>2, TouchKeeps
  <2>3. CASE OtherResets(b)
    <3>1. Touch(b, {})
      BY <2>3, Zenon DEF OtherResets
    <3> QED BY <3>1, TouchKeeps
  <2>4. CASE SchemaChange(b)
    <3> DEFINE S == {[s EXCEPT !.stale = TRUE] : s \in on[b]}
    <3>1. S \subseteq [key : Nat, query : Query \cup {Foreign}, stale : BOOLEAN]
          /\ \A s \in S : s.key # 0 => Agrees(s.key, s.query)
      BY <2>1, Zenon
    <3>2. Touch(b, S)
      BY <2>4, Zenon DEF SchemaChange
    <3> HIDE DEF S
    <3> QED BY <3>1, <3>2, TouchKeeps
  <2> QED BY <1>8, <2>2, <2>3, <2>4
<1>9. CASE UNCHANGED vars
  <2>1. Fixed /\ UNCHANGED <<buffer, todo, out, inbox, on, bound>>
    BY <1>9, Zenon DEF vars, Fixed, catalog, server
  <2>2. Shapes'
    BY <2>1, Zenon DEF IInv, Shapes, Fixed
  <2> QED BY <2>1, <2>2, FixedKeeps, UntouchedAgree DEF IInv
<1> QED BY <1>1, <1>2, <1>3, <1>4, <1>5, <1>6, <1>7, <1>8, <1>9 DEF Next

(* For every set of names, queries, backends and clients' batches: a Bind  *)
(* of a named statement that a backend accepts binds the query the client  *)
(* last gave that name, however its statements were re-prepared, replaced  *)
(* or forgotten by prepare_frame_for_backend and the catalog.              *)
THEOREM PreparedMeaning == Spec => []BindMeaning
<1>1. IInv => BindMeaning
  BY Zenon DEF IInv
<1> QED BY <1>1, InitAgrees, NextKeeps, PTL DEF Spec
=============================================================================
