------------------------------ MODULE AfterProofs ------------------------------
(***************************************************************************)
(* For every set of widgets and objects, every number of ids and every     *)
(* nesting: the three structures that name a pending callback agree, and a *)
(* callback stops when it is cancelled or its widget is gone, but for the  *)
(* provisos that CancelStops and AutoCancelled state.                      *)
(***************************************************************************)
EXTENDS After, TLAPS

USE MaxIdAssumption, MaxDepthAssumption

-----------------------------------------------------------------------------
LEMMA TkAfterFields ==
    ASSUME NEW f \in TkAfter
    PROVE  /\ f.class \in {"After", "Cancelled"} /\ f.w \in Widget
           /\ f.id \in Id \union {undef} /\ f.method \in {"once", "repeat"}
           /\ f # Unborn
           /\ \A n \in Id \union {undef} :
                 /\ [f EXCEPT !.id = n] \in TkAfter
                 /\ [f EXCEPT !.id = n].id = n
                 /\ [f EXCEPT !.id = n].w = f.w
                 /\ [f EXCEPT !.id = n].class = f.class
                 /\ [f EXCEPT !.id = n].method = f.method
           /\ /\ [f EXCEPT !.class = "Cancelled", !.id = undef] \in TkAfter
              /\ [f EXCEPT !.class = "Cancelled", !.id = undef].id = undef
              /\ [f EXCEPT !.class = "Cancelled", !.id = undef].w = f.w
              /\ [f EXCEPT !.class = "Cancelled", !.id = undef].class = "Cancelled"
<1>1. /\ f.class \in {"After", "Cancelled"} /\ f.w \in Widget
      /\ f.id \in Id \union {undef} /\ f.method \in {"once", "repeat"}
  BY DEF TkAfter
<1>2. f # Unborn
  BY <1>1 DEF Unborn
<1>3. ASSUME NEW n \in Id \union {undef}
      PROVE  /\ [f EXCEPT !.id = n] \in TkAfter
             /\ [f EXCEPT !.id = n].id = n
             /\ [f EXCEPT !.id = n].w = f.w
             /\ [f EXCEPT !.id = n].class = f.class
             /\ [f EXCEPT !.id = n].method = f.method
  BY DEF TkAfter
<1>4. /\ [f EXCEPT !.class = "Cancelled", !.id = undef] \in TkAfter
      /\ [f EXCEPT !.class = "Cancelled", !.id = undef].id = undef
      /\ [f EXCEPT !.class = "Cancelled", !.id = undef].w = f.w
      /\ [f EXCEPT !.class = "Cancelled", !.id = undef].class = "Cancelled"
  BY DEF TkAfter
<1> QED
  BY <1>1, <1>2, <1>3, <1>4

LEMMA InfoFields ==
    ASSUME NEW n \in Id, NEW o \in Obj
    PROVE  /\ [id |-> n, obj |-> o] \in AfterInfo
           /\ [id |-> n, obj |-> o].id = n
           /\ [id |-> n, obj |-> o].obj = o
  BY DEF AfterInfo

\* An object that exists has the fields of a Tk::After object.
LEMMA BornFields ==
    ASSUME TypeOK, NEW o \in Obj, Born(o)
    PROVE  obj[o] \in TkAfter
  BY DEF TypeOK, Born

\* What the invariant says of the owner of a pending callback.
LEMMA OwnerFacts ==
    ASSUME Inductive, NEW i \in infos
    PROVE  /\ i \in AfterInfo /\ i.obj \in Obj /\ i.id \in Id /\ i.id <= afterId
           /\ Born(i.obj) /\ obj[i.obj] \in TkAfter
           /\ obj[i.obj].w \in Widget
<1>1. i \in AfterInfo /\ i.obj \in Obj /\ i.id \in Id
  BY DEF Inductive, TypeOK, AfterInfo
<1>2. Born(i.obj) /\ i.id <= afterId
  BY DEF Inductive, InfosAreOwned
<1>3. obj[i.obj] \in TkAfter
  BY <1>1, <1>2, BornFields DEF Inductive
<1> QED
  BY <1>1, <1>2, <1>3, TkAfterFields

\* The method submit keeps the invariant when the callback it replaces, if there
\* is one, was the only one of the object.
LEMMA SubmitKeeps ==
    ASSUME Inductive,
           NEW o \in Obj, NEW f \in TkAfter, f.class = "After",
           NEW pending \in SUBSET infos,
           \A i \in infos : i \in pending <=> i.obj # o,
           \A w \in Widget : \A e \in entries[w] :
               IF e.obj = o THEN w = f.w /\ e.id = f.id ELSE e.id # f.id,
           f.id # undef => exists[f.w],
           Submit(o, f, pending),
           phase' = phase, peeked' = peeked,
           late \subseteq late', late' \subseteq Obj,
           hook'[f.w] \/ f.w \in peeked \/ o \in late',
           stack' \in Seq(Frame)
    PROVE  Inductive'
<1> DEFINE info == [id |-> afterId + 1, obj |-> o]
           new == [f EXCEPT !.id = afterId + 1]
<1>1. afterId + 1 \in Id /\ afterId \in Nat /\ afterId' = afterId + 1 /\ afterId + 1 # undef
  BY DEF Submit, Inductive, TypeOK, Id, undef
<1>2. /\ info \in AfterInfo /\ info.id = afterId + 1 /\ info.obj = o
      /\ new \in TkAfter /\ new.id = afterId + 1 /\ new.w = f.w /\ new.class = "After"
      /\ f.w \in Widget /\ new # Unborn /\ new.method = f.method
  <2>1. info \in AfterInfo /\ info.id = afterId + 1 /\ info.obj = o
    BY <1>1, InfoFields
  <2>2. /\ new \in TkAfter /\ new.id = afterId + 1 /\ new.w = f.w
        /\ new.class = "After" /\ new.method = f.method
    BY <1>1 DEF TkAfter
  <2>3. new # Unborn /\ f.w \in Widget
    BY <2>2, TkAfterFields
  <2> QED
    BY <2>1, <2>2, <2>3
<1>3. /\ infos' = pending \union {info}
      /\ entries' = [entries EXCEPT ![f.w] = Without(entries[f.w], f.id) \union {info}]
      /\ exists' = [exists EXCEPT ![f.w] = TRUE]
      /\ obj' = [obj EXCEPT ![o] = new]
  BY DEF Submit
<1> HIDE DEF info, new
<1>4. /\ obj'[o] = new
      /\ \A p \in Obj : p # o => obj'[p] = obj[p]
      /\ \A p \in Obj : Born(p)' <=> p = o \/ Born(p)
  BY <1>2, <1>3 DEF Inductive, TypeOK, Born
<1>5. /\ exists'[f.w]
      /\ \A w \in Widget : exists[w] => exists'[w]
      /\ \A w \in Widget : w # f.w => exists'[w] = exists[w]
  BY <1>2, <1>3 DEF Inductive, TypeOK
<1>6. /\ \A w \in Widget : hook[w] => hook'[w]
      /\ \A w \in Widget : w # f.w => hook'[w] = hook[w]
      /\ hook' \in [Widget -> BOOLEAN]
      /\ ~exists[f.w] /\ Exists(f.w) => hook'[f.w]
      /\ phase[f.w] = "gone" => hook'[f.w] = hook[f.w]
  BY <1>2 DEF Submit, Inductive, TypeOK, Exists
<1>7. \A w \in Widget : \A e \in entries'[w] :
         \/ e = info /\ w = f.w
         \/ e \in entries[w] /\ e.obj # o
  <2>1. ASSUME NEW w \in Widget, NEW e \in entries'[w], ~ (e = info /\ w = f.w)
        PROVE  e \in entries[w] /\ e.obj # o
    <3>1. e \in entries[w] /\ (w = f.w => e.id # f.id)
      BY <1>2, <1>3, <2>1 DEF Inductive, TypeOK, Without
    <3> QED
      BY <3>1
  <2> QED
    BY <2>1
<1>8. \A w \in Widget : \A e \in entries[w] : e.obj # o => e \in entries'[w]
  BY <1>2, <1>3 DEF Inductive, TypeOK, Without
<1>9. info \in entries'[f.w]
  BY <1>2, <1>3 DEF Inductive, TypeOK
<1>10. \A i \in infos' : i = info \/ (i \in infos /\ i.obj # o)
  BY <1>3
<1>11. \A i \in infos : i.obj # o => i \in infos'
  BY <1>3
<1>12. \A w \in Widget : Exists(w)' <=> Exists(w)
  BY DEF Exists
<1>13. TypeOK'
  <2>1. infos' \subseteq AfterInfo
    BY <1>2, <1>10 DEF Inductive, TypeOK
  <2>2. entries' \in [Widget -> SUBSET AfterInfo]
    BY <1>2, <1>3 DEF Inductive, TypeOK, Without
  <2>3. /\ exists' \in [Widget -> BOOLEAN]
        /\ obj' \in [Obj -> TkAfter \union {Unborn}]
        /\ afterId' \in 0 .. MaxId
    BY <1>1, <1>2, <1>3 DEF Inductive, TypeOK, Id
  <2> QED
    BY <1>6, <2>1, <2>2, <2>3 DEF Inductive, TypeOK
<1>14. EntriesArePending'
  <2>1. ASSUME NEW w \in Widget, NEW e \in entries'[w]
        PROVE  /\ e \in infos' /\ exists'[w] /\ obj'[e.obj].class = "After"
               /\ obj'[e.obj].w = w /\ obj'[e.obj].id = e.id
    <3>1. CASE e = info /\ w = f.w
      BY <1>2, <1>3, <1>4, <1>5, <3>1
    <3>2. CASE e \in entries[w] /\ e.obj # o
      <4>1. /\ e \in infos /\ exists[w] /\ obj[e.obj].class = "After"
            /\ obj[e.obj].w = w /\ obj[e.obj].id = e.id
        BY <3>2 DEF Inductive, EntriesArePending
      <4>2. e.obj \in Obj
        BY <4>1, OwnerFacts
      <4> QED
        BY <1>4, <1>5, <1>11, <3>2, <4>1, <4>2
    <3> QED
      BY <1>7, <3>1, <3>2
  <2> QED
    BY <2>1 DEF EntriesArePending
<1>15. InfosAreOwned'
  <2>1. ASSUME NEW i \in infos'
        PROVE  /\ Born(i.obj)' /\ i.id <= afterId'
               /\ obj'[i.obj].id \in {undef, i.id}
               /\ obj'[i.obj].id = undef => phase'[obj'[i.obj].w] # "alive"
    <3>1. CASE i = info
      BY <1>1, <1>2, <1>4, <3>1
    <3>2. CASE i \in infos /\ i.obj # o
      <4>1. i.obj \in Obj /\ i.id \in Id /\ obj[i.obj].w \in Widget
        BY <3>2, OwnerFacts
      <4>2. /\ Born(i.obj) /\ i.id <= afterId /\ obj[i.obj].id \in {undef, i.id}
            /\ obj[i.obj].id = undef => phase[obj[i.obj].w] # "alive"
        BY <3>2 DEF Inductive, InfosAreOwned, Exists
      <4>3. i.id <= afterId'
        BY <1>1, <4>1, <4>2 DEF Id
      <4> QED
        BY <1>4, <3>2, <4>1, <4>2, <4>3
    <3> QED
      BY <1>10, <3>1, <3>2
  <2> QED
    BY <2>1 DEF InfosAreOwned, Exists
<1>16. UnlistedAreLate'
  <2>1. ASSUME NEW i \in infos', obj'[i.obj].class = "After"
        PROVE  IF obj'[i.obj].id = undef THEN i.obj \in late'
                                         ELSE i \in entries'[obj'[i.obj].w]
    <3>1. CASE i = info
      BY <1>1, <1>2, <1>4, <1>9, <3>1
    <3>2. CASE i \in infos /\ i.obj # o
      <4>1. i.obj \in Obj /\ obj[i.obj].w \in Widget
        BY <3>2, OwnerFacts
      <4>2. obj'[i.obj] = obj[i.obj]
        BY <1>4, <3>2, <4>1
      <4> QED
        BY <1>8, <2>1, <3>2, <4>1, <4>2 DEF Inductive, UnlistedAreLate
    <3> QED
      BY <1>10, <3>1, <3>2
  <2> QED
    BY <2>1 DEF UnlistedAreLate
<1>17. IdsAreOwned'
  <2>1. ASSUME NEW p \in Obj, Born(p)'
        PROVE  /\ obj'[p].id <= afterId'
               /\ obj'[p].class = "Cancelled" => obj'[p].id = undef
               /\ \A i \in infos' : i.id = obj'[p].id => i.obj = p
    <3>1. CASE p = o
      <4>1. ASSUME NEW i \in infos, i.obj # o  PROVE i.id # afterId + 1
        BY <1>1, <4>1, OwnerFacts DEF Id
      <4> QED
        BY <1>1, <1>2, <1>4, <1>10, <3>1, <4>1
    <3>2. CASE p # o
      <4>1. Born(p) /\ obj'[p] = obj[p]
        BY <1>4, <2>1, <3>2
      <4>2. /\ obj[p].id <= afterId
            /\ obj[p].class = "Cancelled" => obj[p].id = undef
            /\ \A i \in infos : i.id = obj[p].id => i.obj = p
        BY <4>1 DEF Inductive, IdsAreOwned
      <4>3. obj[p].id \in Nat
        <5>1. obj[p] \in TkAfter
          BY <4>1, BornFields DEF Inductive
        <5> QED
          BY <5>1 DEF TkAfter, Id, undef
      <4>4. obj[p].id <= afterId' /\ obj[p].id # afterId + 1
        BY <1>1, <4>2, <4>3
      <4> QED
        BY <1>2, <1>10, <4>1, <4>2, <4>4
    <3> QED
      BY <3>1, <3>2
  <2> QED
    BY <2>1 DEF IdsAreOwned
<1>18. HooksCover'
  <2>1. ASSUME NEW w \in Widget
        PROVE  /\ Exists(w)' /\ exists'[w] => hook'[w] \/ w \in peeked'
               /\ phase'[w] = "gone" => ~hook'[w]
    <3>1. CASE w = f.w
      BY <1>6, <1>12, <3>1 DEF Inductive, HooksCover
    <3>2. CASE w # f.w
      BY <1>5, <1>6, <1>12, <3>2 DEF Inductive, HooksCover
    <3> QED
      BY <3>1, <3>2
  <2>2. ASSUME NEW w \in Widget, NEW e \in entries'[w]
        PROVE  hook'[w] \/ w \in peeked' \/ e.obj \in late'
    <3>1. CASE e = info /\ w = f.w
      BY <1>2, <3>1
    <3>2. CASE e \in entries[w] /\ e.obj # o
      BY <1>6, <3>2 DEF Inductive, HooksCover
    <3> QED
      BY <1>7, <3>1, <3>2
  <2> QED
    BY <2>1, <2>2 DEF HooksCover
<1>19. RepeatGoesOn'
  <2>1. ASSUME NEW p \in Obj, Born(p)', obj'[p].class = "After",
               obj'[p].method = "repeat", obj'[p].id # undef
        PROVE  Pending(p)' = {[id |-> obj'[p].id, obj |-> p]}
    <3>1. CASE p = o
      <4>1. Pending(o)' = {info}
        BY <1>2, <1>3, <1>10 DEF Pending
      <4> QED
        BY <1>2, <1>4, <3>1, <4>1 DEF info
    <3>2. CASE p # o
      <4>1. Pending(p)' = Pending(p)
        BY <1>2, <1>10, <1>11, <3>2 DEF Pending
      <4>2. Born(p) /\ obj'[p] = obj[p]
        BY <1>4, <2>1, <3>2
      <4> QED
        BY <2>1, <4>1, <4>2 DEF Inductive, RepeatGoesOn
    <3> QED
      BY <3>1, <3>2
  <2> QED
    BY <2>1 DEF RepeatGoesOn
<1>20. PendingOnce'
  BY <1>2, <1>10 DEF Inductive, PendingOnce
<1> QED
  BY <1>13, <1>14, <1>15, <1>16, <1>17, <1>18, <1>19, <1>20 DEF Inductive

-----------------------------------------------------------------------------
\* The stack stays a sequence of frames.
LEMMA StackType ==
    ASSUME stack \in Seq(Frame)
    PROVE  /\ \A f \in Frame : Push(f) => /\ stack' \in Seq(Frame)
                                        /\ Len(stack') = Len(stack) + 1
                                        /\ Head(stack') = f
           /\ stack # <<>> => Tail(stack) \in Seq(Frame) /\ Len(Tail(stack)) = Len(stack) - 1
           /\ Len(stack) \in Nat
<1>1. ASSUME NEW f \in Frame, Push(f)
      PROVE  stack' \in Seq(Frame) /\ Len(stack') = Len(stack) + 1 /\ Head(stack') = f
  BY <1>1 DEF Push
<1>2. stack # <<>> => Tail(stack) \in Seq(Frame) /\ Len(Tail(stack)) = Len(stack) - 1
  OBVIOUS
<1>3. Len(stack) \in Nat
  OBVIOUS
<1> QED
  BY <1>1, <1>2, <1>3

\* The two kinds of frames.
LEMMA FrameKinds ==
    /\ \A o \in Obj : [call |-> o] \in Frame
    /\ \A w \in Widget : [destroy |-> w] \in Frame
    /\ \A o \in Obj, w \in Widget : [call |-> o] # [destroy |-> w]
    /\ \A o, p \in Obj : [call |-> o] = [call |-> p] => o = p
<1>1. /\ \A o \in Obj : [call |-> o] \in Frame
      /\ \A w \in Widget : [destroy |-> w] \in Frame
  BY DEF Frame
<1>2. ASSUME NEW o \in Obj, NEW w \in Widget
      PROVE  [call |-> o] # [destroy |-> w]
  <2>1. "call" \in DOMAIN [call |-> o] /\ "call" \notin DOMAIN [destroy |-> w]
    OBVIOUS
  <2> QED
    BY <2>1
<1>3. ASSUME NEW o \in Obj, NEW p \in Obj, [call |-> o] = [call |-> p]
      PROVE  o = p
  <2>1. [call |-> o].call = [call |-> p].call
    BY <1>3
  <2> QED
    BY <2>1
<1> QED
  BY <1>1, <1>2, <1>3

\* A step that changes neither the objects nor the callbacks, and takes no
\* widget, hash or hook back.
LEMMA SameObjectsKeeps ==
    ASSUME Inductive,
           UNCHANGED <<infos, afterId, obj, entries, hook, late>>,
           exists' \in [Widget -> BOOLEAN], phase' \in [Widget -> Phase],
           peeked' \subseteq Widget, stack' \in Seq(Frame),
           peeked \subseteq peeked',
           \A w \in Widget : exists[w] => exists'[w],
           \A w \in Widget : phase'[w] = "alive" => phase[w] = "alive",
           \A w \in Widget : exists'[w] => exists[w] \/ w \in peeked',
           \A w \in Widget : phase'[w] = "gone" => ~hook[w]
    PROVE  Inductive'
<1>1. TypeOK'
  BY DEF Inductive, TypeOK
<1>2. EntriesArePending'
  BY DEF Inductive, EntriesArePending
<1>3. InfosAreOwned'
  <2>1. ASSUME NEW i \in infos
        PROVE  /\ Born(i.obj) /\ i.id <= afterId /\ obj[i.obj].id \in {undef, i.id}
               /\ obj[i.obj].id = undef => phase'[obj[i.obj].w] # "alive"
    BY OwnerFacts DEF Inductive, InfosAreOwned, Exists
  <2> QED
    BY <2>1 DEF InfosAreOwned, Born, Exists
<1>4. UnlistedAreLate' /\ IdsAreOwned' /\ RepeatGoesOn' /\ PendingOnce'
  BY DEF Inductive, UnlistedAreLate, IdsAreOwned, RepeatGoesOn, PendingOnce, Pending, Born
<1>5. HooksCover'
  BY DEF Inductive, HooksCover, Exists
<1> QED
  BY <1>1, <1>2, <1>3, <1>4, <1>5 DEF Inductive

\* AfterProc takes a callback out of the list, and once out of the hash.
LEMMA UnlinkKeeps ==
    ASSUME Inductive, NEW i \in infos,
           \/ obj[i.obj].class = "Cancelled"
           \/ obj[i.obj].method = "once",
           infos' = infos \ {i},
           UNCHANGED <<afterId, obj, hook, phase, late, peeked>>,
           entries' \in [Widget -> SUBSET AfterInfo],
           \A w \in Widget : entries'[w] = entries[w] \ {i},
           exists' \in [Widget -> BOOLEAN],
           \A w \in Widget : exists[w] => exists'[w],
           \A w \in Widget : Exists(w) /\ exists'[w] => exists[w],
           stack' \in Seq(Frame)
    PROVE  Inductive'
<1>1. TypeOK'
  BY DEF Inductive, TypeOK
<1>2. EntriesArePending'
  BY DEF Inductive, EntriesArePending
<1>3. InfosAreOwned'
  BY DEF Inductive, InfosAreOwned, Born, Exists
<1>4. UnlistedAreLate'
  <2>1. ASSUME NEW j \in infos, j # i, obj[j.obj].class = "After"
        PROVE  IF obj[j.obj].id = undef THEN j.obj \in late
                                        ELSE j \in entries'[obj[j.obj].w]
    <3>1. obj[j.obj].w \in Widget
      BY OwnerFacts
    <3> QED
      BY <2>1, <3>1 DEF Inductive, UnlistedAreLate
  <2> QED
    BY <2>1 DEF UnlistedAreLate
<1>5. IdsAreOwned' /\ PendingOnce'
  BY DEF Inductive, IdsAreOwned, PendingOnce, Born
<1>6. HooksCover'
  BY DEF Inductive, HooksCover, Exists
<1>7. RepeatGoesOn'
  <2>1. ASSUME NEW o \in Obj, Born(o), obj[o].class = "After",
               obj[o].method = "repeat", obj[o].id # undef
        PROVE  Pending(o)' = {[id |-> obj[o].id, obj |-> o]}
    <3>1. i.obj # o
      BY <2>1
    <3>2. Pending(o)' = Pending(o)
      BY <3>1 DEF Pending
    <3> QED
      BY <2>1, <3>2 DEF Inductive, RepeatGoesOn
  <2> QED
    BY <2>1 DEF RepeatGoesOn, Born
<1> QED
  BY <1>1, <1>2, <1>3, <1>4, <1>5, <1>6, <1>7 DEF Inductive

-----------------------------------------------------------------------------
\* Initially there is nothing.
THEOREM InitInductive == Init => Inductive
<1> SUFFICES ASSUME Init
             PROVE  Inductive
  OBVIOUS
<1>1. TypeOK
  BY DEF Init, TypeOK, Phase, Frame
<1> QED
  BY <1>1 DEF Init, Inductive, EntriesArePending, InfosAreOwned, UnlistedAreLate,
              IdsAreOwned, HooksCover, RepeatGoesOn, PendingOnce, Born

LEMMA NewKeeps ==
    ASSUME Inductive, NEW o \in Obj, NEW w \in Widget, NEW method \in {"once", "repeat"},
           New(o, w, method)
    PROVE  Inductive'
<1> DEFINE f == [class |-> "After", w |-> w, id |-> undef, method |-> method]
<1>1. f \in TkAfter /\ f.class = "After" /\ f.w = w /\ f.id = undef
  BY DEF TkAfter
<1>2. /\ Submit(o, f, infos) /\ ~Born(o)
      /\ late' = IF Exists(w) \/ hook'[w] THEN late ELSE late \union {o}
      /\ UNCHANGED <<phase, stack, peeked>>
  BY DEF New
<1> HIDE DEF f
<1>3. \A i \in infos : i.obj # o
  BY <1>2, OwnerFacts
<1>4. \A v \in Widget : \A e \in entries[v] : e.obj # o /\ e.id # undef
  <2>1. ASSUME NEW v \in Widget, NEW e \in entries[v]
        PROVE  e.obj # o /\ e.id # undef
    <3>1. e \in infos
      BY DEF Inductive, EntriesArePending
    <3>2. e.id \in Id
      BY <3>1, OwnerFacts
    <3> QED
      BY <1>3, <3>1, <3>2 DEF Id, undef
  <2> QED
    BY <2>1
<1>5. hook'[w] \/ w \in peeked \/ o \in late'
  <2>1. CASE Exists(w)
    <3>1. exists[w] => hook[w] \/ w \in peeked
      BY <2>1 DEF Inductive, HooksCover
    <3>2. hook'[w] = (hook[w] \/ ~exists[w])
      BY <1>1, <1>2, <2>1 DEF Submit, Inductive, TypeOK, Exists
    <3>3. exists[w] \in BOOLEAN
      BY DEF Inductive, TypeOK
    <3> QED
      BY <3>1, <3>2, <3>3
  <2>2. CASE ~Exists(w)
    BY <1>2, <2>2
  <2> QED
    BY <2>1, <2>2
<1>6. late \subseteq late' /\ late' \subseteq Obj /\ stack' \in Seq(Frame)
  BY <1>2 DEF Inductive, TypeOK
<1> QED
  BY <1>1, <1>2, <1>3, <1>4, <1>5, <1>6, SubmitKeeps

LEMMA RunRepeatKeeps ==
    ASSUME Inductive, NEW i \in infos, RunRepeat(i)
    PROVE  Inductive'
<1> DEFINE o == i.obj
           f == obj[o]
<1>1. /\ i \in AfterInfo /\ o \in Obj /\ i.id \in Id /\ Born(o)
      /\ f \in TkAfter /\ f.w \in Widget
  BY OwnerFacts
<1>2. /\ f.class = "After" /\ Submit(o, f, infos \ {i}) /\ Push([call |-> o])
      /\ UNCHANGED <<phase, late, peeked>>
  BY DEF RunRepeat
<1> HIDE DEF o, f
<1>3. \A j \in infos : j \in infos \ {i} <=> j.obj # o
  BY DEF Inductive, PendingOnce, o
<1>4. \A v \in Widget : \A e \in entries[v] :
          IF e.obj = o THEN v = f.w /\ e.id = f.id ELSE e.id # f.id
  BY <1>1 DEF Inductive, EntriesArePending, IdsAreOwned, f
<1>5. f.id # undef => i \in entries[f.w]
  BY <1>2 DEF Inductive, UnlistedAreLate, o, f
<1>6. f.id # undef => exists[f.w]
  BY <1>1, <1>5 DEF Inductive, EntriesArePending
<1>7. hook'[f.w] \/ f.w \in peeked \/ o \in late'
  <2>1. CASE f.id = undef
    BY <1>2, <2>1 DEF Inductive, UnlistedAreLate, o, f
  <2>2. CASE f.id # undef
    <3>1. hook[f.w] \/ f.w \in peeked \/ o \in late
      BY <1>1, <1>5, <2>2 DEF Inductive, HooksCover, o
    <3>2. hook[f.w] => hook'[f.w]
      BY <1>1, <1>2 DEF Submit, Inductive, TypeOK
    <3> QED
      BY <1>2, <3>1, <3>2
  <2> QED
    BY <2>1, <2>2
<1>8. late \subseteq late' /\ late' \subseteq Obj
  BY <1>2 DEF Inductive, TypeOK
<1>9. stack' \in Seq(Frame)
  BY <1>1, <1>2, StackType, FrameKinds DEF Inductive, TypeOK
<1> QED
  BY <1>1, <1>2, <1>3, <1>4, <1>6, <1>7, <1>8, <1>9, SubmitKeeps

LEMMA RunOnceKeeps ==
    ASSUME Inductive, NEW i \in infos, RunOnce(i)
    PROVE  Inductive'
<1> DEFINE o == i.obj
<1>1. /\ i \in AfterInfo /\ o \in Obj /\ i.id \in Id /\ Born(o)
      /\ obj[o] \in TkAfter /\ obj[o].w \in Widget
  BY OwnerFacts
<1>2. /\ obj[o].class = "After" /\ obj[o].method = "once" /\ infos' = infos \ {i}
      /\ entries' = [entries EXCEPT ![obj[o].w] = Without(entries[obj[o].w], obj[o].id)]
      /\ exists' = [exists EXCEPT ![obj[o].w] = TRUE]
      /\ Push([call |-> o])
      /\ UNCHANGED <<afterId, obj, hook, phase, late, peeked>>
  BY DEF RunOnce
<1>3. \A w \in Widget : \A e \in entries[w] :
         e = i <=> w = obj[o].w /\ e.id = obj[o].id
  <2>1. ASSUME NEW w \in Widget, NEW e \in entries[w]
        PROVE  e = i <=> w = obj[o].w /\ e.id = obj[o].id
    <3>1. e \in infos /\ obj[e.obj].w = w /\ obj[e.obj].id = e.id
      BY DEF Inductive, EntriesArePending
    <3>2. e.id = obj[o].id => e.obj = o
      BY <1>1, <3>1 DEF Inductive, IdsAreOwned
    <3>3. e.obj = o => e = i
      BY <3>1 DEF Inductive, PendingOnce
    <3> QED
      BY <3>1, <3>2, <3>3
  <2> QED
    BY <2>1
<1>4. \A w \in Widget : entries'[w] = entries[w] \ {i}
  BY <1>1, <1>2, <1>3 DEF Inductive, TypeOK, Without
<1>5. entries' \in [Widget -> SUBSET AfterInfo] /\ exists' \in [Widget -> BOOLEAN]
  BY <1>1, <1>2 DEF Inductive, TypeOK, Without
<1>6. \A w \in Widget : exists[w] => exists'[w]
  BY <1>1, <1>2 DEF Inductive, TypeOK
<1>7. Exists(obj[o].w) => exists[obj[o].w]
  <2>1. Exists(obj[o].w) => i \in entries[obj[o].w]
    BY <1>2 DEF Inductive, InfosAreOwned, UnlistedAreLate
  <2> QED
    BY <1>1, <2>1 DEF Inductive, EntriesArePending
<1>8. \A w \in Widget : Exists(w) /\ exists'[w] => exists[w]
  BY <1>1, <1>2, <1>7 DEF Inductive, TypeOK
<1>9. stack' \in Seq(Frame)
  BY <1>1, <1>2, StackType, FrameKinds DEF Inductive, TypeOK
<1> QED
  BY <1>2, <1>4, <1>5, <1>6, <1>8, <1>9, UnlinkKeeps

LEMMA RunCancelledKeeps ==
    ASSUME Inductive, NEW i \in infos, RunCancelled(i)
    PROVE  Inductive'
<1>1. /\ obj[i.obj].class = "Cancelled" /\ infos' = infos \ {i}
      /\ UNCHANGED <<afterId, obj, entries, exists, hook, phase, stack, late, peeked>>
  BY DEF RunCancelled
<1>2. \A w \in Widget : entries'[w] = entries[w] \ {i}
  BY <1>1 DEF Inductive, EntriesArePending
<1>3. /\ entries' \in [Widget -> SUBSET AfterInfo] /\ exists' \in [Widget -> BOOLEAN]
      /\ stack' \in Seq(Frame)
  BY <1>1 DEF Inductive, TypeOK
<1> QED
  BY <1>1, <1>2, <1>3, UnlinkKeeps

LEMMA CancelKeeps ==
    ASSUME Inductive, NEW o \in Obj, Cancel(o)
    PROVE  Inductive'
<1> DEFINE w == obj[o].w
           id == obj[o].id
           new == [obj[o] EXCEPT !.id = undef]
<1>1. /\ Born(o) /\ obj[o].class = "After" /\ id # undef
      /\ infos' = IF Exists(w) THEN Without(infos, id) ELSE infos
      /\ entries' = [entries EXCEPT ![w] = Without(entries[w], id)]
      /\ late' = IF Exists(w) THEN late ELSE late \union {o}
      /\ obj' = [obj EXCEPT ![o] = new]
      /\ UNCHANGED <<afterId, exists, hook, phase, stack, peeked>>
  BY DEF Cancel
<1>2. obj[o] \in TkAfter /\ w \in Widget /\ id \in Id
  <2>1. obj[o] \in TkAfter
    BY <1>1, BornFields DEF Inductive
  <2> QED
    BY <1>1, <2>1, TkAfterFields
<1>3. /\ new \in TkAfter /\ new.id = undef /\ new.w = w /\ new.class = "After"
      /\ new # Unborn
  <2>1. new \in TkAfter /\ new.id = undef /\ new.w = w /\ new.class = "After"
    BY <1>1, <1>2 DEF TkAfter
  <2> QED
    BY <2>1, TkAfterFields
<1> HIDE DEF new
<1>4. /\ obj'[o] = new
      /\ \A p \in Obj : p # o => obj'[p] = obj[p]
      /\ \A p \in Obj : Born(p)' <=> Born(p)
  BY <1>1, <1>3 DEF Inductive, TypeOK, Born
<1>5. \A i \in infos : i.id = id => i.obj = o
  BY <1>1 DEF Inductive, IdsAreOwned
<1>6. \A i \in infos : i.obj = o => i.id = id
  BY <1>1 DEF Inductive, InfosAreOwned
<1>7. \A i \in infos : i \in infos' <=> i.obj # o \/ ~Exists(w)
  BY <1>1, <1>5, <1>6 DEF Without
<1>8. infos' \subseteq infos
  BY <1>1 DEF Without
<1>9. \A v \in Widget : \A e \in entries'[v] : e \in entries[v] /\ e.obj # o
  <2>1. ASSUME NEW v \in Widget, NEW e \in entries'[v]
        PROVE  e \in entries[v] /\ e.obj # o
    <3>1. e \in entries[v] /\ (v = w => e.id # id)
      BY <1>1, <1>2 DEF Inductive, TypeOK, Without
    <3>2. e.obj = o => v = w /\ e.id = id
      BY <3>1 DEF Inductive, EntriesArePending
    <3> QED
      BY <3>1, <3>2
  <2> QED
    BY <2>1
<1>10. \A v \in Widget : \A e \in entries[v] : e.obj # o => e \in entries'[v]
  <2>1. ASSUME NEW v \in Widget, NEW e \in entries[v], e.obj # o
        PROVE  e \in entries'[v]
    <3>1. e.id # id
      BY <1>5, <2>1 DEF Inductive, EntriesArePending
    <3> QED
      BY <1>1, <1>2, <2>1, <3>1 DEF Inductive, TypeOK, Without
  <2> QED
    BY <2>1
<1>11. \A i \in infos' : i.obj \in Obj /\ (i.obj = o => ~Exists(w))
  BY <1>7, <1>8, OwnerFacts
<1>12. TypeOK'
  <2>1. entries' \in [Widget -> SUBSET AfterInfo]
    BY <1>1, <1>2 DEF Inductive, TypeOK, Without
  <2>2. infos' \subseteq AfterInfo /\ obj' \in [Obj -> TkAfter \union {Unborn}] /\ late' \subseteq Obj
    BY <1>1, <1>3, <1>8 DEF Inductive, TypeOK
  <2> QED
    BY <1>1, <2>1, <2>2 DEF Inductive, TypeOK
<1>13. EntriesArePending'
  <2>1. ASSUME NEW v \in Widget, NEW e \in entries'[v]
        PROVE  /\ e \in infos' /\ exists'[v] /\ obj'[e.obj].class = "After"
               /\ obj'[e.obj].w = v /\ obj'[e.obj].id = e.id
    <3>1. e \in entries[v] /\ e.obj # o
      BY <1>9
    <3>2. /\ e \in infos /\ exists[v] /\ obj[e.obj].class = "After"
          /\ obj[e.obj].w = v /\ obj[e.obj].id = e.id
      BY <3>1 DEF Inductive, EntriesArePending
    <3>3. e.obj \in Obj
      BY <3>2, OwnerFacts
    <3> QED
      BY <1>1, <1>4, <1>7, <3>1, <3>2, <3>3
  <2> QED
    BY <2>1 DEF EntriesArePending
<1>14. InfosAreOwned'
  <2>1. ASSUME NEW i \in infos'
        PROVE  /\ Born(i.obj)' /\ i.id <= afterId'
               /\ obj'[i.obj].id \in {undef, i.id}
               /\ obj'[i.obj].id = undef => phase'[obj'[i.obj].w] # "alive"
    <3>1. /\ i \in infos /\ Born(i.obj) /\ i.id <= afterId
          /\ obj[i.obj].id \in {undef, i.id}
          /\ obj[i.obj].id = undef => phase[obj[i.obj].w] # "alive"
      BY <1>8 DEF Inductive, InfosAreOwned, Exists
    <3> QED
      BY <1>1, <1>3, <1>4, <1>11, <3>1 DEF Exists
  <2> QED
    BY <2>1 DEF InfosAreOwned, Exists
<1>15. UnlistedAreLate'
  <2>1. ASSUME NEW i \in infos', obj'[i.obj].class = "After"
        PROVE  IF obj'[i.obj].id = undef THEN i.obj \in late'
                                         ELSE i \in entries'[obj'[i.obj].w]
    <3>1. CASE i.obj = o
      BY <1>1, <1>3, <1>4, <1>11, <3>1
    <3>2. CASE i.obj # o
      <4>1. i \in infos /\ obj'[i.obj] = obj[i.obj] /\ obj[i.obj].w \in Widget
        BY <1>4, <1>8, <1>11, <3>2, OwnerFacts
      <4> QED
        BY <1>1, <1>10, <2>1, <3>2, <4>1 DEF Inductive, UnlistedAreLate
    <3> QED
      BY <3>1, <3>2
  <2> QED
    BY <2>1 DEF UnlistedAreLate
<1>16. IdsAreOwned'
  <2>1. ASSUME NEW p \in Obj, Born(p)'
        PROVE  /\ obj'[p].id <= afterId'
               /\ obj'[p].class = "Cancelled" => obj'[p].id = undef
               /\ \A i \in infos' : i.id = obj'[p].id => i.obj = p
    <3>1. CASE p = o
      <4>1. \A i \in infos' : i.id # undef
        BY <1>8, OwnerFacts DEF Id, undef
      <4>2. undef <= afterId'
        BY <1>1 DEF Inductive, TypeOK, undef
      <4> QED
        BY <1>3, <1>4, <3>1, <4>1, <4>2
    <3>2. CASE p # o
      <4>1. Born(p) /\ obj'[p] = obj[p]
        BY <1>4, <2>1, <3>2
      <4> QED
        BY <1>1, <1>8, <4>1 DEF Inductive, IdsAreOwned
    <3> QED
      BY <3>1, <3>2
  <2> QED
    BY <2>1 DEF IdsAreOwned
<1>17. HooksCover'
  BY <1>1, <1>9 DEF Inductive, HooksCover, Exists
<1>18. RepeatGoesOn'
  <2>1. ASSUME NEW p \in Obj, Born(p)', obj'[p].class = "After",
               obj'[p].method = "repeat", obj'[p].id # undef
        PROVE  Pending(p)' = {[id |-> obj'[p].id, obj |-> p]}
    <3>1. p # o
      BY <1>3, <1>4, <2>1
    <3>2. Pending(p)' = Pending(p)
      BY <1>7, <1>8, <3>1 DEF Pending
    <3>3. Born(p) /\ obj'[p] = obj[p]
      BY <1>4, <2>1, <3>1
    <3> QED
      BY <2>1, <3>2, <3>3 DEF Inductive, RepeatGoesOn
  <2> QED
    BY <2>1 DEF RepeatGoesOn
<1>19. PendingOnce'
  BY <1>8 DEF Inductive, PendingOnce
<1> QED
  BY <1>12, <1>13, <1>14, <1>15, <1>16, <1>17, <1>18, <1>19 DEF Inductive

\* Nothing that is pending or listed has an id of an object without references,
\* so its cancel touches no callback.
LEMMA DESTROYKeeps ==
    ASSUME Inductive, NEW o \in Obj, DESTROY(o)
    PROVE  Inductive'
<1>1. /\ Born(o)
      /\ \A i \in infos : i.obj # o
      /\ obj' = [obj EXCEPT ![o] = Unborn]
      /\ late' = late \ {o}
      /\ UNCHANGED <<afterId, exists, hook, phase, stack, peeked>>
  BY DEF DESTROY
<1>2. \A i \in infos : i.id # obj[o].id
  BY <1>1 DEF Inductive, IdsAreOwned
<1>3. \A w \in Widget : \A e \in entries[w] : e \in infos
  BY DEF Inductive, EntriesArePending
<1>4. infos' = infos
  BY <1>2 DEF DESTROY, Without
<1>5. entries' = entries
  <2>1. obj[o].w \in Widget
    BY <1>1, BornFields, TkAfterFields DEF Inductive
  <2>2. Without(entries[obj[o].w], obj[o].id) = entries[obj[o].w]
    BY <1>2, <1>3, <2>1 DEF Without
  <2> QED
    BY <2>1, <2>2 DEF DESTROY, Inductive, TypeOK
<1>6. /\ obj'[o] = Unborn
      /\ \A p \in Obj : p # o => obj'[p] = obj[p]
      /\ \A p \in Obj : Born(p)' <=> Born(p) /\ p # o
  BY <1>1 DEF Inductive, TypeOK, Born
<1>7. \A i \in infos : i.obj \in Obj /\ obj'[i.obj] = obj[i.obj]
  BY <1>1, <1>6, OwnerFacts
<1>8. \A w \in Widget : \A e \in entries[w] : e.obj \in Obj /\ obj'[e.obj] = obj[e.obj]
  BY <1>3, <1>7
<1>9. TypeOK'
  BY <1>1, <1>4, <1>5 DEF Inductive, TypeOK
<1>10. EntriesArePending'
  BY <1>1, <1>4, <1>5, <1>8 DEF Inductive, EntriesArePending
<1>11. InfosAreOwned'
  BY <1>1, <1>4, <1>6, <1>7 DEF Inductive, InfosAreOwned, Exists
<1>12. UnlistedAreLate'
  BY <1>1, <1>4, <1>5, <1>7 DEF Inductive, UnlistedAreLate
<1>13. IdsAreOwned'
  BY <1>1, <1>4, <1>6 DEF Inductive, IdsAreOwned
<1>14. HooksCover'
  BY <1>1, <1>3, <1>5 DEF Inductive, HooksCover, Exists
<1>15. RepeatGoesOn'
  BY <1>4, <1>6 DEF Inductive, RepeatGoesOn, Pending
<1>16. PendingOnce'
  BY <1>4 DEF Inductive, PendingOnce
<1> QED
  BY <1>9, <1>10, <1>11, <1>12, <1>13, <1>14, <1>15, <1>16 DEF Inductive

LEMMA CancelAllKeeps ==
    ASSUME Inductive, NEW w \in Widget, CancelAll(w)
    PROVE  Inductive'
<1> DEFINE objs == {e.obj : e \in entries[w]}
           off(o) == [obj[o] EXCEPT !.class = "Cancelled", !.id = undef]
<1>1. /\ phase[w] = "destroying"
      /\ obj' = [o \in Obj |-> IF o \in objs THEN off(o) ELSE obj[o]]
      /\ entries' = [entries EXCEPT ![w] = {}]
      /\ exists' = [exists EXCEPT ![w] = FALSE]
      /\ hook' = [hook EXCEPT ![w] = FALSE]
      /\ UNCHANGED <<infos, afterId, phase, stack, late, peeked>>
  BY DEF CancelAll
<1>2. \A o \in objs : /\ o \in Obj /\ Born(o) /\ obj[o] \in TkAfter
                      /\ obj[o].w = w
                      /\ \E e \in infos : e.obj = o /\ e \in entries[w]
  BY OwnerFacts DEF Inductive, EntriesArePending
<1> HIDE DEF objs
<1>3. \A o \in objs : /\ off(o) \in TkAfter /\ off(o) # Unborn /\ off(o).id = undef
                      /\ off(o).w = w /\ off(o).class = "Cancelled"
  <2>1. ASSUME NEW o \in objs
        PROVE  /\ off(o) \in TkAfter /\ off(o).id = undef
               /\ off(o).w = w /\ off(o).class = "Cancelled"
    <3>1. obj[o] \in TkAfter /\ obj[o].w = w
      BY <1>2
    <3> QED
      BY <3>1, TkAfterFields
  <2>2. \A o \in objs : off(o) # Unborn
    BY <2>1, TkAfterFields
  <2> QED
    BY <2>1, <2>2
<1> HIDE DEF off
<1>4. /\ \A o \in objs : obj'[o] = off(o)
      /\ \A o \in Obj : o \notin objs => obj'[o] = obj[o]
      /\ \A o \in Obj : Born(o)' <=> Born(o)
  BY <1>1, <1>2, <1>3 DEF Born
<1>5. \A v \in Widget : \A e \in entries'[v] :
         e \in entries[v] /\ v # w /\ e \in infos /\ e.obj \in Obj /\ e.obj \notin objs
  <2>1. ASSUME NEW v \in Widget, NEW e \in entries'[v]
        PROVE  e \in entries[v] /\ v # w /\ e \in infos /\ e.obj \in Obj /\ e.obj \notin objs
    <3>1. e \in entries[v] /\ v # w
      BY <1>1 DEF Inductive, TypeOK
    <3>2. e \in infos /\ obj[e.obj].w = v
      BY <3>1 DEF Inductive, EntriesArePending
    <3> QED
      BY <1>2, <3>1, <3>2, OwnerFacts
  <2> QED
    BY <2>1
<1>6. TypeOK'
  <2>1. /\ obj' \in [Obj -> TkAfter \union {Unborn}]
        /\ entries' \in [Widget -> SUBSET AfterInfo]
        /\ exists' \in [Widget -> BOOLEAN] /\ hook' \in [Widget -> BOOLEAN]
    BY <1>1, <1>3 DEF Inductive, TypeOK
  <2> QED
    BY <1>1, <2>1 DEF Inductive, TypeOK
<1>7. EntriesArePending'
  <2>1. ASSUME NEW v \in Widget, NEW e \in entries'[v]
        PROVE  /\ e \in infos' /\ exists'[v] /\ obj'[e.obj].class = "After"
               /\ obj'[e.obj].w = v /\ obj'[e.obj].id = e.id
    <3>1. exists'[v] = exists[v] /\ obj'[e.obj] = obj[e.obj]
      BY <1>1, <1>4, <1>5 DEF Inductive, TypeOK
    <3> QED
      BY <1>1, <1>5, <3>1 DEF Inductive, EntriesArePending
  <2> QED
    BY <2>1 DEF EntriesArePending
<1>8. InfosAreOwned'
  <2>1. ASSUME NEW i \in infos
        PROVE  /\ Born(i.obj)' /\ i.id <= afterId'
               /\ obj'[i.obj].id \in {undef, i.id}
               /\ obj'[i.obj].id = undef => phase'[obj'[i.obj].w] # "alive"
    <3>1. i.obj \in Obj
      BY OwnerFacts
    <3>2. /\ Born(i.obj) /\ i.id <= afterId
          /\ obj[i.obj].id \in {undef, i.id}
          /\ obj[i.obj].id = undef => phase[obj[i.obj].w] # "alive"
      BY DEF Inductive, InfosAreOwned, Exists
    <3> QED
      BY <1>1, <1>3, <1>4, <3>1, <3>2
  <2> QED
    BY <1>1, <2>1 DEF InfosAreOwned, Exists
<1>9. UnlistedAreLate'
  <2>1. ASSUME NEW i \in infos, obj'[i.obj].class = "After"
        PROVE  IF obj'[i.obj].id = undef THEN i.obj \in late
                                         ELSE i \in entries'[obj'[i.obj].w]
    <3>1. i.obj \in Obj /\ obj[i.obj].w \in Widget
      BY OwnerFacts
    <3>2. i.obj \notin objs /\ obj'[i.obj] = obj[i.obj]
      BY <1>3, <1>4, <2>1, <3>1
    <3>3. i \notin entries[w]
      BY <3>2 DEF objs
    <3> QED
      BY <1>1, <2>1, <3>1, <3>2, <3>3 DEF Inductive, UnlistedAreLate, TypeOK
  <2> QED
    BY <1>1, <2>1 DEF UnlistedAreLate
<1>10. IdsAreOwned'
  <2>1. ASSUME NEW o \in Obj, Born(o)'
        PROVE  /\ obj'[o].id <= afterId
               /\ obj'[o].class = "Cancelled" => obj'[o].id = undef
               /\ \A i \in infos : i.id = obj'[o].id => i.obj = o
    <3>1. CASE o \in objs
      <4>1. \A i \in infos : i.id # undef
        BY OwnerFacts DEF Id, undef
      <4>2. undef <= afterId
        BY DEF Inductive, TypeOK, undef
      <4> QED
        BY <1>3, <1>4, <3>1, <4>1, <4>2
    <3>2. CASE o \notin objs
      BY <1>4, <2>1, <3>2 DEF Inductive, IdsAreOwned
    <3> QED
      BY <3>1, <3>2
  <2> QED
    BY <1>1, <2>1 DEF IdsAreOwned
<1>11. HooksCover'
  <2>1. ASSUME NEW v \in Widget
        PROVE  /\ Exists(v) /\ exists'[v] => hook'[v] \/ v \in peeked
               /\ \A e \in entries'[v] : hook'[v] \/ v \in peeked \/ e.obj \in late
               /\ phase[v] = "gone" => ~hook'[v]
    <3>1. CASE v = w
      BY <1>1, <3>1 DEF Inductive, TypeOK
    <3>2. CASE v # w
      <4>1. hook'[v] = hook[v] /\ exists'[v] = exists[v] /\ entries'[v] = entries[v]
        BY <1>1, <3>2 DEF Inductive, TypeOK
      <4> QED
        BY <4>1 DEF Inductive, HooksCover
    <3> QED
      BY <3>1, <3>2
  <2> QED
    BY <1>1, <2>1 DEF HooksCover, Exists
<1>12. RepeatGoesOn'
  <2>1. ASSUME NEW o \in Obj, Born(o)', obj'[o].class = "After",
               obj'[o].method = "repeat", obj'[o].id # undef
        PROVE  Pending(o)' = {[id |-> obj'[o].id, obj |-> o]}
    <3>1. obj'[o] = obj[o] /\ Born(o)
      BY <1>3, <1>4, <2>1
    <3>2. Pending(o)' = Pending(o)
      BY <1>1 DEF Pending
    <3> QED
      BY <2>1, <3>1, <3>2 DEF Inductive, RepeatGoesOn
  <2> QED
    BY <2>1 DEF RepeatGoesOn
<1>13. PendingOnce'
  BY <1>1 DEF Inductive, PendingOnce
<1> QED
  BY <1>6, <1>7, <1>8, <1>9, <1>10, <1>11, <1>12, <1>13 DEF Inductive

\* The other steps move no callback.
LEMMA AfterInfoKeysKeeps ==
    ASSUME Inductive, NEW w \in Widget, AfterInfoKeys(w)
    PROVE  Inductive'
<1>1. /\ UNCHANGED <<infos, afterId, obj, entries, hook, late>>
      /\ exists' = [exists EXCEPT ![w] = TRUE]
      /\ peeked' = IF exists[w] THEN peeked ELSE peeked \union {w}
      /\ phase' = phase /\ stack' = stack
  BY DEF AfterInfoKeys
<1>2. /\ exists' \in [Widget -> BOOLEAN] /\ phase' \in [Widget -> Phase]
      /\ peeked' \subseteq Widget /\ stack' \in Seq(Frame) /\ peeked \subseteq peeked'
  BY <1>1 DEF Inductive, TypeOK
<1>3. /\ \A v \in Widget : exists[v] => exists'[v]
      /\ \A v \in Widget : exists'[v] => exists[v] \/ v \in peeked'
  BY <1>1 DEF Inductive, TypeOK
<1>4. \A v \in Widget : phase'[v] = "gone" => ~hook[v]
  BY <1>1 DEF Inductive, HooksCover
<1> QED
  BY <1>1, <1>2, <1>3, <1>4, SameObjectsKeeps

LEMMA CallbackReturnsKeeps ==
    ASSUME Inductive, CallbackReturns
    PROVE  Inductive'
<1>1. /\ UNCHANGED <<infos, afterId, obj, entries, exists, hook, phase, late, peeked>>
      /\ stack # <<>> /\ stack' = Tail(stack)
  BY DEF CallbackReturns, Top
<1>2. /\ exists' \in [Widget -> BOOLEAN] /\ phase' \in [Widget -> Phase]
      /\ peeked' \subseteq Widget /\ stack' \in Seq(Frame)
  BY <1>1, StackType DEF Inductive, TypeOK
<1>3. \A v \in Widget : phase[v] = "gone" => ~hook[v]
  BY DEF Inductive, HooksCover
<1> QED
  BY <1>1, <1>2, <1>3, SameObjectsKeeps

\* A step of Tk_DestroyWindow that leaves the objects to _cancelAll.
LEMMA PhaseKeeps ==
    ASSUME Inductive, NEW w \in Widget, NEW p \in Phase \ {"alive"},
           UNCHANGED <<infos, afterId, obj, entries, exists, hook, late, peeked>>,
           phase' = [phase EXCEPT ![w] = p], stack' \in Seq(Frame),
           p = "gone" => ~hook[w]
    PROVE  Inductive'
<1>1. /\ exists' \in [Widget -> BOOLEAN] /\ phase' \in [Widget -> Phase]
      /\ peeked' \subseteq Widget
  BY DEF Inductive, TypeOK
<1>2. \A v \in Widget : phase'[v] = "alive" => phase[v] = "alive"
  BY DEF Inductive, TypeOK
<1>3. \A v \in Widget : phase'[v] = "gone" => ~hook[v]
  <2>1. ASSUME NEW v \in Widget, phase'[v] = "gone"
        PROVE  ~hook[v]
    <3>1. CASE v = w
      BY <2>1, <3>1 DEF Inductive, TypeOK
    <3>2. CASE v # w
      BY <2>1, <3>2 DEF Inductive, TypeOK, HooksCover
    <3> QED
      BY <3>1, <3>2
  <2> QED
    BY <2>1
<1> QED
  BY <1>1, <1>2, <1>3, SameObjectsKeeps

LEMMA DestroyKeeps ==
    ASSUME Inductive, NEW w \in Widget,
           DestroyWindow(w) \/ Destroyed(w) \/ LangDeadWindow(w)
    PROVE  Inductive'
<1>1. stack \in Seq(Frame)
  BY DEF Inductive, TypeOK
<1>2. CASE DestroyWindow(w)
  <2>1. stack' \in Seq(Frame)
    BY <1>1, <1>2, StackType, FrameKinds DEF DestroyWindow
  <2> QED
    BY <1>2, <2>1, PhaseKeeps DEF DestroyWindow, Phase
<1>3. CASE Destroyed(w)
  BY <1>1, <1>3, PhaseKeeps DEF Destroyed, Phase
<1>4. CASE LangDeadWindow(w)
  <2>1. stack' \in Seq(Frame)
    BY <1>1, <1>4, StackType DEF LangDeadWindow, Top
  <2> QED
    BY <1>4, <2>1, PhaseKeeps DEF LangDeadWindow, Phase
<1> QED
  BY <1>2, <1>3, <1>4

-----------------------------------------------------------------------------
\* Every call, callback and step of a destruction keeps the invariant.
THEOREM StepInductive == Inductive /\ [Next]_vars => Inductive'
<1> SUFFICES ASSUME Inductive, [Next]_vars
             PROVE  Inductive'
  OBVIOUS
<1>1. CASE \E o \in Obj, w \in Widget, method \in {"once", "repeat"} : New(o, w, method)
  BY <1>1, NewKeeps
<1>2. CASE \E o \in Obj : Cancel(o) \/ DESTROY(o)
  BY <1>2, CancelKeeps, DESTROYKeeps
<1>3. CASE \E i \in infos : AfterProc(i)
  BY <1>3, RunCancelledKeeps, RunOnceKeeps, RunRepeatKeeps DEF AfterProc
<1>4. CASE CallbackReturns
  BY <1>4, CallbackReturnsKeeps
<1>5. CASE \E w \in Widget : AfterInfoKeys(w)
  BY <1>5, AfterInfoKeysKeeps
<1>6. CASE \E w \in Widget : DestroyWindow(w) \/ Destroyed(w) \/ LangDeadWindow(w)
  BY <1>6, DestroyKeeps
<1>7. CASE \E w \in Widget : CancelAll(w)
  BY <1>7, CancelAllKeeps
<1>8. CASE UNCHANGED vars
  <2>1. /\ UNCHANGED <<infos, afterId, obj, entries, exists, hook, phase, late, peeked>>
        /\ stack' = stack
    BY <1>8 DEF vars
  <2>2. \A v \in Widget : phase[v] = "gone" => ~hook[v]
    BY DEF Inductive, HooksCover
  <2>3. /\ exists' \in [Widget -> BOOLEAN] /\ phase' \in [Widget -> Phase]
        /\ peeked' \subseteq Widget /\ stack' \in Seq(Frame)
    BY <2>1 DEF Inductive, TypeOK
  <2> QED
    BY <2>1, <2>2, <2>3, SameObjectsKeeps
<1> QED
  BY <1>1, <1>2, <1>3, <1>4, <1>5, <1>6, <1>7, <1>8 DEF Next

\* The invariant holds in every reachable state.
THEOREM InductiveInvariant == Spec => []Inductive
<1>1. Init => Inductive
  BY InitInductive
<1>2. Inductive /\ [Next]_vars => Inductive'
  BY StepInductive
<1> QED
  BY <1>1, <1>2, PTL DEF Spec

\* Every field stays in its set.
THEOREM TypeCorrect == Spec => []TypeOK
<1>1. Inductive => TypeOK
  BY DEF Inductive
<1> QED
  BY <1>1, InductiveInvariant, PTL

\* afterInfo lists for a living widget what AfterProc will call for it.
THEOREM AfterInfoIsRight == Spec => []HashIsPending
<1>1. Inductive => HashIsPending
  <2> SUFFICES ASSUME Inductive, NEW w \in Widget, Exists(w)
               PROVE  entries[w] = {i \in infos : obj[i.obj].w = w}
    BY DEF HashIsPending
  <2>1. \A e \in entries[w] : e \in infos /\ obj[e.obj].w = w
    BY DEF Inductive, EntriesArePending
  <2>2. ASSUME NEW i \in infos, obj[i.obj].w = w
        PROVE  i \in entries[w]
    <3>1. obj[i.obj].id # undef
      BY <2>2 DEF Inductive, InfosAreOwned
    <3>2. i.obj \in Obj /\ Born(i.obj) /\ obj[i.obj] \in TkAfter
      BY OwnerFacts
    <3>3. obj[i.obj].class = "After"
      BY <3>1, <3>2, TkAfterFields DEF Inductive, IdsAreOwned
    <3> QED
      BY <2>2, <3>1, <3>3 DEF Inductive, UnlistedAreLate
  <2> QED
    BY <2>1, <2>2
<1> QED
  BY <1>1, InductiveInvariant, PTL

\* A repeat that nobody cancelled is pending, once, under the id it knows.
THEOREM RepeatsGoOn == Spec => []RepeatGoesOn
<1>1. Inductive => RepeatGoesOn
  BY DEF Inductive
<1> QED
  BY <1>1, InductiveInvariant, PTL

\* No object is pending twice.
THEOREM NoDoubleCalls == Spec => []PendingOnce
<1>1. Inductive => PendingOnce
  BY DEF Inductive
<1> QED
  BY <1>1, InductiveInvariant, PTL

\* Only AfterProc calls, and only what is pending and not cancelled with effect.
LEMMA CallerIsPending ==
    ASSUME Inductive, [Next]_vars, NEW o \in Obj, Calls(o)
    PROVE  \E i \in infos : i.obj = o /\ obj[o].class = "After"
<1>1. stack \in Seq(Frame) /\ Len(stack) \in Nat
  BY StackType DEF Inductive, TypeOK
<1>2. Len(stack') > Len(stack) /\ Head(stack') = [call |-> o]
  BY DEF Calls
<1>3. stack' # stack
  BY <1>1, <1>2
<1>4. CASE \E i \in infos : AfterProc(i)
  <2>1. PICK i \in infos : AfterProc(i)
    BY <1>4
  <2>2. i.obj \in Obj
    BY <2>1, OwnerFacts
  <2>3. Push([call |-> i.obj]) /\ obj[i.obj].class = "After"
    BY <1>3, <2>1 DEF AfterProc, RunCancelled, RunOnce, RunRepeat
  <2>4. Head(stack') = [call |-> i.obj]
    BY <1>1, <2>2, <2>3, StackType, FrameKinds
  <2>5. i.obj = o
    BY <1>2, <2>2, <2>4, FrameKinds
  <2> QED
    BY <2>3, <2>5
<1>5. CASE \E w \in Widget : DestroyWindow(w)
  <2>1. PICK w \in Widget : Push([destroy |-> w])
    BY <1>5 DEF DestroyWindow
  <2>2. Head(stack') = [destroy |-> w]
    BY <1>1, <2>1, StackType, FrameKinds
  <2> QED
    BY <1>2, <2>2, FrameKinds
<1>6. CASE stack # <<>> /\ stack' = Tail(stack)
  <2>1. Len(stack') = Len(stack) - 1
    BY <1>1, <1>6, StackType
  <2> QED
    BY <1>1, <1>2, <2>1
<1>7. CASE \/ \E p \in Obj, w \in Widget, method \in {"once", "repeat"} : New(p, w, method)
           \/ \E p \in Obj : Cancel(p) \/ DESTROY(p)
           \/ \E w \in Widget : AfterInfoKeys(w) \/ Destroyed(w) \/ CancelAll(w)
           \/ UNCHANGED vars
  <2>1. stack' = stack
    BY <1>7 DEF New, Cancel, DESTROY, AfterInfoKeys, Destroyed, CancelAll, vars
  <2> QED
    BY <1>3, <2>1
<1>8. CASE CallbackReturns \/ \E w \in Widget : LangDeadWindow(w)
  BY <1>6, <1>8 DEF CallbackReturns, LangDeadWindow, Top
<1> QED
  BY <1>4, <1>5, <1>7, <1>8 DEF Next

\* A cancelled object is not called, unless the cancel came when its widget was
\* being destroyed.
THEOREM CancelIsFinal == Spec => CancelStops
<1>1. ASSUME Inductive, [Next]_vars
      PROVE  [\A o \in Obj : Calls(o) => obj[o].id # undef \/ o \in late]_vars
  <2>1. ASSUME NEW o \in Obj, Calls(o)
        PROVE  obj[o].id # undef \/ o \in late
    BY <1>1, <2>1, CallerIsPending DEF Inductive, UnlistedAreLate
  <2> QED
    BY <2>1
<1> QED
  BY <1>1, InductiveInvariant, PTL DEF Spec, CancelStops

\* No callback outlives its widget, but for the late ones and for the widgets
\* whose hash afterInfo made.
THEOREM CallbacksDieWithWidget == Spec => AutoCancelled
<1>1. ASSUME Inductive, [Next]_vars
      PROVE  [\A o \in Obj : (Calls(o) /\ phase[obj[o].w] = "gone")
                                => o \in late \/ obj[o].w \in peeked]_vars
  <2>1. ASSUME NEW o \in Obj, Calls(o), phase[obj[o].w] = "gone"
        PROVE  o \in late \/ obj[o].w \in peeked
    <3>1. PICK i \in infos : i.obj = o /\ obj[o].class = "After"
      BY <1>1, <2>1, CallerIsPending
    <3>2. obj[o].id = undef => o \in late
      BY <1>1, <3>1 DEF Inductive, UnlistedAreLate
    <3>3. obj[o].id # undef => i \in entries[obj[o].w]
      BY <1>1, <3>1 DEF Inductive, UnlistedAreLate
    <3>4. obj[o].w \in Widget
      BY <1>1, <3>1, OwnerFacts
    <3>5. ~hook[obj[o].w]
      BY <1>1, <2>1, <3>4 DEF Inductive, HooksCover
    <3> QED
      BY <1>1, <3>1, <3>2, <3>3, <3>4, <3>5 DEF Inductive, HooksCover
  <2> QED
    BY <2>1
<1> QED
  BY <1>1, InductiveInvariant, PTL DEF Spec, AutoCancelled

=============================================================================
