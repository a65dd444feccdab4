------------------------------ MODULE IdleProofs ------------------------------
(***************************************************************************)
(* For every number of handlers, of nested passes and of exceptions: the   *)
(* idle list keeps its order and its last pointer, no handler is lost or   *)
(* called twice, and a pass serves the handlers that were there when it    *)
(* began.                                                                  *)
(***************************************************************************)
EXTENDS Idle, ListLemmas, FiniteSetTheorems

USE MaxIdleAssumption, MaxUnwindAssumption, NULLAssumption

-----------------------------------------------------------------------------
\* The list by its members: what is common to all ways to shorten it.

\* A member is a handler, it is somewhere in the list, and the list has no other.
LEMMA MemberOfList ==
    ASSUME TypeOK
    PROVE  /\ Len(idleList) \in Nat /\ DOMAIN idleList = 1 .. Len(idleList)
           /\ \A i \in DOMAIN idleList : idleList[i] \in Handler /\ Listed(idleList[i])
           /\ \A h : Listed(h) => h \in Handler /\ \E i \in DOMAIN idleList : idleList[i] = h
<1>1. Len(idleList) \in Nat /\ DOMAIN idleList = 1 .. Len(idleList)
  BY LenProperties DEF TypeOK
<1>2. \A i \in DOMAIN idleList : idleList[i] \in Handler
  BY ElementOfSeq, <1>1 DEF TypeOK
<1> QED
  BY <1>1, <1>2 DEF Listed, Contains

\* An older member is of a generation that is not newer.
Generations ==
    /\ \A g, h \in Handler : Listed(g) /\ Listed(h) /\ g < h => generation[g] <= generation[h]
    /\ \A h \in Handler : Listed(h) => generation[h] <= idleGeneration

\* The list is in the order of registration.
Sorted == \A i, j \in DOMAIN idleList : i < j => idleList[i] < idleList[j]

LEMMA FifoParts == TypeOK => (Fifo <=> Sorted /\ Generations)
<1> SUFFICES ASSUME TypeOK PROVE Fifo <=> Sorted /\ Generations
  OBVIOUS
<1>1. /\ Len(idleList) \in Nat /\ DOMAIN idleList = 1 .. Len(idleList)
      /\ \A i \in DOMAIN idleList : idleList[i] \in Handler /\ Listed(idleList[i])
      /\ \A h : Listed(h) => h \in Handler /\ \E i \in DOMAIN idleList : idleList[i] = h
  BY MemberOfList
<1>2. ASSUME Fifo PROVE Sorted /\ Generations
  <2>1. Sorted
    BY <1>2 DEF Fifo, Sorted
  <2>2. ASSUME NEW g \in Handler, NEW h \in Handler, Listed(g), Listed(h), g < h
        PROVE  generation[g] <= generation[h]
    <3>1. PICK i \in DOMAIN idleList, j \in DOMAIN idleList :
                idleList[i] = g /\ idleList[j] = h
      BY <1>1, <2>2
    <3>2. i \in Nat /\ j \in Nat /\ g \in Nat /\ h \in Nat
      BY <1>1 DEF Handler
    <3>3. i < j
      <4>1. i = j => g = h
        BY <3>1
      <4>2. j < i => h < g
        BY <3>1, <2>1 DEF Sorted
      <4> QED
        BY <2>2, <3>2, <4>1, <4>2
    <3> QED
      BY <1>2, <3>1, <3>3 DEF Fifo
  <2>3. ASSUME NEW h \in Handler, Listed(h) PROVE generation[h] <= idleGeneration
    BY <1>1, <1>2, <2>3 DEF Fifo
  <2> QED
    BY <2>1, <2>2, <2>3 DEF Generations
<1>3. ASSUME Sorted, Generations PROVE Fifo
  BY <1>1, <1>3 DEF Sorted, Generations, Fifo
<1> QED
  BY <1>2, <1>3

\* A member has one place in the list.
LEMMA IndexOfListed ==
    ASSUME TypeOK, Sorted, NEW i \in DOMAIN idleList
    PROVE  Index(idleList[i]) = i
<1>1. DOMAIN idleList \subseteq Nat /\ \A j \in DOMAIN idleList : idleList[j] \in Nat
  BY MemberOfList DEF Handler
<1>2. \A j \in DOMAIN idleList : idleList[j] = idleList[i] => j = i
  BY <1>1 DEF Sorted
<1> QED
  BY <1>2 DEF Index

\* The last of a list that is not empty.
LEMMA LastOfList ==
    ASSUME TypeOK, idleList # <<>>
    PROVE  Len(idleList) \in DOMAIN idleList
<1>1. Len(idleList) # 0 /\ Len(idleList) \in Nat
  BY EmptySeq, LenProperties DEF TypeOK
<1> QED
  BY <1>1, MemberOfList

\* The generations tell which members a pass has seen, member by member.
PassGenerations ==
    \A i \in DOMAIN passes :
        /\ passes[i].old < idleGeneration
        /\ passes[i].limit <= registered
        /\ \A h \in Handler : Listed(h) =>
                (generation[h] <= passes[i].old <=> h <= passes[i].limit)

LEMMA GenerationsTellMembers == TypeOK => (GenerationsTell <=> PassGenerations)
<1> SUFFICES ASSUME TypeOK PROVE GenerationsTell <=> PassGenerations
  OBVIOUS
<1>1. /\ \A i \in DOMAIN idleList : idleList[i] \in Handler /\ Listed(idleList[i])
      /\ \A h : Listed(h) => h \in Handler /\ \E i \in DOMAIN idleList : idleList[i] = h
  BY MemberOfList
<1>2. GenerationsTell => PassGenerations
  BY <1>1 DEF GenerationsTell, PassGenerations
<1>3. PassGenerations => GenerationsTell
  BY <1>1 DEF GenerationsTell, PassGenerations
<1> QED
  BY <1>2, <1>3

\* The inductive invariant in these terms.
LEMMA InductiveMembers ==
    Inductive <=> /\ TypeOK /\ LastValid /\ CalledOnce
                  /\ Sorted /\ Generations /\ PassGenerations
  BY FifoParts, GenerationsTellMembers DEF Inductive

\* Members leave the list; nobody's generation changes.
LEMMA ListShortened ==
    ASSUME Inductive, TypeOK',
           UNCHANGED <<generation, registered>>, idleGeneration <= idleGeneration',
           \A h : Listed(h)' => Listed(h)
    PROVE  /\ Generations'
           /\ \A i \in DOMAIN passes :
                /\ passes[i].old < idleGeneration'
                /\ passes[i].limit <= registered'
                /\ \A h \in Handler : Listed(h)' =>
                        (generation'[h] <= passes[i].old <=> h <= passes[i].limit)
           /\ UNCHANGED passes => PassGenerations'
<1>1. TypeOK /\ Generations /\ PassGenerations
  BY InductiveMembers
<1>2. idleGeneration \in Nat /\ idleGeneration' \in Nat /\ generation \in [Handler -> Nat]
      /\ passes \in Seq(Pass)
  BY <1>1 DEF TypeOK
<1>3. Generations'
  BY <1>1, <1>2 DEF Generations
<1>4. ASSUME NEW i \in DOMAIN passes
      PROVE  /\ passes[i].old < idleGeneration'
             /\ passes[i].limit <= registered'
             /\ \A h \in Handler : Listed(h)' =>
                        (generation'[h] <= passes[i].old <=> h <= passes[i].limit)
  <2>1. passes[i].old \in Nat
    <3>1. passes[i] \in Pass
      BY <1>2, ElementOfSeq, LenProperties
    <3> QED
      BY <3>1 DEF Pass
  <2> QED
    BY <1>1, <1>2, <2>1 DEF PassGenerations
<1> QED
  BY <1>3, <1>4 DEF PassGenerations

-----------------------------------------------------------------------------
\* The initial states and the operations.

LEMMA InitInductive == Init => Inductive
<1> SUFFICES ASSUME Init PROVE Inductive
  OBVIOUS
<1>1. TypeOK
  BY DEF Init, TypeOK
<1>2. DOMAIN idleList = {} /\ DOMAIN passes = {} /\ \A h : ~ Listed(h)
  BY DEF Init, Listed, Contains
<1>3. \A h \in Handler : ~ h <= registered
  BY DEF Init, Handler
<1>4. CalledOnce
  BY <1>2, <1>3 DEF Init, CalledOnce
<1> QED
  BY <1>1, <1>2, <1>4 DEF Init, Inductive, LastValid, Fifo, GenerationsTell

\* lastIdlePtr is in the list, so that the new handler comes after all others.
LEMMA HandlerAppended ==
    ASSUME Inductive, DoWhenIdle
    PROVE  idleList' = Append(idleList, registered + 1)
<1>1. TypeOK /\ Sorted /\ LastValid
  BY FifoParts DEF Inductive
<1>2. CASE idleList = <<>>
  BY <1>1, <1>2 DEF DoWhenIdle, LastValid
<1>3. CASE idleList # <<>>
  <2>1. Len(idleList) \in DOMAIN idleList /\ lastIdlePtr = idleList[Len(idleList)]
    BY <1>1, <1>3, LastOfList DEF LastValid
  <2>2. Listed(lastIdlePtr) /\ Index(lastIdlePtr) = Len(idleList) /\ lastIdlePtr # NULL
    BY <1>1, <2>1, MemberOfList, IndexOfListed DEF Handler
  <2>3. idleList' = SubSeq(idleList, 1, Len(idleList)) \o <<registered + 1>>
    BY <2>2 DEF DoWhenIdle
  <2>4. SubSeq(idleList, 1, Len(idleList)) = idleList
    <3>1. idleList \in Seq(Handler) /\ Len(idleList) \in 0 .. Len(idleList)
      BY <1>1, LenProperties DEF TypeOK
    <3> QED
      BY <3>1, PrefixElements, SeqEqual, LenProperties
  <2>5. idleList \in Seq(Nat) /\ registered + 1 \in Nat
    BY <1>1 DEF TypeOK, Handler
  <2> QED
    BY <2>3, <2>4, <2>5, AppendIsConcat
<1> QED
  BY <1>2, <1>3

LEMMA DoWhenIdleInductive ==
    ASSUME Inductive, DoWhenIdle
    PROVE  Inductive'
<1> DEFINE h == registered + 1
           n == Len(idleList)
<1>1. TypeOK /\ Sorted /\ Generations /\ LastValid /\ CalledOnce /\ PassGenerations
  BY InductiveMembers
<1>2. /\ h \in Handler /\ registered \in Nat /\ registered' = h
      /\ generation' = [generation EXCEPT ![h] = idleGeneration]
      /\ lastIdlePtr' = h
      /\ UNCHANGED <<idleGeneration, call, passes, served, cancelled, unwinds>>
  BY <1>1 DEF DoWhenIdle, TypeOK, Handler
<1>3. ~ Listed(h) /\ h \notin served /\ h \notin cancelled
  BY <1>1, <1>2 DEF CalledOnce, Handler
<1>4. \A g \in Handler : g <= h <=> g <= registered \/ g = h
  BY <1>2 DEF Handler
<1> HIDE DEF h
<1>5. /\ idleList \in Seq(Handler) /\ n \in Nat /\ DOMAIN idleList = 1 .. n
      /\ \A i \in 1 .. n : idleList[i] \in Handler /\ Listed(idleList[i])
      /\ \A g : Listed(g) => g \in Handler /\ \E i \in 1 .. n : idleList[i] = g
  BY <1>1, MemberOfList DEF TypeOK
<1>6. /\ idleList' \in Seq(Handler) /\ Len(idleList') = n + 1
      /\ DOMAIN idleList' = 1 .. n + 1
      /\ \A i \in 1 .. n + 1 : idleList'[i] = IF i = n + 1 THEN h ELSE idleList[i]
  <2>1. idleList' = Append(idleList, h)
    BY HandlerAppended DEF h
  <2> QED
    BY <1>2, <1>5, <2>1, AppendElements, LenProperties
<1> HIDE DEF n
<1>7. \A g : Listed(g)' <=> Listed(g) \/ g = h
  <2>1. \A g : Listed(g)' <=> \E i \in 1 .. n + 1 : idleList'[i] = g
    BY <1>6 DEF Listed, Contains
  <2>2. \A g : Listed(g) <=> \E i \in 1 .. n : idleList[i] = g
    BY <1>5
  <2>3. n + 1 \in 1 .. n + 1 /\ \A i : i \in 1 .. n + 1 <=> i \in 1 .. n \/ i = n + 1
    BY <1>5
  <2>4. \A i \in 1 .. n : i # n + 1
    BY <1>5
  <2> QED
    BY <1>6, <2>1, <2>2, <2>3, <2>4
<1>8. TypeOK'
  BY <1>1, <1>2, <1>6 DEF TypeOK, Handler
<1>9. Sorted'
  <2> SUFFICES ASSUME NEW i \in DOMAIN idleList', NEW j \in DOMAIN idleList', i < j
               PROVE  idleList'[i] < idleList'[j]
    BY DEF Sorted
  <2>1. i \in 1 .. n /\ idleList'[i] = idleList[i]
    BY <1>5, <1>6
  <2>2. CASE j = n + 1
    <3>1. idleList[i] <= registered /\ idleList[i] \in Nat
      BY <1>1, <1>5, <2>1 DEF CalledOnce, Handler
    <3> QED
      BY <1>2, <1>6, <2>1, <2>2, <3>1 DEF h
  <2>3. CASE j # n + 1
    <3>1. j \in 1 .. n /\ idleList'[j] = idleList[j]
      BY <1>5, <1>6, <2>3
    <3> QED
      BY <1>1, <1>5, <2>1, <3>1 DEF Sorted
  <2> QED
    BY <2>2, <2>3
<1>10. /\ generation'[h] = idleGeneration
       /\ \A g \in Handler : g # h => generation'[g] = generation[g]
  BY <1>1, <1>2 DEF TypeOK
<1>11. Generations'
  <2>1. ASSUME NEW f \in Handler, NEW g \in Handler, Listed(f)', Listed(g)', f < g
        PROVE  generation'[f] <= generation'[g]
    <3>1. f # h
      <4>1. g <= registered \/ g = h
        BY <1>1, <1>7, <2>1 DEF CalledOnce
      <4> QED
        BY <1>2, <2>1, <4>1 DEF h, Handler
    <3> QED
      BY <1>1, <1>7, <1>10, <2>1, <3>1 DEF Generations
  <2>2. ASSUME NEW g \in Handler, Listed(g)' PROVE generation'[g] <= idleGeneration'
    BY <1>1, <1>2, <1>7, <1>10, <2>2 DEF Generations, TypeOK
  <2> QED
    BY <2>1, <2>2 DEF Generations
<1>12. LastValid'
  <2>1. idleList' # <<>> /\ n + 1 \in 1 .. n + 1
    BY <1>5, <1>6
  <2> QED
    BY <1>2, <1>6, <2>1 DEF LastValid
<1>13. CalledOnce'
  BY <1>1, <1>2, <1>3, <1>4, <1>7 DEF CalledOnce
<1>14. PassGenerations'
  <2> SUFFICES ASSUME NEW i \in DOMAIN passes
               PROVE  /\ passes[i].old < idleGeneration
                      /\ passes[i].limit <= h
                      /\ \A g \in Handler : Listed(g)' =>
                            (generation'[g] <= passes[i].old <=> g <= passes[i].limit)
    BY <1>2 DEF PassGenerations
  <2>1. passes[i].old \in Nat /\ passes[i].limit \in Nat
    <3>1. passes[i] \in Pass
      BY <1>1, ElementOfSeq, LenProperties DEF TypeOK
    <3> QED
      BY <3>1 DEF Pass
  <2>2. passes[i].old < idleGeneration /\ passes[i].limit <= registered
    BY <1>1 DEF PassGenerations
  <2>3. passes[i].limit <= h /\ ~ h <= passes[i].limit
    BY <1>2, <2>1, <2>2 DEF h
  <2>4. ~ idleGeneration <= passes[i].old
    BY <1>1, <2>1, <2>2 DEF TypeOK
  <2>5. ASSUME NEW g \in Handler, Listed(g)'
        PROVE  generation'[g] <= passes[i].old <=> g <= passes[i].limit
    BY <1>1, <1>7, <1>10, <2>3, <2>4, <2>5 DEF PassGenerations
  <2> QED
    BY <2>2, <2>3, <2>5
<1> QED
  BY <1>8, <1>9, <1>11, <1>12, <1>13, <1>14, InductiveMembers, PTL

\* Handlers with the call leave the list; the others keep their order.
LEMMA CancelEffect ==
    ASSUME Inductive, NEW c \in Call, CancelIdleCall(c)
    PROVE  /\ idleList' \in Seq(Handler)
           /\ \A h : Listed(h)' <=> Listed(h) /\ call[h] # c
           /\ \A i, j \in DOMAIN idleList' : i < j =>
                Index(idleList'[i]) < Index(idleList'[j])
<1> DEFINE rest == {h \in Handler : Listed(h)} \ Cancelled(c)
           n == Cardinality(rest)
<1>1. TypeOK
  BY DEF Inductive
<1>2. \A h : h \in rest <=> Listed(h) /\ call[h] # c
  BY <1>1, MemberOfList DEF Cancelled
<1>3. /\ idleList' \in [1 .. n -> rest]
      /\ \A i, j \in 1 .. n : i # j => idleList'[i] # idleList'[j]
      /\ \A i, j \in DOMAIN idleList' : i < j => Index(idleList'[i]) < Index(idleList'[j])
  BY DEF CancelIdleCall, KeptLists, SetToSeqs
<1>4. IsFiniteSet(rest) /\ rest \subseteq Handler
  <2>1. IsFiniteSet(Handler)
    BY FS_Interval DEF Handler
  <2> QED
    BY <2>1, FS_Subset
<1> HIDE DEF rest
<1>5. n \in Nat
  BY <1>4, FS_CardinalityType
<1>6. idleList' \in Surjection(1 .. n, rest)
  <2>1. Cardinality(1 .. n) = n
    BY <1>5, FS_Interval
  <2>2. idleList' \in Injection(1 .. n, rest)
    BY <1>3 DEF Injection, IsInjective
  <2> QED
    BY <1>4, <2>1, <2>2, FS_Injection
<1> HIDE DEF n
<1>7. /\ idleList' \in Seq(Handler)
      /\ DOMAIN idleList' = 1 .. n /\ Len(idleList') = n
  <2>1. idleList' \in [1 .. n -> Handler]
    BY <1>3, <1>4
  <2>2. idleList' \in Seq(Handler)
    BY <1>5, <2>1, IsASeq
  <2> QED
    BY <1>5, <2>1, <2>2, LenProperties
<1>8. \A h : Listed(h)' <=> h \in rest
  <2>1. \A h : Listed(h)' <=> \E i \in 1 .. n : idleList'[i] = h
    BY <1>7 DEF Listed, Contains
  <2>2. \A h \in rest : \E i \in 1 .. n : idleList'[i] = h
    BY <1>6 DEF Surjection
  <2>3. \A i \in 1 .. n : idleList'[i] \in rest
    BY <1>3
  <2> QED
    BY <2>1, <2>2, <2>3
<1> QED
  BY <1>2, <1>3, <1>7, <1>8

LEMMA CancelIdleCallInductive ==
    ASSUME Inductive, NEW c \in Call, CancelIdleCall(c)
    PROVE  Inductive'
<1>1. TypeOK /\ Sorted /\ LastValid /\ CalledOnce
  BY InductiveMembers
<1>2. /\ cancelled' = cancelled \cup Cancelled(c)
      /\ UNCHANGED <<idleGeneration, generation, call, registered, passes, served, unwinds>>
      /\ lastIdlePtr' = IF call[Last(idleList)] # c THEN lastIdlePtr
                        ELSE IF idleList' = <<>> THEN NULL ELSE Last(idleList')
  BY DEF CancelIdleCall
<1>3. /\ idleList' \in Seq(Handler)
      /\ \A h : Contains(idleList', h) <=> Listed(h) /\ call[h] # c
      /\ \A i, j \in DOMAIN idleList' : i < j => Index(idleList'[i]) < Index(idleList'[j])
  BY CancelEffect DEF Listed
<1>4. /\ Len(idleList) \in Nat /\ DOMAIN idleList = 1 .. Len(idleList)
      /\ \A i \in DOMAIN idleList : idleList[i] \in Handler /\ Listed(idleList[i])
      /\ \A h : Listed(h) => h \in Handler /\ \E i \in DOMAIN idleList : idleList[i] = h
  BY <1>1, MemberOfList
<1>5. /\ Len(idleList') \in Nat /\ DOMAIN idleList' = 1 .. Len(idleList')
      /\ \A i \in DOMAIN idleList' :
            idleList'[i] \in Handler /\ Contains(idleList', idleList'[i])
  BY <1>3, LenProperties, ElementOfSeq DEF Contains
<1>6. \A h : Listed(h) => /\ Index(h) \in DOMAIN idleList
                          /\ idleList[Index(h)] = h
  BY <1>1, <1>4, IndexOfListed
<1>7. Sorted'
  <2> SUFFICES ASSUME NEW i \in DOMAIN idleList', NEW j \in DOMAIN idleList', i < j
               PROVE  idleList'[i] < idleList'[j]
    BY DEF Sorted
  <2>1. Index(idleList'[i]) < Index(idleList'[j])
    BY <1>3
  <2>2. Listed(idleList'[i]) /\ Listed(idleList'[j])
    BY <1>3, <1>5
  <2> QED
    BY <1>1, <1>6, <2>1, <2>2 DEF Sorted
<1>8. LastValid'
  <2>1. idleList # <<>>
    <3>1. PICK h \in Handler : Listed(h)
      BY DEF CancelIdleCall, Cancelled
    <3> QED
      BY <1>4, <3>1
  <2>2. /\ Len(idleList) \in DOMAIN idleList
        /\ lastIdlePtr = idleList[Len(idleList)]
        /\ Last(idleList) = lastIdlePtr
    BY <1>1, <2>1, LastOfList DEF LastValid, Last
  <2>3. CASE call[Last(idleList)] = c
    BY <1>2, <2>3 DEF LastValid, Last
  <2>4. CASE call[Last(idleList)] # c
    <3>1. Contains(idleList', lastIdlePtr)
      BY <1>3, <1>4, <2>2, <2>4
    <3>2. PICK k \in DOMAIN idleList' : idleList'[k] = lastIdlePtr
      BY <1>5, <3>1 DEF Contains
    <3>3. k \in Nat /\ k <= Len(idleList') /\ Len(idleList') \in DOMAIN idleList'
      BY <1>5
    <3>4. ~ k < Len(idleList')
      <4>1. Index(lastIdlePtr) = Len(idleList)
        BY <1>1, <2>2, IndexOfListed
      <4>2. Listed(idleList'[Len(idleList')])
        BY <1>3, <1>5, <3>3
      <4>3. /\ Index(idleList'[Len(idleList')]) <= Len(idleList)
            /\ Index(idleList'[Len(idleList')]) \in Nat
        BY <1>4, <1>6, <4>2
      <4>4. ~ Index(lastIdlePtr) < Index(idleList'[Len(idleList')])
        BY <1>4, <4>1, <4>3
      <4> QED
        BY <1>3, <3>2, <3>3, <4>4
    <3>5. k = Len(idleList')
      BY <1>5, <3>3, <3>4
    <3>6. idleList' # <<>>
      BY <3>2
    <3> QED
      BY <1>2, <2>4, <3>2, <3>5, <3>6 DEF LastValid
  <2> QED
    BY <2>3, <2>4
<1>9. lastIdlePtr' \in Handler \cup {NULL}
  <2>1. idleList' # <<>> => Len(idleList') \in DOMAIN idleList'
    BY <1>3, <1>5, EmptySeq
  <2> QED
    BY <1>5, <1>8, <2>1 DEF LastValid
<1>10. TypeOK'
  BY <1>1, <1>2, <1>3, <1>9 DEF TypeOK, Cancelled
<1>11. \A h : Listed(h)' <=> Listed(h) /\ call[h] # c
  BY <1>3 DEF Listed
<1>12. CalledOnce'
  <2>1. \A h \in Handler : h \in Cancelled(c) <=> Listed(h) /\ call[h] = c
    BY DEF Cancelled
  <2> QED
    BY <1>1, <1>2, <1>11, <2>1 DEF CalledOnce
<1>13. Generations' /\ PassGenerations'
  BY <1>1, <1>2, <1>10, <1>11, ListShortened DEF TypeOK
<1> QED
  BY <1>7, <1>8, <1>10, <1>12, <1>13, InductiveMembers, PTL

\* The first handler leaves the list and runs, in a pass that may run it.
LEMMA RunFirstKeeps ==
    ASSUME Inductive, idleList # <<>>,
           NEW below \in Seq(Pass), NEW old \in Nat, NEW limit \in 0 .. MaxIdle,
           RunFirst(below, old, limit),
           UNCHANGED <<generation, call, registered, cancelled, unwinds>>,
           idleGeneration' \in Nat, idleGeneration <= idleGeneration',
           \A i \in DOMAIN below : i \in DOMAIN passes /\ below[i] = passes[i],
           old < idleGeneration', limit <= registered,
           \A h \in Handler : Listed(h) => (generation[h] <= old <=> h <= limit)
    PROVE  Inductive'
<1> DEFINE first == Head(idleList)
           n == Len(idleList)
<1>1. TypeOK /\ Sorted /\ LastValid /\ CalledOnce
  BY InductiveMembers
<1>2. /\ served' = served \cup {first}
      /\ passes' = Append(below, [old |-> old, running |-> first, limit |-> limit])
      /\ idleList' = Tail(idleList)
      /\ lastIdlePtr' = IF n = 1 THEN NULL ELSE lastIdlePtr
  BY DEF RunFirst
<1>3. /\ n \in Nat \ {0} /\ DOMAIN idleList = 1 .. n
      /\ \A i \in 1 .. n : idleList[i] \in Handler
      /\ \A h : Listed(h) <=> \E i \in 1 .. n : idleList[i] = h
  <2>1. n \in Nat \ {0}
    BY <1>1, EmptySeq DEF TypeOK
  <2>2. DOMAIN idleList = 1 .. n /\ \A i \in DOMAIN idleList : idleList[i] \in Handler
    BY <1>1, MemberOfList
  <2>3. \A h : Listed(h) <=> \E i \in 1 .. n : idleList[i] = h
    BY DEF Listed, Contains
  <2> HIDE DEF n
  <2> QED
    BY <2>1, <2>2, <2>3
<1>4. /\ first = idleList[1] /\ first \in Handler
      /\ idleList' \in Seq(Handler) /\ Len(idleList') = n - 1
      /\ DOMAIN idleList' = 1 .. n - 1
      /\ \A i \in 1 .. n - 1 : idleList'[i] = idleList[i + 1]
  <2>1. /\ idleList' \in Seq(Handler) /\ Len(idleList') = n - 1
        /\ \A i \in 1 .. Len(idleList') : idleList'[i] = idleList[i + 1]
    BY <1>1, <1>2, HeadTailProperties DEF TypeOK
  <2>2. first = idleList[1]
    BY <1>1, TailElements DEF TypeOK
  <2>3. 1 \in 1 .. n
    BY <1>3
  <2> QED
    BY <1>3, <2>1, <2>2, <2>3, LenProperties
<1> HIDE DEF first, n
<1>5. \A h : Listed(h)' <=> Listed(h) /\ h # first
  <2>1. \A h : Listed(h)' <=> \E i \in 1 .. n - 1 : idleList[i + 1] = h
    BY <1>4 DEF Listed, Contains
  <2>2. \A i \in 1 .. n : i # 1 => idleList[1] < idleList[i]
    BY <1>1, <1>3 DEF Sorted
  <2>3. \A i \in 1 .. n : i # 1 => idleList[i] # first
    BY <1>3, <1>4, <2>2 DEF Handler
  <2>4. \A i \in 1 .. n - 1 : i + 1 \in 1 .. n /\ i + 1 # 1
    BY <1>3
  <2>5. \A i \in 1 .. n : i # 1 => i - 1 \in 1 .. n - 1 /\ (i - 1) + 1 = i
    BY <1>3
  <2> QED
    BY <1>3, <1>4, <2>1, <2>3, <2>4, <2>5
<1>6. Listed(first)
  BY <1>3, <1>4
<1>7. Sorted'
  <2> SUFFICES ASSUME NEW i \in DOMAIN idleList', NEW j \in DOMAIN idleList', i < j
               PROVE  idleList'[i] < idleList'[j]
    BY DEF Sorted
  <2>1. i \in 1 .. n - 1 /\ j \in 1 .. n - 1
    BY <1>4
  <2>2. i + 1 \in DOMAIN idleList /\ j + 1 \in DOMAIN idleList /\ i + 1 < j + 1
    BY <1>3, <2>1
  <2>3. idleList[i + 1] < idleList[j + 1]
    BY <1>1, <2>2 DEF Sorted
  <2> QED
    BY <1>4, <2>1, <2>3
<1>8. LastValid'
  <2>1. CASE n = 1
    <3>1. idleList' = <<>>
      BY <1>4, <2>1, EmptySeq
    <3> QED
      BY <1>2, <2>1, <3>1 DEF LastValid
  <2>2. CASE n # 1
    <3>1. /\ n - 1 \in 1 .. n - 1 /\ (n - 1) + 1 = n /\ idleList' # <<>>
      BY <1>3, <1>4, <2>2, EmptySeq
    <3>2. idleList'[Len(idleList')] = idleList[n]
      BY <1>4, <3>1
    <3>3. lastIdlePtr = idleList[n]
      BY <1>1 DEF LastValid, n
    <3> QED
      BY <1>2, <2>2, <3>1, <3>2, <3>3 DEF LastValid
  <2> QED
    BY <2>1, <2>2
<1>9. [old |-> old, running |-> first, limit |-> limit] \in Pass
  BY <1>4 DEF Pass
<1>10. /\ passes' \in Seq(Pass)
       /\ DOMAIN passes' = 1 .. Len(below) + 1 /\ DOMAIN below = 1 .. Len(below)
       /\ \A i \in 1 .. Len(below) + 1 : passes'[i] =
            IF i = Len(below) + 1 THEN [old |-> old, running |-> first, limit |-> limit]
            ELSE below[i]
  BY <1>2, <1>9, AppendElements, LenProperties
<1>11. TypeOK'
  <2>1. lastIdlePtr' \in Handler \cup {NULL}
    BY <1>1, <1>2 DEF TypeOK
  <2>2. served' \subseteq Handler
    BY <1>1, <1>2, <1>4 DEF TypeOK
  <2> QED
    BY <1>1, <1>4, <1>10, <2>1, <2>2 DEF TypeOK
<1>12. CalledOnce'
  BY <1>1, <1>2, <1>5, <1>6 DEF CalledOnce
<1>13. /\ Generations'
       /\ \A i \in DOMAIN passes :
                /\ passes[i].old < idleGeneration'
                /\ passes[i].limit <= registered'
                /\ \A h \in Handler : Listed(h)' =>
                        (generation'[h] <= passes[i].old <=> h <= passes[i].limit)
  BY <1>5, <1>11, ListShortened DEF TypeOK
<1>14. PassGenerations'
  <2> SUFFICES ASSUME NEW i \in DOMAIN passes'
               PROVE  /\ passes'[i].old < idleGeneration'
                      /\ passes'[i].limit <= registered'
                      /\ \A h \in Handler : Listed(h)' =>
                            (generation'[h] <= passes'[i].old <=> h <= passes'[i].limit)
    BY DEF PassGenerations
  <2>1. CASE i = Len(below) + 1
    <3>1. passes'[i].old = old /\ passes'[i].limit = limit
      BY <1>10, <2>1
    <3> QED
      BY <1>5, <3>1
  <2>2. CASE i # Len(below) + 1
    <3>1. i \in DOMAIN below
      BY <1>10, <2>2, LenProperties
    <3>2. i \in DOMAIN passes /\ passes'[i] = passes[i]
      BY <1>10, <2>2, <3>1
    <3> QED
      BY <1>13, <3>2
  <2> QED
    BY <2>1, <2>2
<1> QED
  BY <1>7, <1>8, <1>11, <1>12, <1>13, <1>14, InductiveMembers, PTL

\* A pass that begins may run every handler in the list.
LEMMA ServiceIdleInductive ==
    ASSUME Inductive, ServiceIdle
    PROVE  Inductive'
<1>1. TypeOK /\ Sorted /\ LastValid /\ Generations /\ CalledOnce
  BY InductiveMembers
<1>2. /\ idleList # <<>> /\ idleGeneration' = idleGeneration + 1
      /\ UNCHANGED <<generation, call, registered, cancelled, unwinds>>
      /\ idleGeneration \in Nat /\ passes \in Seq(Pass) /\ registered \in 0 .. MaxIdle
  BY <1>1 DEF ServiceIdle, TypeOK
<1>3. CASE Runnable(idleGeneration)
  <2>1. RunFirst(passes, idleGeneration, registered)
    BY <1>3 DEF ServiceIdle
  <2>2. \A h \in Handler : Listed(h) => generation[h] <= idleGeneration /\ h <= registered
    BY <1>1 DEF Generations, CalledOnce
  <2>3. idleGeneration < idleGeneration' /\ idleGeneration' \in Nat
        /\ idleGeneration <= idleGeneration' /\ registered <= registered
    BY <1>2
  <2> QED
    BY <1>2, <2>1, <2>2, <2>3, RunFirstKeeps
<1>4. CASE ~ Runnable(idleGeneration)
  <2>1. UNCHANGED <<idleList, lastIdlePtr, passes, served>>
    BY <1>4 DEF ServiceIdle
  <2>2. TypeOK'
    BY <1>1, <1>2, <2>1 DEF TypeOK
  <2>3. (\A h : Listed(h)' <=> Listed(h)) /\ idleGeneration <= idleGeneration'
    BY <1>2, <2>1 DEF Listed
  <2>4. Generations' /\ PassGenerations'
    BY <1>2, <2>1, <2>2, <2>3, ListShortened
  <2>5. Sorted' /\ LastValid' /\ CalledOnce'
    BY <1>1, <1>2, <2>1, <2>3 DEF Sorted, LastValid, CalledOnce
  <2> QED
    BY <2>2, <2>4, <2>5, InductiveMembers, PTL
<1> QED
  BY <1>3, <1>4

\* The innermost pass and those around it.
LEMMA InnermostPass ==
    ASSUME Inductive, passes # <<>>
    PROVE  /\ Top \in Pass /\ Len(passes) \in DOMAIN passes
           /\ Front(passes) \in Seq(Pass)
           /\ Len(passes) \in Nat \ {0} /\ Len(Front(passes)) = Len(passes) - 1
           /\ \A i \in DOMAIN Front(passes) : i \in DOMAIN passes /\ Front(passes)[i] = passes[i]
           /\ Top.old < idleGeneration /\ Top.limit <= registered
           /\ \A h \in Handler : Listed(h) =>
                    (generation[h] <= Top.old <=> h <= Top.limit)
<1>1. passes \in Seq(Pass) /\ PassGenerations
  BY InductiveMembers DEF TypeOK
<1>2. /\ Len(passes) \in DOMAIN passes /\ Top \in Pass /\ Front(passes) \in Seq(Pass)
      /\ Len(passes) \in Nat \ {0} /\ Len(Front(passes)) = Len(passes) - 1
      /\ \A i \in DOMAIN Front(passes) : i \in DOMAIN passes /\ Front(passes)[i] = passes[i]
  BY <1>1, FrontOfStack DEF Top
<1> QED
  BY <1>1, <1>2 DEF PassGenerations, Top

\* Passes end: nothing else changes.
LEMMA PassesEnded ==
    ASSUME Inductive, passes' \in Seq(Pass), unwinds' \in Nat,
           \A i \in DOMAIN passes' : i \in DOMAIN passes /\ passes'[i] = passes[i],
           UNCHANGED <<idleList, lastIdlePtr, idleGeneration, generation, call, registered,
                       served, cancelled>>
    PROVE  Inductive'
<1>1. /\ TypeOK /\ LastValid /\ CalledOnce /\ Sorted /\ Generations /\ PassGenerations
  BY InductiveMembers
<1>2. \A h : Listed(h)' <=> Listed(h)
  BY DEF Listed
<1>3. TypeOK' /\ LastValid' /\ CalledOnce' /\ Sorted' /\ Generations'
  BY <1>1, <1>2 DEF TypeOK, LastValid, CalledOnce, Sorted, Generations
<1>4. PassGenerations'
  BY <1>1, <1>2 DEF PassGenerations
<1> QED
  BY <1>3, <1>4, InductiveMembers, PTL

LEMMA HandlerReturnsInductive ==
    ASSUME Inductive, HandlerReturns
    PROVE  Inductive'
<1>1. /\ passes # <<>>
      /\ UNCHANGED <<idleGeneration, generation, call, registered, cancelled, unwinds>>
      /\ idleGeneration \in Nat /\ unwinds \in Nat
  BY DEF HandlerReturns, Inductive, TypeOK
<1>2. /\ Top \in Pass /\ Front(passes) \in Seq(Pass)
      /\ \A i \in DOMAIN Front(passes) : i \in DOMAIN passes /\ Front(passes)[i] = passes[i]
      /\ Top.old < idleGeneration /\ Top.limit <= registered
      /\ \A h \in Handler : Listed(h) => (generation[h] <= Top.old <=> h <= Top.limit)
  BY <1>1, InnermostPass
<1>3. Top.old \in Nat /\ Top.limit \in 0 .. MaxIdle
  BY <1>2 DEF Pass
<1>4. CASE Runnable(Top.old) /\ RunFirst(Front(passes), Top.old, Top.limit)
  <2>1. idleList # <<>> /\ idleGeneration' \in Nat /\ idleGeneration <= idleGeneration'
    BY <1>1, <1>4 DEF Runnable
  <2> QED
    BY <1>1, <1>2, <1>3, <1>4, <2>1, RunFirstKeeps
<1>5. CASE passes' = Front(passes) /\ UNCHANGED <<idleList, lastIdlePtr, served>>
  BY <1>1, <1>2, <1>5, PassesEnded
<1> QED
  BY <1>4, <1>5 DEF HandlerReturns

LEMMA UnwindInductive ==
    ASSUME Inductive, NEW depth \in 0 .. Len(passes), Unwind(depth)
    PROVE  Inductive'
<1>1. /\ passes \in Seq(Pass) /\ passes' = SubSeq(passes, 1, depth)
      /\ unwinds \in Nat /\ unwinds' = unwinds + 1
      /\ UNCHANGED <<idleList, lastIdlePtr, idleGeneration, generation, call, registered,
                     served, cancelled>>
  BY DEF Unwind, Inductive, TypeOK
<1>2. /\ passes' \in Seq(Pass)
      /\ \A i \in DOMAIN passes' : i \in DOMAIN passes /\ passes'[i] = passes[i]
  BY <1>1, PrefixElements
<1> QED
  BY <1>1, <1>2, PassesEnded

LEMMA StepInductive ==
    ASSUME Inductive, [Next]_vars
    PROVE  Inductive'
<1>1. ASSUME NEW c \in Call, CancelIdleCall(c) PROVE Inductive'
  BY <1>1, CancelIdleCallInductive
<1>2. ASSUME NEW depth \in 0 .. Len(passes), Unwind(depth) PROVE Inductive'
  BY <1>2, UnwindInductive
<1>3. CASE DoWhenIdle \/ ServiceIdle \/ HandlerReturns
  BY <1>3, DoWhenIdleInductive, ServiceIdleInductive, HandlerReturnsInductive
<1>4. CASE UNCHANGED vars
  <2>1. passes \in Seq(Pass) /\ unwinds \in Nat
    BY DEF Inductive, TypeOK
  <2> QED
    BY <1>4, <2>1, PassesEnded DEF vars
<1> QED
  BY <1>1, <1>2, <1>3, <1>4 DEF Next

-----------------------------------------------------------------------------
(***************************************************************************)
(* The order of the list makes lastIdlePtr's place unique and makes a      *)
(* generation a prefix of the list; with that, each part keeps the others. *)
(***************************************************************************)
THEOREM InductiveInvariant == Spec => []Inductive
<1>1. Init => Inductive
  BY InitInductive
<1>2. Inductive /\ [Next]_vars => Inductive'
  BY StepInductive
<1> QED
  BY <1>1, <1>2, PTL DEF Spec

\* Every variable keeps its type; lastIdlePtr in particular is a handler or NULL.
THEOREM TypeCorrect == Spec => []TypeOK
<1>1. Inductive => TypeOK
  BY DEF Inductive
<1> QED
  BY <1>1, InductiveInvariant, PTL

\* Tcl_DoWhenIdle always links the new handler behind the last one of the list.
THEOREM LastPointerValid == Spec => []LastValid
<1>1. Inductive => LastValid
  BY DEF Inductive
<1> QED
  BY <1>1, InductiveInvariant, PTL

\* Handlers run in the order of their registration.
THEOREM FirstInFirstOut == Spec => []Fifo
<1>1. Inductive => Fifo
  BY DEF Inductive
<1> QED
  BY <1>1, InductiveInvariant, PTL

\* No handler is lost, called twice, or called after Tcl_CancelIdleCall.
THEOREM NoneLost == Spec => []CalledOnce
<1>1. Inductive => CalledOnce
  BY DEF Inductive
<1> QED
  BY <1>1, InductiveInvariant, PTL

\* TclServiceIdle serves the handlers present when it was called, and no other,
\* through the passes nested in it.
THEOREM PassesServeThosePresent == Spec => PassServesThosePresent
<1> DEFINE Served == HandlerReturns =>
                        IF Len(passes') < Len(passes)
                        THEN \A i \in DOMAIN idleList : idleList[i] > Top.limit
                        ELSE passes'[Len(passes)].running <= Top.limit
<1>1. ASSUME Inductive, HandlerReturns
      PROVE  IF Len(passes') < Len(passes)
             THEN \A i \in DOMAIN idleList : idleList[i] > Top.limit
             ELSE passes'[Len(passes)].running <= Top.limit
  <2>1. TypeOK /\ Sorted /\ Generations /\ passes # <<>>
    BY <1>1, InductiveMembers DEF HandlerReturns
  <2>2. /\ Top \in Pass /\ Front(passes) \in Seq(Pass)
        /\ Len(passes) \in Nat \ {0} /\ Len(Front(passes)) = Len(passes) - 1
        /\ \A h \in Handler : Listed(h) => (generation[h] <= Top.old <=> h <= Top.limit)
    BY <1>1, <2>1, InnermostPass
  <2>3. Top.old \in Nat /\ Top.limit \in Nat
    BY <2>2 DEF Pass
  <2>4. /\ Len(idleList) \in Nat /\ DOMAIN idleList = 1 .. Len(idleList)
        /\ \A i \in DOMAIN idleList : idleList[i] \in Handler /\ Listed(idleList[i])
        /\ generation \in [Handler -> Nat]
    BY <2>1, MemberOfList DEF TypeOK
  <2>5. idleList # <<>> => /\ Head(idleList) = idleList[1] /\ 1 \in DOMAIN idleList
                           /\ Head(idleList) \in Handler
    BY <2>1, TailElements DEF TypeOK
  <2>6. CASE Runnable(Top.old) /\ RunFirst(Front(passes), Top.old, Top.limit)
    <3>1. Head(idleList) <= Top.limit
      BY <2>2, <2>4, <2>5, <2>6 DEF Runnable
    <3> DEFINE p == [old |-> Top.old, running |-> Head(idleList), limit |-> Top.limit]
    <3>2. p \in Pass /\ p.running = Head(idleList)
      BY <2>2, <2>5, <2>6 DEF Pass, Runnable
    <3>3. passes' = Append(Front(passes), p)
      BY <2>6 DEF RunFirst
    <3> HIDE DEF p
    <3>4. Len(passes') = Len(passes) /\ passes'[Len(passes)] = p
      BY <2>2, <3>2, <3>3, AppendProperties
    <3> QED
      BY <2>2, <3>1, <3>2, <3>4
  <2>7. CASE ~ Runnable(Top.old) /\ passes' = Front(passes)
    <3>1. Len(passes') < Len(passes)
      BY <2>2, <2>7
    <3>2. ASSUME NEW i \in DOMAIN idleList PROVE idleList[i] > Top.limit
      <4>1. idleList # <<>> /\ ~ generation[idleList[1]] <= Top.old
        BY <2>4, <2>5, <2>7, <3>2 DEF Runnable
      <4>2. generation[idleList[1]] <= generation[idleList[i]]
        <5>1. i = 1 \/ idleList[1] < idleList[i]
          BY <2>1, <2>4, <2>5, <3>2, <4>1 DEF Sorted
        <5> QED
          BY <2>1, <2>4, <2>5, <4>1, <5>1 DEF Generations
      <4>3. ~ generation[idleList[i]] <= Top.old
        BY <2>3, <2>4, <2>5, <4>1, <4>2
      <4>4. ~ idleList[i] <= Top.limit
        BY <2>2, <2>4, <4>3
      <4> QED
        BY <2>3, <2>4, <4>4 DEF Handler
    <3> QED
      BY <3>1, <3>2
  <2> QED
    BY <1>1, <2>6, <2>7 DEF HandlerReturns
<1>2. Inductive /\ [Next]_vars => [Served]_vars
  BY <1>1
<1> QED
  BY <1>2, InductiveInvariant, PTL DEF Spec, PassServesThosePresent

=============================================================================
