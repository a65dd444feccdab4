----------------------------- MODULE TimerProofs -----------------------------
(***************************************************************************)
(* The invariant of Timer is inductive, passes serve their generation, and *)
(* the list with its queued event and nested passes implements             *)
(* TimerService: for every number of timers, every delay, every clock and  *)
(* every number of exceptions.                                             *)
(***************************************************************************)
EXTENDS Timer, ListLemmas

USE MaxTimersAssumption, DelayAssumption

\* The first timer is before every other one.
LEMMA HeadIsFirst ==
    ASSUME TypeOK, Ordered, timers # <<>>
    PROVE  /\ Head(timers) \in Token
           /\ Listed(Head(timers))
           /\ \A u \in Token : Listed(u) /\ u # Head(timers) => Before(Head(timers), u)
<1>1. /\ timers \in Seq(Token)
      /\ DOMAIN timers = 1 .. Len(timers)
      /\ Len(timers) \in Nat
  BY LenProperties DEF TypeOK
<1>2. 1 \in DOMAIN timers /\ Head(timers) = timers[1] /\ Head(timers) \in Token
  BY <1>1, TailElements DEF TypeOK
<1>3. ASSUME NEW i \in DOMAIN timers, i # 1
      PROVE  Before(Head(timers), timers[i])
  BY <1>1, <1>2, <1>3 DEF Ordered
<1> QED
  BY <1>2, <1>3 DEF Listed, Contains

\* No timer is in the list twice.
LEMMA NoDuplicates ==
    ASSUME TypeOK, Ordered
    PROVE  \A i, j \in DOMAIN timers : i # j => timers[i] # timers[j]
<1>1. /\ timers \in Seq(Token)
      /\ DOMAIN timers = 1 .. Len(timers)
      /\ Len(timers) \in Nat
      /\ deadline \in [Token -> Nat]
  BY LenProperties DEF TypeOK
<1>2. \A i \in DOMAIN timers : timers[i] \in Token
  BY <1>1, ElementOfSeq
<1>3. \A t \in Token : ~ Before(t, t)
  BY <1>1 DEF Before, Token
<1> QED
  BY <1>1, <1>2, <1>3 DEF Ordered

\* Taking the k-th timer out of the list, to run it or to delete it, keeps the
\* order, and the timer is then accounted for.
LEMMA RemovedKeeps ==
    ASSUME Inductive, NEW k \in 1 .. Len(timers),
           timers' \in Seq(Token), IsRemoval(timers', timers, k),
           UNCHANGED <<deadline, lastTimerId>>,
           \/ invoked' = invoked \cup {timers[k]} /\ cancelled' = cancelled
           \/ cancelled' = cancelled \cup {timers[k]} /\ invoked' = invoked
    PROVE  /\ Ordered' /\ ExactlyOnce'
           /\ timers[k] \in Token
           /\ \A t \in Token : Listed(t)' <=> Listed(t) /\ t # timers[k]
<1> USE DEF Inductive
<1>1. timers \in Seq(Token) /\ Len(timers) \in Nat /\ DOMAIN timers = 1 .. Len(timers)
  BY LenProperties DEF TypeOK
<1>2. timers[k] \in Token
  BY <1>1, ElementOfSeq
<1>3. \A t : Listed(t)' <=> Listed(t) /\ t # timers[k]
  <2>1. \A i \in DOMAIN timers : i # k => timers[i] # timers[k]
    BY <1>1, NoDuplicates
  <2> QED
    BY <1>1, <2>1, RemovalMembers DEF Listed
<1>4. Ordered'
  <2>1. /\ \A i \in DOMAIN timers' :
             /\ BeforeRemoval(i, k) \in DOMAIN timers \ {k}
             /\ timers'[i] = timers[BeforeRemoval(i, k)]
        /\ \A i, j \in DOMAIN timers' :
             i < j <=> BeforeRemoval(i, k) < BeforeRemoval(j, k)
    BY <1>1, RemovalOrigin
  <2>2. \A t, u : Before(t, u)' <=> Before(t, u)
    BY DEF Before
  <2> QED
    BY <2>1, <2>2 DEF Ordered
<1>5. Listed(timers[k])
  BY <1>1 DEF Listed, Contains
<1>6. ExactlyOnce'
  BY <1>2, <1>3, <1>5 DEF ExactlyOnce
<1> QED
  BY <1>2, <1>3, <1>4, <1>6

\* The passes that go on, with the one on top that runs its first timer.
LEMMA PassPushed ==
    ASSUME NEW below \in Seq(Pass), NEW p \in Pass,
           \A i \in DOMAIN below : SawOlderOnly(below[i]), SawOlderOnly(p),
           passes' = Append(below, p),
           UNCHANGED <<deadline, lastTimerId, now>>
    PROVE  /\ passes' \in Seq(Pass)
           /\ Len(passes') = Len(below) + 1
           /\ passes'[Len(passes')] = p
           /\ NewerIsLater'
<1>1. /\ passes' \in Seq(Pass)
      /\ Len(below) \in Nat /\ DOMAIN below = 1 .. Len(below)
      /\ Len(passes') = Len(below) + 1
      /\ DOMAIN passes' = 1 .. Len(below) + 1
      /\ \A i \in DOMAIN below : passes'[i] = below[i]
      /\ passes'[Len(below) + 1] = p
  BY AppendProperties, LenProperties
<1>2. \A q : SawOlderOnly(q)' <=> SawOlderOnly(q)
  <2> SUFFICES ASSUME NEW q PROVE SawOlderOnly(q)' <=> SawOlderOnly(q)
    OBVIOUS
  <2> QED
    BY DEF SawOlderOnly
<1>3. \A i \in DOMAIN passes' : SawOlderOnly(passes'[i])
  BY <1>1
<1> QED
  BY <1>1, <1>2, <1>3 DEF NewerIsLater

-----------------------------------------------------------------------------
\* The invariant holds at the start.
LEMMA InitInductive == Init => Inductive
<1> SUFFICES ASSUME Init PROVE Inductive
  OBVIOUS
<1>1. TypeOK
  <2>1. timers \in Seq(Token) /\ passes \in Seq(Pass)
    BY DEF Init
  <2>2. deadline \in [Token -> Nat]
    BY DEF Init
  <2>3. lastTimerId \in 0 .. MaxTimers
    BY DEF Init
  <2>4. invoked \subseteq Token /\ cancelled \subseteq Token
    BY DEF Init
  <2>5. timerPending \in BOOLEAN /\ queued \in Nat /\ now \in Nat /\ unwinds \in Nat
    BY DEF Init
  <2> QED
    BY <2>1, <2>2, <2>3, <2>4, <2>5 DEF TypeOK
<1>2. \A t \in Token : ~ Listed(t) /\ ~ t <= lastTimerId
  BY DEF Init, Listed, Contains, Token
<1> QED
  BY <1>1, <1>2 DEF Init, Inductive, PendingIsQueued, Ordered, ExactlyOnce, NewerIsLater

\* The new timer goes behind the ones that are not later, and is the youngest.
LEMMA CreateInductive ==
    ASSUME Inductive, NEW ms \in Delay, CreateTimerHandler(ms)
    PROVE  /\ Inductive'
           /\ \A t \in Token : Listed(t)' <=> Listed(t) \/ t = lastTimerId + 1
<1> DEFINE n == lastTimerId + 1
<1>1. /\ timers \in Seq(Token) /\ Len(timers) \in Nat
      /\ DOMAIN timers = 1 .. Len(timers)
      /\ deadline \in [Token -> Nat]
      /\ lastTimerId \in Nat /\ now \in Nat /\ ms \in Nat
  BY LenProperties DEF Inductive, TypeOK
<1>2. n \in Token /\ lastTimerId' = n
  BY <1>1 DEF CreateTimerHandler, Token
<1>3. deadline' = [deadline EXCEPT ![n] = now + ms]
  BY DEF CreateTimerHandler
<1>4. PICK at \in 1 .. Len(timers) + 1 :
        InsertsAt(at, now + ms) /\ timers' = InsertAt(timers, at, n)
  BY DEF CreateTimerHandler
<1>5. timers' \in Seq(Token) /\ IsInsertion(timers', timers, at, n)
  BY <1>1, <1>2, <1>4, InsertAtElements
<1> HIDE DEF n
<1>6. /\ DOMAIN timers' = 1 .. Len(timers) + 1
      /\ timers'[at] = n
      /\ \A i \in DOMAIN timers' \ {at} :
           /\ BeforeInsertion(i, at) \in DOMAIN timers
           /\ timers'[i] = timers[BeforeInsertion(i, at)]
      /\ \A i, j \in DOMAIN timers' \ {at} :
           i < j <=> BeforeInsertion(i, at) < BeforeInsertion(j, at)
  BY <1>1, <1>2, <1>5, InsertionOrigin
<1>7. \A t \in Token : Listed(t)' <=> Listed(t) \/ t = n
  BY <1>1, <1>2, <1>5, InsertionMembers DEF Listed
<1>8. \A t \in Token : Listed(t) => t < n
  BY <1>1 DEF n, Inductive, ExactlyOnce, Token
<1>9. \A i \in DOMAIN timers :
        /\ timers[i] \in Token /\ Listed(timers[i]) /\ timers[i] < n
        /\ deadline'[timers[i]] = deadline[timers[i]]
  <2>1. \A i \in DOMAIN timers : timers[i] \in Token /\ Listed(timers[i])
    BY <1>1, ElementOfSeq DEF Listed, Contains
  <2>2. \A i \in DOMAIN timers : timers[i] < n
    BY <2>1, <1>8
  <2> QED
    BY <1>1, <1>2, <1>3, <2>1, <2>2 DEF Token
<1>10. deadline'[n] = now + ms /\ deadline' \in [Token -> Nat]
  BY <1>1, <1>2, <1>3
<1>11. TypeOK'
  BY <1>1, <1>2, <1>5, <1>10 DEF Inductive, TypeOK, CreateTimerHandler, Token, Pass
<1>12. Ordered'
  <2> SUFFICES ASSUME NEW i \in DOMAIN timers', NEW j \in DOMAIN timers', i < j
               PROVE  Before(timers[i], timers[j])'
    BY DEF Ordered
  <2>1. CASE i # at /\ j # at
    <3> DEFINE a == BeforeInsertion(i, at)
               b == BeforeInsertion(j, at)
    <3>1. /\ a \in DOMAIN timers /\ b \in DOMAIN timers /\ a < b
          /\ timers'[i] = timers[a] /\ timers'[j] = timers[b]
      BY <1>6, <2>1
    <3> HIDE DEF a, b
    <3>2. Before(timers[a], timers[b])
      BY <3>1 DEF Inductive, Ordered
    <3> QED
      BY <1>9, <3>1, <3>2 DEF Before
  <2>2. CASE j = at
    <3>1. i \in 1 .. at - 1 /\ i \in DOMAIN timers /\ timers'[i] = timers[i]
      BY <1>1, <1>6, <2>2 DEF BeforeInsertion
    <3>2. deadline[timers[i]] <= now + ms
      BY <1>4, <3>1 DEF InsertsAt
    <3>3. deadline[timers[i]] \in Nat /\ now + ms \in Nat
      BY <1>1, <1>9, <3>1
    <3> QED
      BY <1>6, <1>9, <1>10, <2>2, <3>1, <3>2, <3>3 DEF Before
  <2>3. CASE i = at
    <3>1. /\ j - 1 \in DOMAIN timers /\ timers'[j] = timers[j - 1]
          /\ at <= j - 1 /\ at \in DOMAIN timers
      BY <1>1, <1>6, <2>3 DEF BeforeInsertion
    <3>2. deadline[timers[at]] > now + ms
      BY <1>1, <1>4, <3>1 DEF InsertsAt
    <3>3. at = j - 1 \/ Before(timers[at], timers[j - 1])
      BY <1>1, <3>1 DEF Inductive, Ordered
    <3>4. deadline[timers[at]] \in Nat /\ deadline[timers[j - 1]] \in Nat /\ now + ms \in Nat
      BY <1>1, <1>9, <3>1
    <3>5. deadline[timers[j - 1]] > now + ms
      BY <3>2, <3>3, <3>4 DEF Before
    <3> QED
      BY <1>6, <1>9, <1>10, <2>3, <3>1, <3>4, <3>5 DEF Before
  <2> QED
    BY <2>1, <2>2, <2>3
<1>13. ExactlyOnce'
  <2>1. invoked' = invoked /\ cancelled' = cancelled
    BY DEF CreateTimerHandler
  <2>2. ~ n <= lastTimerId
    BY <1>1 DEF n
  <2>3. \A t \in Token : t <= n <=> t <= lastTimerId \/ t = n
    BY <1>1 DEF n, Token
  <2> QED
    BY <1>2, <1>7, <2>1, <2>2, <2>3 DEF Inductive, ExactlyOnce
<1>14. NewerIsLater'
  <2>1. passes' = passes /\ now' = now /\ passes \in Seq(Pass)
    BY DEF CreateTimerHandler, Inductive, TypeOK
  <2>2. ASSUME NEW p \in Pass, SawOlderOnly(p)
        PROVE  SawOlderOnly(p)'
    <3>1. p.time \in Nat /\ p.limit \in Nat
      BY DEF Pass
    <3>2. p.limit <= n /\ p.time <= now + ms
      BY <1>1, <2>2, <3>1 DEF SawOlderOnly, n
    <3>3. ASSUME NEW t \in Token, p.limit < t, t <= n
          PROVE  p.time <= deadline'[t]
      <4>1. CASE t = n
        BY <1>10, <3>2, <4>1
      <4>2. CASE t # n
        <5>1. t <= lastTimerId
          BY <1>1, <3>3, <4>2 DEF n, Token
        <5> QED
          BY <1>1, <1>3, <2>2, <3>3, <4>2, <5>1 DEF SawOlderOnly
      <4> QED
        BY <4>1, <4>2
    <3> QED
      BY <1>2, <2>1, <2>2, <3>2, <3>3 DEF SawOlderOnly
  <2>3. \A i \in DOMAIN passes : passes[i] \in Pass /\ SawOlderOnly(passes[i])
    BY <2>1, ElementOfSeq, LenProperties DEF Inductive, NewerIsLater
  <2> QED
    BY <2>1, <2>2, <2>3 DEF NewerIsLater
<1>15. PendingIsQueued'
  BY DEF CreateTimerHandler, Inductive, PendingIsQueued
<1> QED
  BY <1>7, <1>11, <1>12, <1>13, <1>14, <1>15 DEF Inductive, n

\* A deleted timer leaves its place to the ones behind it.
LEMMA DeleteInductive ==
    ASSUME Inductive, NEW t \in Token, DeleteTimerHandler(t)
    PROVE  /\ Inductive'
           /\ Listed(t)
           /\ \A u \in Token : Listed(u)' <=> Listed(u) /\ u # t
<1>1. timers \in Seq(Token) /\ DOMAIN timers = 1 .. Len(timers)
  BY LenProperties DEF Inductive, TypeOK
<1>2. PICK k \in DOMAIN timers : timers[k] = t /\ timers' = RemoveAt(timers, k)
  BY DEF DeleteTimerHandler
<1>3. timers' \in Seq(Token) /\ IsRemoval(timers', timers, k)
  BY <1>1, <1>2, RemoveAtElements
<1>4. /\ cancelled' = cancelled \cup {timers[k]}
      /\ UNCHANGED <<deadline, lastTimerId, timerPending, queued, passes, invoked, now,
                     unwinds>>
  BY <1>2 DEF DeleteTimerHandler
<1>5. /\ Ordered' /\ ExactlyOnce'
      /\ \A u \in Token : Listed(u)' <=> Listed(u) /\ u # t
  BY <1>1, <1>2, <1>3, <1>4, RemovedKeeps
<1>6. TypeOK'
  BY <1>2, <1>3, <1>4 DEF Inductive, TypeOK
<1>7. PendingIsQueued' /\ NewerIsLater'
  BY <1>4 DEF Inductive, PendingIsQueued, NewerIsLater, SawOlderOnly
<1>8. Listed(t)
  BY <1>1, <1>2 DEF Listed, Contains
<1> QED
  BY <1>5, <1>6, <1>7, <1>8 DEF Inductive

\* The list, and what became of the timers, stays.
LEMMA TimersUnchanged ==
    ASSUME Ordered, ExactlyOnce,
           UNCHANGED <<timers, deadline, lastTimerId, invoked, cancelled>>
    PROVE  /\ Ordered' /\ ExactlyOnce'
           /\ \A t : Listed(t)' <=> Listed(t)
<1>1. \A t : Listed(t)' <=> Listed(t)
  BY DEF Listed
<1>2. \A t, u : Before(t, u)' <=> Before(t, u)
  BY DEF Before
<1> QED
  BY <1>1, <1>2 DEF Ordered, ExactlyOnce

LEMMA TimerCheckInductive ==
    ASSUME Inductive, TimerCheck
    PROVE  Inductive'
<1>1. /\ ~ timerPending /\ timerPending' = TRUE /\ queued' = queued + 1
      /\ UNCHANGED <<timers, deadline, lastTimerId, passes, invoked, cancelled, now,
                     unwinds>>
  BY DEF TimerCheck
<1>2. Ordered' /\ ExactlyOnce'
  BY <1>1, TimersUnchanged DEF Inductive
<1>3. PendingIsQueued'
  BY <1>1 DEF Inductive, PendingIsQueued
<1>4. NewerIsLater'
  BY <1>1 DEF Inductive, NewerIsLater, SawOlderOnly
<1>5. TypeOK'
  BY <1>1 DEF Inductive, TypeOK
<1> QED
  BY <1>2, <1>3, <1>4, <1>5 DEF Inductive

\* The first timer is run by a pass that began with `limit' at `time', above the
\* passes that stay.
LEMMA RunFirstKeeps ==
    ASSUME Inductive,
           NEW below \in Seq(Pass), \A i \in DOMAIN below : SawOlderOnly(below[i]),
           NEW limit \in 0 .. MaxTimers, NEW time \in Nat,
           SawOlderOnly([limit |-> limit, time |-> time, running |-> Head(timers)]),
           Runnable(limit, time), RunFirst(below, limit, time),
           UNCHANGED <<deadline, lastTimerId, cancelled, now>>
    PROVE  /\ timers' \in Seq(Token) /\ invoked' \subseteq Token /\ passes' \in Seq(Pass)
           /\ Ordered' /\ ExactlyOnce' /\ NewerIsLater'
           /\ Len(passes') = Len(below) + 1
           /\ passes'[Len(passes')].running = Head(timers)
           /\ invoked' = invoked \cup {Head(timers)}
           /\ \A t \in Token : Listed(t)' <=> Listed(t) /\ t # Head(timers)
<1> DEFINE p == [limit |-> limit, time |-> time, running |-> Head(timers)]
<1>1. timers \in Seq(Token) /\ timers # <<>> /\ invoked \subseteq Token
  BY DEF Inductive, TypeOK, Runnable
<1>2. /\ Tail(timers) \in Seq(Token)
      /\ 1 \in 1 .. Len(timers)
      /\ Head(timers) = timers[1]
      /\ Head(timers) \in Token
      /\ IsRemoval(Tail(timers), timers, 1)
  BY <1>1, TailElements
<1>3. /\ passes' = Append(below, p)
      /\ invoked' = invoked \cup {Head(timers)}
      /\ timers' = Tail(timers)
  BY DEF RunFirst
<1>4. /\ Ordered' /\ ExactlyOnce'
      /\ \A t \in Token : Listed(t)' <=> Listed(t) /\ t # Head(timers)
  BY <1>2, <1>3, RemovedKeeps
<1>5. p \in Pass /\ SawOlderOnly(p) /\ p.running = Head(timers)
  BY <1>2 DEF Pass
<1> HIDE DEF p
<1>6. /\ passes' \in Seq(Pass) /\ NewerIsLater'
      /\ Len(passes') = Len(below) + 1
      /\ passes'[Len(passes')] = p
  BY <1>3, <1>5, PassPushed
<1> QED
  BY <1>1, <1>2, <1>3, <1>4, <1>5, <1>6

LEMMA ServiceTimersInductive ==
    ASSUME Inductive, ServiceTimers
    PROVE  /\ Inductive'
           /\ Runnable(lastTimerId, now) =>
                /\ invoked' = invoked \cup {Head(timers)}
                /\ \A t \in Token : Listed(t)' <=> Listed(t) /\ t # Head(timers)
<1>1. /\ queued > 0 /\ queued' = queued - 1 /\ timerPending' = FALSE
      /\ UNCHANGED <<deadline, lastTimerId, cancelled, now, unwinds>>
  BY DEF ServiceTimers
<1>2. PendingIsQueued' /\ queued' \in Nat
  BY <1>1 DEF Inductive, TypeOK, PendingIsQueued
<1>3. CASE ~ Runnable(lastTimerId, now)
  <2>1. UNCHANGED <<timers, passes, invoked>>
    BY <1>3 DEF ServiceTimers
  <2>2. Ordered' /\ ExactlyOnce'
    BY <1>1, <2>1, TimersUnchanged DEF Inductive
  <2>3. NewerIsLater'
    BY <1>1, <2>1 DEF Inductive, NewerIsLater, SawOlderOnly
  <2>4. TypeOK'
    BY <1>1, <1>2, <2>1 DEF Inductive, TypeOK
  <2> QED
    BY <1>2, <1>3, <2>2, <2>3, <2>4 DEF Inductive
<1>4. CASE Runnable(lastTimerId, now)
  <2>1. RunFirst(passes, lastTimerId, now)
    BY <1>4 DEF ServiceTimers
  <2>2. /\ passes \in Seq(Pass) /\ lastTimerId \in 0 .. MaxTimers /\ now \in Nat
        /\ \A i \in DOMAIN passes : SawOlderOnly(passes[i])
    BY DEF Inductive, TypeOK, NewerIsLater
  <2>3. SawOlderOnly([limit |-> lastTimerId, time |-> now, running |-> Head(timers)])
    BY <2>2 DEF SawOlderOnly, Token
  <2>4. /\ timers' \in Seq(Token) /\ invoked' \subseteq Token /\ passes' \in Seq(Pass)
        /\ Ordered' /\ ExactlyOnce' /\ NewerIsLater'
        /\ invoked' = invoked \cup {Head(timers)}
        /\ \A t \in Token : Listed(t)' <=> Listed(t) /\ t # Head(timers)
    BY <1>1, <1>4, <2>1, <2>2, <2>3, RunFirstKeeps
  <2>5. TypeOK'
    BY <1>1, <1>2, <2>4 DEF Inductive, TypeOK
  <2> QED
    BY <1>2, <2>4, <2>5 DEF Inductive
<1> QED
  BY <1>3, <1>4

LEMMA HandlerReturnsInductive ==
    ASSUME Inductive, HandlerReturns
    PROVE  /\ Inductive'
           /\ Top \in Pass /\ SawOlderOnly(Top)
           /\ Len(passes) \in Nat
           /\ ~ Runnable(Top.limit, Top.time) =>
                Len(passes') < Len(passes) /\ timers' = timers
           /\ Runnable(Top.limit, Top.time) =>
                /\ Len(passes') = Len(passes)
                /\ passes'[Len(passes)].running = Head(timers)
                /\ invoked' = invoked \cup {Head(timers)}
                /\ \A t \in Token : Listed(t)' <=> Listed(t) /\ t # Head(timers)
<1>1. /\ passes # <<>> /\ passes \in Seq(Pass)
      /\ UNCHANGED <<deadline, lastTimerId, timerPending, queued, cancelled, now, unwinds>>
  BY DEF HandlerReturns, Inductive, TypeOK
<1>2. /\ Front(passes) \in Seq(Pass)
      /\ Len(passes) \in Nat \ {0}
      /\ Len(Front(passes)) = Len(passes) - 1
      /\ DOMAIN Front(passes) = 1 .. Len(passes) - 1
      /\ \A i \in 1 .. Len(passes) - 1 : i \in DOMAIN passes /\ Front(passes)[i] = passes[i]
      /\ Len(passes) \in DOMAIN passes
      /\ Top \in Pass
  BY <1>1, FrontOfStack DEF Top
<1>3. SawOlderOnly(Top) /\ \A i \in DOMAIN Front(passes) : SawOlderOnly(Front(passes)[i])
  BY <1>2 DEF Inductive, NewerIsLater, Top
<1>4. PendingIsQueued'
  BY <1>1 DEF Inductive, PendingIsQueued
<1>5. CASE ~ Runnable(Top.limit, Top.time)
  <2>1. passes' = Front(passes) /\ UNCHANGED <<timers, invoked>>
    BY <1>5 DEF HandlerReturns
  <2>2. Ordered' /\ ExactlyOnce'
    BY <1>1, <2>1, TimersUnchanged DEF Inductive
  <2>3. NewerIsLater'
    BY <1>1, <1>3, <2>1 DEF NewerIsLater, SawOlderOnly
  <2>4. TypeOK'
    BY <1>1, <1>2, <2>1 DEF Inductive, TypeOK
  <2> QED
    BY <1>2, <1>3, <1>4, <1>5, <2>1, <2>2, <2>3, <2>4 DEF Inductive
<1>6. CASE Runnable(Top.limit, Top.time)
  <2>1. RunFirst(Front(passes), Top.limit, Top.time)
    BY <1>6 DEF HandlerReturns
  <2>2. Top.limit \in 0 .. MaxTimers /\ Top.time \in Nat
    BY <1>2 DEF Pass
  <2>3. SawOlderOnly([limit |-> Top.limit, time |-> Top.time, running |-> Head(timers)])
    BY <1>3 DEF SawOlderOnly
  <2>4. /\ timers' \in Seq(Token) /\ invoked' \subseteq Token /\ passes' \in Seq(Pass)
        /\ Ordered' /\ ExactlyOnce' /\ NewerIsLater'
        /\ Len(passes') = Len(Front(passes)) + 1
        /\ passes'[Len(passes')].running = Head(timers)
        /\ invoked' = invoked \cup {Head(timers)}
        /\ \A t \in Token : Listed(t)' <=> Listed(t) /\ t # Head(timers)
    BY <1>1, <1>2, <1>3, <1>6, <2>1, <2>2, <2>3, RunFirstKeeps
  <2>5. Len(passes') = Len(passes)
    BY <1>2, <2>4
  <2>6. TypeOK'
    BY <1>1, <2>4 DEF Inductive, TypeOK
  <2> QED
    BY <1>2, <1>3, <1>4, <1>6, <2>4, <2>5, <2>6 DEF Inductive
<1> QED
  BY <1>5, <1>6

LEMMA UnwindInductive ==
    ASSUME Inductive, NEW depth \in 0 .. Len(passes), Unwind(depth)
    PROVE  Inductive'
<1>1. /\ passes' = SubSeq(passes, 1, depth) /\ unwinds' = unwinds + 1
      /\ UNCHANGED <<timers, deadline, lastTimerId, timerPending, queued, invoked,
                     cancelled, now>>
  BY DEF Unwind
<1>2. /\ passes' \in Seq(Pass)
      /\ DOMAIN passes' = 1 .. depth
      /\ \A i \in 1 .. depth : i \in DOMAIN passes /\ passes'[i] = passes[i]
  BY <1>1, PrefixElements DEF Inductive, TypeOK
<1>3. Ordered' /\ ExactlyOnce'
  BY <1>1, TimersUnchanged DEF Inductive
<1>4. NewerIsLater'
  BY <1>1, <1>2 DEF Inductive, NewerIsLater, SawOlderOnly
<1>5. TypeOK' /\ PendingIsQueued'
  BY <1>1, <1>2 DEF Inductive, TypeOK, PendingIsQueued
<1> QED
  BY <1>3, <1>4, <1>5 DEF Inductive

LEMMA TickInductive ==
    ASSUME Inductive, Tick
    PROVE  Inductive'
<1>1. /\ now' = now + 1
      /\ UNCHANGED <<timers, deadline, lastTimerId, timerPending, queued, passes, invoked,
                     cancelled, unwinds>>
  BY DEF Tick
<1>2. Ordered' /\ ExactlyOnce'
  BY <1>1, TimersUnchanged DEF Inductive
<1>3. NewerIsLater'
  <2>1. passes \in Seq(Pass) /\ now \in Nat
    BY DEF Inductive, TypeOK
  <2>2. \A i \in DOMAIN passes : passes[i] \in Pass
    BY <2>1, ElementOfSeq, LenProperties
  <2>3. \A p \in Pass : p.time \in Nat
    BY DEF Pass
  <2> QED
    BY <1>1, <2>1, <2>2, <2>3 DEF Inductive, NewerIsLater, SawOlderOnly
<1>4. TypeOK' /\ PendingIsQueued'
  BY <1>1 DEF Inductive, TypeOK, PendingIsQueued
<1> QED
  BY <1>2, <1>3, <1>4 DEF Inductive

LEMMA StutterInductive ==
    ASSUME Inductive, UNCHANGED vars
    PROVE  Inductive'
<1>1. Ordered' /\ ExactlyOnce'
  BY TimersUnchanged DEF Inductive, vars
<1>2. NewerIsLater'
  BY DEF Inductive, NewerIsLater, SawOlderOnly, vars
<1>3. TypeOK' /\ PendingIsQueued'
  BY DEF Inductive, TypeOK, PendingIsQueued, vars
<1> QED
  BY <1>1, <1>2, <1>3 DEF Inductive

-----------------------------------------------------------------------------
\* The invariant is inductive: whatever callbacks create, delete, wait for or throw.
THEOREM InductiveInvariant == Spec => []Inductive
<1>1. Init => Inductive
  BY InitInductive
<1>2. Inductive /\ [Next]_vars => Inductive'
  <2> SUFFICES ASSUME Inductive, [Next]_vars
               PROVE  Inductive'
    OBVIOUS
  <2>1. CASE \E ms \in Delay : CreateTimerHandler(ms)
    BY <2>1, CreateInductive
  <2>2. CASE \E t \in Token : DeleteTimerHandler(t)
    BY <2>2, DeleteInductive
  <2>3. CASE TimerCheck
    BY <2>3, TimerCheckInductive
  <2>4. CASE ServiceTimers
    BY <2>4, ServiceTimersInductive
  <2>5. CASE HandlerReturns
    BY <2>5, HandlerReturnsInductive
  <2>6. CASE \E depth \in 0 .. Len(passes) : Unwind(depth)
    BY <2>6, UnwindInductive
  <2>7. CASE Tick
    BY <2>7, TickInductive
  <2>8. CASE UNCHANGED vars
    BY <2>8, StutterInductive
  <2> QED
    BY <2>1, <2>2, <2>3, <2>4, <2>5, <2>6, <2>7, <2>8 DEF Next
<1> QED
  BY <1>1, <1>2, PTL DEF Spec

\* Type correctness.
THEOREM TypeCorrect == Spec => []TypeOK
  BY InductiveInvariant, PTL DEF Inductive

\* timerPending tells whether a timer event is queued.
THEOREM PendingCorrect == Spec => []PendingIsQueued
  BY InductiveInvariant, PTL DEF Inductive

\* Every timer is in the list, was invoked or was deleted, and only one of these.
THEOREM InvokedExactlyOnce == Spec => []ExactlyOnce
  BY InductiveInvariant, PTL DEF Inductive

-----------------------------------------------------------------------------
\* The first timer belongs to a pass that may run it, and no timer of the pass is
\* left once the first one may not be run: newer timers are not before older ones.
LEMMA OwedFirst ==
    ASSUME Inductive, NEW p \in Pass, SawOlderOnly(p)
    PROVE  /\ Runnable(p.limit, p.time) => Head(timers) \in Owed(p)
           /\ ~ Runnable(p.limit, p.time) => Owed(p) = {}
<1>1. p.limit \in 0 .. MaxTimers /\ p.time \in Nat
  BY DEF Pass
<1>2. CASE timers = <<>>
  <2>1. \A t : ~ Listed(t)
    BY <1>2 DEF Listed, Contains
  <2> QED
    BY <1>2, <2>1 DEF Owed, Runnable
<1>3. CASE timers # <<>>
  <2> DEFINE h == Head(timers)
  <2>1. /\ h \in Token /\ Listed(h)
        /\ \A u \in Token : Listed(u) /\ u # h => Before(h, u)
    BY <1>3, HeadIsFirst DEF Inductive
  <2>2. Runnable(p.limit, p.time) <=> deadline[h] <= p.time /\ h <= p.limit
    BY <1>3 DEF Runnable
  <2> HIDE DEF h
  <2>3. \A t \in Token : deadline[t] \in Nat
    BY DEF Inductive, TypeOK
  <2>4. Runnable(p.limit, p.time) => h \in Owed(p)
    BY <2>1, <2>2 DEF Owed
  <2>5. ASSUME NEW u \in Token, Listed(u), u <= p.limit, deadline[u] <= p.time
        PROVE  Runnable(p.limit, p.time)
    <3>1. CASE u = h
      BY <2>2, <2>5, <3>1
    <3>2. CASE u # h
      <4>1. Before(h, u)
        BY <2>1, <2>5, <3>2
      <4>2. deadline[h] <= p.time
        BY <1>1, <2>1, <2>3, <2>5, <4>1 DEF Before
      <4>3. CASE h <= p.limit
        BY <2>2, <4>2, <4>3
      <4>4. CASE ~ h <= p.limit
        <5>1. p.limit < h /\ h <= lastTimerId
          BY <1>1, <2>1, <4>4 DEF Token, Inductive, ExactlyOnce
        <5>2. p.time <= deadline[h]
          BY <2>1, <5>1 DEF SawOlderOnly
        <5>3. deadline[h] = deadline[u]
          BY <1>1, <2>1, <2>3, <2>5, <4>1, <5>2 DEF Before
        <5>4. h < u
          BY <2>1, <2>3, <4>1, <5>3 DEF Before
        <5> QED
          BY <1>1, <2>1, <2>5, <5>1, <5>4 DEF Token
      <4> QED
        BY <4>3, <4>4
    <3> QED
      BY <3>1, <3>2
  <2>6. ~ Runnable(p.limit, p.time) => Owed(p) = {}
    BY <2>5 DEF Owed
  <2> QED
    BY <2>4, <2>6 DEF h
<1> QED
  BY <1>2, <1>3

\* A pass runs only timers that were due when it began and are not newer, and
\* ends when it has run all of them.
THEOREM PassesServeTheirGeneration == Spec => PassServesItsGeneration
<1>1. ASSUME Inductive, HandlerReturns
      PROVE  IF Len(passes') < Len(passes) THEN Owed(Top) = {}
             ELSE passes'[Len(passes)].running \in Owed(Top)
  <2>1. /\ Top \in Pass /\ SawOlderOnly(Top)
        /\ Len(passes) \in Nat
        /\ ~ Runnable(Top.limit, Top.time) => Len(passes') < Len(passes)
        /\ Runnable(Top.limit, Top.time) =>
             /\ Len(passes') = Len(passes)
             /\ passes'[Len(passes)].running = Head(timers)
    BY <1>1, HandlerReturnsInductive
  <2>2. /\ Runnable(Top.limit, Top.time) => Head(timers) \in Owed(Top)
        /\ ~ Runnable(Top.limit, Top.time) => Owed(Top) = {}
    BY <1>1, <2>1, OwedFirst
  <2> QED
    BY <2>1, <2>2
<1>2. Inductive /\ [Next]_vars =>
        [HandlerReturns =>
            IF Len(passes') < Len(passes) THEN Owed(Top) = {}
            ELSE passes'[Len(passes)].running \in Owed(Top)]_vars
  BY <1>1
<1> QED
  BY <1>2, InductiveInvariant, PTL DEF Spec, PassServesItsGeneration

-----------------------------------------------------------------------------
\* Running the first timer is the alarm that goes off first.
LEMMA RunRefines ==
    ASSUME Inductive, NEW p \in Pass, SawOlderOnly(p), Runnable(p.limit, p.time),
           UNCHANGED <<deadline, lastTimerId, now>>,
           invoked' = invoked \cup {Head(timers)},
           \A t \in Token : Listed(t)' <=> Listed(t) /\ t # Head(timers)
    PROVE  Service!Next
<1> DEFINE h == Head(timers)
           listed == {t \in Token : Listed(t)}
<1>1. /\ h \in Token /\ Listed(h)
      /\ \A u \in Token : Listed(u) /\ u # h => Before(h, u)
  BY HeadIsFirst DEF Inductive, Runnable
<1>2. deadline[h] <= now
  <2>1. deadline[h] <= p.time /\ p.time <= now
    BY DEF Runnable, SawOlderOnly
  <2>2. deadline[h] \in Nat /\ p.time \in Nat /\ now \in Nat
    BY <1>1 DEF Inductive, TypeOK, Pass
  <2> QED
    BY <2>1, <2>2
<1>3. h \notin invoked
  BY <1>1 DEF Inductive, ExactlyOnce
<1>4. listed' = listed \ {h}
  BY DEF h
<1>5. invoked' = invoked \cup {h}
  OBVIOUS
<1> HIDE DEF h
<1>6. h \in listed /\ \A u \in listed : u # h => Service!Before(h, u)
  BY <1>1 DEF Before, Service!Before
<1>7. Service!Invoke(h)
  BY <1>2, <1>3, <1>4, <1>5, <1>6 DEF Service!Invoke
<1> QED
  BY <1>6, <1>7 DEF Service!Next

\* The list, its queued event and the nested passes implement the alarms: each
\* goes off once, not early, and in the order of time and age.
THEOREM Refinement == Spec => RefinesTimerService
<1> DEFINE listed == {t \in Token : Listed(t)}
<1>1. Init => Service!Init
  <2> SUFFICES ASSUME Init PROVE Service!Init
    OBVIOUS
  <2>1. listed = {}
    BY DEF Init, Listed, Contains
  <2> QED
    BY <2>1 DEF Init, Service!Init, Token
<1>2. Inductive /\ [Next]_vars => [Service!Next]_(Service!svars)
  <2> SUFFICES ASSUME Inductive, [Next]_vars
               PROVE  Service!Next \/ UNCHANGED Service!svars
    BY DEF Service!Next
  <2>1. ASSUME UNCHANGED <<timers, deadline, lastTimerId, invoked, now>>
        PROVE  UNCHANGED Service!svars
    BY <2>1 DEF Service!svars, Listed
  <2>2. ASSUME NEW ms \in Delay, CreateTimerHandler(ms)
        PROVE  Service!Next
    <3>1. \A t \in Token : Listed(t)' <=> Listed(t) \/ t = lastTimerId + 1
      BY <2>2, CreateInductive
    <3>2. /\ lastTimerId < MaxTimers
          /\ lastTimerId' = lastTimerId + 1
          /\ deadline' = [deadline EXCEPT ![lastTimerId + 1] = now + ms]
          /\ UNCHANGED <<invoked, now>>
      BY <2>2 DEF CreateTimerHandler
    <3>3. lastTimerId + 1 \in Token
      BY <3>2 DEF Inductive, TypeOK, Token
    <3>4. listed' = listed \cup {lastTimerId + 1}
      BY <3>1, <3>3
    <3>5. Service!Schedule(ms)
      BY <3>2, <3>4 DEF Service!Schedule
    <3> QED
      BY <3>5 DEF Service!Next
  <2>3. ASSUME NEW t \in Token, DeleteTimerHandler(t)
        PROVE  Service!Next
    <3>1. Listed(t) /\ \A u \in Token : Listed(u)' <=> Listed(u) /\ u # t
      BY <2>3, DeleteInductive
    <3>2. listed' = listed \ {t} /\ t \in listed
      BY <3>1
    <3>3. UNCHANGED <<deadline, lastTimerId, invoked, now>>
      BY <2>3 DEF DeleteTimerHandler
    <3>4. Service!Cancel(t)
      BY <3>2, <3>3 DEF Service!Cancel
    <3> QED
      BY <3>2, <3>4 DEF Service!Next
  <2>4. CASE TimerCheck
    BY <2>1, <2>4 DEF TimerCheck
  <2>5. CASE ServiceTimers
    <3>1. UNCHANGED <<deadline, lastTimerId, now>>
      BY <2>5 DEF ServiceTimers
    <3>2. CASE Runnable(lastTimerId, now)
      <4>1. /\ invoked' = invoked \cup {Head(timers)}
            /\ \A t \in Token : Listed(t)' <=> Listed(t) /\ t # Head(timers)
        BY <2>5, <3>2, ServiceTimersInductive
      <4> DEFINE p == [limit |-> lastTimerId, time |-> now, running |-> Head(timers)]
      <4>2. p \in Pass /\ p.limit = lastTimerId /\ p.time = now
        BY <3>2, HeadIsFirst DEF Runnable, Inductive, TypeOK, Pass
      <4>3. now \in Nat /\ lastTimerId \in Nat
        BY DEF Inductive, TypeOK
      <4> HIDE DEF p
      <4>4. SawOlderOnly(p)
        BY <4>2, <4>3 DEF SawOlderOnly, Token
      <4> QED
        BY <3>1, <3>2, <4>1, <4>2, <4>4, RunRefines
    <3>3. CASE ~ Runnable(lastTimerId, now)
      <4>1. UNCHANGED <<timers, invoked>>
        BY <2>5, <3>3 DEF ServiceTimers
      <4> QED
        BY <2>1, <3>1, <4>1
    <3> QED
      BY <3>2, <3>3
  <2>6. CASE HandlerReturns
    <3>1. UNCHANGED <<deadline, lastTimerId, now>>
      BY <2>6 DEF HandlerReturns
    <3>2. Top \in Pass /\ SawOlderOnly(Top)
      BY <2>6, HandlerReturnsInductive
    <3>3. CASE Runnable(Top.limit, Top.time)
      <4>1. /\ invoked' = invoked \cup {Head(timers)}
            /\ \A t \in Token : Listed(t)' <=> Listed(t) /\ t # Head(timers)
        BY <2>6, <3>3, HandlerReturnsInductive
      <4> QED
        BY <3>1, <3>2, <3>3, <4>1, RunRefines
    <3>4. CASE ~ Runnable(Top.limit, Top.time)
      <4>1. UNCHANGED <<timers, invoked>>
        BY <2>6, <3>4 DEF HandlerReturns
      <4> QED
        BY <2>1, <3>1, <4>1
    <3> QED
      BY <3>3, <3>4
  <2>7. CASE \E depth \in 0 .. Len(passes) : Unwind(depth)
    BY <2>1, <2>7 DEF Unwind
  <2>8. CASE Tick
    <3>1. now' = now + 1 /\ UNCHANGED <<deadline, lastTimerId, invoked>> /\ listed' = listed
      BY <2>8 DEF Tick, Listed
    <3>2. Service!Tick
      BY <3>1 DEF Service!Tick
    <3> QED
      BY <3>2 DEF Service!Next
  <2>9. CASE UNCHANGED vars
    BY <2>1, <2>9 DEF vars
  <2> QED
    BY <2>2, <2>3, <2>4, <2>5, <2>6, <2>7, <2>8, <2>9 DEF Next
<1> QED
  BY <1>1, <1>2, InductiveInvariant, PTL DEF Spec, RefinesTimerService, Service!Spec

=============================================================================
