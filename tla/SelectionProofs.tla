---------------------------- MODULE SelectionProofs ----------------------------
(***************************************************************************)
(* Owning the selection, then getting it.                                  *)
(*                                                                         *)
(* For any number of applications, windows inside each other in any way,   *)
(* and requests, whatever the width of a serial, and every order in which  *)
(* requests and events arrive: an application's idea of owning the         *)
(* selection is right or on its way to be, and while it has counted fewer  *)
(* requests than a serial can tell apart no event takes its claim.         *)
(*                                                                         *)
(* For any number of retrievals, texts and chunks of any size, and every   *)
(* order of the two sides' steps: a retrieval that nothing interfered with *)
(* gets the whole text in order, and fails only for a reason.              *)
(***************************************************************************)
EXTENDS SelectionOwner, Selection, ListLemmas, FiniteSetTheorems

USE NullAssumption, MaxRequestsAssumption

-----------------------------------------------------------------------------
\* What the requests of an application do to what is shared, in the terms of the
\* invariants.
Asks(a, op, w) ==
    /\ Send(a, op, w)
    /\ op # "clear" => w \in Window
    /\ op = "own" => w \notin dead[a]
    /\ op = "destroy" => Inside[w] \subseteq alreadyDead[a]
    /\ info' = [info EXCEPT ![a] =
                  IF op = "own" THEN sent[a] + 1
                  ELSE IF op = "destroy" /\ WindowOf(a, info[a]) # w THEN info[a]
                  ELSE 0]
    /\ dead' = [dead EXCEPT ![a] = IF op = "destroy" THEN @ \cup {w} ELSE @]
    /\ UNCHANGED <<alreadyDead, processed, owner, clears, refused>>

LEMMA SendEffect ==
    ASSUME TypeOK, Counts, NEW a \in App, NEW op \in {"own", "clear", "destroy"},
           NEW w \in Window \cup {NULL}, Send(a, op, w)
    PROVE  /\ sent' \in [App -> 0 .. MaxRequests]
           /\ request' \in [App -> [Serial -> Request \cup {NULL}]]
           /\ sent'[a] = sent[a] + 1
           /\ request'[a][sent[a] + 1] = [op |-> op, window |-> w]
           /\ \A b \in App : b # a => sent'[b] = sent[b]
           /\ \A b \in App : \A s \in 1 .. sent[b] : request'[b][s] = request[b][s]
<1>1. sent[a] + 1 \in Serial /\ sent[a] \in Nat
  BY DEF TypeOK, Send, Serial
<1>2. [op |-> op, window |-> w] \in Request
  BY DEF Request
<1>3. request[a] \in [Serial -> Request \cup {NULL}]
  BY DEF TypeOK
<1>4. request' = [request EXCEPT ![a] =
                    [request[a] EXCEPT ![sent[a] + 1] = [op |-> op, window |-> w]]]
  BY DEF Send
<1>5. [request[a] EXCEPT ![sent[a] + 1] = [op |-> op, window |-> w]]
         \in [Serial -> Request \cup {NULL}]
  BY <1>1, <1>2, <1>3
<1>6. /\ request' \in [App -> [Serial -> Request \cup {NULL}]]
      /\ request'[a][sent[a] + 1] = [op |-> op, window |-> w]
      /\ \A b \in App : b # a => request'[b] = request[b]
  BY <1>1, <1>3, <1>4, <1>5 DEF TypeOK
<1>7. ASSUME NEW b \in App, NEW s \in 1 .. sent[b]
      PROVE  request'[b][s] = request[b][s]
  <2>1. s \in Serial /\ (b = a => s # sent[a] + 1)
    BY <1>1 DEF TypeOK, Serial
  <2> QED
    BY <1>1, <1>3, <1>4, <1>6, <2>1 DEF TypeOK
<1> QED
  BY <1>1, <1>6, <1>7 DEF TypeOK, Send

-----------------------------------------------------------------------------
\* The counters are numbers, and what Asks does to them.
LEMMA Sizes ==
    ASSUME TypeOK, Counts, NEW b \in App
    PROVE  /\ sent[b] \in Nat /\ processed[b] \in Nat /\ info[b] \in Nat
           /\ processed[b] <= sent[b] /\ info[b] <= sent[b] /\ sent[b] <= MaxRequests
           /\ 1 .. sent[b] \subseteq Serial
<1>1. sent[b] \in 0 .. MaxRequests /\ processed[b] \in 0 .. MaxRequests
      /\ info[b] \in 0 .. MaxRequests
  BY DEF TypeOK
<1>2. processed[b] <= sent[b] /\ info[b] <= sent[b]
  BY DEF Counts
<1> QED BY <1>1, <1>2 DEF Serial

\* What destroys a window destroys the windows inside it.
LEMMA TakesInside ==
    ASSUME Counts, NEW a \in App, NEW t \in 1 .. sent[a], NEW p \in Window,
           NEW w \in Inside[p], Takes(a, t, p)
    PROVE  Takes(a, t, w)
<1>1. request[a][t].op = "destroy" /\ request[a][t].window \in Window
  BY DEF Counts, Takes
<1> QED BY <1>1, InsideAssumption DEF Takes

LEMMA AsksSent ==
    ASSUME TypeOK, Counts, NEW a \in App, NEW op \in {"own", "clear", "destroy"},
           NEW w \in Window \cup {NULL}, Asks(a, op, w), NEW b \in App
    PROVE  sent'[b] = IF b = a THEN sent[b] + 1 ELSE sent[b]
<1>1. Send(a, op, w)
  BY DEF Asks
<1> QED BY <1>1, SendEffect

LEMMA AsksRequest ==
    ASSUME TypeOK, Counts, NEW a \in App, NEW op \in {"own", "clear", "destroy"},
           NEW w \in Window \cup {NULL}, Asks(a, op, w), NEW b \in App
    PROVE  /\ request'[a][sent[a] + 1] = [op |-> op, window |-> w]
           /\ \A s \in 1 .. sent[b] : /\ request'[b][s] = request[b][s]
                                      /\ WindowOf(b, s)' = WindowOf(b, s)
<1>1. Send(a, op, w)
  BY DEF Asks
<1> QED BY <1>1, SendEffect DEF WindowOf

LEMMA AsksInfo ==
    ASSUME TypeOK, NEW a \in App, NEW op \in {"own", "clear", "destroy"},
           NEW w \in Window \cup {NULL}, Asks(a, op, w), NEW b \in App
    PROVE  /\ b # a => info'[b] = info[b]
           /\ op = "own" => info'[a] = sent[a] + 1
           /\ op = "clear" => info'[a] = 0
           /\ op = "destroy" => \/ info'[a] = info[a] /\ WindowOf(a, info[a]) # w
                                \/ info'[a] = 0 /\ WindowOf(a, info[a]) = w
  BY DEF Asks, TypeOK

LEMMA AsksDead ==
    ASSUME TypeOK, NEW a \in App, NEW op \in {"own", "clear", "destroy"},
           NEW w \in Window \cup {NULL}, Asks(a, op, w), NEW b \in App
    PROVE  /\ dead[b] \subseteq dead'[b]
           /\ \A v \in dead'[b] \ dead[b] : b = a /\ op = "destroy" /\ v = w
           /\ op = "destroy" => w \in dead'[a]
  BY DEF Asks, TypeOK

LEMMA AsksKeepsCounts ==
    ASSUME Inductive, NEW a \in App, NEW op \in {"own", "clear", "destroy"},
           NEW w \in Window \cup {NULL}, Asks(a, op, w)
    PROVE  Counts'
<1> USE DEF Inductive
<1> SUFFICES ASSUME NEW b \in App
             PROVE  /\ processed[b] <= sent'[b]
                    /\ info'[b] <= sent'[b]
                    /\ \A c \in clears[b] : c.serial <= processed[b]
                    /\ \A s \in 1 .. sent'[b] :
                          /\ request'[b][s] \in Request
                          /\ request'[b][s].op # "clear" => request'[b][s].window \in Window
                    /\ \A s \in Serial : owner = <<b, s>> =>
                          s <= processed[b] /\ request'[b][s].op = "own"
  BY DEF Asks, Counts
<1>0. /\ request'[a][sent[a] + 1] = [op |-> op, window |-> w]
      /\ \A s \in 1 .. sent[b] : /\ request'[b][s] = request[b][s]
                                 /\ WindowOf(b, s)' = WindowOf(b, s)
  BY AsksRequest
<1>1. /\ sent[b] \in Nat /\ processed[b] \in Nat /\ info[b] \in Nat
      /\ processed[b] <= sent[b] /\ info[b] <= sent[b]
      /\ sent'[b] = IF b = a THEN sent[b] + 1 ELSE sent[b]
  BY Sizes, AsksSent
<1>2. info'[b] <= sent'[b]
  BY <1>1, AsksInfo
<1>3. \A s \in 1 .. sent'[b] :
          /\ request'[b][s] \in Request
          /\ request'[b][s].op # "clear" => request'[b][s].window \in Window
  <2> TAKE s \in 1 .. sent'[b]
  <2>1. CASE s \in 1 .. sent[b]
    BY <2>1, <1>0 DEF Counts
  <2>2. CASE b = a /\ s = sent[a] + 1
    <3>1. request'[b][s] = [op |-> op, window |-> w]
      BY <2>2, <1>0
    <3> QED BY <3>1 DEF Request, Asks
  <2> QED BY <1>1, <2>1, <2>2
<1>4. ASSUME NEW s \in Serial, owner = <<b, s>>
      PROVE  s <= processed[b] /\ request'[b][s].op = "own"
  <2>1. s <= processed[b] /\ request[b][s].op = "own"
    BY <1>4 DEF Counts
  <2>2. s \in 1 .. sent[b]
    BY <1>1, <2>1 DEF Serial
  <2> QED BY <2>1, <2>2, <1>0
<1> QED
  BY <1>1, <1>2, <1>3, <1>4 DEF Counts

LEMMA AsksKeepsInfo ==
    ASSUME Inductive, NEW a \in App, NEW op \in {"own", "clear", "destroy"},
           NEW w \in Window \cup {NULL}, Asks(a, op, w)
    PROVE  InfoIsLatest' /\ BelievesRightly'
<1> USE DEF Inductive
<1> SUFFICES ASSUME NEW b \in App, info'[b] # 0
             PROVE  /\ request'[b][info'[b]].op = "own"
                    /\ WindowOf(b, info[b])' \notin dead'[b]
                    /\ \A t \in info'[b] + 1 .. sent'[b] :
                          /\ request'[b][t].op = "destroy"
                          /\ Takes(b, t, WindowOf(b, info[b]))' =>
                                WindowOf(b, info[b])' \in alreadyDead'[b]
                    /\ \/ info'[b] > processed[b]
                       \/ owner = <<b, info'[b]>>
                       \/ \E c \in clears[b] : IsMeant(b, c)'
                       \/ <<b, info'[b]>> \in refused
                       \/ Dying(b, WindowOf(b, info[b]))'
  <2> SUFFICES InfoIsLatest' /\ BelievesRightly'
    OBVIOUS
  <2>1. UNCHANGED <<processed, owner, clears, refused>>
    BY DEF Asks
  <2>2. InfoIsLatest'
    BY DEF InfoIsLatest
  <2>3. BelievesRightly'
    BY <2>1 DEF BelievesRightly
  <2> QED BY <2>2, <2>3
<1>0. /\ request'[a][sent[a] + 1] = [op |-> op, window |-> w]
      /\ \A s \in 1 .. sent[b] : /\ request'[b][s] = request[b][s]
                                 /\ WindowOf(b, s)' = WindowOf(b, s)
  BY AsksRequest
<1>1. /\ sent[b] \in Nat /\ processed[b] \in Nat /\ info[b] \in Nat
      /\ processed[b] <= sent[b] /\ info[b] <= sent[b]
      /\ sent'[b] = IF b = a THEN sent[b] + 1 ELSE sent[b]
  BY Sizes, AsksSent
<1>2. CASE b = a /\ op = "own"
  <2>1. info'[b] = sent[b] + 1
    BY <1>2, AsksInfo
  <2>2. request'[b][info'[b]].op = "own" /\ WindowOf(b, info[b])' = w
    BY <1>2, <2>1, <1>0 DEF WindowOf
  <2>3. info'[b] + 1 .. sent'[b] = {}
    BY <1>1, <1>2, <2>1
  <2>4. info'[b] > processed[b]
    BY <1>1, <2>1
  <2>5. w \notin dead'[b]
    BY <1>2, AsksDead DEF Asks
  <2> QED BY <2>2, <2>3, <2>4, <2>5
<1>3. CASE ~ (b = a /\ op = "own")
  <2>1. info'[b] = info[b] /\ info[b] # 0
    BY <1>3, AsksInfo
  <2>2. info[b] \in 1 .. sent[b]
    BY <1>1, <2>1
  <2>3. request'[b][info[b]] = request[b][info[b]] /\ WindowOf(b, info[b])' = WindowOf(b, info[b])
    BY <2>1, <2>2, <1>0
  <2>4. ASSUME NEW t \in info[b] + 1 .. sent'[b]
        PROVE  /\ request'[b][t].op = "destroy"
               /\ Takes(b, t, WindowOf(b, info[b]))' => WindowOf(b, info[b])' \in alreadyDead'[b]
    <3>0. alreadyDead' = alreadyDead
      BY DEF Asks
    <3>1. CASE t \in 1 .. sent[b]
      <4>1. t \in info[b] + 1 .. sent[b]
        BY <1>1, <2>2, <3>1
      <4>2. /\ request[b][t].op = "destroy"
            /\ Takes(b, t, WindowOf(b, info[b])) => WindowOf(b, info[b]) \in alreadyDead[b]
        BY <2>1, <4>1 DEF InfoIsLatest
      <4>3. request'[b][t] = request[b][t]
        BY <3>1, <1>0
      <4> QED BY <3>0, <2>3, <4>2, <4>3 DEF Takes
    <3>2. CASE b = a /\ t = sent[a] + 1
      <4>1. op = "destroy" /\ w # WindowOf(a, info[a])
        BY <1>3, <2>1, <3>2, AsksInfo
      <4>2. request'[a][t] = [op |-> op, window |-> w]
        BY <3>2, <1>0
      <4>3. Inside[w] \subseteq alreadyDead[a]
        BY <4>1 DEF Asks
      <4> QED BY <3>0, <2>3, <3>2, <4>1, <4>2, <4>3 DEF Takes
    <3> QED BY <1>1, <2>2, <3>1, <3>2
  <2>5. request'[b][info'[b]].op = "own"
    BY <2>1, <2>3 DEF InfoIsLatest
  <2>6. \A c \in clears[b] : IsMeant(b, c) => IsMeant(b, c)'
    BY <2>1, <2>3 DEF IsMeant, Asks
  <2>7. WindowOf(b, info[b]) \notin dead'[b]
    <3>1. WindowOf(b, info[b]) \notin dead[b]
      BY <2>1 DEF InfoIsLatest
    <3>2. b = a /\ op = "destroy" => WindowOf(b, info[b]) # w
      BY <2>1, AsksInfo
    <3> QED BY <3>1, <3>2, AsksDead
  <2>8. Dying(b, WindowOf(b, info[b])) => Dying(b, WindowOf(b, info[b]))'
    BY <2>3, <2>7 DEF Dying, Asks
  <2>9. \/ info[b] > processed[b]
        \/ owner = <<b, info[b]>>
        \/ \E c \in clears[b] : IsMeant(b, c)
        \/ <<b, info[b]>> \in refused
        \/ Dying(b, WindowOf(b, info[b]))
    BY <2>1 DEF BelievesRightly
  <2> QED BY <2>1, <2>3, <2>4, <2>5, <2>6, <2>7, <2>8, <2>9
<1> QED BY <1>2, <1>3

LEMMA AsksKeepsClaims ==
    ASSUME Inductive, NEW a \in App, NEW op \in {"own", "clear", "destroy"},
           NEW w \in Window \cup {NULL}, Asks(a, op, w)
    PROVE  ClaimsAreKnown' /\ ClearsAreOld'
<1> USE DEF Inductive
<1>1. ClearsAreOld'
  BY DEF ClearsAreOld, Asks
<1>2. ASSUME NEW b \in App, NEW s \in Serial, s <= sent'[b], s < Word,
             request'[b][s].op = "own",
             s > processed[b] \/ owner = <<b, s>>
      PROVE  \/ info'[b] = s
             \/ \E t \in s + 1 .. sent'[b] : request'[b][t].op # "destroy"
             \/ WindowOf(b, s)' \in dead'[b]
  <2>0. /\ request'[a][sent[a] + 1] = [op |-> op, window |-> w]
        /\ \A n \in 1 .. sent[b] : /\ request'[b][n] = request[b][n]
                                   /\ WindowOf(b, n)' = WindowOf(b, n)
    BY AsksRequest
  <2>1. /\ sent[b] \in Nat /\ processed[b] \in Nat /\ info[b] \in Nat
        /\ sent'[b] = IF b = a THEN sent[b] + 1 ELSE sent[b]
        /\ s \in Nat /\ s > 0
    BY Sizes, AsksSent DEF Serial
  <2>2. CASE s \in 1 .. sent[b]
    <3>1. request'[b][s] = request[b][s] /\ WindowOf(b, s)' = WindowOf(b, s)
      BY <2>2, <2>0
    <3>2. \/ info[b] = s
          \/ \E t \in s + 1 .. sent[b] : request[b][t].op # "destroy"
          \/ WindowOf(b, s) \in dead[b]
      <4>1. s <= sent[b] /\ request[b][s].op = "own"
        BY <1>2, <2>1, <2>2, <3>1
      <4> QED BY <1>2, <4>1 DEF ClaimsAreKnown
    <3>3. CASE \E t \in s + 1 .. sent[b] : request[b][t].op # "destroy"
      <4>1. PICK t \in s + 1 .. sent[b] : request[b][t].op # "destroy"
        BY <3>3
      <4>2. t \in 1 .. sent[b] /\ t \in s + 1 .. sent'[b]
        BY <2>1, <2>2
      <4>3. request'[b][t] = request[b][t]
        BY <4>2, <2>0
      <4> QED BY <4>1, <4>2, <4>3
    <3>4. CASE WindowOf(b, s) \in dead[b]
      BY <3>1, <3>4, AsksDead
    <3>5. CASE info[b] = s /\ info'[b] # s
      <4>0. /\ b # a => info'[b] = info[b]
            /\ op = "destroy" => \/ info'[a] = info[a] /\ WindowOf(a, info[a]) # w
                                 \/ info'[a] = 0 /\ WindowOf(a, info[a]) = w
        BY AsksInfo
      <4>1. b = a
        BY <3>5, <4>0
      <4>2. CASE op = "destroy"
        <5>1. WindowOf(a, s) = w
          BY <3>5, <4>0, <4>1, <4>2
        <5> QED BY <3>1, <4>1, <4>2, <5>1, AsksDead
      <4>3. CASE op # "destroy"
        <5>1. sent[a] + 1 \in s + 1 .. sent'[b]
          BY <2>1, <2>2, <4>1
        <5>2. request'[b][sent[a] + 1].op # "destroy"
          BY <2>0, <4>1, <4>3
        <5> QED BY <5>1, <5>2
      <4> QED BY <4>2, <4>3
    <3> QED BY <3>2, <3>3, <3>4, <3>5
  <2>3. CASE b = a /\ s = sent[a] + 1
    <3>1. request'[b][s] = [op |-> op, window |-> w]
      BY <2>3, <2>0
    <3>2. op = "own"
      BY <1>2, <3>1
    <3> QED BY <2>3, <3>2, AsksInfo
  <2> QED BY <1>2, <2>1, <2>2, <2>3
<1> QED
  BY <1>1, <1>2 DEF ClaimsAreKnown, Asks

\* The windows: what is dead was taken or will be, and what owns is there.
LEMMA AsksKeepsWindows ==
    ASSUME Inductive, NEW a \in App, NEW op \in {"own", "clear", "destroy"},
           NEW w \in Window \cup {NULL}, Asks(a, op, w)
    PROVE  DeadAreTaken' /\ OwnerIsThere'
<1> USE DEF Inductive
<1>1. ASSUME NEW b \in App, NEW s \in Serial, owner = <<b, s>>
      PROVE  ~ Gone(b, WindowOf(b, s))'
  <2>1. processed[b] \in Nat /\ sent[b] \in Nat /\ processed[b] <= sent[b]
    BY Sizes
  <2>2. s <= processed[b] /\ s \in 1 .. sent[b]
    BY <1>1, <2>1 DEF Counts, Serial
  <2>3. \A t \in 1 .. processed[b] : t \in 1 .. sent[b]
    BY <2>1
  <2>6. \A t \in 1 .. sent[b] : /\ request'[b][t] = request[b][t]
                                /\ WindowOf(b, t)' = WindowOf(b, t)
    BY AsksRequest
  <2>4. /\ WindowOf(b, s)' = WindowOf(b, s)
        /\ \A t \in 1 .. processed[b] : request'[b][t] = request[b][t]
    BY <2>2, <2>3, <2>6
  <2>5. ~ Gone(b, WindowOf(b, s))
    BY <1>1 DEF OwnerIsThere
  <2> QED BY <2>4, <2>5 DEF Gone, Takes, Asks
<1>2. ASSUME NEW b \in App, NEW v \in dead'[b]
      PROVE  \/ \E t \in 1 .. sent'[b] : Takes(b, t, v)'
             \/ \E p \in Window : Dying(b, p)' /\ v \in Inside[p]
  <2>0. /\ sent[a] \in Nat /\ sent[b] \in Nat
        /\ sent'[b] = IF b = a THEN sent[b] + 1 ELSE sent[b]
    BY Sizes, AsksSent
  <2>1. /\ request'[a][sent[a] + 1] = [op |-> op, window |-> w]
        /\ \A t \in 1 .. sent[b] : request'[b][t] = request[b][t]
    BY AsksRequest
  <2>2. CASE b = a /\ op = "destroy" /\ (v = w \/ v \in Inside[w])
    <3>1. PICK t \in 1 .. sent'[b] : t = sent[a] + 1
      BY <2>0, <2>2
    <3>2. request'[b][t].op = "destroy" /\ request'[b][t].window = w
      BY <2>1, <2>2, <3>1
    <3>3. Takes(b, t, v)'
      BY <2>2, <3>2 DEF Takes
    <3> QED BY <3>3
  <2>3. CASE ~ (b = a /\ op = "destroy" /\ (v = w \/ v \in Inside[w]))
    <3>1. v \in dead[b]
      BY <1>2, <2>3, AsksDead
    <3>2. CASE \E t \in 1 .. sent[b] : Takes(b, t, v)
      <4>1. PICK t \in 1 .. sent[b] : Takes(b, t, v)
        BY <3>2
      <4>2. t \in 1 .. sent'[b]
        BY <2>0
      <4>3. request'[b][t] = request[b][t]
        BY <2>1
      <4> QED BY <4>1, <4>2, <4>3 DEF Takes
    <3>3. CASE \E p \in Window : Dying(b, p) /\ v \in Inside[p]
      <4>1. PICK p \in Window : Dying(b, p) /\ v \in Inside[p]
        BY <3>3
      <4>2. ~ (b = a /\ op = "destroy" /\ p = w)
        BY <2>3, <4>1
      <4>3. Dying(b, p)'
        BY <4>1, <4>2, AsksDead DEF Dying, Asks
      <4> QED BY <4>1, <4>3
    <3> QED BY <3>1, <3>2, <3>3 DEF DeadAreTaken
  <2> QED BY <2>2, <2>3
<1> QED BY <1>1, <1>2 DEF DeadAreTaken, OwnerIsThere, Asks

-----------------------------------------------------------------------------
LEMMA OperationsAsk ==
    ASSUME TypeOK, NEW a \in App
    PROVE  /\ \A w \in Window : OwnSelection(a, w) => Asks(a, "own", w)
           /\ ClearSelection(a) => Asks(a, "clear", NULL)
           /\ \A w \in Window : DeadWindow(a, w) => Asks(a, "destroy", w)
<1>0. dead = [dead EXCEPT ![a] = @]
  BY DEF TypeOK
<1>1. ASSUME NEW w \in Window, OwnSelection(a, w)
      PROVE  Asks(a, "own", w)
  BY <1>0, <1>1 DEF OwnSelection, Asks
<1>2. ASSUME ClearSelection(a)
      PROVE  Asks(a, "clear", NULL)
  BY <1>0, <1>2 DEF ClearSelection, Asks
<1>3. ASSUME NEW w \in Window, DeadWindow(a, w)
      PROVE  Asks(a, "destroy", w)
  <2>1. info' = [info EXCEPT ![a] =
                   IF info[a] # 0 /\ WindowOf(a, info[a]) = w THEN 0 ELSE info[a]]
    BY <1>3 DEF DeadWindow, Forget
  <2>2. info' = [info EXCEPT ![a] =
                   IF WindowOf(a, info[a]) # w THEN info[a] ELSE 0]
    BY <2>1 DEF TypeOK
  <2> QED BY <1>3, <2>2 DEF DeadWindow, EndsDestroy, Asks
<1> QED BY <1>1, <1>2, <1>3

LEMMA AsksKeepsTypes ==
    ASSUME TypeOK, Counts, NEW a \in App, NEW op \in {"own", "clear", "destroy"},
           NEW w \in Window \cup {NULL}, Asks(a, op, w),
           lost' \in [App -> SUBSET Serial]
    PROVE  TypeOK'
<1>1. Send(a, op, w)
  BY DEF Asks
<1>2. /\ sent' \in [App -> 0 .. MaxRequests]
      /\ request' \in [App -> [Serial -> Request \cup {NULL}]]
  BY <1>1, SendEffect
<1>3. sent[a] + 1 \in 0 .. MaxRequests
  BY <1>1 DEF Send, TypeOK
<1>4. info' \in [App -> 0 .. MaxRequests]
  BY <1>3 DEF Asks, TypeOK
<1>5. dead' \in [App -> SUBSET Window]
  BY DEF Asks, TypeOK
<1> QED BY <1>2, <1>4, <1>5 DEF Asks, TypeOK

LEMMA OperationKeeps ==
    ASSUME Inductive, NEW a \in App,
           \/ \E w \in Window : OwnSelection(a, w)
           \/ ClearSelection(a)
           \/ \E w \in Window : DeadWindow(a, w)
    PROVE  Inductive'
<1> USE DEF Inductive
<1>1. lost' \in [App -> SUBSET Serial]
  <2>1. info[a] \in 0 .. MaxRequests /\ (info[a] # 0 => info[a] \in Serial)
    BY DEF TypeOK, Serial
  <2>2. lost \in [App -> SUBSET Serial]
    BY DEF TypeOK
  <2>4. ASSUME NEW w \in Window, OwnSelection(a, w)
        PROVE  lost' \in [App -> SUBSET Serial]
    <3>1. (IF info[a] # 0 /\ WindowOf(a, info[a]) # w
             THEN lost[a] \cup {info[a]} ELSE lost[a]) \in SUBSET Serial
      BY <2>1, <2>2
    <3> QED BY <2>2, <2>4, <3>1 DEF OwnSelection
  <2>5. ASSUME ClearSelection(a)
        PROVE  lost' \in [App -> SUBSET Serial]
    <3>1. lost[a] \cup ({info[a]} \ {0}) \in SUBSET Serial
      BY <2>1, <2>2
    <3> QED BY <2>2, <2>5, <3>1 DEF ClearSelection
  <2>6. ASSUME NEW w \in Window, DeadWindow(a, w)
        PROVE  lost' \in [App -> SUBSET Serial]
    BY <2>2, <2>6 DEF DeadWindow
  <2> QED BY <2>4, <2>5, <2>6
<1>2. PICK op \in {"own", "clear", "destroy"}, w \in Window \cup {NULL} : Asks(a, op, w)
  BY OperationsAsk
<1>3. TypeOK'
  BY <1>1, <1>2, AsksKeepsTypes
<1>4. Counts'
  BY <1>2, AsksKeepsCounts
<1>5. InfoIsLatest' /\ BelievesRightly'
  BY <1>2, AsksKeepsInfo
<1>6. ClaimsAreKnown' /\ ClearsAreOld'
  BY <1>2, AsksKeepsClaims
<1>7. DeadAreTaken' /\ OwnerIsThere'
  BY <1>2, AsksKeepsWindows
<1> QED BY <1>3, <1>4, <1>5, <1>6, <1>7

-----------------------------------------------------------------------------
\* A window that begins to die is known to the selection code, and is told no more.
LEMMA StartDestroyKeeps ==
    ASSUME Inductive, NEW a \in App, NEW w \in Window, StartDestroy(a, w)
    PROVE  Inductive'
<1> USE DEF Inductive
<1>1. UNCHANGED <<info, sent, request, dead, lost, processed, owner, clears, refused>>
  BY DEF StartDestroy
<1>2. /\ alreadyDead' \in [App -> SUBSET Window]
      /\ \A b \in App : /\ alreadyDead[b] \subseteq alreadyDead'[b]
                        /\ \A v \in alreadyDead'[b] \ alreadyDead[b] : b = a /\ v = w
  BY DEF StartDestroy, TypeOK
<1>3. TypeOK' /\ Counts' /\ ClearsAreOld'
  BY <1>1, <1>2 DEF TypeOK, Counts, ClearsAreOld
<1>4. ClaimsAreKnown' /\ OwnerIsThere'
  BY <1>1 DEF ClaimsAreKnown, OwnerIsThere, Gone, Takes, WindowOf
<1>5. DeadAreTaken'
  <2> SUFFICES ASSUME NEW b \in App, NEW v \in dead[b]
               PROVE  \/ \E t \in 1 .. sent[b] : Takes(b, t, v)'
                      \/ \E p \in Window : Dying(b, p)' /\ v \in Inside[p]
    BY <1>1 DEF DeadAreTaken
  <2>1. \/ \E t \in 1 .. sent[b] : Takes(b, t, v)
        \/ \E p \in Window : Dying(b, p) /\ v \in Inside[p]
    BY DEF DeadAreTaken
  <2>2. \A t \in 1 .. sent[b] : Takes(b, t, v) => Takes(b, t, v)'
    BY <1>1 DEF Takes
  <2>3. \A p \in Window : Dying(b, p) => Dying(b, p)'
    BY <1>1, <1>2 DEF Dying
  <2> QED BY <2>1, <2>2, <2>3
<1>6. InfoIsLatest'
  <2> SUFFICES ASSUME NEW b \in App, info[b] # 0
               PROVE  /\ request[b][info[b]].op = "own"
                      /\ WindowOf(b, info[b])' \notin dead[b]
                      /\ \A t \in info[b] + 1 .. sent[b] :
                            /\ request[b][t].op = "destroy"
                            /\ Takes(b, t, WindowOf(b, info[b]))' =>
                                  WindowOf(b, info[b])' \in alreadyDead'[b]
    BY <1>1 DEF InfoIsLatest
  <2> QED BY <1>1, <1>2 DEF InfoIsLatest, Takes, WindowOf
<1>7. BelievesRightly'
  <2> SUFFICES ASSUME NEW b \in App, info[b] # 0
               PROVE  \/ info[b] > processed[b]
                      \/ owner = <<b, info[b]>>
                      \/ \E c \in clears[b] : IsMeant(b, c)'
                      \/ <<b, info[b]>> \in refused
                      \/ Dying(b, WindowOf(b, info[b]))'
    BY <1>1 DEF BelievesRightly
  <2>1. WindowOf(b, info[b])' = WindowOf(b, info[b]) /\ WindowOf(b, info[b]) \notin dead[b]
    BY <1>1 DEF WindowOf, InfoIsLatest
  <2>2. CASE WindowOf(b, info[b]) \in alreadyDead'[b]
    BY <1>1, <2>1, <2>2 DEF Dying
  <2>3. CASE WindowOf(b, info[b]) \notin alreadyDead'[b]
    <3>1. \A c \in clears[b] : IsMeant(b, c) => IsMeant(b, c)'
      BY <1>1, <2>1, <2>3 DEF IsMeant
    <3>2. ~ Dying(b, WindowOf(b, info[b]))
      BY <1>2, <2>3 DEF Dying
    <3> QED BY <3>1, <3>2 DEF BelievesRightly
  <2> QED BY <2>2, <2>3
<1> QED BY <1>3, <1>4, <1>5, <1>6, <1>7

\* A child that goes with its parent: an outer window's request took it away, or
\* will take it.
LEMMA DeadChildKeeps ==
    ASSUME Inductive, NEW a \in App, NEW w \in Window, DeadChild(a, w)
    PROVE  Inductive'
<1> USE DEF Inductive
<1>1. /\ UNCHANGED <<sent, request, alreadyDead, lost, processed, owner, clears, refused>>
      /\ dead' = [dead EXCEPT ![a] = @ \cup {w}]
      /\ Forget(a, w)
  BY DEF DeadChild, EndsDestroy
<1>2. /\ dead' \in [App -> SUBSET Window]
      /\ \A b \in App : dead[b] \subseteq dead'[b]
      /\ \A b \in App : \A v \in dead'[b] \ dead[b] : b = a /\ v = w
      /\ w \in dead'[a]
  BY <1>1 DEF TypeOK
<1>3. /\ info' \in [App -> 0 .. MaxRequests]
      /\ \A b \in App : b # a => info'[b] = info[b]
      /\ info'[a] # info[a] => info'[a] = 0 /\ WindowOf(a, info[a]) = w
      /\ info'[a] # 0 => info'[a] = info[a] /\ WindowOf(a, info[a]) # w
  BY <1>1 DEF Forget, TypeOK
<1>4. TypeOK' /\ Counts' /\ ClearsAreOld'
  <2>1. \A b \in App : info'[b] <= sent[b]
    BY <1>3, Sizes
  <2> QED BY <1>1, <1>2, <1>3, <2>1 DEF TypeOK, Counts, ClearsAreOld
<1>5. OwnerIsThere'
  BY <1>1 DEF OwnerIsThere, Gone, Takes, WindowOf
<1>6. ClaimsAreKnown'
  <2> SUFFICES ASSUME NEW b \in App, NEW s \in Serial, s <= sent[b], s < Word,
                      request[b][s].op = "own", s > processed[b] \/ owner = <<b, s>>
               PROVE  \/ info'[b] = s
                      \/ \E t \in s + 1 .. sent[b] : request[b][t].op # "destroy"
                      \/ WindowOf(b, s)' \in dead'[b]
    BY <1>1 DEF ClaimsAreKnown
  <2>1. \/ info[b] = s
        \/ \E t \in s + 1 .. sent[b] : request[b][t].op # "destroy"
        \/ WindowOf(b, s) \in dead[b]
    BY DEF ClaimsAreKnown
  <2>2. WindowOf(b, s)' = WindowOf(b, s)
    BY <1>1 DEF WindowOf
  <2>3. info[b] = s => info'[b] = s \/ WindowOf(b, s) \in dead'[b]
    BY <1>2, <1>3
  <2> QED BY <1>2, <2>1, <2>2, <2>3
<1>7. InfoIsLatest' /\ BelievesRightly'
  <2> SUFFICES ASSUME NEW b \in App, info'[b] # 0
               PROVE  /\ request[b][info'[b]].op = "own"
                      /\ WindowOf(b, info[b])' \notin dead'[b]
                      /\ \A t \in info'[b] + 1 .. sent[b] :
                            /\ request[b][t].op = "destroy"
                            /\ Takes(b, t, WindowOf(b, info[b]))' =>
                                  WindowOf(b, info[b])' \in alreadyDead[b]
                      /\ \/ info'[b] > processed[b]
                         \/ owner = <<b, info'[b]>>
                         \/ \E c \in clears[b] : IsMeant(b, c)'
                         \/ <<b, info'[b]>> \in refused
                         \/ Dying(b, WindowOf(b, info[b]))'
    <3>1. InfoIsLatest'
      BY <1>1 DEF InfoIsLatest
    <3>2. BelievesRightly'
      BY <1>1 DEF BelievesRightly
    <3> QED BY <3>1, <3>2
  <2>1. info'[b] = info[b] /\ info[b] # 0 /\ (b = a => WindowOf(b, info[b]) # w)
    BY <1>3
  <2>2. WindowOf(b, info[b])' = WindowOf(b, info[b])
    BY <1>1, <2>1 DEF WindowOf
  <2>3. WindowOf(b, info[b]) \notin dead'[b]
    BY <1>2, <2>1 DEF InfoIsLatest
  <2>4. /\ request[b][info[b]].op = "own"
        /\ \A t \in info[b] + 1 .. sent[b] :
              /\ request[b][t].op = "destroy"
              /\ Takes(b, t, WindowOf(b, info[b])) =>
                    WindowOf(b, info[b]) \in alreadyDead[b]
    BY <2>1 DEF InfoIsLatest
  <2>5. \A t \in info[b] + 1 .. sent[b] :
            Takes(b, t, WindowOf(b, info[b]))' <=> Takes(b, t, WindowOf(b, info[b]))
    BY <1>1, <2>2 DEF Takes
  <2>6. \A c \in clears[b] : IsMeant(b, c) => IsMeant(b, c)'
    BY <1>1, <2>1, <2>2 DEF IsMeant
  <2>7. Dying(b, WindowOf(b, info[b])) => Dying(b, WindowOf(b, info[b]))'
    BY <1>1, <2>2, <2>3 DEF Dying
  <2>8. \/ info[b] > processed[b]
        \/ owner = <<b, info[b]>>
        \/ \E c \in clears[b] : IsMeant(b, c)
        \/ <<b, info[b]>> \in refused
        \/ Dying(b, WindowOf(b, info[b]))
    BY <2>1 DEF BelievesRightly
  <2> QED BY <2>1, <2>2, <2>3, <2>4, <2>5, <2>6, <2>7, <2>8
<1>8. ASSUME NEW b \in App, NEW p \in Window, Dying(b, p), b = a => p # w
      PROVE  Dying(b, p)'
  BY <1>1, <1>2, <1>8 DEF Dying
<1>9. \/ \E t \in 1 .. sent[a] : Takes(a, t, w)
      \/ \E p \in Window : Dying(a, p)' /\ w \in Inside[p]
  <2>1. PICK p \in Window : p \in alreadyDead[a] /\ w \in Inside[p]
    BY DEF DeadChild, TypeOK
  <2>2. p # w
    BY <2>1, InsideAssumption
  <2>3. CASE p \notin dead[a]
    <3>1. Dying(a, p)
      BY <2>1, <2>3 DEF Dying
    <3> QED BY <1>8, <2>1, <2>2, <3>1
  <2>4. CASE \E t \in 1 .. sent[a] : Takes(a, t, p)
    BY <2>1, <2>4, TakesInside
  <2>5. CASE \E q \in Window : Dying(a, q) /\ p \in Inside[q]
    <3>1. PICK q \in Window : Dying(a, q) /\ p \in Inside[q]
      BY <2>5
    <3>2. w \in Inside[q] /\ q # w
      BY <2>1, <3>1, InsideAssumption
    <3> QED BY <1>8, <3>1, <3>2
  <2> QED BY <2>3, <2>4, <2>5 DEF DeadAreTaken
<1>10. ASSUME NEW b \in App, NEW v \in dead'[b]
       PROVE  \/ \E t \in 1 .. sent[b] : Takes(b, t, v)
              \/ \E p \in Window : Dying(b, p)' /\ v \in Inside[p]
  <2>1. CASE b = a /\ v = w
    BY <1>9, <2>1
  <2>2. CASE \E t \in 1 .. sent[b] : Takes(b, t, v)
    BY <2>2
  <2>3. CASE \E p \in Window : Dying(b, p) /\ v \in Inside[p]
    <3>1. PICK p \in Window : Dying(b, p) /\ v \in Inside[p]
      BY <2>3
    <3>2. CASE b = a => p # w
      BY <1>8, <3>1, <3>2
    <3>3. CASE b = a /\ p = w
      <4>1. \A t \in 1 .. sent[a] : Takes(a, t, w) => Takes(a, t, v)
        BY <3>1, <3>3, TakesInside
      <4>2. \A q \in Window : w \in Inside[q] => v \in Inside[q]
        BY <3>1, <3>3, InsideAssumption
      <4> QED BY <1>9, <3>3, <4>1, <4>2
    <3> QED BY <3>2, <3>3
  <2> QED BY <1>2, <1>10, <2>1, <2>2, <2>3 DEF DeadAreTaken
<1>11. DeadAreTaken'
  <2>1. \A b \in App, v \in Window : \A t \in 1 .. sent[b] : Takes(b, t, v) => Takes(b, t, v)'
    BY <1>1 DEF Takes
  <2>2. \A b \in App : \A v \in dead'[b] : v \in Window
    BY <1>2
  <2> SUFFICES ASSUME NEW b \in App, NEW v \in dead'[b]
               PROVE  \/ \E t \in 1 .. sent[b] : Takes(b, t, v)'
                      \/ \E p \in Window : Dying(b, p)' /\ v \in Inside[p]
    BY <1>1 DEF DeadAreTaken
  <2> QED BY <1>10, <2>1, <2>2
<1> QED BY <1>4, <1>5, <1>6, <1>7, <1>11

-----------------------------------------------------------------------------
\* An event that is meant for the claim ends a claim that no longer holds.
LEMMA HandleClearKeeps ==
    ASSUME Inductive, NEW a \in App, HandleClear(a)
    PROVE  Inductive'
<1> USE DEF Inductive
<1>1. PICK c \in clears[a] :
          /\ clears' = [clears EXCEPT ![a] = @ \ {c}]
          /\ info' = [info EXCEPT ![a] = IF IsMeant(a, c) THEN 0 ELSE @]
          /\ lost' = [lost EXCEPT ![a] =
                         IF IsMeant(a, c) THEN @ \cup {info[a]} ELSE @]
  BY DEF HandleClear
<1>2. UNCHANGED <<sent, request, alreadyDead, dead, processed, owner, refused>>
  BY DEF HandleClear
<1>3. \A b \in App : /\ info'[b] = IF b = a /\ IsMeant(a, c) THEN 0 ELSE info[b]
                     /\ clears'[b] \subseteq clears[b]
                     /\ clears[b] \ clears'[b] \subseteq {c}
                     /\ b # a => clears'[b] = clears[b]
  BY <1>1 DEF TypeOK
<1>4. TypeOK'
  <2>1. IsMeant(a, c) => info[a] \in Serial
    BY DEF IsMeant, TypeOK, Serial
  <2>2. lost' \in [App -> SUBSET Serial]
    BY <1>1, <2>1 DEF TypeOK
  <2>3. info' \in [App -> 0 .. MaxRequests] /\ clears' \in [App -> SUBSET Clear]
    BY <1>1 DEF TypeOK
  <2> QED BY <1>2, <2>2, <2>3 DEF TypeOK
<1>5. Counts'
  <2>1. \A b \in App : info'[b] <= sent[b]
    BY <1>3, Sizes
  <2> QED BY <1>2, <1>3, <2>1 DEF Counts
<1>6. InfoIsLatest' /\ DeadAreTaken' /\ OwnerIsThere'
  <2>1. InfoIsLatest'
    BY <1>2, <1>3 DEF InfoIsLatest, Takes, WindowOf
  <2>2. DeadAreTaken' /\ OwnerIsThere'
    BY <1>2 DEF DeadAreTaken, OwnerIsThere, Gone, Dying, Takes, WindowOf
  <2> QED BY <2>1, <2>2
<1>7. ClaimsAreKnown'
  <2> SUFFICES ASSUME NEW b \in App, NEW s \in Serial, s <= sent[b], s < Word,
                      request[b][s].op = "own",
                      s > processed[b] \/ owner = <<b, s>>,
                      info[b] = s, info'[b] # s
               PROVE  FALSE
    BY <1>2 DEF ClaimsAreKnown, WindowOf
  <2>1. b = a /\ IsMeant(a, c)
    BY <1>3
  <2>2. c.serial >= s % Word /\ c.serial <= processed[a]
    BY <2>1 DEF IsMeant, Counts
  <2>3. c.serial \in Nat /\ s \in Nat /\ processed[a] \in Nat
    BY Sizes DEF TypeOK, Clear, Serial
  <2>4. s % Word = s
    BY <2>3, WordAssumption
  <2>5. owner = <<a, s>>
    BY <2>1, <2>2, <2>3, <2>4
  <2>6. c.serial < s
    BY <2>5 DEF ClearsAreOld
  <2> QED BY <2>2, <2>3, <2>4, <2>6
<1>8. ClearsAreOld'
  BY <1>2, <1>3 DEF ClearsAreOld
<1>9. BelievesRightly'
  <2> SUFFICES ASSUME NEW b \in App, info'[b] # 0
               PROVE  \/ info'[b] > processed[b]
                      \/ owner = <<b, info'[b]>>
                      \/ \E d \in clears'[b] : IsMeant(b, d)'
                      \/ <<b, info'[b]>> \in refused
                      \/ Dying(b, WindowOf(b, info[b]))'
    BY <1>2 DEF BelievesRightly
  <2>1. info'[b] = info[b] /\ (b = a => ~ IsMeant(a, c))
    BY <1>3
  <2>2. \A d \in clears[b] : IsMeant(b, d) => d \in clears'[b] /\ IsMeant(b, d)'
    BY <1>2, <1>3, <2>1 DEF IsMeant, WindowOf
  <2>3. Dying(b, WindowOf(b, info[b])) => Dying(b, WindowOf(b, info[b]))'
    BY <1>2, <2>1 DEF Dying, WindowOf
  <2> QED BY <2>1, <2>2, <2>3 DEF BelievesRightly
<1> QED BY <1>4, <1>5, <1>6, <1>7, <1>8, <1>9

-----------------------------------------------------------------------------
\* An owner is a claim or NULL, never both.
LEMMA ClaimIsNotNull ==
    /\ \A b \in App, s \in Nat : <<b, s>> # NULL
    /\ \A b \in App, s \in Serial : <<b, s>> # NULL
  BY DEF Serial

\* An int holds no more than the serial number it was assigned.
LEMMA RemainderIsLess == \A n \in Nat : n % Word \in Nat /\ n % Word <= n
<1> TAKE n \in Nat
<1>1. Word \in Nat /\ Word > 0
  BY WordAssumption
<1>2. n % Word \in 0 .. Word - 1
  BY <1>1
<1>3. n < Word => n % Word = n
  BY <1>1
<1>4. n >= Word => n % Word < n
  BY <1>1, <1>2
<1> QED BY <1>1, <1>2, <1>3, <1>4

\* The request the server reads next.
LEMMA Reading ==
    ASSUME Inductive, NEW a \in App, Pending(a), ReadRequest(a)
    PROVE  /\ processed[a] + 1 \in Serial
           /\ processed[a] \in Nat /\ processed[a] + 1 <= sent[a]
           /\ processed[a] + 1 \in 1 .. sent[a]
           /\ NextRequest(a) = request[a][processed[a] + 1]
           /\ NextRequest(a) \in Request
           /\ processed' \in [App -> 0 .. MaxRequests]
           /\ \A b \in App :
                processed'[b] = IF b = a THEN processed[a] + 1 ELSE processed[b]
<1>1. processed[a] \in Nat /\ sent[a] \in Nat /\ sent[a] <= MaxRequests
  BY Sizes DEF Inductive
<1>2. processed[a] + 1 <= sent[a]
  BY <1>1 DEF Pending
<1>3. processed[a] + 1 \in Serial /\ processed[a] + 1 \in 1 .. sent[a]
  BY <1>1, <1>2 DEF Serial
<1>4. NextRequest(a) \in Request
  BY <1>3 DEF NextRequest, Inductive, Counts
<1> QED
  BY <1>1, <1>2, <1>3, <1>4 DEF NextRequest, ReadRequest, Inductive, TypeOK, Serial

\* A claim the application still knows when the server reads a later request: the
\* request ends it only with its window.
LEMMA KnownClaim ==
    ASSUME Inductive, NEW a \in App, Pending(a), ReadRequest(a), info[a] # 0
    PROVE  /\ info[a] \in Serial
           /\ info[a] > processed[a] =>
                \/ info[a] > processed'[a]
                \/ info[a] = processed[a] + 1 /\ NextRequest(a).op = "own"
           /\ info[a] <= processed[a] =>
                /\ NextRequest(a).op = "destroy"
                /\ \/ ~ Takes(a, processed[a] + 1, WindowOf(a, info[a]))
                   \/ Dying(a, WindowOf(a, info[a]))
<1>0. /\ processed[a] \in Nat /\ processed[a] + 1 <= sent[a]
      /\ NextRequest(a) = request[a][processed[a] + 1]
      /\ processed'[a] = processed[a] + 1
  BY Reading
<1>1. info[a] \in Nat /\ info[a] \in Serial /\ sent[a] \in Nat
  BY DEF Inductive, TypeOK, Serial
<1>2. CASE info[a] > processed[a]
  BY <1>0, <1>1, <1>2 DEF Inductive, InfoIsLatest
<1>3. CASE info[a] <= processed[a]
  <2>1. processed[a] + 1 \in info[a] + 1 .. sent[a]
    BY <1>0, <1>1, <1>3
  <2>2. /\ request[a][processed[a] + 1].op = "destroy"
        /\ Takes(a, processed[a] + 1, WindowOf(a, info[a])) =>
              WindowOf(a, info[a]) \in alreadyDead[a]
        /\ WindowOf(a, info[a]) \notin dead[a]
    BY <2>1 DEF Inductive, InfoIsLatest
  <2> QED BY <1>0, <1>1, <1>3, <2>2 DEF Dying
<1> QED BY <1>0, <1>1, <1>2, <1>3

\* What the three steps of the server have in common.
LEMMA ReadKeepsInfo ==
    ASSUME Inductive, UNCHANGED <<info, sent, request, alreadyDead, dead>>
    PROVE  InfoIsLatest' /\ DeadAreTaken'
<1>1. InfoIsLatest'
  BY DEF Inductive, InfoIsLatest, Takes, WindowOf
<1>2. DeadAreTaken'
  BY DEF Inductive, DeadAreTaken, Dying, Takes
<1> QED BY <1>1, <1>2

\* The server has taken away what it had, and what the request it reads destroys.
LEMMA GoneAfter ==
    ASSUME Inductive, NEW a \in App, Pending(a), ReadRequest(a),
           UNCHANGED <<request>>, NEW b \in App, NEW w \in Window, Gone(b, w)'
    PROVE  \/ Gone(b, w)
           \/ b = a /\ Takes(a, processed[a] + 1, w)
<1>1. /\ processed[a] \in Nat
      /\ processed'[b] = IF b = a THEN processed[a] + 1 ELSE processed[b]
  BY Reading
<1>2. PICK t \in 1 .. processed'[b] : Takes(b, t, w)'
  BY DEF Gone
<1>3. Takes(b, t, w)
  BY <1>2 DEF Takes
<1>4. CASE t \in 1 .. processed[b]
  BY <1>3, <1>4 DEF Gone
<1>5. CASE t \notin 1 .. processed[b]
  <2>1. b = a /\ t = processed[a] + 1
    BY <1>1, <1>5
  <2> QED BY <1>3, <2>1
<1> QED BY <1>4, <1>5

LEMMA SetSelectionOwnerKeeps ==
    ASSUME Inductive, NEW a \in App, SetSelectionOwner(a)
    PROVE  Inductive'
<1> USE DEF Inductive
<1>0. /\ Pending(a) /\ ReadRequest(a) /\ NextRequest(a).op \in {"own", "clear"}
      /\ NextRequest(a).op = "own" => ~ Gone(a, NextRequest(a).window)
      /\ UNCHANGED <<info, sent, request, alreadyDead, dead, lost, refused>>
  BY DEF SetSelectionOwner
<1> DEFINE p == processed[a] + 1
<1>1. /\ p \in Serial /\ processed[a] \in Nat /\ p <= sent[a] /\ p \in 1 .. sent[a]
      /\ NextRequest(a) = request[a][p]
      /\ processed' \in [App -> 0 .. MaxRequests]
      /\ \A b \in App : processed'[b] = IF b = a THEN p ELSE processed[b]
  BY <1>0, Reading
<1>2. \A b \in App : processed[b] \in Nat /\ processed[b] <= processed'[b]
  BY <1>1, Sizes
<1>3. PICK new : /\ new = IF NextRequest(a).op = "own" THEN <<a, p>> ELSE NULL
                 /\ ChangeOwner(a, new)
  BY DEF SetSelectionOwner
<1>20. ASSUME NEW b \in App, NEW w \in Window, Gone(b, w)'
       PROVE  Gone(b, w)
  <2>1. ~ Takes(a, p, w)
    BY <1>0, <1>1 DEF Takes
  <2> QED BY <1>0, <1>20, <2>1, GoneAfter
<1> HIDE DEF p
<1>4. owner' = new /\ new \in (App \X Serial) \cup {NULL}
  BY <1>1, <1>3 DEF ChangeOwner
<1> DEFINE c == [window |-> WindowOf(owner[1], owner[2]),
                 serial |-> processed'[owner[1]]]
           told == owner # NULL /\ ~ (new # NULL /\ owner[1] = a)
<1>5. clears' = IF told THEN [clears EXCEPT ![owner[1]] = @ \cup {c}] ELSE clears
  BY <1>3 DEF ChangeOwner
<1>6. ASSUME told
      PROVE  /\ owner \in App \X Serial
             /\ owner[1] \in App /\ owner[2] \in Serial /\ owner = <<owner[1], owner[2]>>
             /\ owner[2] <= processed[owner[1]]
             /\ c \in Clear
             /\ c.serial = processed'[owner[1]] /\ c.window = WindowOf(owner[1], owner[2])
  <2>1. owner \in App \X Serial
    BY <1>6 DEF TypeOK
  <2>2. owner[1] \in App /\ owner[2] \in Serial /\ owner = <<owner[1], owner[2]>>
    BY <2>1
  <2>3. owner[2] <= processed[owner[1]] /\ request[owner[1]][owner[2]].op = "own"
    BY <2>2 DEF Counts
  <2>4. owner[2] \in 1 .. sent[owner[1]]
    BY <2>2, <2>3, Sizes DEF Serial
  <2>5. WindowOf(owner[1], owner[2]) \in Window
    BY <2>2, <2>3, <2>4 DEF Counts, WindowOf
  <2>6. processed'[owner[1]] \in Serial
    BY <1>1, <1>2, <2>2, <2>3 DEF Serial
  <2> QED BY <2>1, <2>2, <2>3, <2>5, <2>6 DEF Clear
<1>7. /\ \A b \in App : clears[b] \subseteq clears'[b]
      /\ \A b \in App : clears'[b] # clears[b] =>
            told /\ b = owner[1] /\ clears'[b] = clears[b] \cup {c}
      /\ told => c \in clears'[owner[1]]
  BY <1>5, <1>6 DEF TypeOK
<1> HIDE DEF c, told
<1>8. TypeOK'
  <2>1. clears' \in [App -> SUBSET Clear]
    BY <1>5, <1>6 DEF TypeOK
  <2> QED BY <1>0, <1>1, <1>4, <2>1 DEF TypeOK
<1>9. Counts'
  <2> SUFFICES ASSUME NEW b \in App
               PROVE  /\ processed'[b] <= sent[b]
                      /\ \A d \in clears'[b] : d.serial <= processed'[b]
                      /\ \A s \in Serial : owner' = <<b, s>> =>
                            s <= processed'[b] /\ request[b][s].op = "own"
    BY <1>0 DEF Counts
  <2>1. processed'[b] <= sent[b]
    BY <1>1 DEF Counts
  <2>2. ASSUME NEW d \in clears'[b]
        PROVE  d.serial <= processed'[b]
    <3>1. CASE d \in clears[b]
      <4>1. d.serial <= processed[b] /\ d.serial \in Nat
        BY <3>1 DEF Counts, TypeOK, Clear, Serial
      <4> QED BY <1>1, <1>2, <4>1
    <3>2. CASE d \notin clears[b]
      <4>1. told /\ b = owner[1] /\ d = c
        BY <1>7, <2>2, <3>2
      <4> QED BY <1>1, <1>6, <4>1
    <3> QED BY <3>1, <3>2
  <2>3. ASSUME NEW s \in Serial, owner' = <<b, s>>
        PROVE  s <= processed'[b] /\ request[b][s].op = "own"
    <3>1. b = a /\ s = p /\ NextRequest(a).op = "own"
      BY <1>3, <1>4, <2>3, ClaimIsNotNull
    <3> QED BY <1>1, <3>1 DEF Serial
  <2> QED BY <2>1, <2>2, <2>3
<1>10. InfoIsLatest' /\ DeadAreTaken'
  BY <1>0, ReadKeepsInfo
<1>11. ClaimsAreKnown'
  <2> SUFFICES ASSUME NEW b \in App, NEW s \in Serial, s <= sent[b],
                      request[b][s].op = "own",
                      s > processed'[b] \/ owner' = <<b, s>>
               PROVE  s > processed[b]
    BY <1>0 DEF ClaimsAreKnown, WindowOf
  <2>1. CASE s > processed'[b]
    BY <1>1, <1>2, <2>1 DEF Serial
  <2>2. CASE owner' = <<b, s>>
    <3>1. b = a /\ s = p
      BY <1>3, <1>4, <2>2, ClaimIsNotNull
    <3> QED BY <1>1, <3>1 DEF p
  <2> QED BY <2>1, <2>2
<1>12. ClearsAreOld'
  <2> SUFFICES ASSUME NEW b \in App, NEW s \in Serial, owner' = <<b, s>>,
                      NEW d \in clears'[b]
               PROVE  d.serial < s
    BY DEF ClearsAreOld
  <2>1. b = a /\ s = p /\ new # NULL
    BY <1>3, <1>4, ClaimIsNotNull
  <2>2. clears'[b] = clears[b]
    BY <1>7, <2>1 DEF told
  <2>3. d.serial <= processed[a] /\ d.serial \in Nat
    BY <2>1, <2>2 DEF Counts, TypeOK, Clear, Serial
  <2> QED BY <1>1, <2>1, <2>3 DEF p
<1>13. BelievesRightly'
  <2> SUFFICES ASSUME NEW b \in App, info[b] # 0
               PROVE  \/ info[b] > processed'[b]
                      \/ owner' = <<b, info[b]>>
                      \/ \E d \in clears'[b] : IsMeant(b, d)
                      \/ <<b, info[b]>> \in refused
                      \/ Dying(b, WindowOf(b, info[b]))
    BY <1>0 DEF BelievesRightly, IsMeant, WindowOf, Dying
  <2>1. CASE info[b] > processed[b]
    <3>1. CASE b = a
      <4>1. \/ info[a] > processed'[a]
            \/ info[a] = processed[a] + 1 /\ NextRequest(a).op = "own"
        BY <1>0, <2>1, <3>1, KnownClaim
      <4> QED BY <1>3, <1>4, <3>1, <4>1 DEF p
    <3> QED BY <1>1, <2>1, <3>1
  <2>2. CASE owner = <<b, info[b]>> /\ ~ info[b] > processed[b]
    <3>1. info[b] <= processed[b] /\ info[b] \in Nat
      BY <2>2, Sizes
    <3>2. b # a
      BY <1>0, <3>1, KnownClaim
    <3>3. told /\ owner[1] = b /\ owner[2] = info[b]
      BY <2>2, <3>1, <3>2, ClaimIsNotNull DEF told
    <3>4. c \in clears'[b] /\ c.window = WindowOf(b, info[b]) /\ c.serial = processed[b]
      BY <1>1, <1>6, <1>7, <3>2, <3>3
    <3>5. CASE WindowOf(b, info[b]) \in alreadyDead[b]
      BY <3>5 DEF InfoIsLatest, Dying
    <3>6. CASE WindowOf(b, info[b]) \notin alreadyDead[b]
      <4>1. info[b] % Word <= info[b]
        BY <3>1, RemainderIsLess
      <4>2. info[b] % Word \in Nat
        BY <3>1, WordAssumption
      <4>3. processed[b] \in Nat
        BY <1>2
      <4>4. c.serial >= info[b] % Word
        BY <3>1, <3>4, <4>1, <4>2, <4>3
      <4>5. IsMeant(b, c)
        BY <3>4, <3>6, <4>4 DEF IsMeant
      <4> QED BY <3>4, <4>5
    <3> QED BY <3>5, <3>6
  <2> QED BY <1>0, <1>7, <2>1, <2>2 DEF BelievesRightly
<1>14. OwnerIsThere'
  <2> SUFFICES ASSUME NEW b \in App, NEW s \in Serial, owner' = <<b, s>>,
                      Gone(b, WindowOf(b, s))'
               PROVE  FALSE
    BY DEF OwnerIsThere
  <2>1. b = a /\ s = p /\ NextRequest(a).op = "own"
    BY <1>3, <1>4, ClaimIsNotNull
  <2>2. PICK w \in Window : w = NextRequest(a).window
    BY <1>1, <2>1 DEF Counts
  <2>3. WindowOf(b, s)' = w
    BY <1>0, <1>1, <2>1, <2>2 DEF WindowOf
  <2>4. Gone(b, w)'
    BY <2>3 DEF Gone, Takes
  <2> QED BY <1>0, <1>20, <2>1, <2>2, <2>4
<1> QED BY <1>8, <1>9, <1>10, <1>11, <1>12, <1>13, <1>14

\* The two steps that make nobody the owner, or leave it as it is.
LEMMA OwnerlessKeeps ==
    ASSUME Inductive, NEW a \in App, RefuseOwner(a) \/ DestroyWindow(a)
    PROVE  Inductive'
<1> USE DEF Inductive
<1>0. /\ Pending(a) /\ ReadRequest(a)
      /\ UNCHANGED <<info, sent, request, alreadyDead, dead, lost, clears>>
      /\ owner' = owner \/ owner' = NULL
      /\ refused \subseteq refused'
  BY DEF RefuseOwner, DestroyWindow
<1>1. /\ processed[a] + 1 \in Serial /\ processed[a] \in Nat
      /\ processed[a] + 1 <= sent[a]
      /\ NextRequest(a) = request[a][processed[a] + 1]
      /\ processed' \in [App -> 0 .. MaxRequests]
      /\ \A b \in App :
           processed'[b] = IF b = a THEN processed[a] + 1 ELSE processed[b]
  BY <1>0, Reading
<1>2. \A b \in App : processed[b] \in Nat /\ processed[b] <= processed'[b]
  BY <1>1, Sizes
<1>3. TypeOK'
  <2>1. refused' \subseteq App \X Serial
    BY <1>1 DEF RefuseOwner, DestroyWindow, TypeOK
  <2>2. owner' \in (App \X Serial) \cup {NULL}
    BY <1>0 DEF TypeOK
  <2> QED BY <1>0, <1>1, <2>1, <2>2 DEF TypeOK
<1>4. Counts'
  <2> SUFFICES ASSUME NEW b \in App
               PROVE  /\ processed'[b] <= sent[b]
                      /\ \A d \in clears[b] : d.serial <= processed'[b]
                      /\ \A s \in Serial : owner' = <<b, s>> =>
                            s <= processed'[b] /\ request[b][s].op = "own"
    BY <1>0 DEF Counts
  <2>1. processed'[b] <= sent[b]
    BY <1>1 DEF Counts
  <2>2. \A d \in clears[b] : d.serial <= processed'[b]
    <3> TAKE d \in clears[b]
    <3>1. d.serial <= processed[b] /\ d.serial \in Nat
      BY DEF Counts, TypeOK, Clear, Serial
    <3> QED BY <1>1, <1>2, <3>1
  <2>3. \A s \in Serial : owner' = <<b, s>> =>
            s <= processed'[b] /\ request[b][s].op = "own"
    <3> SUFFICES ASSUME NEW s \in Serial, owner' = <<b, s>>
                 PROVE  s <= processed'[b] /\ request[b][s].op = "own"
      OBVIOUS
    <3>0. owner = <<b, s>>
      BY <1>0, ClaimIsNotNull
    <3>1. s <= processed[b] /\ request[b][s].op = "own" /\ s \in Nat
      BY <3>0 DEF Counts, Serial
    <3> QED BY <1>1, <1>2, <3>1
  <2> QED BY <2>1, <2>2, <2>3
<1>5. InfoIsLatest' /\ DeadAreTaken'
  BY <1>0, ReadKeepsInfo
<1>6. ClaimsAreKnown'
  <2> SUFFICES ASSUME NEW b \in App, NEW s \in Serial, s <= sent[b],
                      request[b][s].op = "own",
                      s > processed'[b] \/ owner' = <<b, s>>
               PROVE  s > processed[b] \/ owner = <<b, s>>
    BY <1>0 DEF ClaimsAreKnown, WindowOf
  <2>1. s \in Nat
    BY DEF Serial
  <2>2. owner' = <<b, s>> => owner = <<b, s>>
    BY <1>0, ClaimIsNotNull
  <2> QED BY <1>1, <1>2, <2>1, <2>2
<1>7. ClearsAreOld'
  BY <1>0, ClaimIsNotNull DEF ClearsAreOld
<1>8. BelievesRightly'
  <2> SUFFICES ASSUME NEW b \in App, info[b] # 0
               PROVE  \/ info[b] > processed'[b]
                      \/ owner' = <<b, info[b]>>
                      \/ \E d \in clears[b] : IsMeant(b, d)
                      \/ <<b, info[b]>> \in refused'
                      \/ Dying(b, WindowOf(b, info[b]))
    BY <1>0 DEF BelievesRightly, IsMeant, WindowOf, Dying
  <2>1. CASE info[b] > processed[b]
    <3>1. CASE b = a
      <4>1. \/ info[a] > processed'[a]
            \/ info[a] = processed[a] + 1 /\ NextRequest(a).op = "own"
        BY <1>0, <2>1, <3>1, KnownClaim
      <4> QED BY <3>1, <4>1 DEF RefuseOwner, DestroyWindow
    <3> QED BY <1>1, <2>1, <3>1
  <2>2. CASE owner = <<b, info[b]>> /\ ~ info[b] > processed[b]
    <3>1. CASE b = a
      <4>1. info[a] <= processed[a]
        BY <2>2, <3>1, Sizes
      <4>2. /\ NextRequest(a).op = "destroy"
            /\ \/ ~ Takes(a, processed[a] + 1, WindowOf(a, info[a]))
               \/ Dying(a, WindowOf(a, info[a]))
        BY <1>0, <3>1, <4>1, KnownClaim
      <4>3. owner[2] = info[a]
        BY <2>2, <3>1
      <4> QED BY <2>2, <3>1, <4>2, <4>3 DEF RefuseOwner, DestroyWindow
    <3>2. CASE b # a
      <4>1. owner[1] # a
        BY <2>2, <3>2
      <4> QED BY <2>2, <4>1 DEF RefuseOwner, DestroyWindow
    <3> QED BY <3>1, <3>2
  <2> QED BY <1>0, <2>1, <2>2 DEF BelievesRightly
<1>9. OwnerIsThere'
  <2> SUFFICES ASSUME NEW b \in App, NEW s \in Serial, owner' = <<b, s>>,
                      Gone(b, WindowOf(b, s))'
               PROVE  FALSE
    BY DEF OwnerIsThere
  <2>1. owner = <<b, s>>
    BY <1>0, ClaimIsNotNull
  <2>2. /\ s \in 1 .. sent[b]
        /\ request[b][s].op = "own"
    BY <2>1, Sizes DEF Counts, Serial
  <2>3. PICK w \in Window : w = WindowOf(b, s)
    BY <2>2 DEF Counts, WindowOf
  <2>4. WindowOf(b, s)' = w
    BY <1>0, <2>3 DEF WindowOf
  <2>5. Gone(b, w)'
    BY <2>4 DEF Gone, Takes
  <2>6. ~ Gone(b, w)
    BY <2>1, <2>3 DEF OwnerIsThere
  <2>7. b = a /\ Takes(a, processed[a] + 1, w)
    BY <1>0, <2>5, <2>6, GoneAfter
  <2>8. NextRequest(a).op = "destroy"
    BY <1>1, <2>7 DEF Takes
  <2>9. DestroyWindow(a)
    BY <2>8 DEF RefuseOwner
  <2>10. owner # NULL /\ owner[1] = a /\ owner[2] = s
    BY <2>1, <2>7, ClaimIsNotNull
  <2>11. owner' = NULL
    BY <2>3, <2>7, <2>9, <2>10 DEF DestroyWindow
  <2> QED BY <2>11, ClaimIsNotNull
<1> QED BY <1>3, <1>4, <1>5, <1>6, <1>7, <1>8, <1>9

-----------------------------------------------------------------------------
LEMMA InitInductive == Init => Inductive
<1> SUFFICES ASSUME Init PROVE Inductive
  OBVIOUS
<1> USE DEF Init
<1>1. TypeOK
  BY DEF TypeOK
<1>2. Counts /\ InfoIsLatest /\ BelievesRightly
  BY ClaimIsNotNull DEF Counts, InfoIsLatest, BelievesRightly
<1>3. ClaimsAreKnown
  BY DEF ClaimsAreKnown, Serial
<1>4. ClearsAreOld
  BY DEF ClearsAreOld
<1>5. DeadAreTaken /\ OwnerIsThere
  BY ClaimIsNotNull DEF DeadAreTaken, OwnerIsThere
<1> QED BY <1>1, <1>2, <1>3, <1>4, <1>5 DEF Inductive

LEMMA StepInductive == Inductive /\ [Next]_vars => Inductive'
<1> SUFFICES ASSUME Inductive, [Next]_vars PROVE Inductive'
  OBVIOUS
<1>1. CASE UNCHANGED vars
  BY <1>1 DEF vars, Inductive, TypeOK, Counts, InfoIsLatest, ClaimsAreKnown,
              DeadAreTaken, OwnerIsThere, ClearsAreOld, BelievesRightly,
              IsMeant, Gone, Dying, Takes, WindowOf
<1>2. CASE Next
  <2>1. PICK a \in App :
          \/ \E w \in Window : OwnSelection(a, w)
          \/ ClearSelection(a)
          \/ \E w \in Window : StartDestroy(a, w)
          \/ \E w \in Window : DeadWindow(a, w)
          \/ \E w \in Window : DeadChild(a, w)
          \/ HandleClear(a)
          \/ SetSelectionOwner(a)
          \/ RefuseOwner(a)
          \/ DestroyWindow(a)
    BY <1>2 DEF Next
  <2>2. CASE \/ \E w \in Window : OwnSelection(a, w)
             \/ ClearSelection(a)
             \/ \E w \in Window : DeadWindow(a, w)
    BY <2>2, OperationKeeps
  <2>3. CASE \E w \in Window : StartDestroy(a, w) \/ DeadChild(a, w)
    BY <2>3, StartDestroyKeeps, DeadChildKeeps
  <2>4. CASE HandleClear(a)
    BY <2>4, HandleClearKeeps
  <2>5. CASE SetSelectionOwner(a)
    BY <2>5, SetSelectionOwnerKeeps
  <2>6. CASE RefuseOwner(a) \/ DestroyWindow(a)
    BY <2>6, OwnerlessKeeps
  <2> QED BY <2>1, <2>2, <2>3, <2>4, <2>5, <2>6
<1> QED BY <1>1, <1>2

LEMMA InductiveInvariant == Spec => []Inductive
  BY InitInductive, StepInductive, PTL DEF Spec

\* The lists, requests and events have the types the other theorems rely on.
THEOREM TypeCorrect == Spec => []TypeOK
<1>1. Inductive => TypeOK
  BY DEF Inductive
<1> QED BY <1>1, InductiveInvariant, PTL

\* An application that thinks it owns the selection does, or will, or will be told:
\* Tk_OwnSelection and TkSelClearSelection need no answer from the server.
THEOREM BelievesRightlyHolds == Spec => []BelievesRightly
<1>1. Inductive => BelievesRightly
  BY DEF Inductive
<1> QED BY <1>1, InductiveInvariant, PTL

\* The test of the serial in TkSelClearSelection lets no late SelectionClear take
\* a claim from an application that holds it, as long as its serial number fits in
\* an unsigned int; and only the destruction of an outer window, before its request
\* is sent, leaves the server an owner whose application has forgotten it.
THEOREM OwnerKnowsHolds == Spec => []OwnerKnows
<1>1. Inductive => OwnerKnows
  <2> SUFFICES ASSUME Inductive, NEW a \in App, NEW s \in Serial,
                      owner = <<a, s>>, s < Word
               PROVE  \/ info[a] = s
                      \/ \E t \in s + 1 .. sent[a] : Ends(a, t, s)
                      \/ /\ WindowOf(a, s) \in dead[a]
                         /\ \E p \in Window :
                               Dying(a, p) /\ WindowOf(a, s) \in Inside[p]
    BY DEF OwnerKnows
  <2>1. s <= processed[a] /\ request[a][s].op = "own"
    BY DEF Inductive, Counts
  <2>2. /\ sent[a] \in Nat /\ processed[a] \in Nat /\ processed[a] <= sent[a]
        /\ s \in Nat /\ s <= sent[a]
    BY <2>1, Sizes DEF Inductive, Serial
  <2>3. \/ info[a] = s
        \/ \E t \in s + 1 .. sent[a] : request[a][t].op # "destroy"
        \/ WindowOf(a, s) \in dead[a]
    BY <2>1, <2>2 DEF Inductive, ClaimsAreKnown
  <2>4. CASE /\ WindowOf(a, s) \in dead[a]
             /\ \E t \in 1 .. sent[a] : Takes(a, t, WindowOf(a, s))
    <3>1. PICK t \in 1 .. sent[a] : Takes(a, t, WindowOf(a, s))
      BY <2>4
    <3>2. t \notin 1 .. processed[a]
      BY <3>1 DEF Inductive, OwnerIsThere, Gone
    <3>3. t \in s + 1 .. sent[a]
      BY <2>1, <2>2, <3>2
    <3> QED BY <3>1, <3>3 DEF Ends
  <2>5. CASE /\ WindowOf(a, s) \in dead[a]
             /\ ~ \E t \in 1 .. sent[a] : Takes(a, t, WindowOf(a, s))
    BY <2>5 DEF Inductive, DeadAreTaken
  <2> QED BY <2>3, <2>4, <2>5 DEF Ends
<1> QED BY <1>1, InductiveInvariant, PTL
-----------------------------------------------------------------------------
USE RetrievalAssumption, BytesAssumption, BoundsAssumption

-----------------------------------------------------------------------------
\* Texts, and what the code cuts out of them and appends.

LEMMA TextIsData ==
    ASSUME NEW v \in 0 .. MaxTricks, NEW n \in Lengths
    PROVE  /\ Text(v, n) \in Data
           /\ Len(Text(v, n)) = n
           /\ n \in 1 .. MaxLength
<1>1. n \in Nat /\ n \in 1 .. MaxLength
  OBVIOUS
<1>2. Text(v, n) \in [1 .. n -> Int \X Int]
  BY <1>1 DEF Text
<1>3. Text(v, n) \in Data
  BY <1>1, <1>2, SeqDef DEF Data
<1>4. DOMAIN Text(v, n) = 1 .. n
  BY DEF Text
<1> QED
  BY <1>1, <1>3, <1>4, LenProperties DEF Data

LEMMA TextFacts ==
    ASSUME text \in Texts
    PROVE  /\ text \in Data
           /\ Len(text) \in 1 .. MaxLength
           /\ Len(text) \in Nat
           /\ text \notin {None, INCR}
<1>1. PICK v \in 0 .. MaxTricks, n \in Lengths : text = Text(v, n)
  BY DEF Texts
<1> QED
  BY <1>1, TextIsData, PropertyAssumption

LEMMA AppendedData ==
    ASSUME NEW value \in Data, NEW chunk \in Data
    PROVE  /\ Append1(value, chunk) \in Data
           /\ Len(Append1(value, chunk)) <= Beyond
           /\ Len(value \o chunk) <= Beyond => Append1(value, chunk) = value \o chunk
<1> DEFINE whole == value \o chunk
           n == AtMost(Len(whole), Beyond)
<1>1. whole \in Seq(Int \X Int) /\ Len(whole) \in Nat
  BY ConcatProperties, LenProperties DEF Data
<1>2. n \in 0 .. Len(whole) /\ n <= Beyond /\ (Len(whole) <= Beyond => n = Len(whole))
  BY <1>1 DEF AtMost, Beyond
<1> HIDE DEF whole, n
<1>3. /\ SubSeq(whole, 1, n) \in Seq(Int \X Int)
      /\ Len(SubSeq(whole, 1, n)) = n
  BY <1>1, <1>2, PrefixElements
<1>4. SubSeq(whole, 1, Len(whole)) = whole
  BY <1>1, SubSeqFull
<1>5. Append1(value, chunk) = SubSeq(whole, 1, n)
  BY DEF Append1, whole, n
<1> QED
  BY <1>2, <1>3, <1>4, <1>5 DEF Data, whole

LEMMA GarbageIsData == Garbage \in Data /\ Garbage # <<>>
  BY DEF Garbage, Data

\* A portion, from wherever HandleTclCommand starts.
LEMMA PortionFacts ==
    ASSUME text \in Texts, next \in 0 .. Beyond - 1, NEW offset \in Int
    PROVE  /\ Portion(offset) \in Data
           /\ Start(offset) \in 0 .. MaxLength
           /\ Len(Portion(offset)) \in 0 .. Bytes
           /\ Len(Portion(offset)) <= MaxLength
           /\ Start(offset) + Len(Portion(offset)) \in 0 .. MaxLength
           /\ Start(offset) <= Len(text) =>
                Start(offset) + Len(Portion(offset))
                  = AtMost(Start(offset) + Bytes, Len(text))
<1> DEFINE s == Start(offset)
           e == AtMost(s + Bytes, Len(text))
<1>1. /\ text \in Seq(Int \X Int)
      /\ Len(text) \in 1 .. MaxLength
  BY TextFacts DEF Data
<1>2. s \in 0 .. MaxLength
  BY DEF Start, Beyond
<1>3. e \in Nat /\ e <= s + Bytes /\ e <= Len(text)
  <2>1. s + Bytes \in Nat /\ Len(text) \in Nat
    BY <1>1, <1>2
  <2> HIDE DEF s
  <2> QED
    BY <2>1 DEF AtMost
<1>4. Portion(offset) = SubSeq(text, s + 1, e)
  BY DEF Portion
<1> HIDE DEF s, e
<1>5. /\ SubSeq(text, s + 1, e) \in Seq(Int \X Int)
      /\ Len(SubSeq(text, s + 1, e)) = IF s + 1 <= e THEN e - s ELSE 0
  <2>1. \A i \in s + 1 .. e : text[i] \in Int \X Int
    BY <1>1, <1>2, <1>3, ElementOfSeq
  <2>2. s + 1 \in Int /\ e \in Int
    BY <1>2, <1>3
  <2>3. /\ SubSeq(text, s + 1, e) \in Seq(Int \X Int)
        /\ Len(SubSeq(text, s + 1, e)) = IF s + 1 <= e THEN e - (s + 1) + 1 ELSE 0
    BY <2>1, <2>2, SubSeqProperties
  <2> QED
    BY <2>2, <2>3, <1>2, <1>3
<1>6. s <= Len(text) => s <= e
  BY <1>1, <1>2 DEF AtMost, e
<1> HIDE DEF Portion
<1>7. /\ Len(Portion(offset)) \in 0 .. Bytes
      /\ Len(Portion(offset)) <= MaxLength
      /\ s + Len(Portion(offset)) \in 0 .. MaxLength
      /\ s <= Len(text) => s + Len(Portion(offset)) = e
  <2> DEFINE l == Len(Portion(offset))
  <2>1. l = IF s + 1 <= e THEN e - s ELSE 0
    BY <1>4, <1>5
  <2> HIDE DEF l
  <2>2. /\ l \in 0 .. Bytes
        /\ l <= MaxLength
        /\ s + l \in 0 .. MaxLength
        /\ s <= Len(text) => s + l = e
    BY <2>1, <1>1, <1>2, <1>3, <1>6
  <2> QED
    BY <2>2 DEF l
<1> QED
  BY <1>2, <1>4, <1>5, <1>7 DEF Data, s, e

-----------------------------------------------------------------------------
\* Stacks and queues.

LEMMA StackTop ==
    ASSUME NEW S, NEW stack \in Seq(S), stack # <<>>
    PROVE  /\ Len(stack) \in Nat \ {0}
           /\ DOMAIN stack = 1 .. Len(stack)
           /\ Len(stack) \in DOMAIN stack
           /\ Top(stack) = stack[Len(stack)]
           /\ Top(stack) \in S
           /\ Pop(stack) \in Seq(S)
           /\ Len(Pop(stack)) = Len(stack) - 1
           /\ DOMAIN Pop(stack) = 1 .. Len(stack) - 1
           /\ \A i \in 1 .. Len(stack) - 1 : i \in DOMAIN stack /\ Pop(stack)[i] = stack[i]
<1>1. /\ Len(stack) \in Nat \ {0}
      /\ DOMAIN stack = 1 .. Len(stack)
  BY LenProperties, EmptySeq
<1>2. Len(stack) - 1 \in 0 .. Len(stack)
  BY <1>1
<1> QED
  BY <1>1, <1>2, PrefixElements, ElementOfSeq DEF Top, Pop

LEMMA EmptyRequests == RequestsIn(<<>>) = {}
  BY DEF RequestsIn

LEMMA RequestsFinite ==
    ASSUME NEW S, NEW queue \in Seq(S)
    PROVE  /\ IsFiniteSet(RequestsIn(queue))
           /\ Cardinality(RequestsIn(queue)) \in Nat
           /\ RequestsIn(queue) \subseteq 1 .. Len(queue)
<1>1. Len(queue) \in Nat /\ DOMAIN queue = 1 .. Len(queue)
  BY LenProperties
<1>2. RequestsIn(queue) \subseteq 1 .. Len(queue)
  BY <1>1 DEF RequestsIn
<1>3. IsFiniteSet(1 .. Len(queue))
  BY <1>1, FS_Interval
<1> QED
  BY <1>2, <1>3, FS_Subset, FS_CardinalityType

LEMMA RequestsAppended ==
    ASSUME NEW S, NEW queue \in Seq(S), NEW e \in S
    PROVE  RequestsIn(Append(queue, e))
             = RequestsIn(queue) \cup (IF e = "request" THEN {Len(queue) + 1} ELSE {})
<1>1. /\ Len(queue) \in Nat
      /\ DOMAIN queue = 1 .. Len(queue)
      /\ DOMAIN Append(queue, e) = 1 .. Len(queue) + 1
      /\ \A i \in 1 .. Len(queue) + 1 :
           Append(queue, e)[i] = IF i = Len(queue) + 1 THEN e ELSE queue[i]
  BY AppendElements, LenProperties
<1> QED
  BY <1>1 DEF RequestsIn

LEMMA CountAppended ==
    ASSUME NEW S, NEW queue \in Seq(S), NEW e \in S
    PROVE  Cardinality(RequestsIn(Append(queue, e)))
             = Cardinality(RequestsIn(queue)) + (IF e = "request" THEN 1 ELSE 0)
<1>1. /\ IsFiniteSet(RequestsIn(queue))
      /\ Cardinality(RequestsIn(queue)) \in Nat
      /\ RequestsIn(queue) \subseteq 1 .. Len(queue)
  BY RequestsFinite
<1>2. Len(queue) + 1 \notin RequestsIn(queue)
  BY <1>1, LenProperties
<1>3. Cardinality(RequestsIn(queue) \cup {Len(queue) + 1})
        = Cardinality(RequestsIn(queue)) + 1
  BY <1>1, <1>2, FS_AddElement
<1>4. CASE e = "request"
  <2>1. RequestsIn(Append(queue, e)) = RequestsIn(queue) \cup {Len(queue) + 1}
    BY <1>4, RequestsAppended
  <2> QED
    BY <1>3, <1>4, <2>1
<1>5. CASE e # "request"
  <2>1. RequestsIn(Append(queue, e)) = RequestsIn(queue)
    BY <1>5, RequestsAppended
  <2> QED
    BY <1>1, <1>5, <2>1
<1> QED
  BY <1>4, <1>5

LEMMA RequestsOfTail ==
    ASSUME NEW S, NEW queue \in Seq(S), queue # <<>>
    PROVE  /\ RequestsIn(Tail(queue))
                = {i \in 1 .. Len(queue) - 1 : queue[i + 1] = "request"}
           /\ RequestsIn(queue) \ {1} = {i + 1 : i \in RequestsIn(Tail(queue))}
           /\ 1 \in RequestsIn(queue) <=> Head(queue) = "request"
<1>1. /\ Len(queue) \in Nat \ {0}
      /\ DOMAIN queue = 1 .. Len(queue)
      /\ Head(queue) = queue[1]
  BY LenProperties, EmptySeq
<1>2. /\ Tail(queue) \in Seq(S)
      /\ Len(Tail(queue)) = Len(queue) - 1
      /\ \A i \in 1 .. Len(queue) - 1 : Tail(queue)[i] = queue[i + 1]
  BY HeadTailProperties
<1>3. DOMAIN Tail(queue) = 1 .. Len(queue) - 1
  BY <1>2, LenProperties
<1>4. RequestsIn(Tail(queue)) = {i \in 1 .. Len(queue) - 1 : queue[i + 1] = "request"}
  BY <1>2, <1>3 DEF RequestsIn
<1>5. ASSUME NEW j \in RequestsIn(queue) \ {1}
      PROVE  \E i \in RequestsIn(Tail(queue)) : j = i + 1
  <2>1. j \in 2 .. Len(queue) /\ queue[j] = "request"
    BY <1>1, <1>5 DEF RequestsIn
  <2>2. j - 1 \in 1 .. Len(queue) - 1 /\ (j - 1) + 1 = j
    BY <1>1, <2>1
  <2>3. j - 1 \in RequestsIn(Tail(queue))
    BY <1>4, <2>1, <2>2
  <2> QED
    BY <2>2, <2>3
<1>6. ASSUME NEW i \in RequestsIn(Tail(queue))
      PROVE  i + 1 \in RequestsIn(queue) \ {1}
  BY <1>1, <1>4, <1>6 DEF RequestsIn
<1> QED
  BY <1>1, <1>4, <1>5, <1>6 DEF RequestsIn

LEMMA CountTail ==
    ASSUME NEW S, NEW queue \in Seq(S), queue # <<>>
    PROVE  Cardinality(RequestsIn(queue))
             = Cardinality(RequestsIn(Tail(queue)))
               + (IF Head(queue) = "request" THEN 1 ELSE 0)
<1> DEFINE A == RequestsIn(Tail(queue))
           B == RequestsIn(queue) \ {1}
           f == [i \in A |-> i + 1]
<1>1. /\ IsFiniteSet(RequestsIn(queue))
      /\ Cardinality(RequestsIn(queue)) \in Nat
  BY RequestsFinite
<1>2. Tail(queue) \in Seq(S)
  BY HeadTailProperties
<1>3. /\ IsFiniteSet(A)
      /\ Cardinality(A) \in Nat
      /\ A \subseteq 1 .. Len(Tail(queue))
  BY <1>2, RequestsFinite
<1>4. A \subseteq Int
  BY <1>3
<1>5. B = {i + 1 : i \in A}
  BY RequestsOfTail
<1> HIDE DEF A, B
<1>6. f \in Bijection(A, B)
  BY <1>4, <1>5 DEF Bijection, Injection, Surjection, IsInjective
<1>7. Cardinality(B) = Cardinality(A)
  BY <1>3, <1>6, FS_Bijection DEF ExistsBijection
<1>8. 1 \in RequestsIn(queue) <=> Head(queue) = "request"
  BY RequestsOfTail
<1>9. Cardinality(B) = IF 1 \in RequestsIn(queue) THEN Cardinality(RequestsIn(queue)) - 1
                       ELSE Cardinality(RequestsIn(queue))
  BY <1>1, FS_RemoveElement DEF B
<1> QED
  BY <1>1, <1>3, <1>7, <1>8, <1>9 DEF A

-----------------------------------------------------------------------------
\* The types and counts, side by side.

SoundTransfer == {t \in Transfer : t.offset # -1 => t.incrs >= 0}

SoundInfo ==
    {entry \in RetrievalInfo :
        /\ Len(entry.value) <= Beyond
        /\ entry.result = "new" => entry = Unused("new")
        /\ entry.result = "pending" => entry.idle < Patience}

Loop == [get : Retrieval, incr : BOOLEAN]

OwnerTyped ==
    /\ text \in Texts
    /\ handler \in BOOLEAN /\ listening \in BOOLEAN
    /\ next \in 0 .. Beyond - 1
    /\ transfer \in Seq(SoundTransfer)

RequestorTyped ==
    /\ retrieval \in [Retrieval -> SoundInfo]
    /\ frames \in Seq(Loop)

Chunk == {d \in Data : Len(d) <= Bytes /\ Len(d) <= MaxLength}

ServerTyped ==
    /\ property \in {None, INCR} \cup Chunk
    /\ toOwner \in Seq({"request", "delete"})
    /\ toRequestor \in Seq({"new", "notify", "refuse"})

HistoryTyped == tricks \in 0 .. MaxTricks /\ spoiled \subseteq Retrieval

Counted == Len(transfer) + Cardinality(RequestsIn(toOwner)) <= Cardinality(Used)

Typed == OwnerTyped /\ RequestorTyped /\ ServerTyped /\ HistoryTyped /\ Counted

LEMMA UsedFits ==
    /\ IsFiniteSet(Used)
    /\ Cardinality(Used) \in Nat
    /\ Cardinality(Used) <= Cardinality(Retrieval)
    /\ Cardinality(Retrieval) \in Nat
<1>1. Used \in SUBSET Retrieval
  BY DEF Used
<1> QED
  BY <1>1, FS_Subset, FS_CardinalityType

LEMMA ElementsSound ==
    ASSUME NEW S, NEW T, T \subseteq S, NEW s \in Seq(S),
           \A i \in DOMAIN s : s[i] \in T
    PROVE  s \in Seq(T)
<1>1. Len(s) \in Nat /\ s \in [1 .. Len(s) -> S] /\ DOMAIN s = 1 .. Len(s)
  BY LenProperties
<1>2. s \in [1 .. Len(s) -> T]
  BY <1>1
<1> QED
  BY <1>1, <1>2, SeqDef

LEMMA TypedParts == RetrievalTypeOK /\ Bookkeeping <=> Typed
<1>1. ASSUME RetrievalTypeOK, Bookkeeping PROVE Typed
  <2>1. transfer \in Seq(SoundTransfer)
    <3>1. \A i \in DOMAIN transfer : transfer[i] \in SoundTransfer
      BY <1>1, LenProperties, ElementOfSeq DEF RetrievalTypeOK, Bookkeeping, SoundTransfer
    <3>2. SoundTransfer \subseteq Transfer
      BY DEF SoundTransfer
    <3> QED
      BY <1>1, <3>1, <3>2, ElementsSound DEF RetrievalTypeOK
  <2>2. retrieval \in [Retrieval -> SoundInfo]
    BY <1>1 DEF RetrievalTypeOK, Bookkeeping, SoundInfo
  <2>3. property \in {None, INCR} \cup Chunk
    BY <1>1 DEF RetrievalTypeOK, Bookkeeping, Chunk
  <2> QED
    BY <1>1, <2>1, <2>2, <2>3
    DEF RetrievalTypeOK, Bookkeeping, Typed, OwnerTyped, RequestorTyped, ServerTyped,
        HistoryTyped, Counted, Loop
<1>2. ASSUME Typed PROVE RetrievalTypeOK /\ Bookkeeping
  <2>1. /\ transfer \in Seq(Transfer)
        /\ \A i \in DOMAIN transfer : transfer[i].offset # -1 => transfer[i].incrs >= 0
    <3>1. SoundTransfer \subseteq Transfer
      BY DEF SoundTransfer
    <3>2. transfer \in Seq(Transfer)
      BY <1>2, <3>1, SeqMonotonic DEF Typed, OwnerTyped
    <3>3. \A i \in DOMAIN transfer : transfer[i] \in SoundTransfer
      BY <1>2, LenProperties, ElementOfSeq DEF Typed, OwnerTyped
    <3> QED
      BY <3>2, <3>3 DEF SoundTransfer
  <2>2. /\ retrieval \in [Retrieval -> RetrievalInfo]
        /\ \A r \in Retrieval :
              /\ Len(retrieval[r].value) <= Beyond
              /\ retrieval[r].result = "new" => retrieval[r] = Unused("new")
              /\ retrieval[r].result = "pending" => retrieval[r].idle < Patience
    BY <1>2 DEF Typed, RequestorTyped, SoundInfo
  <2>3. /\ \/ property \in {None, INCR}
           \/ property \in Data /\ Len(property) <= Bytes
        /\ property \notin {None, INCR} => Len(property) <= MaxLength
    BY <1>2 DEF Typed, ServerTyped, Chunk
  <2>4. /\ Len(transfer) + Cardinality(RequestsIn(toOwner)) <= Cardinality(Used)
        /\ Len(transfer) + Cardinality(RequestsIn(toOwner)) <= Cardinality(Retrieval)
    <3>1. Len(transfer) \in Nat
      BY <2>1, LenProperties
    <3>2. Cardinality(RequestsIn(toOwner)) \in Nat
      BY <1>2, RequestsFinite DEF Typed, ServerTyped
    <3> QED
      BY <1>2, <3>1, <3>2, UsedFits DEF Typed, Counted
  <2> QED
    BY <1>2, <2>1, <2>2, <2>3, <2>4
    DEF RetrievalTypeOK, Bookkeeping, Typed, OwnerTyped, RequestorTyped, ServerTyped,
        HistoryTyped, Loop
<1> QED
  BY <1>1, <1>2

\* The counts as numbers.
LEMMA CountsAreNumbers ==
    ASSUME Typed
    PROVE  /\ Len(transfer) \in Nat
           /\ Cardinality(RequestsIn(toOwner)) \in Nat
           /\ Cardinality(Used) \in Nat
           /\ Len(transfer) + Cardinality(RequestsIn(toOwner)) <= Cardinality(Used)
  BY LenProperties, RequestsFinite, UsedFits
  DEF Typed, OwnerTyped, ServerTyped, Counted

-----------------------------------------------------------------------------
\* Each action keeps the types and counts.

LEMMA SoundRecord ==
    ASSUME NEW result \in {"pending", "ok", "error", "returned"},
           NEW idle \in 0 .. Patience, NEW value \in Data, Len(value) <= Beyond,
           result = "pending" => idle < Patience
    PROVE  [result |-> result, idle |-> idle, value |-> value] \in SoundInfo
<1>1. [result |-> result, idle |-> idle, value |-> value] \in RetrievalInfo
  BY DEF RetrievalInfo
<1> QED
  BY <1>1 DEF SoundInfo

\* A change of one entry that keeps the types.
SoundChange(r, result, idle, value) ==
    /\ result \in {"pending", "ok", "error", "returned"}
    /\ idle \in 0 .. Patience
    /\ value \in Data
    /\ Len(value) <= Beyond
    /\ result = "pending" => idle < Patience
    /\ SetInfo(r, result, idle, value)

LEMMA InfoSet ==
    ASSUME retrieval \in [Retrieval -> SoundInfo], NEW r \in Retrieval,
           NEW result, NEW idle, NEW value, SoundChange(r, result, idle, value)
    PROVE  /\ retrieval' \in [Retrieval -> SoundInfo]
           /\ retrieval'[r].result = result
           /\ retrieval'[r].idle = idle
           /\ retrieval'[r].value = value
           /\ \A q \in Retrieval \ {r} : retrieval'[q] = retrieval[q]
           /\ Used' = Used \cup {r}
<1> DEFINE entry == [result |-> result, idle |-> idle, value |-> value]
<1>1. entry \in SoundInfo
  BY SoundRecord DEF SoundChange
<1>2. retrieval' = [retrieval EXCEPT ![r] = entry]
  BY DEF SoundChange, SetInfo
<1>3. /\ entry.result = result /\ entry.idle = idle /\ entry.value = value
      /\ entry.result # "new"
  BY DEF SoundChange
<1> HIDE DEF entry
<1>4. /\ retrieval' \in [Retrieval -> SoundInfo]
      /\ retrieval'[r] = entry
      /\ \A q \in Retrieval \ {r} : retrieval'[q] = retrieval[q]
  BY <1>1, <1>2
<1>5. Used' = Used \cup {r}
  BY <1>3, <1>4 DEF Used
<1> QED
  BY <1>3, <1>4, <1>5

\* What happens to the counts when no transfer begins: a request may be read.
LEMMA CountsKept ==
    ASSUME Typed, Used \subseteq Used', Used' \subseteq Retrieval,
           Len(transfer') \in Nat, Len(transfer') <= Len(transfer),
           Cardinality(RequestsIn(toOwner')) \in Nat,
           Cardinality(RequestsIn(toOwner')) <= Cardinality(RequestsIn(toOwner))
    PROVE  Counted'
<1>1. IsFiniteSet(Used') /\ Cardinality(Used') \in Nat
  BY FS_Subset, FS_CardinalityType
<1>2. Cardinality(Used) <= Cardinality(Used')
  BY <1>1, FS_Subset
<1> QED
  BY <1>1, <1>2, CountsAreNumbers DEF Counted

LEMMA DeleteEffect ==
    ASSUME ServerTyped, DeleteProperty(toOwner)
    PROVE  /\ property' = None
           /\ toOwner' = toOwner \/ toOwner' = Append(toOwner, "delete")
           /\ toOwner' \in Seq({"request", "delete"})
           /\ Cardinality(RequestsIn(toOwner')) = Cardinality(RequestsIn(toOwner))
<1>1. CASE toOwner' = toOwner
  BY <1>1 DEF DeleteProperty, ServerTyped
<1>2. CASE toOwner' = Append(toOwner, "delete")
  <2>1. toOwner' \in Seq({"request", "delete"})
    BY <1>2, AppendProperties DEF ServerTyped
  <2>2. Cardinality(RequestsIn(toOwner')) = Cardinality(RequestsIn(toOwner)) + 0
    BY <1>2, CountAppended DEF ServerTyped
  <2>3. Cardinality(RequestsIn(toOwner)) \in Nat
    BY RequestsFinite DEF ServerTyped
  <2> QED
    BY <1>2, <2>1, <2>2, <2>3 DEF DeleteProperty
<1> QED
  BY <1>1, <1>2 DEF DeleteProperty

LEMMA TailTyped ==
    ASSUME NEW S, NEW queue \in Seq(S), queue # <<>>
    PROVE  /\ Tail(queue) \in Seq(S)
           /\ Head(queue) \in S
           /\ Cardinality(RequestsIn(Tail(queue))) \in Nat
           /\ Cardinality(RequestsIn(Tail(queue))) <= Cardinality(RequestsIn(queue))
<1>1. Tail(queue) \in Seq(S) /\ Head(queue) \in S
  BY HeadTailProperties
<1>2. Cardinality(RequestsIn(Tail(queue))) \in Nat
  BY <1>1, RequestsFinite
<1> QED
  BY <1>1, <1>2, CountTail

LEMMA GetSelectionTyped ==
    ASSUME Typed, NEW r \in Retrieval, GetSelection(r)
    PROVE  Typed'
<1>1. <<>> \in Data /\ Len(<<>>) = 0
  BY EmptySeq DEF Data
<1>2. SoundChange(r, "pending", 0, <<>>)
  BY <1>1 DEF SoundChange, GetSelection, Beyond
<1>5. /\ retrieval' \in [Retrieval -> SoundInfo]
      /\ Used' = Used \cup {r}
  BY <1>2, InfoSet DEF Typed, RequestorTyped
<1>6. frames' \in Seq(Loop)
  <2>1. [get |-> r, incr |-> FALSE] \in Loop
    BY DEF Loop
  <2> QED
    BY <2>1, AppendProperties DEF GetSelection, Typed, RequestorTyped
<1>7. /\ toOwner' \in Seq({"request", "delete"})
      /\ Cardinality(RequestsIn(toOwner')) = Cardinality(RequestsIn(toOwner)) + 1
  BY AppendProperties, CountAppended DEF GetSelection, Typed, ServerTyped
<1>8. spoiled' \subseteq Retrieval
  <2>1. \A i \in DOMAIN frames : frames[i] \in Loop
    BY LenProperties, ElementOfSeq DEF Typed, RequestorTyped
  <2>2. Going \subseteq Retrieval
    BY <2>1 DEF Going, Loop
  <2> QED
    BY <2>2 DEF GetSelection, Typed, HistoryTyped
<1>9. Counted'
  <2>1. r \notin Used
    BY DEF Used, GetSelection
  <2>2. Cardinality(Used') = Cardinality(Used) + 1
    BY <1>5, <2>1, UsedFits, FS_AddElement
  <2>3. transfer' = transfer
    BY DEF GetSelection, ownerVars
  <2> QED
    BY <1>7, <2>2, <2>3, CountsAreNumbers DEF Counted
<1> QED
  BY <1>5, <1>6, <1>7, <1>8, <1>9
  DEF Typed, OwnerTyped, RequestorTyped, ServerTyped, HistoryTyped, GetSelection, ownerVars

\* The requestor's other steps change a retrieval that is in use.
LEMMA RequestorTypes ==
    ASSUME Typed, UNCHANGED <<ownerVars, listening, tricks>>,
           spoiled' \subseteq spoiled,
           \/ retrieval' = retrieval
           \/ \E r \in Retrieval : \E result, idle, value :
                SoundChange(r, result, idle, value),
           frames' \in Seq(Loop),
           property' \in {None, property},
           toOwner' = toOwner \/ DeleteProperty(toOwner),
           toRequestor' \in Seq({"new", "notify", "refuse"})
    PROVE  Typed'
<1>1. /\ toOwner' \in Seq({"request", "delete"})
      /\ Cardinality(RequestsIn(toOwner')) = Cardinality(RequestsIn(toOwner))
  BY DeleteEffect DEF Typed, ServerTyped
<1>2. /\ retrieval' \in [Retrieval -> SoundInfo]
      /\ Used \subseteq Used' /\ Used' \subseteq Retrieval
  <2>1. CASE retrieval' = retrieval
    BY <2>1 DEF Typed, RequestorTyped, Used
  <2>2. ASSUME NEW r \in Retrieval, NEW result, NEW idle, NEW value,
               SoundChange(r, result, idle, value)
        PROVE  /\ retrieval' \in [Retrieval -> SoundInfo]
               /\ Used \subseteq Used' /\ Used' \subseteq Retrieval
    <3>1. /\ retrieval' \in [Retrieval -> SoundInfo]
          /\ Used' = Used \cup {r}
      BY <2>2, InfoSet DEF Typed, RequestorTyped
    <3> QED
      BY <3>1 DEF Used
  <2> QED
    BY <2>1, <2>2
<1>3. transfer' = transfer
  BY DEF ownerVars
<1>4. Counted'
  BY <1>1, <1>2, <1>3, CountsKept, CountsAreNumbers
<1>5. property' \in {None, INCR} \cup Chunk
  BY DEF Typed, ServerTyped
<1> QED
  BY <1>1, <1>2, <1>4, <1>5
  DEF Typed, OwnerTyped, RequestorTyped, ServerTyped, HistoryTyped, ownerVars

LEMMA FrameTypes ==
    ASSUME Typed, NEW i \in DOMAIN frames
    PROVE  /\ frames[i] \in Loop
           /\ frames[i].get \in Retrieval /\ frames[i].incr \in BOOLEAN
           /\ frames[i].get \in Going
           /\ retrieval[frames[i].get] \in SoundInfo
<1>1. frames[i] \in Loop
  BY LenProperties, ElementOfSeq DEF Typed, RequestorTyped
<1> QED
  BY <1>1 DEF Loop, Typed, RequestorTyped, Going

LEMMA InfoFields ==
    ASSUME Typed, NEW r \in Retrieval
    PROVE  LET x == retrieval[r]
           IN  /\ x.result \in {"new", "pending", "ok", "error", "returned"}
               /\ x.idle \in 0 .. Patience
               /\ x.value \in Data
               /\ Len(x.value) \in Nat
               /\ Len(x.value) <= Beyond
               /\ x.result = "pending" => x.idle < Patience
<1>1. retrieval[r] \in SoundInfo
  BY DEF Typed, RequestorTyped
<1>2. retrieval[r].value \in Data
  BY <1>1 DEF SoundInfo, RetrievalInfo
<1> QED
  BY <1>1, <1>2, LenProperties DEF SoundInfo, RetrievalInfo, Data

LEMMA SelTimeoutTyped ==
    ASSUME Typed, NEW r \in Retrieval, SelTimeout(r)
    PROVE  Typed'
<1> DEFINE x == retrieval[r]
           result == IF x.idle + 1 >= Patience THEN "error" ELSE x.result
<1>1. x.result = "pending"
  BY DEF SelTimeout, Waiting
<1>2. SoundChange(r, result, x.idle + 1, x.value)
  BY <1>1, InfoFields DEF SoundChange, SelTimeout
<1> HIDE DEF x, result
<1>3. \E q \in Retrieval : \E res, idle, value : SoundChange(q, res, idle, value)
  BY <1>2
<1> QED
  BY <1>3, RequestorTypes DEF SelTimeout, Typed, RequestorTyped, ServerTyped

LEMMA PropertyData ==
    ASSUME Typed, property \notin {None, INCR}
    PROVE  /\ property \in Data
           /\ Len(property) \in Nat
           /\ Len(property) <= MaxLength
           /\ Len(property) <= Bytes
<1>1. property \in Chunk
  BY DEF Typed, ServerTyped
<1> QED
  BY <1>1, LenProperties DEF Chunk, Data

LEMMA SelectionNotifyTyped ==
    ASSUME Typed, SelectionNotify
    PROVE  Typed'
<1>1. /\ toRequestor' \in Seq({"new", "notify", "refuse"})
      /\ UNCHANGED <<ownerVars, listening, tricks, spoiled>>
  BY HeadTailProperties DEF SelectionNotify, Typed, ServerTyped
<1>2. CASE UNCHANGED <<retrieval, frames, property, toOwner>>
  BY <1>1, <1>2, RequestorTypes DEF Typed, RequestorTyped
<1>3. ASSUME NEW i \in DOMAIN frames, IsNewest(i),
             \/ Answer(i)
             \/ /\ SetInfo(frames[i].get, "error", retrieval[frames[i].get].idle,
                           retrieval[frames[i].get].value)
                /\ UNCHANGED <<frames, property, toOwner>>
      PROVE  Typed'
  <2> DEFINE r == frames[i].get
             x == retrieval[r]
  <2>1. r \in Retrieval /\ x.result = "pending"
    BY <1>3, FrameTypes DEF IsNewest, Waiting
  <2>2. /\ x.idle \in 0 .. Patience /\ x.idle < Patience
        /\ x.value \in Data /\ Len(x.value) <= Beyond
    BY <2>1, InfoFields
  <2>3. CASE /\ SetInfo(r, "error", x.idle, x.value)
             /\ UNCHANGED <<frames, property, toOwner>>
    <3>1. SoundChange(r, "error", x.idle, x.value)
      BY <2>2, <2>3 DEF SoundChange
    <3> HIDE DEF r, x
    <3>2. \E q \in Retrieval : \E res, idle, value : SoundChange(q, res, idle, value)
      BY <2>1, <3>1
    <3> QED
      BY <1>1, <2>3, <3>2, RequestorTypes DEF Typed, RequestorTyped
  <2>4. CASE UNCHANGED <<retrieval, frames, property, toOwner>>
    BY <1>2, <2>4
  <2>5. CASE /\ SetInfo(r, "pending", 0, x.value)
             /\ frames' = Append(frames, [get |-> r, incr |-> TRUE])
             /\ DeleteProperty(toOwner)
    <3>1. SoundChange(r, "pending", 0, x.value)
      BY <2>2, <2>5 DEF SoundChange
    <3>2. [get |-> r, incr |-> TRUE] \in Loop
      BY <2>1 DEF Loop
    <3> HIDE DEF r, x
    <3>3. \E q \in Retrieval : \E res, idle, value : SoundChange(q, res, idle, value)
      BY <2>1, <3>1
    <3>4. frames' \in Seq(Loop)
      BY <2>5, <3>2, AppendProperties DEF Typed, RequestorTyped
    <3>5. property' = None
      BY <2>5 DEF DeleteProperty
    <3> QED
      BY <1>1, <2>5, <3>3, <3>4, <3>5, RequestorTypes
  <2>6. CASE /\ property \notin {None, INCR}
             /\ SetInfo(r, "ok", x.idle, Append1(x.value, property))
             /\ UNCHANGED <<frames, property, toOwner>>
    <3> DEFINE v == Append1(x.value, property)
    <3>0. v \in Data /\ Len(v) <= Beyond
      <4> HIDE DEF x
      <4> QED
        BY <2>2, <2>6, PropertyData, AppendedData
    <3> HIDE DEF v
    <3>1. SoundChange(r, "ok", x.idle, v)
      BY <2>2, <2>6, <3>0 DEF SoundChange, v
    <3> HIDE DEF r, x
    <3>2. \E q \in Retrieval : \E res, idle, value : SoundChange(q, res, idle, value)
      BY <2>1, <3>1
    <3> QED
      BY <1>1, <2>6, <3>2, RequestorTypes DEF Typed, RequestorTyped
  <2> QED
    BY <1>3, <2>3, <2>4, <2>5, <2>6 DEF Answer
<1> QED
  BY <1>2, <1>3 DEF SelectionNotify

LEMMA NewValueTyped ==
    ASSUME Typed, NewValue
    PROVE  Typed'
<1>1. /\ toRequestor' \in Seq({"new", "notify", "refuse"})
      /\ UNCHANGED <<ownerVars, frames, listening, tricks, spoiled>>
  BY HeadTailProperties DEF NewValue, Event, Typed, ServerTyped
<1>2. CASE UNCHANGED <<retrieval, property, toOwner>>
  BY <1>1, <1>2, RequestorTypes DEF Typed, RequestorTyped
<1>3. ASSUME NEW i \in DOMAIN frames, IsOldest(i), property # None,
             Receive(frames[i].get)
      PROVE  Typed'
  <2> DEFINE r == frames[i].get
             x == retrieval[r]
             result == IF property = <<>> THEN "ok" ELSE "pending"
             chunk == IF property = INCR THEN Garbage ELSE property
             value == Append1(x.value, chunk)
  <2>1. r \in Retrieval
    BY FrameTypes
  <2>2. x.value \in Data
    BY <2>1, InfoFields
  <2>3. chunk \in Data
    BY <1>3, PropertyData, GarbageIsData
  <2>4. value \in Data /\ Len(value) <= Beyond
    <3> HIDE DEF chunk, x
    <3> QED
      BY <2>2, <2>3, AppendedData
  <2>5. SetInfo(r, result, 0, value) /\ DeleteProperty(toOwner)
    BY <1>3 DEF Receive
  <2>6. SoundChange(r, result, 0, value)
    <3> HIDE DEF value
    <3> QED
      BY <2>4, <2>5 DEF SoundChange
  <2> HIDE DEF r, x, result, chunk, value
  <2>7. \E q \in Retrieval : \E res, idle, v : SoundChange(q, res, idle, v)
    BY <2>1, <2>6
  <2>8. property' = None
    BY <2>5 DEF DeleteProperty
  <2> QED
    BY <1>1, <2>5, <2>7, <2>8, RequestorTypes DEF Typed, RequestorTyped
<1> QED
  BY <1>2, <1>3 DEF NewValue

LEMMA LeaveTyped ==
    ASSUME Typed, Leave
    PROVE  Typed'
<1>1. frames # <<>>
  BY DEF Leave, RequestorRuns
<1>2. Top(frames) \in Loop /\ frames' \in Seq(Loop)
  BY <1>1, StackTop DEF Leave, Typed, RequestorTyped
<1>3. /\ UNCHANGED <<ownerVars, property, listening, toOwner, toRequestor, tricks>>
      /\ spoiled' \subseteq spoiled
  BY DEF Leave
<1>4. CASE Top(frames).incr
  <2>1. retrieval' = retrieval
    BY <1>4 DEF Leave
  <2> QED
    BY <1>2, <1>3, <2>1, RequestorTypes DEF Typed, ServerTyped
<1>5. CASE ~ Top(frames).incr
  <2>1. SetInfo(Top(frames).get, "returned", 0, <<>>)
    BY <1>5 DEF Leave
  <2>2. <<>> \in Data /\ Len(<<>>) = 0
    BY EmptySeq DEF Data
  <2>3. SoundChange(Top(frames).get, "returned", 0, <<>>)
    BY <2>1, <2>2 DEF SoundChange, Beyond
  <2>4. Top(frames).get \in Retrieval
    BY <1>2 DEF Loop
  <2>5. \E q \in Retrieval : \E res, idle, v : SoundChange(q, res, idle, v)
    BY <2>3, <2>4
  <2> QED
    BY <1>2, <1>3, <2>5, RequestorTypes DEF Typed, ServerTyped
<1> QED
  BY <1>4, <1>5

\* The owner's steps.
LEMMA OwnerTypes ==
    ASSUME Typed, UNCHANGED requestorVars, OwnerTyped', HistoryTyped',
           property' \in {property, INCR} \cup Chunk,
           toRequestor' \in Seq({"new", "notify", "refuse"}),
           toOwner' \in Seq({"request", "delete"}),
           Len(transfer') + Cardinality(RequestsIn(toOwner'))
             <= Len(transfer) + Cardinality(RequestsIn(toOwner))
    PROVE  Typed'
<1>1. Used' = Used
  BY DEF requestorVars, Used
<1>2. Counted'
  <2>1. Len(transfer') \in Nat /\ Cardinality(RequestsIn(toOwner')) \in Nat
    BY LenProperties, RequestsFinite DEF OwnerTyped
  <2> QED
    BY <1>1, <2>1, CountsAreNumbers DEF Counted
<1> QED
  BY <1>2 DEF Typed, RequestorTyped, ServerTyped, requestorVars

LEMMA HistoryKept ==
    ASSUME Typed, Trick \/ Honest
    PROVE  HistoryTyped'
<1>1. Going \subseteq Retrieval
  BY FrameTypes DEF Going
<1> QED
  BY <1>1 DEF Trick, Honest, Typed, HistoryTyped

LEMMA TransferSound ==
    ASSUME NEW offset \in -2 .. Beyond, NEW incrs \in -1 .. 1, NEW idle \in 0 .. Patience,
           offset # -1 => incrs >= 0
    PROVE  [offset |-> offset, incrs |-> incrs, idle |-> idle] \in SoundTransfer
  BY DEF SoundTransfer, Transfer

LEMMA TransferFields ==
    ASSUME OwnerTyped, NEW i \in DOMAIN transfer
    PROVE  /\ transfer[i] \in SoundTransfer
           /\ transfer[i].offset \in -2 .. Beyond
           /\ transfer[i].incrs \in -1 .. 1
           /\ transfer[i].idle \in 0 .. Patience
           /\ transfer[i].offset # -1 => transfer[i].incrs \in 0 .. 1
<1>1. transfer[i] \in SoundTransfer
  BY LenProperties, ElementOfSeq DEF OwnerTyped
<1> QED
  BY <1>1 DEF SoundTransfer, Transfer

LEMMA TransferSet ==
    ASSUME OwnerTyped, NEW i \in DOMAIN transfer,
           NEW offset \in -2 .. Beyond, NEW incrs \in -1 .. 1, NEW idle \in 0 .. Patience,
           offset # -1 => incrs >= 0,
           SetTransfer(i, offset, incrs, idle)
    PROVE  /\ transfer' \in Seq(SoundTransfer)
           /\ Len(transfer') = Len(transfer)
           /\ DOMAIN transfer' = DOMAIN transfer
           /\ DOMAIN transfer = 1 .. Len(transfer)
           /\ Len(transfer) \in Nat
           /\ transfer'[i].offset = offset
           /\ transfer'[i].incrs = incrs
           /\ transfer'[i].idle = idle
           /\ \A j \in DOMAIN transfer \ {i} : transfer'[j] = transfer[j]
<1> DEFINE t == [offset |-> offset, incrs |-> incrs, idle |-> idle]
<1>1. t \in SoundTransfer
  BY TransferSound
<1>2. transfer' = [transfer EXCEPT ![i] = t]
  BY DEF SetTransfer
<1>3. t.offset = offset /\ t.incrs = incrs /\ t.idle = idle
  OBVIOUS
<1> HIDE DEF t
<1>4. /\ transfer \in Seq(SoundTransfer)
      /\ DOMAIN transfer = 1 .. Len(transfer) /\ Len(transfer) \in Nat
  BY LenProperties DEF OwnerTyped
<1>5. /\ transfer' \in Seq(SoundTransfer)
      /\ Len(transfer') = Len(transfer)
      /\ \A j \in 1 .. Len(transfer) : transfer'[j] = IF j = i THEN t ELSE transfer[j]
  BY <1>1, <1>2, <1>4, ExceptSeq
<1>6. DOMAIN transfer' = 1 .. Len(transfer)
  BY <1>5, LenProperties
<1> QED
  BY <1>3, <1>4, <1>5, <1>6

LEMMA IncrTimeoutTyped ==
    ASSUME Typed, NEW i \in DOMAIN transfer, IncrTimeout(i)
    PROVE  Typed'
<1> DEFINE t == transfer[i]
           incrs == IF t.idle + 1 >= Patience THEN 0 ELSE t.incrs
<1>1. OwnerTyped
  BY DEF Typed
<1>2. /\ t.offset \in -2 .. Beyond /\ t.incrs \in -1 .. 1 /\ t.idle \in 0 .. Patience
      /\ t.offset # -1 => t.incrs \in 0 .. 1
      /\ t.idle < Patience
  BY <1>1, TransferFields DEF IncrTimeout
<1>3. SetTransfer(i, t.offset, incrs, t.idle + 1)
  BY DEF IncrTimeout
<1>4. incrs \in -1 .. 1 /\ t.idle + 1 \in 0 .. Patience /\ (t.offset # -1 => incrs >= 0)
  BY <1>2
<1> HIDE DEF t, incrs
<1>5. transfer' \in Seq(SoundTransfer) /\ Len(transfer') = Len(transfer)
  BY <1>1, <1>2, <1>3, <1>4, TransferSet
<1>6. /\ UNCHANGED <<requestorVars, text, handler, next, property, listening, toOwner,
                     toRequestor, tricks>>
      /\ spoiled' \in {spoiled, spoiled \cup Going}
  BY DEF IncrTimeout
<1>7. HistoryTyped'
  <2>1. Going \subseteq Retrieval
    BY FrameTypes DEF Going
  <2> QED
    BY <1>6, <2>1 DEF Typed, HistoryTyped
<1>8. OwnerTyped'
  BY <1>1, <1>5, <1>6 DEF OwnerTyped
<1>9. Len(transfer') + Cardinality(RequestsIn(toOwner'))
        <= Len(transfer) + Cardinality(RequestsIn(toOwner))
  BY <1>5, <1>6, CountsAreNumbers
<1> QED
  BY <1>6, <1>7, <1>8, <1>9, OwnerTypes DEF Typed, ServerTyped

LEMMA ConvertReturnsTyped ==
    ASSUME Typed, ConvertReturns
    PROVE  Typed'
<1>1. transfer # <<>> /\ transfer' = Pop(transfer)
  BY DEF ConvertReturns, OwnerRuns
<1>2. /\ transfer' \in Seq(SoundTransfer)
      /\ Len(transfer') = Len(transfer) - 1
  BY <1>1, StackTop DEF Typed, OwnerTyped
<1>3. /\ UNCHANGED <<requestorVars, text, handler, next, property, toOwner, toRequestor,
                     tricks, spoiled>>
      /\ listening' \in BOOLEAN
  BY DEF ConvertReturns
<1>4. OwnerTyped' /\ HistoryTyped'
  BY <1>2, <1>3 DEF Typed, OwnerTyped, HistoryTyped
<1>5. Len(transfer') + Cardinality(RequestsIn(toOwner'))
        <= Len(transfer) + Cardinality(RequestsIn(toOwner))
  BY <1>2, <1>3, CountsAreNumbers
<1> QED
  BY <1>3, <1>4, <1>5, OwnerTypes DEF Typed, ServerTyped

\* What the owner's program does.
LEMMA ProgramTyped ==
    ASSUME Typed, ChangeText \/ GetLocally \/ SelectionHandle
    PROVE  Typed'
<1>1. Trick
  BY DEF ChangeText, GetLocally, SelectionHandle
<1>2. HistoryTyped'
  BY <1>1, HistoryKept
<1>3. UNCHANGED <<requestorVars, transfer, property, listening, toOwner, toRequestor>>
  BY DEF ChangeText, GetLocally, SelectionHandle
<1>4. text' \in Texts
  <2>1. CASE ChangeText
    <3>1. PICK n \in Lengths : text' = Text(tricks + 1, n)
      BY <2>1 DEF ChangeText
    <3>2. tricks + 1 \in 0 .. MaxTricks
      BY <1>1 DEF Trick, Typed, HistoryTyped
    <3> QED
      BY <3>1, <3>2 DEF Texts
  <2>2. CASE GetLocally \/ SelectionHandle
    BY <2>2 DEF GetLocally, SelectionHandle, Typed, OwnerTyped
  <2> QED
    BY <2>1, <2>2
<1>5. handler' \in BOOLEAN /\ next' \in 0 .. Beyond - 1
  <2>1. Len(text) \in 0 .. MaxLength
    BY TextFacts DEF Typed, OwnerTyped
  <2> QED
    BY <2>1 DEF ChangeText, GetLocally, SelectionHandle, Typed, OwnerTyped, Beyond
<1>6. OwnerTyped'
  BY <1>3, <1>4, <1>5 DEF Typed, OwnerTyped
<1>7. Len(transfer') + Cardinality(RequestsIn(toOwner'))
        <= Len(transfer) + Cardinality(RequestsIn(toOwner))
  BY <1>3, CountsAreNumbers
<1> QED
  BY <1>2, <1>3, <1>6, <1>7, OwnerTypes DEF Typed, ServerTyped

LEMMA EmptyChunk == <<>> \in Chunk
<1>1. <<>> \in Data /\ Len(<<>>) = 0
  BY EmptySeq DEF Data
<1> QED
  BY <1>1 DEF Chunk

LEMMA PortionChunk ==
    ASSUME OwnerTyped, NEW offset \in Int
    PROVE  /\ Portion(offset) \in Chunk
           /\ Start(offset) \in 0 .. Beyond - 1
           /\ Start(offset) + Len(Portion(offset)) \in 0 .. Beyond - 1
           /\ Len(Portion(offset)) \in 0 .. Beyond - 1
<1>1. text \in Texts /\ next \in 0 .. Beyond - 1
  BY DEF OwnerTyped
<1>2. Beyond - 1 = MaxLength
  BY DEF Beyond
<1> DEFINE l == Len(Portion(offset))
           s == Start(offset)
<1>3. /\ Portion(offset) \in Data
      /\ s \in 0 .. MaxLength
      /\ l \in 0 .. Bytes
      /\ l <= MaxLength
      /\ s + l \in 0 .. MaxLength
  BY <1>1, PortionFacts
<1>4. Portion(offset) \in Chunk
  BY <1>3 DEF Chunk
<1> HIDE DEF l, s
<1>5. /\ s \in 0 .. Beyond - 1
      /\ s + l \in 0 .. Beyond - 1
      /\ l \in 0 .. Beyond - 1
  BY <1>2, <1>3
<1> QED
  BY <1>4, <1>5 DEF l, s

LEMMA EventsAdded ==
    ASSUME Typed,
           \/ toRequestor' = toRequestor \o <<"new">>
           \/ toRequestor' = toRequestor \o <<"new", "notify">>
           \/ toRequestor' = Append(toRequestor, "refuse")
    PROVE  toRequestor' \in Seq({"new", "notify", "refuse"})
<1>1. <<"new">> \in Seq({"new", "notify", "refuse"})
  OBVIOUS
<1>2. <<"new", "notify">> \in Seq({"new", "notify", "refuse"})
  OBVIOUS
<1>3. toRequestor \in Seq({"new", "notify", "refuse"})
  BY DEF Typed, ServerTyped
<1>4. CASE toRequestor' = toRequestor \o <<"new">>
  BY <1>1, <1>3, <1>4, ConcatProperties
<1>5. CASE toRequestor' = toRequestor \o <<"new", "notify">>
  BY <1>2, <1>3, <1>5, ConcatProperties
<1>6. CASE toRequestor' = Append(toRequestor, "refuse")
  BY <1>3, <1>6, AppendProperties
<1> QED
  BY <1>4, <1>5, <1>6

LEMMA ServedIdle == \A i : Served(i) \in 0 .. Patience
  BY BytesAssumption DEF Served

LEMMA SendChunkTyped ==
    ASSUME OwnerTyped, NEW i \in DOMAIN transfer, transfer[i].offset # -1,
           NEW chunk \in Chunk, SendChunk(i, chunk)
    PROVE  /\ transfer' \in Seq(SoundTransfer)
           /\ Len(transfer') = Len(transfer)
           /\ DOMAIN transfer' = DOMAIN transfer
           /\ transfer'[i].offset = IF Len(chunk) = Bytes
                                      THEN AtMost(transfer[i].offset + Bytes, Beyond)
                                    ELSE IF chunk = <<>> THEN -1 ELSE -2
           /\ transfer'[i].incrs = IF chunk = <<>> THEN transfer[i].incrs - 1
                                   ELSE transfer[i].incrs
           /\ \A j \in DOMAIN transfer \ {i} : transfer'[j] = transfer[j]
<1> DEFINE t == transfer[i]
           offset == IF Len(chunk) = Bytes THEN AtMost(t.offset + Bytes, Beyond)
                     ELSE IF chunk = <<>> THEN -1 ELSE -2
           incrs == IF chunk = <<>> THEN t.incrs - 1 ELSE t.incrs
<1>1. t.offset \in -2 .. Beyond /\ t.incrs \in 0 .. 1
  BY TransferFields
<1>2. Beyond \in Nat
  BY DEF Beyond
<1>3. offset \in -2 .. Beyond
  BY <1>1, <1>2 DEF AtMost
<1>4. chunk = <<>> => Len(chunk) = 0
  BY EmptySeq
<1>5. incrs \in -1 .. 1 /\ (offset # -1 => incrs >= 0)
  BY <1>1, <1>4
<1> DEFINE idle == Served(i)
<1>6. SetTransfer(i, offset, incrs, idle) /\ idle \in 0 .. Patience
  BY ServedIdle DEF SendChunk
<1> HIDE DEF offset, incrs, t, idle
<1>7. /\ transfer' \in Seq(SoundTransfer)
      /\ Len(transfer') = Len(transfer)
      /\ DOMAIN transfer' = DOMAIN transfer
      /\ transfer'[i].offset = offset
      /\ transfer'[i].incrs = incrs
      /\ \A j \in DOMAIN transfer \ {i} : transfer'[j] = transfer[j]
  BY <1>3, <1>5, <1>6, TransferSet
<1> QED
  BY <1>7 DEF offset, incrs, t

LEMMA ServeTyped ==
    ASSUME Typed, NEW i \in DOMAIN transfer, IsServed(i), Serve(i)
    PROVE  /\ transfer' \in Seq(SoundTransfer)
           /\ Len(transfer') = Len(transfer)
           /\ handler' \in BOOLEAN
           /\ next' \in 0 .. Beyond - 1
           /\ property' \in {property} \cup Chunk
           /\ toRequestor' \in Seq({"new", "notify", "refuse"})
           /\ Trick \/ Honest
<1> DEFINE offset == transfer[i].offset
<1>1. OwnerTyped /\ offset # -1
  BY DEF Typed, IsServed
<1>2. /\ offset \in -2 .. Beyond
      /\ transfer[i].incrs \in 0 .. 1
  BY <1>1, TransferFields
<1>3. handler \in BOOLEAN /\ next \in 0 .. Beyond - 1 /\ 0 \in 0 .. Beyond - 1
  BY <1>1 DEF OwnerTyped, Beyond
<1>4. ASSUME NEW chunk \in Chunk, SendChunk(i, chunk)
      PROVE  /\ transfer' \in Seq(SoundTransfer)
             /\ Len(transfer') = Len(transfer)
             /\ property' \in {property} \cup Chunk
             /\ toRequestor' \in Seq({"new", "notify", "refuse"})
  <2>1. property' = chunk /\ toRequestor' = toRequestor \o <<"new">>
    BY <1>4 DEF SendChunk, ChangeProperty
  <2> QED
    BY <1>1, <1>4, <2>1, SendChunkTyped, EventsAdded
<1> DEFINE idle == Served(i)
<1>11. idle \in 0 .. Patience
  BY ServedIdle
<1> HIDE DEF idle
<1>5. ASSUME NEW n \in {-1, offset}, NEW incrs \in -1 .. 1, n # -1 => incrs >= 0,
             SetTransfer(i, n, incrs, idle)
      PROVE  transfer' \in Seq(SoundTransfer) /\ Len(transfer') = Len(transfer)
  <2> HIDE DEF offset
  <2>1. n \in -2 .. Beyond
    BY <1>2, <1>5 DEF Beyond
  <2> QED
    BY <1>1, <1>5, <1>11, <2>1, TransferSet
<1>6. CASE /\ SetTransfer(i, -1, transfer[i].incrs - 1, idle)
           /\ Honest /\ UNCHANGED <<handler, next, property, toRequestor>>
  <2>1. transfer[i].incrs - 1 \in -1 .. 1
    BY <1>2
  <2>2. transfer' \in Seq(SoundTransfer) /\ Len(transfer') = Len(transfer)
    BY <1>5, <1>6, <2>1
  <2> QED
    BY <1>3, <1>6, <2>2 DEF Typed, ServerTyped
<1>7. CASE /\ SendChunk(i, <<>>)
           /\ Honest /\ UNCHANGED <<handler, next>>
  BY <1>3, <1>4, <1>7, EmptyChunk
<1>8. CASE /\ SendChunk(i, Portion(offset))
           /\ next' = Start(offset) + Len(Portion(offset))
           /\ Honest /\ UNCHANGED handler
  <2>1. offset \in Int
    BY <1>2 DEF Beyond
  <2>2. /\ Portion(offset) \in Chunk
        /\ Start(offset) + Len(Portion(offset)) \in 0 .. Beyond - 1
    BY <1>1, <2>1, PortionChunk
  <2> QED
    BY <1>3, <1>4, <1>8, <2>2
<1>9. CASE /\ SendChunk(i, <<>>)
           /\ next' = Start(offset)
           /\ Trick /\ UNCHANGED handler
  <2>1. offset \in Int
    BY <1>2 DEF Beyond
  <2>2. Start(offset) \in 0 .. Beyond - 1
    BY <1>1, <2>1, PortionChunk
  <2> QED
    BY <1>3, <1>4, <1>9, <2>2, EmptyChunk
<1>10. CASE /\ SetTransfer(i, offset, transfer[i].incrs, idle)
            /\ handler' = FALSE /\ next' = 0
            /\ Trick /\ UNCHANGED <<property, toRequestor>>
  <2>1. transfer[i].incrs \in -1 .. 1 /\ transfer[i].incrs >= 0
    BY <1>2
  <2>2. transfer' \in Seq(SoundTransfer) /\ Len(transfer') = Len(transfer)
    BY <1>5, <1>10, <2>1
  <2> QED
    BY <1>3, <1>10, <2>2 DEF Typed, ServerTyped
<1> QED
  BY <1>6, <1>7, <1>8, <1>9, <1>10 DEF Serve, idle

LEMMA PropertyDeletedTyped ==
    ASSUME Typed, PropertyDeleted
    PROVE  Typed'
<1>1. /\ toOwner # <<>>
      /\ toOwner' = Tail(toOwner)
      /\ UNCHANGED <<requestorVars, text, listening>>
  BY DEF PropertyDeleted, Event
<1>2. /\ transfer' \in Seq(SoundTransfer)
      /\ Len(transfer') = Len(transfer)
      /\ handler' \in BOOLEAN
      /\ next' \in 0 .. Beyond - 1
      /\ property' \in {property} \cup Chunk
      /\ toRequestor' \in Seq({"new", "notify", "refuse"})
      /\ Trick \/ Honest
  <2>1. CASE Honest /\ UNCHANGED <<handler, next, transfer, property, toRequestor>>
    BY <2>1 DEF Typed, OwnerTyped, ServerTyped
  <2>2. ASSUME NEW i \in DOMAIN transfer, IsServed(i), Serve(i)
        PROVE  /\ transfer' \in Seq(SoundTransfer)
               /\ Len(transfer') = Len(transfer)
               /\ handler' \in BOOLEAN
               /\ next' \in 0 .. Beyond - 1
               /\ property' \in {property} \cup Chunk
               /\ toRequestor' \in Seq({"new", "notify", "refuse"})
               /\ Trick \/ Honest
    BY <2>2, ServeTyped
  <2> QED
    BY <2>1, <2>2 DEF PropertyDeleted
<1>3. HistoryTyped'
  BY <1>2, HistoryKept
<1>4. OwnerTyped'
  BY <1>1, <1>2 DEF Typed, OwnerTyped
<1>5. /\ toOwner' \in Seq({"request", "delete"})
      /\ Cardinality(RequestsIn(toOwner')) \in Nat
      /\ Cardinality(RequestsIn(toOwner')) <= Cardinality(RequestsIn(toOwner))
  BY <1>1, TailTyped DEF Typed, ServerTyped
<1>6. Len(transfer') + Cardinality(RequestsIn(toOwner'))
        <= Len(transfer) + Cardinality(RequestsIn(toOwner))
  BY <1>2, <1>5, CountsAreNumbers
<1> QED
  BY <1>1, <1>2, <1>3, <1>4, <1>5, <1>6, OwnerTypes

LEMMA AwaitEffect ==
    ASSUME OwnerTyped, NEW offset \in {-1, 0}, Await(offset)
    PROVE  /\ transfer' \in Seq(SoundTransfer)
           /\ Len(transfer) \in Nat
           /\ Len(transfer') = Len(transfer) + 1
           /\ DOMAIN transfer = 1 .. Len(transfer)
           /\ DOMAIN transfer' = 1 .. Len(transfer) + 1
           /\ listening' = TRUE
           /\ transfer'[Len(transfer) + 1].offset = offset
           /\ transfer'[Len(transfer) + 1].incrs = 1
           /\ \A j \in 1 .. Len(transfer) : transfer'[j] = transfer[j]
<1> DEFINE t == [offset |-> offset, incrs |-> 1, idle |-> 0]
<1>1. t \in SoundTransfer
  <2>1. offset \in -2 .. Beyond /\ 1 \in -1 .. 1 /\ 0 \in 0 .. Patience
    BY DEF Beyond
  <2> QED
    BY <2>1, TransferSound
<1>2. t.offset = offset /\ t.incrs = 1
  OBVIOUS
<1>3. transfer' = Append(transfer, t) /\ listening' = TRUE
  BY DEF Await
<1> HIDE DEF t
<1>4. /\ transfer' \in Seq(SoundTransfer)
      /\ Len(transfer) \in Nat
      /\ Len(transfer') = Len(transfer) + 1
      /\ \A i \in 1 .. Len(transfer) + 1 :
           transfer'[i] = IF i = Len(transfer) + 1 THEN t ELSE transfer[i]
  BY <1>1, <1>3, AppendElements DEF OwnerTyped
<1>5. DOMAIN transfer' = 1 .. Len(transfer) + 1 /\ DOMAIN transfer = 1 .. Len(transfer)
  BY <1>4, LenProperties DEF OwnerTyped
<1> QED
  BY <1>2, <1>3, <1>4, <1>5

LEMMA ConvertTyped ==
    ASSUME Typed, ConvertShort \/ ConvertNothing \/ ConvertIncr \/ ConvertVanishes,
           text' = text
    PROVE  /\ OwnerTyped'
           /\ Len(transfer') \in {Len(transfer), Len(transfer) + 1}
           /\ property' \in {property, INCR} \cup Chunk
           /\ toRequestor' \in Seq({"new", "notify", "refuse"})
           /\ Trick \/ Honest
<1>1. OwnerTyped
  BY DEF Typed
<1>2. /\ Portion(0) \in Chunk
      /\ Len(Portion(0)) \in 0 .. Beyond - 1
  BY <1>1, PortionChunk
<1>3. /\ Len(text) \in 0 .. Beyond - 1
      /\ 0 \in 0 .. Beyond - 1
      /\ Beyond \in Nat
  BY <1>1, TextFacts DEF OwnerTyped, Beyond
<1>4. CASE ConvertShort
  <2>1. /\ UNCHANGED <<handler, transfer, listening>>
        /\ next' = Len(Portion(0))
        /\ property' = Portion(0)
        /\ toRequestor' = toRequestor \o <<"new", "notify">>
        /\ Honest
    BY <1>4 DEF ConvertShort, ChangeProperty
  <2> QED
    BY <1>1, <1>2, <2>1, EventsAdded DEF OwnerTyped
<1>5. CASE ConvertNothing
  <2>1. /\ UNCHANGED <<transfer, listening>>
        /\ next' \in {next, 0}
        /\ handler' \in {handler, TRUE, FALSE}
        /\ property' = property
        /\ toRequestor' = Append(toRequestor, "refuse")
        /\ Trick \/ Honest
    BY <1>5 DEF ConvertNothing, Refuse
  <2> QED
    BY <1>1, <1>3, <2>1, EventsAdded DEF OwnerTyped
<1>6. CASE ConvertIncr
  <2>0. Bytes \in Nat /\ Bytes <= Len(text)
    <3>1. Start(0) = 0
      BY DEF Start
    <3>2. Start(0) + Len(Portion(0)) = AtMost(Start(0) + Bytes, Len(text))
      BY <1>1, <1>3, <3>1, PortionFacts DEF OwnerTyped
    <3>3. Bytes \in Nat /\ Len(text) \in Nat
      BY <1>3, BytesAssumption
    <3>4. Len(Portion(0)) = Bytes /\ Len(Portion(0)) \in Nat
      BY <1>2, <1>6 DEF ConvertIncr
    <3>5. Bytes = AtMost(Bytes, Len(text))
      BY <3>1, <3>2, <3>3, <3>4
    <3> QED
      BY <3>3, <3>5 DEF AtMost
  <2>4. AtMost(2 * Bytes, Len(text)) \in 0 .. Len(text) /\ Bytes \in 0 .. Len(text)
    BY <1>3, <2>0 DEF AtMost
  <2>1. /\ handler' = handler
        /\ next' \in 0 .. Len(text)
        /\ property' = INCR
        /\ toRequestor' = toRequestor \o <<"new", "notify">>
        /\ Await(0)
        /\ Trick \/ Honest
    BY <1>6, <2>4 DEF ConvertIncr, ChangeProperty
  <2>2. /\ transfer' \in Seq(SoundTransfer)
        /\ Len(transfer') = Len(transfer) + 1
        /\ listening' = TRUE
    BY <1>1, <2>1, AwaitEffect
  <2>3. next' \in 0 .. Beyond - 1
    BY <1>3, <2>1
  <2> QED
    BY <1>1, <2>1, <2>2, <2>3, EventsAdded DEF OwnerTyped
<1>7. CASE ConvertVanishes
  <2>1. /\ handler' = FALSE
        /\ next' = 0
        /\ property' = property
        /\ toRequestor' = Append(toRequestor, "refuse")
        /\ Await(-1)
        /\ Trick
    BY <1>7 DEF ConvertVanishes, Refuse
  <2>2. /\ transfer' \in Seq(SoundTransfer)
        /\ Len(transfer') = Len(transfer) + 1
        /\ listening' = TRUE
    BY <1>1, <2>1, AwaitEffect
  <2> QED
    BY <1>1, <1>3, <2>1, <2>2, EventsAdded DEF OwnerTyped
<1> QED
  BY <1>4, <1>5, <1>6, <1>7

LEMMA ConvertSelectionTyped ==
    ASSUME Typed, ConvertSelection
    PROVE  Typed'
<1>1. /\ toOwner # <<>> /\ Head(toOwner) = "request"
      /\ toOwner' = Tail(toOwner)
      /\ UNCHANGED <<requestorVars, text>>
      /\ ConvertShort \/ ConvertNothing \/ ConvertIncr \/ ConvertVanishes
  BY DEF ConvertSelection, Event
<1>2. /\ OwnerTyped'
      /\ Len(transfer') \in {Len(transfer), Len(transfer) + 1}
      /\ property' \in {property, INCR} \cup Chunk
      /\ toRequestor' \in Seq({"new", "notify", "refuse"})
      /\ Trick \/ Honest
  BY <1>1, ConvertTyped
<1>3. HistoryTyped'
  BY <1>2, HistoryKept
<1>4. toOwner \in Seq({"request", "delete"})
  BY DEF Typed, ServerTyped
<1>5. /\ toOwner' \in Seq({"request", "delete"})
      /\ Cardinality(RequestsIn(toOwner')) \in Nat
  BY <1>1, <1>4, TailTyped
<1>6. Cardinality(RequestsIn(toOwner)) = Cardinality(RequestsIn(toOwner')) + 1
  BY <1>1, <1>4, CountTail
<1>7. Len(transfer') + Cardinality(RequestsIn(toOwner'))
        <= Len(transfer) + Cardinality(RequestsIn(toOwner))
  BY <1>2, <1>5, <1>6, CountsAreNumbers
<1> QED
  BY <1>1, <1>2, <1>3, <1>5, <1>7, OwnerTypes

LEMMA InitTyped == RetrievalInit => Typed
<1> SUFFICES ASSUME RetrievalInit PROVE Typed
  OBVIOUS
<1>1. <<>> \in Data /\ Len(<<>>) = 0
  BY EmptySeq DEF Data
<1>2. text \in Texts
  BY DEF RetrievalInit, Texts
<1>3. OwnerTyped
  <2>1. <<>> \in Seq(SoundTransfer)
    BY EmptySeq
  <2>2. 0 \in 0 .. Beyond - 1
    BY DEF Beyond
  <2> QED
    BY <1>2, <2>1, <2>2 DEF RetrievalInit, OwnerTyped
<1>4. Unused("new") \in SoundInfo
  BY <1>1 DEF Unused, SoundInfo, RetrievalInfo, Beyond
<1>5. RequestorTyped
  BY <1>4, EmptySeq DEF RetrievalInit, RequestorTyped
<1>6. ServerTyped /\ HistoryTyped
  BY EmptySeq DEF RetrievalInit, ServerTyped, HistoryTyped
<1>7. Counted
  <2>1. Len(transfer) = 0 /\ RequestsIn(toOwner) = {}
    BY <1>1, EmptyRequests DEF RetrievalInit
  <2> QED
    BY <2>1, FS_EmptySet, UsedFits DEF Counted
<1> QED
  BY <1>3, <1>5, <1>6, <1>7 DEF Typed

LEMMA StepTyped == Typed /\ [RetrievalNext]_retrievalVars => Typed'
<1> SUFFICES ASSUME Typed, [RetrievalNext]_retrievalVars PROVE Typed'
  OBVIOUS
<1>1. CASE UNCHANGED retrievalVars
  <2>1. /\ UNCHANGED <<text, handler, next, transfer, listening>>
        /\ UNCHANGED <<retrieval, frames, property, toOwner, toRequestor>>
        /\ UNCHANGED <<tricks, spoiled>>
    BY <1>1 DEF retrievalVars, ownerVars, requestorVars
  <2>2. OwnerTyped' /\ RequestorTyped' /\ ServerTyped' /\ HistoryTyped'
    BY <2>1 DEF Typed, OwnerTyped, RequestorTyped, ServerTyped, HistoryTyped
  <2>3. Counted'
    BY <2>1 DEF Typed, Counted, Used
  <2> QED
    BY <2>2, <2>3 DEF Typed
<1>2. CASE Requestor \/ \E r \in Retrieval : GetSelection(r)
  BY <1>2, GetSelectionTyped, SelectionNotifyTyped, NewValueTyped, LeaveTyped,
     SelTimeoutTyped DEF Requestor
<1>3. CASE Owner
  BY <1>3, ConvertSelectionTyped, PropertyDeletedTyped, ConvertReturnsTyped,
     IncrTimeoutTyped DEF Owner
<1>4. CASE ChangeText \/ GetLocally \/ SelectionHandle
  BY <1>4, ProgramTyped
<1> QED
  BY <1>1, <1>2, <1>3, <1>4 DEF RetrievalNext

-----------------------------------------------------------------------------
\* The loops nest.

LEMMA SetInfoFields ==
    ASSUME Typed, NEW r \in Retrieval, NEW result, NEW idle, NEW value,
           SetInfo(r, result, idle, value)
    PROVE  /\ retrieval'[r].result = result
           /\ retrieval'[r].idle = idle
           /\ retrieval'[r].value = value
           /\ \A q \in Retrieval \ {r} : retrieval'[q] = retrieval[q]
<1> DEFINE entry == [result |-> result, idle |-> idle, value |-> value]
<1>1. retrieval' = [retrieval EXCEPT ![r] = entry]
  BY DEF SetInfo
<1>2. entry.result = result /\ entry.idle = idle /\ entry.value = value
  OBVIOUS
<1>3. retrieval \in [Retrieval -> SoundInfo]
  BY DEF Typed, RequestorTyped
<1> HIDE DEF entry
<1>4. retrieval'[r] = entry /\ \A q \in Retrieval \ {r} : retrieval'[q] = retrieval[q]
  BY <1>1, <1>3
<1> QED
  BY <1>2, <1>4

LEMMA FramesDomain ==
    ASSUME Typed
    PROVE  Len(frames) \in Nat /\ DOMAIN frames = 1 .. Len(frames)
  BY LenProperties DEF Typed, RequestorTyped

LEMMA FramePushed ==
    ASSUME Typed, NEW f \in Loop, frames' = Append(frames, f)
    PROVE  /\ DOMAIN frames' = 1 .. Len(frames) + 1
           /\ frames'[Len(frames) + 1] = f
           /\ \A i \in 1 .. Len(frames) : frames'[i] = frames[i]
<1>1. /\ Len(frames) \in Nat
      /\ Append(frames, f) \in Seq(Loop)
      /\ Len(Append(frames, f)) = Len(frames) + 1
      /\ \A i \in 1 .. Len(frames) + 1 :
           Append(frames, f)[i] = IF i = Len(frames) + 1 THEN f ELSE frames[i]
  BY AppendElements DEF Typed, RequestorTyped
<1>2. DOMAIN Append(frames, f) = 1 .. Len(frames) + 1
  BY <1>1, LenProperties
<1> QED
  BY <1>1, <1>2

\* A step that changes the entry of one retrieval that has loops, and enters at most
\* a loop inside.
LEMMA LoopsKept ==
    ASSUME Typed, LoopsNest, NEW r \in Retrieval,
           NEW result \in {"pending", "ok", "error"}, NEW idle, NEW value,
           SetInfo(r, result, idle, value),
           \/ frames' = frames
           \/ r \in Going /\ frames' = Append(frames, [get |-> r, incr |-> TRUE])
    PROVE  LoopsNest'
<1>1. \A q \in Retrieval :
         retrieval[q].result \in {"pending", "ok", "error"}
         => retrieval'[q].result \in {"pending", "ok", "error"}
  BY SetInfoFields
<1>2. \A i \in DOMAIN frames : frames[i].get \in Retrieval
  BY FrameTypes
<1>3. CASE frames' = frames
  BY <1>1, <1>2, <1>3 DEF LoopsNest
<1>4. CASE r \in Going /\ frames' = Append(frames, [get |-> r, incr |-> TRUE])
  <2> DEFINE f == [get |-> r, incr |-> TRUE]
             n == Len(frames)
  <2>1. f \in Loop /\ f.get = r /\ f.incr = TRUE
    BY DEF Loop
  <2> HIDE DEF f
  <2>2. /\ DOMAIN frames' = 1 .. n + 1
        /\ frames'[n + 1] = f
        /\ \A i \in 1 .. n : frames'[i] = frames[i]
        /\ n \in Nat /\ DOMAIN frames = 1 .. n
    BY <1>4, <2>1, FramePushed, FramesDomain DEF f
  <2> HIDE DEF n
  <2>3. retrieval'[r].result \in {"pending", "ok", "error"}
    BY SetInfoFields
  <2>4. ASSUME NEW i \in 1 .. n
        PROVE  /\ retrieval'[frames'[i].get].result \in {"pending", "ok", "error"}
               /\ ~ frames'[i].incr =>
                     \A j \in 1 .. i - 1 : frames'[j].get # frames'[i].get
    <3>1. frames'[i] = frames[i] /\ \A j \in 1 .. i - 1 : frames'[j] = frames[j]
      BY <2>2
    <3>2. /\ retrieval[frames[i].get].result \in {"pending", "ok", "error"}
          /\ ~ frames[i].incr => \A j \in 1 .. i - 1 : frames[j].get # frames[i].get
      BY <2>2 DEF LoopsNest
    <3> QED
      BY <1>1, <1>2, <2>2, <3>1, <3>2
  <2> QED
    BY <2>1, <2>2, <2>3, <2>4 DEF LoopsNest
<1> QED
  BY <1>3, <1>4

LEMMA GetSelectionLoops ==
    ASSUME Typed, LoopsNest, NEW r \in Retrieval, GetSelection(r)
    PROVE  LoopsNest'
<1> DEFINE f == [get |-> r, incr |-> FALSE]
           n == Len(frames)
<1>1. f \in Loop /\ f.get = r
  BY DEF Loop
<1>2. frames' = Append(frames, f) /\ SetInfo(r, "pending", 0, <<>>)
      /\ retrieval[r].result = "new"
  BY DEF GetSelection
<1> HIDE DEF f
<1>3. /\ DOMAIN frames' = 1 .. n + 1
      /\ frames'[n + 1] = f
      /\ \A i \in 1 .. n : frames'[i] = frames[i]
      /\ n \in Nat /\ DOMAIN frames = 1 .. n
  BY <1>1, <1>2, FramePushed, FramesDomain
<1> HIDE DEF n
<1>4. /\ retrieval'[r].result = "pending"
      /\ \A q \in Retrieval \ {r} : retrieval'[q] = retrieval[q]
  BY <1>2, SetInfoFields
<1>5. \A i \in 1 .. n : frames[i].get \in Retrieval \ {r}
  BY <1>2, <1>3, FrameTypes DEF LoopsNest
<1>6. ASSUME NEW i \in 1 .. n
      PROVE  /\ retrieval'[frames'[i].get].result \in {"pending", "ok", "error"}
             /\ ~ frames'[i].incr =>
                   \A j \in 1 .. i - 1 : frames'[j].get # frames'[i].get
  <2>1. frames'[i] = frames[i] /\ \A j \in 1 .. i - 1 : frames'[j] = frames[j]
    BY <1>3
  <2>2. /\ retrieval[frames[i].get].result \in {"pending", "ok", "error"}
        /\ ~ frames[i].incr => \A j \in 1 .. i - 1 : frames[j].get # frames[i].get
    BY <1>3 DEF LoopsNest
  <2> QED
    BY <1>4, <1>5, <2>1, <2>2
<1>7. \A j \in 1 .. n : frames'[j].get # f.get
  BY <1>1, <1>3, <1>5
<1>8. retrieval'[f.get].result \in {"pending", "ok", "error"}
  BY <1>1, <1>4
<1> QED
  BY <1>3, <1>6, <1>7, <1>8 DEF LoopsNest

\* The loop that ends, with its retrieval when it is the outer one.
LEMMA FrameLeft ==
    ASSUME Typed, LoopsNest, Leave
    PROVE  /\ Len(frames) \in Nat \ {0}
           /\ Top(frames) = frames[Len(frames)]
           /\ Top(frames).get \in Retrieval
           /\ DOMAIN frames = 1 .. Len(frames)
           /\ DOMAIN frames' = 1 .. Len(frames) - 1
           /\ \A i \in 1 .. Len(frames) - 1 : frames'[i] = frames[i]
           /\ ~ Top(frames).incr =>
                /\ \A i \in 1 .. Len(frames) - 1 : frames[i].get # Top(frames).get
                /\ Top(frames).get \notin Going'
<1>1. frames # <<>> /\ frames' = Pop(frames)
  BY DEF Leave, RequestorRuns
<1>2. /\ Len(frames) \in Nat \ {0}
      /\ Top(frames) = frames[Len(frames)]
      /\ Len(frames) \in DOMAIN frames
      /\ DOMAIN frames = 1 .. Len(frames)
      /\ DOMAIN Pop(frames) = 1 .. Len(frames) - 1
      /\ \A i \in 1 .. Len(frames) - 1 : Pop(frames)[i] = frames[i]
  BY <1>1, StackTop DEF Typed, RequestorTyped
<1>3. Top(frames).get \in Retrieval
  BY <1>2, FrameTypes
<1>4. ~ Top(frames).incr => \A i \in 1 .. Len(frames) - 1 : frames[i].get # Top(frames).get
  BY <1>2 DEF LoopsNest
<1> QED
  BY <1>1, <1>2, <1>3, <1>4 DEF Going

LEMMA LeaveLoops ==
    ASSUME Typed, LoopsNest, Leave
    PROVE  LoopsNest'
<1> DEFINE n == Len(frames) - 1
           r == Top(frames).get
<1>1. /\ n \in Nat
      /\ DOMAIN frames = 1 .. n + 1
      /\ DOMAIN frames' = 1 .. n
      /\ \A i \in 1 .. n : frames'[i] = frames[i]
      /\ r \in Retrieval
      /\ ~ Top(frames).incr => \A i \in 1 .. n : frames[i].get # r
  BY FrameLeft
<1>2. /\ Top(frames).incr => retrieval' = retrieval
      /\ ~ Top(frames).incr => SetInfo(r, "returned", 0, <<>>)
  BY DEF Leave
<1>3. \A i \in 1 .. n : frames[i].get \in Retrieval
  BY <1>1, FrameTypes
<1> HIDE DEF n, r
<1>4. \A i \in 1 .. n : retrieval'[frames[i].get] = retrieval[frames[i].get]
  BY <1>1, <1>2, <1>3, SetInfoFields
<1>5. ASSUME NEW i \in 1 .. n
      PROVE  /\ retrieval'[frames'[i].get].result \in {"pending", "ok", "error"}
             /\ ~ frames'[i].incr =>
                   \A j \in 1 .. i - 1 : frames'[j].get # frames'[i].get
  <2>1. frames'[i] = frames[i] /\ \A j \in 1 .. i - 1 : frames'[j] = frames[j]
    BY <1>1
  <2>2. /\ retrieval[frames[i].get].result \in {"pending", "ok", "error"}
        /\ ~ frames[i].incr => \A j \in 1 .. i - 1 : frames[j].get # frames[i].get
    BY <1>1 DEF LoopsNest
  <2> QED
    BY <1>4, <2>1, <2>2
<1> QED
  BY <1>1, <1>5 DEF LoopsNest

LEMMA SameLoops ==
    ASSUME LoopsNest, UNCHANGED <<retrieval, frames>>
    PROVE  LoopsNest'
  BY DEF LoopsNest

LEMMA SelectionNotifyLoops ==
    ASSUME Typed, LoopsNest, SelectionNotify
    PROVE  LoopsNest'
<1>1. CASE UNCHANGED <<retrieval, frames>>
  BY <1>1, SameLoops
<1>2. ASSUME NEW i \in DOMAIN frames,
             \/ Answer(i)
             \/ /\ SetInfo(frames[i].get, "error", retrieval[frames[i].get].idle,
                           retrieval[frames[i].get].value)
                /\ UNCHANGED frames
      PROVE  LoopsNest'
  <2> DEFINE r == frames[i].get
  <2>1. r \in Retrieval /\ r \in Going
    BY FrameTypes
  <2>2. CASE SetInfo(r, "error", retrieval[r].idle, retrieval[r].value) /\ frames' = frames
    BY <2>1, <2>2, LoopsKept
  <2>3. CASE UNCHANGED <<retrieval, frames>>
    BY <2>3, SameLoops
  <2>4. CASE /\ SetInfo(r, "pending", 0, retrieval[r].value)
             /\ frames' = Append(frames, [get |-> r, incr |-> TRUE])
    BY <2>1, <2>4, LoopsKept
  <2>5. CASE /\ SetInfo(r, "ok", retrieval[r].idle, Append1(retrieval[r].value, property))
             /\ frames' = frames
    BY <2>1, <2>5, LoopsKept
  <2> QED
    BY <1>2, <2>2, <2>3, <2>4, <2>5 DEF Answer
<1> QED
  BY <1>1, <1>2 DEF SelectionNotify

LEMMA NewValueLoops ==
    ASSUME Typed, LoopsNest, NewValue
    PROVE  LoopsNest'
<1>1. CASE UNCHANGED retrieval
  BY <1>1, SameLoops DEF NewValue
<1>2. ASSUME NEW i \in DOMAIN frames, Receive(frames[i].get)
      PROVE  LoopsNest'
  <2> DEFINE r == frames[i].get
             result == IF property = <<>> THEN "ok" ELSE "pending"
             value == Append1(retrieval[r].value,
                              IF property = INCR THEN Garbage ELSE property)
  <2>1. SetInfo(r, result, 0, value)
    BY <1>2 DEF Receive
  <2>2. r \in Retrieval /\ result \in {"pending", "ok", "error"}
    BY FrameTypes
  <2>3. frames' = frames
    BY DEF NewValue
  <2> HIDE DEF r, result, value
  <2> QED
    BY <2>1, <2>2, <2>3, LoopsKept
<1> QED
  BY <1>1, <1>2 DEF NewValue

LEMMA SelTimeoutLoops ==
    ASSUME Typed, LoopsNest, NEW r \in Retrieval, SelTimeout(r)
    PROVE  LoopsNest'
<1> DEFINE result == IF retrieval[r].idle + 1 >= Patience THEN "error"
                     ELSE retrieval[r].result
           idle == retrieval[r].idle + 1
           value == retrieval[r].value
<1>1. SetInfo(r, result, idle, value) /\ frames' = frames
  BY DEF SelTimeout
<1>2. result \in {"pending", "ok", "error"}
  BY DEF SelTimeout, Waiting
<1> HIDE DEF result, idle, value
<1> QED
  BY <1>1, <1>2, LoopsKept

LEMMA StepLoops ==
    ASSUME Typed, LoopsNest, [RetrievalNext]_retrievalVars
    PROVE  LoopsNest'
<1>1. CASE UNCHANGED requestorVars
  BY <1>1, SameLoops DEF requestorVars
<1>2. CASE Requestor \/ \E r \in Retrieval : GetSelection(r)
  BY <1>2, GetSelectionLoops, SelectionNotifyLoops, NewValueLoops, LeaveLoops,
     SelTimeoutLoops DEF Requestor
<1>3. CASE Owner \/ ChangeText \/ GetLocally \/ SelectionHandle
  BY <1>1, <1>3 DEF Owner, ConvertSelection, PropertyDeleted, ConvertReturns, IncrTimeout,
     ChangeText, GetLocally, SelectionHandle
<1>4. CASE UNCHANGED retrievalVars
  BY <1>1, <1>4 DEF retrievalVars
<1> QED
  BY <1>2, <1>3, <1>4 DEF RetrievalNext

-----------------------------------------------------------------------------
\* A retrieval that nothing interferes with goes from point to point.

\* It alone has loops, and waits in the innermost.
LEMMA AloneRuns ==
    ASSUME Typed, NEW r \in Going, Going = {r}
    PROVE  /\ r \in Retrieval
           /\ frames # <<>>
           /\ Top(frames).get = r
           /\ RequestorRuns <=> retrieval[r].result = "pending"
           /\ \A i \in DOMAIN frames : frames[i].get = r
<1>1. PICK i \in DOMAIN frames : r = frames[i].get
  BY DEF Going
<1>2. frames # <<>>
  BY <1>1, FramesDomain, EmptySeq
<1>3. Len(frames) \in DOMAIN frames /\ Top(frames) = frames[Len(frames)]
  BY <1>2, StackTop DEF Typed, RequestorTyped
<1>4. \A j \in DOMAIN frames : frames[j].get = r
  BY FrameTypes
<1> QED
  BY <1>1, <1>2, <1>3, <1>4, FrameTypes DEF RequestorRuns

\* What is interfered with owes nothing.
LEMMA TrickSpoils ==
    ASSUME Typed, Trick, UNCHANGED frames
    PROVE  Undisturbed'
  BY DEF Trick, Undisturbed, Going

LEMMA FinishedKept ==
    ASSUME NEW r, Finished(r), retrieval'[r] = retrieval[r], UNCHANGED <<text, handler>>
    PROVE  Finished(r)'
  BY DEF Finished, Beginning

\* The owner's transfers with the same offsets as before.
LEMMA OffsetsKept ==
    ASSUME OwnerTyped, OwnerTyped', Len(transfer') = Len(transfer),
           \A i \in DOMAIN transfer :
              /\ transfer'[i].offset = transfer[i].offset
              /\ transfer'[i].incrs = transfer[i].incrs
    PROVE  /\ NoneServed => NoneServed'
           /\ LastServed => LastServed' /\ Top(transfer') = transfer'[Len(transfer)]
                            /\ Top(transfer').offset = Top(transfer).offset
<1>1. /\ Len(transfer) \in Nat
      /\ DOMAIN transfer = 1 .. Len(transfer)
      /\ DOMAIN transfer' = 1 .. Len(transfer)
  BY LenProperties DEF OwnerTyped
<1>2. transfer # <<>> => Len(transfer) \in DOMAIN transfer
  BY <1>1, EmptySeq DEF OwnerTyped
<1>3. transfer # <<>> => transfer' # <<>>
  BY <1>1, <1>2
<1> QED
  BY <1>1, <1>2, <1>3 DEF NoneServed, LastServed, Top

\* A step that changes none of what a point speaks of.
LEMMA ProceedsKept ==
    ASSUME NEW r, Proceeds(r), retrieval'[r].value = retrieval[r].value,
           UNCHANGED <<frames, text, handler, next, property, toOwner, toRequestor>>,
           NoneServed => NoneServed',
           LastServed => LastServed' /\ Top(transfer').offset = Top(transfer).offset
    PROVE  Proceeds(r)'
<1>1. CASE Asked(r)
  <2>1. Asked(r)'
    BY <1>1 DEF Asked, OneLoop
  <2> QED
    BY <2>1 DEF Proceeds
<1>2. CASE Answered(r)
  <2>1. Answered(r)'
    BY <1>2 DEF Answered, OneLoop
  <2> QED
    BY <2>1 DEF Proceeds
<1>3. CASE Refused(r)
  <2>1. Refused(r)'
    BY <1>3 DEF Refused, OneLoop
  <2> QED
    BY <2>1 DEF Proceeds
<1>4. CASE Announced(r)
  <2>1. Announced(r)'
    BY <1>4 DEF Announced, OneLoop
  <2> QED
    BY <2>1 DEF Proceeds
<1>5. CASE OwnersTurn(r)
  <2>1. OwnersTurn(r)'
    BY <1>5 DEF OwnersTurn, TwoLoops, Beginning
  <2> QED
    BY <2>1 DEF Proceeds
<1>6. CASE RequestorsTurn(r)
  <2>1. RequestorsTurn(r)'
    BY <1>6 DEF RequestorsTurn, TwoLoops, Beginning
  <2> QED
    BY <2>1 DEF Proceeds
<1> QED
  BY <1>1, <1>2, <1>3, <1>4, <1>5, <1>6 DEF Proceeds

LEMMA PlaceKept ==
    ASSUME NEW r, InOrder(r),
           UNCHANGED <<retrieval, frames, text, handler, next, property, toOwner,
                       toRequestor>>,
           NoneServed => NoneServed',
           LastServed => LastServed' /\ Top(transfer').offset = Top(transfer).offset
    PROVE  InOrder(r)'
  BY FinishedKept, ProceedsKept DEF InOrder

\* It is enough to look at one retrieval where none gets its first loop or loses it.
LEMMA OneByOne ==
    ASSUME Undisturbed, Going' = Going, spoiled' = spoiled,
           \A r \in Going \ spoiled : Going = {r} /\ InOrder(r) => InOrder(r)'
    PROVE  Undisturbed'
  BY DEF Undisturbed

LEMMA SameGoing ==
    ASSUME UNCHANGED frames
    PROVE  Going' = Going
  BY DEF Going

LEMMA IncrTimeoutOrder ==
    ASSUME Typed, Typed', Undisturbed, NEW i \in DOMAIN transfer, IncrTimeout(i)
    PROVE  Undisturbed'
<1> DEFINE t == transfer[i]
           incrs == IF t.idle + 1 >= Patience THEN 0 ELSE t.incrs
<1>1. CASE t.idle + 1 >= Patience
  BY <1>1 DEF IncrTimeout, requestorVars, Undisturbed, Going
<1>2. CASE ~ t.idle + 1 >= Patience
  <2>1. /\ OwnerTyped /\ OwnerTyped'
        /\ t.offset \in -2 .. Beyond /\ t.incrs \in -1 .. 1
        /\ t.idle + 1 \in 0 .. Patience
        /\ t.offset # -1 => t.incrs >= 0
    BY TransferFields DEF Typed, IncrTimeout
  <2>2. SetTransfer(i, t.offset, t.incrs, t.idle + 1)
    BY <1>2 DEF IncrTimeout
  <2> HIDE DEF t
  <2>3. /\ Len(transfer') = Len(transfer)
        /\ transfer'[i].offset = t.offset
        /\ transfer'[i].incrs = t.incrs
        /\ \A j \in DOMAIN transfer \ {i} : transfer'[j] = transfer[j]
    BY <2>1, <2>2, TransferSet
  <2>4. \A j \in DOMAIN transfer :
          /\ transfer'[j].offset = transfer[j].offset
          /\ transfer'[j].incrs = transfer[j].incrs
    BY <2>3 DEF t
  <2>5. /\ NoneServed => NoneServed'
        /\ LastServed => LastServed' /\ Top(transfer').offset = Top(transfer).offset
    BY <2>1, <2>3, <2>4, OffsetsKept
  <2>6. UNCHANGED <<retrieval, frames, text, handler, next, property, toOwner,
                    toRequestor, spoiled>>
    BY <1>2 DEF IncrTimeout, requestorVars, t
  <2>7. \A r \in Going \ spoiled : Going = {r} /\ InOrder(r) => InOrder(r)'
    BY <2>5, <2>6, PlaceKept
  <2> QED
    BY <2>6, <2>7, OneByOne, SameGoing
<1> QED
  BY <1>1, <1>2

LEMMA ConvertReturnsOrder ==
    ASSUME Typed, Undisturbed, ConvertReturns
    PROVE  Undisturbed'
<1>1. /\ transfer # <<>> /\ ~ Top(transfer).incrs > 0
      /\ transfer' = Pop(transfer)
      /\ UNCHANGED <<retrieval, frames, text, handler, next, property, toOwner,
                     toRequestor, spoiled>>
  BY DEF ConvertReturns, OwnerRuns, requestorVars
<1>2. ~ LastServed
  BY <1>1 DEF LastServed
<1>3. NoneServed => NoneServed'
  <2>1. /\ DOMAIN transfer' = 1 .. Len(transfer) - 1
        /\ \A i \in 1 .. Len(transfer) - 1 : i \in DOMAIN transfer /\ transfer'[i] = transfer[i]
    BY <1>1, StackTop DEF Typed, OwnerTyped
  <2> QED
    BY <2>1 DEF NoneServed
<1>4. \A r \in Going \ spoiled : Going = {r} /\ InOrder(r) => InOrder(r)'
  BY <1>1, <1>2, <1>3, PlaceKept
<1> QED
  BY <1>1, <1>4, OneByOne, SameGoing

\* The beginnings of the text.
LEMMA BeginningFacts ==
    ASSUME text \in Texts, NEW n \in 0 .. Len(text)
    PROVE  /\ Beginning(n) \in Data
           /\ Len(Beginning(n)) = n
           /\ Beginning(0) = <<>>
           /\ Beginning(Len(text)) = text
<1>1. text \in Seq(Int \X Int) /\ Len(text) \in Nat
  BY TextFacts DEF Data
<1>2. Beginning(n) \in Data /\ Len(Beginning(n)) = n
  BY <1>1, PrefixElements DEF Beginning, Data
<1>3. SubSeq(text, 1, 0) = <<>>
  BY SubSeqEmpty
<1>4. SubSeq(text, 1, Len(text)) = text
  BY <1>1, SubSeqFull
<1> QED
  BY <1>2, <1>3, <1>4 DEF Beginning

\* What HandleTclCommand returns when it goes on where the requestor is: the rest of
\* the text, when that is less than a full chunk.
LEMMA NextPortion ==
    ASSUME OwnerTyped, NEW offset \in 0 .. Len(text), offset > 0 => next = offset
    PROVE  LET l == Len(Portion(offset))
           IN  /\ Start(offset) = offset
               /\ l \in 0 .. Bytes
               /\ offset + l \in 0 .. Len(text)
               /\ Beginning(offset) \o Portion(offset) = Beginning(offset + l)
               /\ l < Bytes => Beginning(offset + l) = text
               /\ l = Bytes => offset + l = AtMost(offset + Bytes, Beyond)
<1> DEFINE l == Len(Portion(offset))
           e == AtMost(offset + Bytes, Len(text))
<1>1. /\ text \in Texts /\ next \in 0 .. Beyond - 1
      /\ text \in Seq(Int \X Int)
      /\ Len(text) \in 1 .. MaxLength
  BY TextFacts DEF OwnerTyped, Data
<1>2. offset \in Nat /\ offset <= Len(text)
  BY <1>1
<1>3. Start(offset) = offset
  BY <1>2 DEF Start
<1>4. e \in offset .. Len(text) /\ e <= offset + Bytes
      /\ (e < offset + Bytes => e = Len(text))
  BY <1>1, <1>2 DEF AtMost
<1>5. Portion(offset) = SubSeq(text, offset + 1, e)
  BY <1>3 DEF Portion
<1>6. offset + l = e /\ l \in 0 .. Bytes
  <2>1. /\ Len(Portion(offset)) \in 0 .. Bytes
        /\ Start(offset) <= Len(text) =>
                Start(offset) + Len(Portion(offset))
                  = AtMost(Start(offset) + Bytes, Len(text))
    BY <1>1, <1>2, PortionFacts
  <2> QED
    BY <1>2, <1>3, <2>1
<1>7. SubSeq(text, 1, offset) \o SubSeq(text, offset + 1, e) = SubSeq(text, 1, e)
  <2> HIDE DEF e
  <2>1. 1 \in 1 .. Len(text) + 1 /\ offset \in 1 - 1 .. Len(text)
    BY <1>1, <1>2
  <2> QED
    BY <1>1, <1>4, <2>1, ConcatAdjacentSubSeq
<1>8. Beginning(offset) \o Portion(offset) = Beginning(e)
  BY <1>5, <1>7 DEF Beginning
<1>9. Beginning(Len(text)) = text
  BY <1>1, BeginningFacts
<1> HIDE DEF l, e
<1>10. l < Bytes => e = Len(text)
  BY <1>2, <1>4, <1>6
<1>11. l = Bytes => offset + l = AtMost(offset + Bytes, Beyond)
  BY <1>1, <1>2, <1>4, <1>6 DEF AtMost, Beyond
<1>12. offset + l \in 0 .. Len(text)
  BY <1>2, <1>4, <1>6
<1> QED
  BY <1>3, <1>6, <1>8, <1>9, <1>10, <1>11, <1>12 DEF l

LEMMA FirstPortion ==
    ASSUME OwnerTyped
    PROVE  Len(Portion(0)) < Bytes => Portion(0) = text
<1>1. text \in Texts /\ Len(text) \in Nat
  BY TextFacts DEF OwnerTyped
<1>2. 0 \in 0 .. Len(text)
  BY <1>1
<1>3. Len(Portion(0)) < Bytes => Beginning(0) \o Portion(0) = text
  BY <1>2, NextPortion
<1>4. Beginning(0) = <<>>
  BY <1>1, <1>2, BeginningFacts
<1>5. Portion(0) \in Seq(Int \X Int)
  BY PortionChunk DEF Chunk, Data
<1> QED
  BY <1>3, <1>4, <1>5, ConcatEmptySeq

\* The innermost transfer when it is the only one that goes on.
LEMMA LastFacts ==
    ASSUME OwnerTyped, LastServed
    PROVE  /\ Len(transfer) \in Nat \ {0}
           /\ Len(transfer) \in DOMAIN transfer
           /\ DOMAIN transfer = 1 .. Len(transfer)
           /\ Top(transfer) = transfer[Len(transfer)]
           /\ \A i \in DOMAIN transfer : IsServed(i) => i = Len(transfer)
           /\ Top(transfer).offset # -1 => IsServed(Len(transfer))
<1>1. /\ Len(transfer) \in Nat \ {0}
      /\ Len(transfer) \in DOMAIN transfer
      /\ DOMAIN transfer = 1 .. Len(transfer)
      /\ Top(transfer) = transfer[Len(transfer)]
  BY StackTop DEF OwnerTyped, LastServed
<1>2. \A i \in DOMAIN transfer : IsServed(i) => i = Len(transfer)
  BY <1>1 DEF IsServed, LastServed
<1>3. Top(transfer).offset # -1 => IsServed(Len(transfer))
  BY <1>1 DEF IsServed
<1> QED
  BY <1>1, <1>2, <1>3

\* When the owner handles an event, a request comes from a retrieval that asked.
LEMMA RequestIsLast ==
    ASSUME Typed, NEW r, Proceeds(r), toOwner # <<>>, Head(toOwner) = "request"
    PROVE  Asked(r) /\ Tail(toOwner) = <<>>
<1>1. toOwner # <<"delete">>
  <2>1. Head(<<"delete">>) = "delete"
    OBVIOUS
  <2> QED
    BY <2>1
<1>2. Asked(r)
  BY <1>1 DEF Proceeds, Answered, Refused, Announced, OwnersTurn, RequestorsTurn
<1>3. toOwner \in Seq({"request", "delete"})
  BY DEF Typed, ServerTyped
<1>4. 1 \in RequestsIn(toOwner)
  BY <1>3, RequestsOfTail
<1>5. Len(toOwner) = 1
  BY <1>2, <1>4 DEF Asked
<1>6. Tail(toOwner) \in Seq({"request", "delete"}) /\ Len(Tail(toOwner)) = 0
  BY <1>3, <1>5, HeadTailProperties
<1> QED
  BY <1>2, <1>6, EmptySeq

LEMMA ConvertSelectionOrder ==
    ASSUME Typed, Undisturbed, ConvertSelection
    PROVE  Undisturbed'
<1>1. /\ toOwner # <<>> /\ Head(toOwner) = "request"
      /\ toOwner' = Tail(toOwner)
      /\ UNCHANGED <<retrieval, frames, text>>
      /\ ConvertShort \/ ConvertNothing \/ ConvertIncr \/ ConvertVanishes
  BY DEF ConvertSelection, Event, requestorVars
<1>2. CASE Trick
  BY <1>1, <1>2, TrickSpoils
<1>3. CASE ~ Trick
  <2>1. /\ \/ ConvertShort
           \/ ConvertNothing /\ ~ handler
           \/ ConvertIncr
        /\ Honest /\ UNCHANGED handler
    BY <1>1, <1>3 DEF ConvertShort, ConvertNothing, ConvertIncr, ConvertVanishes
  <2>2. ASSUME NEW r \in Going \ spoiled, InOrder(r)
        PROVE  InOrder(r)'
    <3>1. CASE Finished(r)
      <4>1. Finished(r)'
        BY <1>1, <2>1, <3>1, FinishedKept
      <4> QED
        BY <4>1 DEF InOrder
    <3>2. CASE retrieval[r].result = "pending" /\ Proceeds(r)
      <4>1. Asked(r) /\ toOwner' = <<>>
        BY <1>1, <3>2, RequestIsLast
      <4>2. /\ OneLoop(r)' /\ retrieval'[r].value = <<>>
            /\ toRequestor = <<>> /\ NoneServed
            /\ retrieval'[r].result = "pending"
        BY <1>1, <3>2, <4>1 DEF Asked, OneLoop
      <4>3. OwnerTyped
        BY DEF Typed
      <4>4. CASE ConvertShort
        <5>1. /\ property' = Portion(0) /\ Len(Portion(0)) < Bytes
              /\ toRequestor' = toRequestor \o <<"new", "notify">>
              /\ UNCHANGED transfer
          BY <4>4 DEF ConvertShort, ChangeProperty
        <5>2. property' = text' /\ toRequestor' = <<"new", "notify">>
          BY <1>1, <4>2, <4>3, <5>1, FirstPortion
        <5>3. NoneServed'
          BY <4>2, <5>1 DEF NoneServed
        <5>4. Answered(r)'
          BY <4>1, <4>2, <5>2, <5>3 DEF Answered
        <5> QED
          BY <4>2, <5>4 DEF InOrder, Proceeds
      <4>5. CASE ConvertNothing /\ ~ handler
        <5>1. toRequestor' = Append(toRequestor, "refuse") /\ UNCHANGED transfer
          BY <4>5 DEF ConvertNothing, Refuse
        <5>2. toRequestor' = <<"refuse">>
          BY <4>2, <5>1
        <5>3. NoneServed'
          BY <4>2, <5>1 DEF NoneServed
        <5>4. Refused(r)'
          BY <2>1, <4>1, <4>2, <4>5, <5>2, <5>3 DEF Refused
        <5> QED
          BY <4>2, <5>4 DEF InOrder, Proceeds
      <4>6. CASE ConvertIncr
        <5>1. /\ handler
              /\ property' = INCR
              /\ toRequestor' = toRequestor \o <<"new", "notify">>
              /\ Await(0)
          BY <4>6 DEF ConvertIncr, ChangeProperty
        <5>2. toRequestor' = <<"new", "notify">>
          BY <4>2, <5>1
        <5>3. /\ Len(transfer) \in Nat
              /\ transfer' \in Seq(SoundTransfer)
              /\ Len(transfer') = Len(transfer) + 1
              /\ DOMAIN transfer = 1 .. Len(transfer)
              /\ transfer'[Len(transfer) + 1].offset = 0
              /\ transfer'[Len(transfer) + 1].incrs = 1
              /\ \A j \in 1 .. Len(transfer) : transfer'[j] = transfer[j]
          BY <4>3, <5>1, AwaitEffect
        <5>4. /\ transfer' # <<>>
              /\ Top(transfer') = transfer'[Len(transfer) + 1]
          BY <5>3, EmptySeq DEF Top
        <5>5. \A j \in 1 .. Len(transfer') - 1 : transfer'[j].offset = -1
          BY <4>2, <5>3 DEF NoneServed
        <5>6. LastServed'
          BY <5>3, <5>4, <5>5 DEF LastServed
        <5>7. Announced(r)'
          BY <2>1, <4>1, <4>2, <5>1, <5>2, <5>3, <5>4, <5>6 DEF Announced
        <5> QED
          BY <4>2, <5>7 DEF InOrder, Proceeds
      <4> QED
        BY <2>1, <4>4, <4>5, <4>6
    <3> QED
      BY <2>2, <3>1, <3>2 DEF InOrder
  <2> QED
    BY <1>1, <2>1, <2>2, OneByOne, SameGoing DEF Honest
<1> QED
  BY <1>2, <1>3

LEMMA DeleteIsFirst ==
    ASSUME Typed, NEW r, Asked(r), Head(toOwner) = "delete"
    PROVE  /\ Tail(toOwner) # <<>>
           /\ RequestsIn(Tail(toOwner)) = {Len(Tail(toOwner))}
<1> DEFINE n == Len(toOwner)
<1>1. toOwner \in Seq({"request", "delete"}) /\ toOwner # <<>> /\ RequestsIn(toOwner) = {n}
  BY DEF Typed, ServerTyped, Asked
<1>2. /\ n \in Nat \ {0}
      /\ DOMAIN toOwner = 1 .. n
      /\ Tail(toOwner) \in Seq({"request", "delete"})
      /\ Len(Tail(toOwner)) = n - 1
  BY <1>1, LenProperties, EmptySeq, HeadTailProperties
<1>3. /\ 1 \notin RequestsIn(toOwner)
      /\ RequestsIn(Tail(toOwner)) = {i \in 1 .. n - 1 : toOwner[i + 1] = "request"}
  BY <1>1, RequestsOfTail
<1>4. \A i \in 1 .. n : toOwner[i] = "request" <=> i = n
  BY <1>1, <1>2 DEF RequestsIn
<1> HIDE DEF n
<1>5. n # 1
  BY <1>1, <1>3
<1>6. n - 1 \in 1 .. n - 1 /\ \A i \in 1 .. n - 1 : i + 1 \in 1 .. n /\ (i + 1 = n <=> i = n - 1)
  BY <1>2, <1>5
<1>7. RequestsIn(Tail(toOwner)) = {n - 1}
  BY <1>3, <1>4, <1>6
<1>8. Tail(toOwner) # <<>>
  <2>1. n \in Nat \ {0} /\ Len(Tail(toOwner)) = n - 1
    BY <1>2
  <2>2. n - 1 # 0
    BY <1>5, <2>1
  <2>3. Len(<<>>) = 0
    BY EmptySeq
  <2> QED
    BY <2>1, <2>2, <2>3
<1> QED
  BY <1>2, <1>7, <1>8

\* Of the points where a retrieval waits, these two allow for such an event.
LEMMA DeleteCases ==
    ASSUME NEW r, Proceeds(r), toOwner # <<>>
    PROVE  Asked(r) \/ (OwnersTurn(r) /\ toOwner = <<"delete">>)
  BY DEF Proceeds, Answered, Refused, Announced, OwnersTurn, RequestorsTurn

\* The owner has sent a chunk that reaches up to where the next one starts, the rest of
\* the text, or the empty one.
LEMMA ChunkSent ==
    ASSUME Typed, NEW r, TwoLoops(r), LastServed, handler, toRequestor = <<>>,
           toOwner' = <<>>, UNCHANGED <<retrieval, frames, text, handler>>,
           retrieval[r].result = "pending", retrieval[r].value \in Data,
           Top(transfer).offset # -1,
           NEW chunk \in Chunk, SendChunk(Len(transfer), chunk),
           \/ /\ Len(chunk) = Bytes
              /\ next' \in 1 .. Len(text)
              /\ next' = AtMost(Top(transfer).offset + Bytes, Beyond)
              /\ retrieval[r].value \o chunk = Beginning(next')
           \/ Len(chunk) # Bytes /\ retrieval[r].value \o chunk = text
    PROVE  InOrder(r)'
<1> DEFINE n == Len(transfer)
<1>1. /\ OwnerTyped
      /\ n \in Nat \ {0}
      /\ n \in DOMAIN transfer
      /\ DOMAIN transfer = 1 .. n
      /\ Top(transfer) = transfer[n]
      /\ transfer[n].incrs = 1
      /\ \A i \in 1 .. n - 1 : transfer[i].offset = -1
  BY LastFacts DEF Typed, LastServed
<1>2. /\ Len(transfer') = n
      /\ DOMAIN transfer' = 1 .. n
      /\ transfer' \in Seq(SoundTransfer)
      /\ transfer'[n].offset = IF Len(chunk) = Bytes
                                 THEN AtMost(transfer[n].offset + Bytes, Beyond)
                               ELSE IF chunk = <<>> THEN -1 ELSE -2
      /\ transfer'[n].incrs = IF chunk = <<>> THEN transfer[n].incrs - 1
                              ELSE transfer[n].incrs
      /\ \A j \in DOMAIN transfer \ {n} : transfer'[j] = transfer[j]
  BY <1>1, SendChunkTyped
<1>3. property' = chunk /\ toRequestor' = <<"new">>
  BY DEF SendChunk, ChangeProperty
<1>4. property' \in Data
  BY <1>3 DEF Chunk
<1>5. TwoLoops(r)'
  BY DEF TwoLoops
<1> HIDE DEF n
<1>6. \A i \in 1 .. n - 1 : transfer'[i].offset = -1
  <2>1. \A i \in 1 .. n - 1 : i \in DOMAIN transfer \ {n}
    BY <1>1
  <2> QED
    BY <1>1, <1>2, <2>1
<1>7. /\ Top(transfer') = transfer'[n]
      /\ transfer' # <<>>
  <2>1. Top(transfer') = transfer'[n]
    BY <1>2 DEF Top
  <2>2. transfer' # <<>>
    BY <1>1, <1>2, EmptySeq
  <2> QED
    BY <2>1, <2>2
<1>8. CASE chunk # <<>>
  <2>1. LastServed'
    BY <1>1, <1>2, <1>6, <1>7, <1>8 DEF LastServed
  <2>2. CASE Len(chunk) = Bytes
    <3>1. /\ next' \in 1 .. Len(text') /\ Top(transfer').offset = next'
          /\ retrieval'[r].value \o property' = Beginning(next)'
      BY <1>1, <1>2, <1>3, <1>7, <2>2 DEF Beginning
    <3>2. RequestorsTurn(r)'
      BY <1>3, <1>4, <1>5, <1>8, <2>1, <3>1 DEF RequestorsTurn
    <3> QED
      BY <3>2 DEF InOrder, Proceeds
  <2>3. CASE Len(chunk) # Bytes
    <3>1. Top(transfer').offset = -2 /\ retrieval'[r].value \o property' = text'
      BY <1>2, <1>3, <1>7, <1>8, <2>3
    <3>2. RequestorsTurn(r)'
      BY <1>3, <1>4, <1>5, <1>8, <2>1, <3>1 DEF RequestorsTurn
    <3> QED
      BY <3>2 DEF InOrder, Proceeds
  <2> QED
    BY <2>2, <2>3
<1>9. CASE chunk = <<>>
  <2>1. Len(chunk) # Bytes
    BY <1>9, EmptySeq
  <2>2. transfer'[n].offset = -1
    BY <1>2, <1>9, <2>1
  <2>3. NoneServed'
    <3>1. \A i \in 1 .. n : i = n \/ i \in 1 .. n - 1
      BY <1>1
    <3> QED
      BY <1>2, <1>6, <2>2, <3>1 DEF NoneServed
  <2>4. retrieval'[r].value = text'
    BY <1>9, <2>1, ConcatEmptySeq DEF Data
  <2>5. RequestorsTurn(r)'
    BY <1>3, <1>4, <1>5, <1>9, <2>3, <2>4 DEF RequestorsTurn
  <2> QED
    BY <2>5 DEF InOrder, Proceeds
<1> QED
  BY <1>8, <1>9

LEMMA PropertyDeletedOrder ==
    ASSUME Typed, Undisturbed, PropertyDeleted
    PROVE  Undisturbed'
<1>1. /\ toOwner # <<>> /\ Head(toOwner) = "delete"
      /\ toOwner' = Tail(toOwner)
      /\ UNCHANGED <<retrieval, frames, text>>
      /\ \/ /\ \A i \in DOMAIN transfer : ~ IsServed(i)
            /\ Honest
            /\ UNCHANGED <<handler, next, transfer, property, toRequestor>>
         \/ \E i \in DOMAIN transfer : IsServed(i) /\ Serve(i)
  BY DEF PropertyDeleted, Event, requestorVars
<1>2. CASE Trick
  BY <1>1, <1>2, TrickSpoils
<1>3. CASE ~ Trick
  <2>1. Honest /\ UNCHANGED handler
    BY <1>1, <1>3 DEF Serve
  <2>2. OwnerTyped
    BY DEF Typed
  <2>3. ASSUME NEW r \in Going \ spoiled, InOrder(r)
        PROVE  InOrder(r)'
    <3>1. CASE Finished(r)
      <4>1. Finished(r)'
        BY <1>1, <2>1, <3>1, FinishedKept
      <4> QED
        BY <4>1 DEF InOrder
    <3>2. CASE retrieval[r].result = "pending" /\ Asked(r)
      <4>1. UNCHANGED <<transfer, toRequestor>>
        BY <1>1, <3>2 DEF Asked, NoneServed, IsServed
      <4>2. toOwner' # <<>> /\ RequestsIn(toOwner)' = {Len(toOwner')}
        <5>1. RequestsIn(toOwner)' = RequestsIn(toOwner')
          BY DEF RequestsIn
        <5> QED
          BY <1>1, <3>2, <5>1, DeleteIsFirst
      <4>3. Asked(r)'
        BY <1>1, <3>2, <4>1, <4>2 DEF Asked, OneLoop, NoneServed
      <4> QED
        BY <1>1, <3>2, <4>3 DEF InOrder, Proceeds
    <3>3. CASE retrieval[r].result = "pending" /\ OwnersTurn(r) /\ toOwner = <<"delete">>
      <4> DEFINE offset == Top(transfer).offset
                 value == retrieval[r].value
      <4>1. /\ TwoLoops(r) /\ LastServed /\ handler /\ toRequestor = <<>>
            /\ \/ /\ offset \in 0 .. Len(text)
                  /\ offset > 0 => next = offset
                  /\ value = Beginning(offset)
               \/ offset = -2 /\ value = text
        BY <3>3 DEF OwnersTurn
      <4>2. offset # -1 /\ toOwner' = <<>>
        <5>1. Len(text) \in Nat
          BY <2>2, TextFacts DEF OwnerTyped
        <5>2. Tail(<<"delete">>) = <<>>
          OBVIOUS
        <5> QED
          BY <1>1, <3>3, <4>1, <5>1, <5>2
      <4>3. /\ Len(transfer) \in DOMAIN transfer
            /\ Top(transfer) = transfer[Len(transfer)]
            /\ Serve(Len(transfer))
        BY <1>1, <2>2, <4>1, <4>2, LastFacts
      <4>4. text \in Data /\ text \in Texts /\ Len(text) \in 1 .. MaxLength
        BY <2>2, TextFacts DEF OwnerTyped
      <4>5. value \in Data
        <5>1. CASE offset \in 0 .. Len(text) /\ value = Beginning(offset)
          BY <4>4, <5>1, BeginningFacts
        <5>2. CASE value = text
          BY <4>4, <5>2
        <5> QED
          BY <4>1, <5>1, <5>2
      <4>6. CASE offset = -2 /\ SendChunk(Len(transfer), <<>>)
        <5>1. value = text
          BY <4>1, <4>4, <4>6
        <5>2. value \o <<>> = text /\ Len(<<>>) # Bytes
          BY <4>5, <5>1, ConcatEmptySeq DEF Data
        <5> QED
          BY <1>1, <2>1, <3>3, <4>1, <4>2, <4>5, <4>6, <5>2, EmptyChunk, ChunkSent
      <4>7. CASE /\ offset # -2
                 /\ SendChunk(Len(transfer), Portion(offset))
                 /\ next' = Start(offset) + Len(Portion(offset))
        <5> DEFINE l == Len(Portion(offset))
        <5>1. /\ offset \in 0 .. Len(text)
              /\ offset > 0 => next = offset
              /\ value = Beginning(offset)
          BY <4>1, <4>7
        <5>2. /\ Start(offset) = offset
              /\ l \in 0 .. Bytes
              /\ offset + l \in 0 .. Len(text)
              /\ value \o Portion(offset) = Beginning(offset + l)
              /\ l < Bytes => Beginning(offset + l) = text
              /\ l = Bytes => offset + l = AtMost(offset + Bytes, Beyond)
          BY <2>2, <5>1, NextPortion
        <5>3. Portion(offset) \in Chunk
          <6>1. offset \in Int
            BY <4>4, <5>1
          <6> QED
            BY <2>2, <6>1, PortionChunk
        <5>4. next' = offset + l
          BY <4>7, <5>2
        <5> HIDE DEF l
        <5>5. CASE l = Bytes
          <6>1. /\ next' \in 1 .. Len(text)
                /\ next' = AtMost(offset + Bytes, Beyond)
                /\ value \o Portion(offset) = Beginning(next')
            BY <5>1, <5>2, <5>4, <5>5
          <6> QED
            BY <1>1, <2>1, <3>3, <4>1, <4>2, <4>5, <4>7, <5>3, <5>5, <6>1, ChunkSent DEF l
        <5>6. CASE l # Bytes
          <6>1. value \o Portion(offset) = text
            BY <5>2, <5>6
          <6> QED
            BY <1>1, <2>1, <3>3, <4>1, <4>2, <4>5, <4>7, <5>3, <5>6, <6>1, ChunkSent DEF l
        <5> QED
          BY <5>5, <5>6
      <4> QED
        BY <1>3, <4>1, <4>3, <4>6, <4>7 DEF Serve
    <3> QED
      BY <1>1, <2>3, <3>1, <3>2, <3>3, DeleteCases DEF InOrder
  <2> QED
    BY <1>1, <2>1, <2>3, OneByOne, SameGoing DEF Honest
<1> QED
  BY <1>2, <1>3

\* What makes up a beginning of the text begins with one.
LEMMA PartOfBeginning ==
    ASSUME text \in Texts, NEW n \in 0 .. Len(text), NEW value \in Data, NEW chunk \in Data,
           value \o chunk = Beginning(n)
    PROVE  Len(value) \in 0 .. Len(text) /\ value = Beginning(Len(value))
<1> DEFINE k == Len(value)
<1>1. /\ text \in Seq(Int \X Int) /\ Len(text) \in Nat
      /\ value \in Seq(Int \X Int) /\ chunk \in Seq(Int \X Int)
  BY TextFacts DEF Data
<1>2. k \in Nat /\ Len(chunk) \in Nat /\ k + Len(chunk) = Len(value \o chunk)
  BY <1>1, LenProperties, ConcatProperties
<1>3. Len(Beginning(n)) = n
  BY BeginningFacts
<1>4. k \in 0 .. n
  BY <1>2, <1>3
<1>5. CASE k = 0
  <2>1. value = <<>>
    BY <1>1, <1>5, EmptySeq
  <2>2. Beginning(0) = <<>>
    BY BeginningFacts
  <2> QED
    BY <1>1, <1>5, <2>1, <2>2
<1>6. CASE k # 0
  <2>1. k \in 1 .. n /\ n \in 1 .. Len(text) /\ 1 \in 1 .. k /\ k \in 1 .. k
    BY <1>1, <1>4, <1>6
  <2>2. SubSeq(value \o chunk, 1, k) = SubSeq(value, 1, k)
    BY <1>1, <2>1, SubSeqOfConcat1
  <2>3. SubSeq(value, 1, k) = value
    BY <1>1, SubSeqFull
  <2>4. SubSeq(SubSeq(text, 1, n), 1, k) = SubSeq(text, 1, k)
    <3>1. 1 \in 1 .. Len(text) /\ 1 \in 1 .. n - 1 + 1 /\ k \in 1 .. n - 1 + 1
      BY <1>1, <2>1
    <3> HIDE DEF k
    <3>2. SubSeq(SubSeq(text, 1, n), 1, k) = SubSeq(text, 1 + 1 - 1, 1 + k - 1)
      BY <1>1, <2>1, <3>1, SubSeqOfSubSeq
    <3>3. 1 + k - 1 = k /\ 1 + 1 - 1 = 1
      BY <1>4
    <3> QED
      BY <3>2, <3>3
  <2>5. value = SubSeq(text, 1, k)
    BY <2>2, <2>3, <2>4 DEF Beginning
  <2>6. k \in 0 .. Len(text)
    BY <1>1, <1>4
  <2> QED
    BY <2>5, <2>6 DEF Beginning
<1> QED
  BY <1>5, <1>6

\* Wherever it waits, it has a beginning of the text.
LEMMA ValueIsBeginning ==
    ASSUME Typed, NEW r \in Retrieval, Proceeds(r)
    PROVE  LET value == retrieval[r].value
           IN  Len(value) \in 0 .. Len(text) /\ value = Beginning(Len(value))
<1> DEFINE value == retrieval[r].value
<1>1. /\ text \in Texts /\ text \in Data /\ Len(text) \in Nat
      /\ value \in Data
  BY TextFacts, InfoFields DEF Typed, OwnerTyped
<1>2. <<>> \in Data /\ Beginning(Len(text)) = text /\ Beginning(0) = <<>>
  BY <1>1, BeginningFacts, EmptyChunk DEF Chunk
<1> HIDE DEF value
<1>3. CASE value = <<>>
  <2>1. 0 \in 0 .. Len(text) /\ value \o <<>> = Beginning(0)
    BY <1>1, <1>2, <1>3, ConcatEmptySeq DEF Data
  <2> QED
    BY <1>1, <1>2, <2>1, PartOfBeginning DEF value
<1>4. CASE \E n \in 0 .. Len(text) : value = Beginning(n)
  <2>1. PICK n \in 0 .. Len(text) : value = Beginning(n)
    BY <1>4
  <2>2. value \o <<>> = Beginning(n)
    BY <1>1, <2>1, ConcatEmptySeq DEF Data
  <2> QED
    BY <1>1, <1>2, <2>2, PartOfBeginning DEF value
<1>5. CASE property \in Data /\ \E n \in 0 .. Len(text) : value \o property = Beginning(n)
  BY <1>1, <1>5, PartOfBeginning DEF value
<1>6. CASE OwnersTurn(r)
  <2>1. Len(text) \in 0 .. Len(text)
    BY <1>1
  <2> QED
    BY <1>2, <1>4, <1>6, <2>1 DEF OwnersTurn, value
<1>7. CASE RequestorsTurn(r)
  <2>1. Len(text) \in 0 .. Len(text)
    BY <1>1
  <2>2. \/ value = text
        \/ property \in Data /\ value \o property = text
        \/ /\ property \in Data /\ next \in 1 .. Len(text)
           /\ value \o property = Beginning(next)
    BY <1>7 DEF RequestorsTurn, value
  <2>3. next \in 1 .. Len(text) => next \in 0 .. Len(text)
    BY <1>1
  <2> QED
    BY <1>2, <1>4, <1>5, <2>1, <2>2, <2>3
<1> QED
  BY <1>3, <1>6, <1>7 DEF Proceeds, Asked, Answered, Refused, Announced, value

\* While the innermost loop goes round, a retrieval that is alone waits for something.
LEMMA StillProceeds ==
    ASSUME Typed, NEW r \in Going, Going = {r}, InOrder(r), RequestorRuns
    PROVE  retrieval[r].result = "pending" /\ Proceeds(r)
<1>1. retrieval[r].result = "pending"
  BY AloneRuns
<1> QED
  BY <1>1 DEF InOrder, Finished

LEMMA SelTimeoutOrder ==
    ASSUME Typed, Undisturbed, NEW q \in Retrieval, SelTimeout(q)
    PROVE  Undisturbed'
<1> DEFINE x == retrieval[q]
           result == IF x.idle + 1 >= Patience THEN "error" ELSE x.result
<1>1. /\ RequestorRuns
      /\ x.result = "pending"
      /\ SetInfo(q, result, x.idle + 1, x.value)
      /\ UNCHANGED <<frames, text, handler, next, transfer, property, toOwner,
                     toRequestor, spoiled>>
  BY DEF SelTimeout, Waiting, ownerVars
<1>2. x.idle \in Nat /\ x.idle < Patience
  BY <1>1, InfoFields
<1>3. /\ retrieval'[q].result = result
      /\ retrieval'[q].idle = x.idle + 1
      /\ retrieval'[q].value = x.value
      /\ \A r \in Retrieval \ {q} : retrieval'[r] = retrieval[r]
  <2> HIDE DEF x, result
  <2> QED
    BY <1>1, SetInfoFields
<1>4. /\ NoneServed => NoneServed'
      /\ LastServed => LastServed' /\ Top(transfer').offset = Top(transfer).offset
  BY <1>1 DEF NoneServed, LastServed
<1>5. ASSUME NEW r \in Going \ spoiled, Going = {r}, InOrder(r)
      PROVE  InOrder(r)'
  <2>1. r \in Retrieval /\ retrieval[r].result = "pending" /\ Proceeds(r)
    BY <1>1, <1>5, AloneRuns, StillProceeds
  <2>2. CASE retrieval'[r].result = "pending"
    <3>1. retrieval'[r].value = retrieval[r].value
      BY <1>3, <2>1
    <3>2. Proceeds(r)'
      BY <1>1, <1>4, <2>1, <3>1, ProceedsKept
    <3> QED
      BY <2>2, <3>2 DEF InOrder
  <2>3. CASE retrieval'[r].result # "pending"
    <3>1. r = q /\ result = "error" /\ x.idle + 1 = Patience
      BY <1>1, <1>2, <1>3, <2>1, <2>3
    <3>2. /\ Len(x.value) \in 0 .. Len(text)
          /\ x.value = Beginning(Len(x.value))
      BY <2>1, <3>1, ValueIsBeginning
    <3>3. Len(text) \in Nat
      BY TextFacts DEF Typed, OwnerTyped
    <3>4. Finished(r)'
      <4>1. /\ retrieval'[r].result = "error"
            /\ retrieval'[r].idle = Patience
            /\ retrieval'[r].value = x.value
        BY <1>3, <3>1
      <4>2. Len(x.value) <= Len(text)
        BY <3>2, <3>3
      <4> HIDE DEF x
      <4> QED
        BY <1>1, <3>2, <4>1, <4>2 DEF Finished, Beginning
    <3> QED
      BY <3>4 DEF InOrder
  <2> QED
    BY <2>2, <2>3
<1> QED
  BY <1>1, <1>5, OneByOne, SameGoing

\* The only loop, or the inner one, is the one an event is for.
LEMMA OneLoopFacts ==
    ASSUME NEW r, OneLoop(r)
    PROVE  /\ DOMAIN frames = {1}
           /\ frames[1].get = r /\ ~ frames[1].incr
           /\ \A i \in DOMAIN frames : ~ IsOldest(i)
<1>1. DOMAIN frames = {1} /\ frames[1] = [get |-> r, incr |-> FALSE]
  BY DEF OneLoop
<1>2. frames[1].get = r /\ ~ frames[1].incr
  BY <1>1
<1> QED
  BY <1>1, <1>2 DEF IsOldest

LEMMA OneLoopNewest ==
    ASSUME NEW r \in Waiting, OneLoop(r)
    PROVE  IsNewest(1)
<1>1. Len(frames) = 1
  BY DEF OneLoop
<1>2. 1 + 1 .. Len(frames) = {}
  BY <1>1
<1> QED
  BY <1>2, OneLoopFacts DEF IsNewest

LEMMA TwoLoopsOldest ==
    ASSUME NEW r \in Waiting, TwoLoops(r)
    PROVE  /\ 2 \in DOMAIN frames /\ IsOldest(2)
           /\ \A i \in DOMAIN frames : frames[i].get = r
<1>1. /\ DOMAIN frames = 1 .. 2
      /\ frames[1] = [get |-> r, incr |-> FALSE]
      /\ frames[2] = [get |-> r, incr |-> TRUE]
  BY DEF TwoLoops
<1>2. frames[1].get = r /\ ~ frames[1].incr /\ frames[2].get = r /\ frames[2].incr
  BY <1>1
<1>3. 1 .. 2 = {1, 2} /\ 1 .. 2 - 1 = {1}
  OBVIOUS
<1> QED
  BY <1>1, <1>2, <1>3 DEF IsOldest

LEMMA LeaveOrder ==
    ASSUME Typed, LoopsNest, Undisturbed, Leave
    PROVE  Undisturbed'
<1> DEFINE n == Len(frames)
           t == Top(frames).get
<1>1. /\ n \in Nat \ {0}
      /\ t = frames[n].get
      /\ DOMAIN frames = 1 .. n
      /\ DOMAIN frames' = 1 .. n - 1
      /\ \A i \in 1 .. n - 1 : frames'[i] = frames[i]
      /\ ~ Top(frames).incr => t \notin Going'
  BY FrameLeft
<1>2. UNCHANGED <<text, handler>> /\ ~ RequestorRuns
  BY DEF Leave, ownerVars
<1>3. Going' \subseteq Going /\ t \in Going
  <2>1. 1 .. n - 1 \subseteq 1 .. n /\ n \in 1 .. n
    BY <1>1
  <2> HIDE DEF n, t
  <2> QED
    BY <1>1, <2>1 DEF Going
<1> HIDE DEF n, t
<1>4. CASE Top(frames).incr
  <2>1. UNCHANGED <<retrieval, spoiled>>
    BY <1>4 DEF Leave
  <2>2. ASSUME NEW r \in Going' \ spoiled'
        PROVE  Going' = {r} /\ InOrder(r)'
    <3>1. Going = {r} /\ InOrder(r)
      BY <1>3, <2>1 DEF Undisturbed
    <3>2. Finished(r)
      BY <1>2, <3>1, AloneRuns DEF InOrder
    <3>3. Finished(r)'
      BY <1>2, <2>1, <3>2, FinishedKept
    <3> QED
      BY <1>3, <3>1, <3>3 DEF InOrder
  <2> QED
    BY <2>2 DEF Undisturbed
<1>5. CASE ~ Top(frames).incr
  <2>1. spoiled' = spoiled \ {t} /\ t \notin Going'
    BY <1>1, <1>5 DEF Leave, t
  <2>2. Going' \ spoiled' = {}
    BY <1>3, <2>1 DEF Undisturbed
  <2> QED
    BY <2>2 DEF Undisturbed
<1> QED
  BY <1>4, <1>5

\* Of the points where a retrieval waits, these allow for an event to it.
LEMMA NotifyCases ==
    ASSUME NEW r, Proceeds(r), toRequestor # <<>>, Head(toRequestor) \in {"notify", "refuse"}
    PROVE  \/ toRequestor = <<"notify">> /\ (Answered(r) \/ Announced(r))
           \/ toRequestor = <<"refuse">> /\ Refused(r)
<1>1. Head(<<"new">>) = "new" /\ Head(<<"new", "notify">>) = "new"
  OBVIOUS
<1>2. toRequestor # <<"new">> /\ toRequestor # <<"new", "notify">>
  BY <1>1
<1> QED
  BY <1>2 DEF Proceeds, Asked, Answered, Refused, Announced, OwnersTurn, RequestorsTurn

LEMMA NewCases ==
    ASSUME NEW r, Proceeds(r), toRequestor # <<>>, Head(toRequestor) = "new"
    PROVE  \/ toRequestor = <<"new", "notify">> /\ (Answered(r) \/ Announced(r))
           \/ toRequestor = <<"new">> /\ RequestorsTurn(r)
<1>1. Head(<<"notify">>) = "notify" /\ Head(<<"refuse">>) = "refuse"
  OBVIOUS
<1>2. toRequestor # <<"notify">> /\ toRequestor # <<"refuse">>
  BY <1>1
<1> QED
  BY <1>2 DEF Proceeds, Asked, Answered, Refused, Announced, OwnersTurn, RequestorsTurn

\* A result is there.
LEMMA NowFinished ==
    ASSUME text \in Texts, NEW r, UNCHANGED <<text, handler>>,
           \/ retrieval'[r].result = "ok" /\ retrieval'[r].value = text
           \/ /\ retrieval'[r].result = "error" /\ retrieval'[r].value = <<>>
              /\ ~ handler
    PROVE  InOrder(r)'
<1>1. /\ Len(text) \in Nat
      /\ Beginning(Len(text)) = text
      /\ Beginning(0) = <<>>
      /\ Len(<<>>) = 0
  <2>1. Len(text) \in Nat /\ Len(text) \in 0 .. Len(text)
    BY TextFacts
  <2> QED
    BY <2>1, BeginningFacts
<1>2. CASE retrieval'[r].result = "ok" /\ retrieval'[r].value = text
  <2>1. Finished(r)'
    BY <1>1, <1>2 DEF Finished, Beginning
  <2> QED
    BY <2>1 DEF InOrder
<1>3. CASE /\ retrieval'[r].result = "error" /\ retrieval'[r].value = <<>>
           /\ ~ handler
  <2>1. Finished(r)'
    BY <1>1, <1>3 DEF Finished, Beginning
  <2> QED
    BY <2>1 DEF InOrder
<1> QED
  BY <1>2, <1>3

\* The requestor reads the property and asks for more.
LEMMA DeleteSent ==
    ASSUME DeleteProperty(toOwner), toOwner = <<>>
    PROVE  property' = None /\ toOwner' \in {<<>>, <<"delete">>}
  BY DEF DeleteProperty

LEMMA LastStays ==
    ASSUME UNCHANGED transfer
    PROVE  /\ LastServed <=> LastServed'
           /\ NoneServed <=> NoneServed'
  BY DEF LastServed, NoneServed

LEMMA AppendedPair ==
    ASSUME NEW f, NEW g
    PROVE  Append(<<f>>, g) = <<f, g>>
<1> DEFINE S == {f, g}
<1>1. <<f>> \in Seq(S) /\ Len(<<f>>) = 1 /\ <<f>>[1] = f
  OBVIOUS
<1>2. /\ Append(<<f>>, g) \in Seq(S)
      /\ Len(Append(<<f>>, g)) = 2
      /\ Append(<<f>>, g)[1] = f
      /\ Append(<<f>>, g)[2] = g
  BY <1>1, AppendProperties
<1>3. /\ <<f, g>> \in Seq(S)
      /\ Len(<<f, g>>) = 2
      /\ <<f, g>>[1] = f
      /\ <<f, g>>[2] = g
  OBVIOUS
<1>4. \A i \in 1 .. 2 : i = 1 \/ i = 2
  OBVIOUS
<1> HIDE DEF S
<1> QED
  BY <1>2, <1>3, <1>4, SeqEqual

LEMMA SelectionNotifyPlace ==
    ASSUME Typed, NEW r \in Going, Going = {r}, InOrder(r), SelectionNotify
    PROVE  InOrder(r)'
<1>1. /\ RequestorRuns
      /\ toRequestor # <<>> /\ Head(toRequestor) \in {"notify", "refuse"}
      /\ toRequestor' = Tail(toRequestor)
      /\ UNCHANGED <<text, handler, next, transfer>>
  BY DEF SelectionNotify, ownerVars
<1>2. /\ r \in Retrieval /\ r \in Waiting
      /\ retrieval[r].result = "pending" /\ Proceeds(r)
  BY <1>1, AloneRuns, StillProceeds DEF Waiting
<1>3. \/ toRequestor = <<"notify">> /\ (Answered(r) \/ Announced(r))
      \/ toRequestor = <<"refuse">> /\ Refused(r)
  BY <1>1, <1>2, NotifyCases
<1>4. OneLoop(r) /\ retrieval[r].value = <<>> /\ toOwner = <<>>
  BY <1>3 DEF Answered, Announced, Refused
<1>5. /\ DOMAIN frames = {1} /\ frames[1].get = r /\ IsNewest(1)
  BY <1>2, <1>4, OneLoopFacts, OneLoopNewest
<1>6. \/ Head(toRequestor) = "notify" /\ Answer(1)
      \/ /\ Head(toRequestor) = "refuse"
         /\ SetInfo(r, "error", retrieval[r].idle, retrieval[r].value)
  BY <1>5 DEF SelectionNotify
<1>7. text \in Texts /\ text \notin {None, INCR}
  BY TextFacts DEF Typed, OwnerTyped
<1>8. Head(<<"notify">>) = "notify" /\ Head(<<"refuse">>) = "refuse"
      /\ Tail(<<"notify">>) = <<>>
  OBVIOUS
<1>9. CASE toRequestor = <<"refuse">> /\ Refused(r)
  <2>1. SetInfo(r, "error", retrieval[r].idle, <<>>) /\ ~ handler
    BY <1>4, <1>6, <1>8, <1>9 DEF Refused
  <2>2. retrieval'[r].result = "error" /\ retrieval'[r].value = <<>>
    BY <1>2, <2>1, SetInfoFields
  <2> QED
    BY <1>1, <1>7, <2>1, <2>2, NowFinished
<1>10. CASE toRequestor = <<"notify">> /\ Answered(r)
  <2>3. SetInfo(r, "ok", retrieval[r].idle, Append1(<<>>, text))
    BY <1>4, <1>5, <1>6, <1>7, <1>8, <1>10 DEF Answer, Answered
  <2>4. text \in Data /\ Len(text) <= Beyond
    BY <1>7, TextFacts DEF Beyond
  <2>5. <<>> \in Data /\ <<>> \o text = text
    BY <2>4, ConcatEmptySeq, EmptySeq DEF Data
  <2>6. Append1(<<>>, text) = text
    BY <2>4, <2>5, AppendedData
  <2>1. SetInfo(r, "ok", retrieval[r].idle, text)
    BY <2>3, <2>6
  <2>2. retrieval'[r].result = "ok" /\ retrieval'[r].value = text
    BY <1>2, <2>1, SetInfoFields
  <2> QED
    BY <1>1, <1>7, <2>2, NowFinished
<1>11. CASE toRequestor = <<"notify">> /\ Announced(r)
  <2>1. /\ SetInfo(r, "pending", 0, <<>>)
        /\ frames' = Append(frames, [get |-> r, incr |-> TRUE])
        /\ DeleteProperty(toOwner)
    BY <1>4, <1>5, <1>6, <1>8, <1>11, PropertyAssumption DEF Answer, Announced
  <2>2. retrieval'[r].result = "pending" /\ retrieval'[r].value = <<>>
    BY <1>2, <2>1, SetInfoFields
  <2>3. TwoLoops(r)'
    <3> DEFINE f == [get |-> r, incr |-> FALSE]
               g == [get |-> r, incr |-> TRUE]
    <3>1. frames = <<f>> /\ frames' = Append(frames, g)
      BY <1>4, <2>1 DEF OneLoop
    <3> HIDE DEF f, g
    <3>2. Append(<<f>>, g) = <<f, g>>
      BY AppendedPair
    <3>3. frames' = <<f, g>>
      BY <3>1, <3>2
    <3> QED
      BY <3>3 DEF TwoLoops, f, g
  <2>4. property' = None /\ toOwner' \in {<<>>, <<"delete">>} /\ toRequestor' = <<>>
    BY <1>1, <1>4, <1>8, <1>11, <2>1, DeleteSent
  <2>5. LastServed' /\ handler' /\ Top(transfer').offset = 0
    BY <1>1, <1>11, LastStays DEF Announced
  <2>6. Beginning(0)' = <<>> /\ 0 \in 0 .. Len(text')
    <3>1. Len(text) \in Nat
      BY <1>7, TextFacts
    <3>2. 0 \in 0 .. Len(text)
      BY <3>1
    <3> QED
      BY <1>1, <1>7, <3>2, BeginningFacts DEF Beginning
  <2>7. OwnersTurn(r)'
    BY <2>2, <2>3, <2>4, <2>5, <2>6 DEF OwnersTurn
  <2> QED
    BY <2>2, <2>7 DEF InOrder, Proceeds
<1> QED
  BY <1>3, <1>9, <1>10, <1>11

LEMMA SelectionNotifyOrder ==
    ASSUME Typed, Undisturbed, SelectionNotify
    PROVE  Undisturbed'
<1>1. Going' = Going
  <2>1. CASE UNCHANGED frames
    BY <2>1, SameGoing
  <2>2. ASSUME NEW i \in DOMAIN frames,
               frames' = Append(frames, [get |-> frames[i].get, incr |-> TRUE])
        PROVE  Going' = Going
    <3> DEFINE f == [get |-> frames[i].get, incr |-> TRUE]
               n == Len(frames)
    <3>1. f \in Loop /\ f.get = frames[i].get
      BY FrameTypes DEF Loop
    <3>2. /\ n \in Nat /\ DOMAIN frames = 1 .. n
          /\ DOMAIN frames' = 1 .. n + 1
          /\ frames'[n + 1] = f
          /\ \A j \in 1 .. n : frames'[j] = frames[j]
      BY <2>2, <3>1, FramePushed, FramesDomain
    <3> HIDE DEF f, n
    <3>3. 1 .. n + 1 = (1 .. n) \cup {n + 1}
      BY <3>2
    <3>4. \A j \in 1 .. n : frames'[j].get = frames[j].get
      BY <3>2
    <3>5. frames'[n + 1].get = frames[i].get /\ i \in 1 .. n
      BY <3>1, <3>2
    <3>6. Going = {frames[j].get : j \in 1 .. n}
      BY <3>2 DEF Going
    <3>7. Going' = {frames'[j].get : j \in 1 .. n} \cup {frames'[n + 1].get}
      BY <3>2, <3>3 DEF Going
    <3>8. {frames'[j].get : j \in 1 .. n} = {frames[j].get : j \in 1 .. n}
      BY <3>4
    <3>9. Going' = Going \cup {frames[i].get}
      BY <3>5, <3>6, <3>7, <3>8
    <3> QED
      BY <3>9 DEF Going
  <2> QED
    BY <2>1, <2>2 DEF SelectionNotify, Answer
<1>2. spoiled' = spoiled
  BY DEF SelectionNotify
<1> QED
  BY <1>1, <1>2, SelectionNotifyPlace, OneByOne

LEMMA NewValuePlace ==
    ASSUME Typed, NEW r \in Going, Going = {r}, InOrder(r), NewValue
    PROVE  InOrder(r)'
<1>1. /\ RequestorRuns
      /\ toRequestor # <<>> /\ Head(toRequestor) = "new"
      /\ toRequestor' = Tail(toRequestor)
      /\ UNCHANGED <<text, handler, next, transfer, frames>>
  BY DEF NewValue, Event, ownerVars
<1>2. /\ r \in Retrieval /\ r \in Waiting
      /\ retrieval[r].result = "pending" /\ Proceeds(r)
  BY <1>1, AloneRuns, StillProceeds DEF Waiting
<1>3. \/ toRequestor = <<"new", "notify">> /\ (Answered(r) \/ Announced(r))
      \/ toRequestor = <<"new">> /\ RequestorsTurn(r)
  BY <1>1, <1>2, NewCases
<1>4. /\ Tail(<<"new">>) = <<>>
      /\ Tail(<<"new", "notify">>) = <<"notify">>
  OBVIOUS
<1>5. NoneServed' = NoneServed /\ LastServed' = LastServed
  BY <1>1 DEF NoneServed, LastServed
<1>6. CASE toRequestor = <<"new", "notify">> /\ (Answered(r) \/ Announced(r))
  <2>1. OneLoop(r)
    BY <1>6 DEF Answered, Announced
  <2>2. UNCHANGED <<retrieval, property, toOwner>> /\ toRequestor' = <<"notify">>
    BY <1>1, <1>4, <1>6, <2>1, OneLoopFacts DEF NewValue
  <2>3. CASE Answered(r)
    <3>1. Answered(r)'
      BY <1>1, <1>5, <2>2, <2>3 DEF Answered, OneLoop
    <3> QED
      BY <1>2, <2>2, <3>1 DEF InOrder, Proceeds
  <2>4. CASE Announced(r)
    <3>1. Announced(r)'
      BY <1>1, <1>5, <2>2, <2>4 DEF Announced, OneLoop
    <3> QED
      BY <1>2, <2>2, <3>1 DEF InOrder, Proceeds
  <2> QED
    BY <1>6, <2>3, <2>4
<1>7. CASE toRequestor = <<"new">> /\ RequestorsTurn(r)
  <2> DEFINE value == retrieval[r].value
             whole == value \o property
  <2>1. /\ TwoLoops(r) /\ toOwner = <<>> /\ handler /\ property \in Data
        /\ \/ /\ LastServed /\ property # <<>>
              /\ \/ /\ next \in 1 .. Len(text) /\ Top(transfer).offset = next
                    /\ whole = Beginning(next)
                 \/ Top(transfer).offset = -2 /\ whole = text
           \/ NoneServed /\ property = <<>> /\ value = text
    BY <1>7 DEF RequestorsTurn
  <2>2. property \notin {None, INCR}
    BY <2>1, PropertyAssumption
  <2>3. Receive(r)
    BY <1>2, <2>1, <2>2, TwoLoopsOldest DEF NewValue
  <2>4. /\ text \in Texts /\ text \in Data /\ Len(text) \in 1 .. MaxLength /\ Len(text) \in Nat
        /\ value \in Data
    BY <1>2, TextFacts, InfoFields DEF Typed, OwnerTyped
  <2>5. property = <<>> => whole = value
    BY <2>4, ConcatEmptySeq DEF Data
  <2>6. \/ whole = Beginning(next) /\ next \in 1 .. Len(text)
        \/ whole = text
    BY <2>1, <2>5
  <2>7. Len(whole) <= Beyond
    <3>1. next \in 1 .. Len(text) => next \in 0 .. Len(text)
      BY <2>4
    <3>2. next \in 1 .. Len(text) => Len(Beginning(next)) = next
      BY <2>4, <3>1, BeginningFacts
    <3>3. Len(whole) \in 1 .. Len(text)
      <4>1. CASE whole = text
        BY <2>4, <4>1
      <4>2. CASE whole = Beginning(next) /\ next \in 1 .. Len(text)
        BY <3>2, <4>2
      <4> QED
        BY <2>6, <4>1, <4>2
    <3> HIDE DEF whole
    <3> QED
      BY <2>4, <3>3 DEF Beyond
  <2>8. Append1(value, property) = whole
    BY <2>1, <2>4, <2>7, AppendedData
  <2>9. /\ SetInfo(r, IF property = <<>> THEN "ok" ELSE "pending", 0, whole)
        /\ DeleteProperty(toOwner)
    BY <2>2, <2>3, <2>8 DEF Receive
  <2>10. /\ retrieval'[r].result = IF property = <<>> THEN "ok" ELSE "pending"
         /\ retrieval'[r].value = whole
    <3> HIDE DEF whole
    <3> QED
      BY <1>2, <2>9, SetInfoFields
  <2>11. property' = None /\ toOwner' \in {<<>>, <<"delete">>} /\ toRequestor' = <<>>
    BY <1>1, <1>4, <1>7, <2>1, <2>9, DeleteSent
  <2>12. TwoLoops(r)'
    BY <1>1, <2>1 DEF TwoLoops
  <2> HIDE DEF whole
  <2>13. CASE property = <<>>
    <3>1. whole = text
      BY <2>1, <2>5, <2>13
    <3> QED
      BY <1>1, <2>4, <2>10, <2>13, <3>1, NowFinished
  <2>14. CASE property # <<>>
    <3>1. LastServed' /\ handler' /\ retrieval'[r].result = "pending"
      BY <1>1, <1>5, <2>1, <2>10, <2>14
    <3>2. Top(transfer') = Top(transfer)
      BY <1>1
    <3>3. CASE Top(transfer).offset = -2 /\ whole = text
      <4>1. OwnersTurn(r)'
        BY <1>1, <2>10, <2>11, <2>12, <3>1, <3>2, <3>3 DEF OwnersTurn
      <4> QED
        BY <3>1, <4>1 DEF InOrder, Proceeds
    <3>4. CASE /\ next \in 1 .. Len(text) /\ Top(transfer).offset = next
               /\ whole = Beginning(next)
      <4>1. next \in 0 .. Len(text)
        BY <2>4, <3>4
      <4>2. /\ Top(transfer').offset \in 0 .. Len(text')
            /\ next' = Top(transfer').offset
            /\ retrieval'[r].value = Beginning(Top(transfer).offset)'
        BY <1>1, <2>10, <3>2, <3>4, <4>1 DEF Beginning
      <4>3. OwnersTurn(r)'
        BY <2>11, <2>12, <3>1, <4>2 DEF OwnersTurn
      <4> QED
        BY <3>1, <4>3 DEF InOrder, Proceeds
    <3> QED
      BY <2>1, <2>14, <3>3, <3>4 DEF whole
  <2> QED
    BY <2>13, <2>14
<1> QED
  BY <1>3, <1>6, <1>7

LEMMA NewValueOrder ==
    ASSUME Typed, Undisturbed, NewValue
    PROVE  Undisturbed'
<1>1. UNCHANGED <<frames, spoiled>>
  BY DEF NewValue
<1> QED
  BY <1>1, NewValuePlace, OneByOne, SameGoing

\* A new retrieval is alone, or it is interfered with from the start and interferes with
\* the others.
LEMMA GetSelectionOrder ==
    ASSUME Typed, Undisturbed, NEW r \in Retrieval, GetSelection(r)
    PROVE  Undisturbed'
<1> DEFINE f == [get |-> r, incr |-> FALSE]
           n == Len(frames)
<1>1. /\ SetInfo(r, "pending", 0, <<>>)
      /\ frames' = Append(frames, f)
      /\ toOwner' = Append(toOwner, "request")
      /\ spoiled' = IF Quiet THEN spoiled ELSE spoiled \cup Going \cup {r}
      /\ UNCHANGED <<transfer, toRequestor>>
  BY DEF GetSelection, ownerVars
<1>2. f \in Loop /\ f.get = r
  BY DEF Loop
<1>3. Going' = Going \cup {r}
  <2>1. /\ n \in Nat /\ DOMAIN frames = 1 .. n
        /\ DOMAIN frames' = 1 .. n + 1
        /\ frames'[n + 1] = f
        /\ \A j \in 1 .. n : frames'[j] = frames[j]
    <3> HIDE DEF f
    <3> QED
      BY <1>1, <1>2, FramePushed, FramesDomain
  <2> HIDE DEF f, n
  <2>2. 1 .. n + 1 = (1 .. n) \cup {n + 1}
    BY <2>1
  <2>3. {frames'[j].get : j \in 1 .. n} = {frames[j].get : j \in 1 .. n}
    BY <2>1
  <2>4. Going = {frames[j].get : j \in 1 .. n}
    BY <2>1 DEF Going
  <2>5. Going' = {frames'[j].get : j \in 1 .. n} \cup {frames'[n + 1].get}
    BY <2>1, <2>2 DEF Going
  <2> QED
    BY <1>2, <2>1, <2>3, <2>4, <2>5
<1>4. CASE ~ Quiet
  <2>1. Going' \ spoiled' = {}
    BY <1>1, <1>3, <1>4
  <2> QED
    BY <2>1 DEF Undisturbed
<1>5. CASE Quiet
  <2>1. /\ frames = <<>> /\ toRequestor = <<>> /\ RequestsIn(toOwner) = {} /\ NoneServed
    BY <1>5 DEF Quiet, NoneServed
  <2>2. Going = {}
    BY <2>1 DEF Going
  <2>3. retrieval'[r].result = "pending" /\ retrieval'[r].value = <<>>
    BY <1>1, SetInfoFields
  <2>4. OneLoop(r)'
    BY <1>1, <2>1 DEF OneLoop
  <2>5. toOwner' # <<>> /\ RequestsIn(toOwner)' = {Len(toOwner')}
    <3>1. toOwner \in Seq({"request", "delete"})
      BY DEF Typed, ServerTyped
    <3>2. RequestsIn(toOwner') = {Len(toOwner) + 1}
      BY <1>1, <2>1, <3>1, RequestsAppended
    <3>3. Len(toOwner') = Len(toOwner) + 1 /\ toOwner' # <<>>
      BY <1>1, <3>1, AppendProperties
    <3>4. RequestsIn(toOwner)' = RequestsIn(toOwner')
      BY DEF RequestsIn
    <3> QED
      BY <3>2, <3>3, <3>4
  <2>6. toRequestor' = <<>> /\ NoneServed'
    BY <1>1, <2>1 DEF NoneServed
  <2>7. Asked(r)'
    BY <2>3, <2>4, <2>5, <2>6 DEF Asked
  <2>8. InOrder(r)'
    BY <2>3, <2>7 DEF InOrder, Proceeds
  <2>9. Going' = {r}
    BY <1>3, <2>2
  <2> QED
    BY <2>8, <2>9 DEF Undisturbed
<1> QED
  BY <1>4, <1>5

LEMMA StepOrder ==
    ASSUME Typed, Typed', LoopsNest, Undisturbed, [RetrievalNext]_retrievalVars
    PROVE  Undisturbed'
<1>1. CASE Requestor \/ \E r \in Retrieval : GetSelection(r)
  BY <1>1, GetSelectionOrder, SelectionNotifyOrder, NewValueOrder, LeaveOrder,
     SelTimeoutOrder DEF Requestor
<1>2. CASE Owner
  BY <1>2, ConvertSelectionOrder, PropertyDeletedOrder, ConvertReturnsOrder,
     IncrTimeoutOrder DEF Owner
<1>3. CASE ChangeText \/ GetLocally \/ SelectionHandle
  BY <1>3, TrickSpoils DEF ChangeText, GetLocally, SelectionHandle, requestorVars
<1>4. CASE UNCHANGED retrievalVars
  <2>1. UNCHANGED <<retrieval, frames, text, handler, next, transfer, property, toOwner,
                    toRequestor, spoiled>>
    BY <1>4 DEF retrievalVars, ownerVars, requestorVars
  <2>2. \A r \in Going \ spoiled : Going = {r} /\ InOrder(r) => InOrder(r)'
    <3>1. /\ NoneServed => NoneServed'
          /\ LastServed => LastServed' /\ Top(transfer').offset = Top(transfer).offset
      BY <2>1 DEF NoneServed, LastServed
    <3> QED
      BY <2>1, <3>1, PlaceKept
  <2> QED
    BY <2>1, <2>2, OneByOne, SameGoing
<1> QED
  BY <1>1, <1>2, <1>3, <1>4 DEF RetrievalNext

-----------------------------------------------------------------------------
\* RetrievalInductive is an inductive invariant: types and counts, the nesting of the
\* requestor's loops, and the point where every retrieval left alone stands.
LEMMA RetrievalInduction == RetrievalSpec => []RetrievalInductive
<1>1. RetrievalInit => RetrievalInductive
  <2> SUFFICES ASSUME RetrievalInit PROVE RetrievalInductive
    OBVIOUS
  <2>1. RetrievalTypeOK /\ Bookkeeping
    BY InitTyped, TypedParts
  <2>2. LoopsNest /\ Undisturbed
    BY DEF RetrievalInit, LoopsNest, Undisturbed, Going
  <2> QED
    BY <2>1, <2>2 DEF RetrievalInductive
<1>2. RetrievalInductive /\ [RetrievalNext]_retrievalVars => RetrievalInductive'
  <2> SUFFICES ASSUME RetrievalInductive, [RetrievalNext]_retrievalVars
               PROVE  RetrievalInductive'
    OBVIOUS
  <2>1. Typed /\ LoopsNest /\ Undisturbed
    BY TypedParts DEF RetrievalInductive
  <2>2. Typed'
    BY <2>1, StepTyped
  <2>3. LoopsNest' /\ Undisturbed'
    BY <2>1, <2>2, StepLoops, StepOrder
  <2>4. (RetrievalTypeOK /\ Bookkeeping)'
    BY <2>2, TypedParts, PTL
  <2> QED
    BY <2>3, <2>4 DEF RetrievalInductive
<1> QED
  BY <1>1, <1>2, PTL DEF RetrievalSpec

\* Type correctness: offsets, idle counts and the value collected stay in range, and there
\* are never more transfers than retrievals, whatever the other side and the program do.
THEOREM RetrievalTypeCorrect == RetrievalSpec => []RetrievalTypeOK
<1>1. RetrievalInductive => RetrievalTypeOK
  BY DEF RetrievalInductive
<1> QED
  BY <1>1, RetrievalInduction, PTL

\* A retrieval nothing interfered with has a beginning of the text, and all of it when
\* TkSelGetSelection returns TCL_OK, for every length and size of chunks.
THEOREM WholeHolds == RetrievalSpec => []Whole
<1>1. RetrievalInductive => Whole
  <2> SUFFICES ASSUME RetrievalInductive, NEW r \in Going \ spoiled
               PROVE  /\ Len(retrieval[r].value) <= Len(text)
                      /\ retrieval[r].value = SubSeq(text, 1, Len(retrieval[r].value))
                      /\ retrieval[r].result = "ok" => retrieval[r].value = text
    BY DEF Whole
  <2>1. Typed /\ Going = {r} /\ InOrder(r)
    BY TypedParts DEF RetrievalInductive, Undisturbed
  <2>2. CASE Finished(r)
    BY <2>2 DEF Finished, Beginning
  <2>3. CASE retrieval[r].result = "pending" /\ Proceeds(r)
    <3>1. r \in Retrieval
      BY <2>1, AloneRuns
    <3>2. /\ Len(retrieval[r].value) \in 0 .. Len(text)
          /\ retrieval[r].value = Beginning(Len(retrieval[r].value))
      BY <2>1, <2>3, <3>1, ValueIsBeginning
    <3>3. Len(text) \in Nat
      BY <2>1, TextFacts DEF Typed, OwnerTyped
    <3>4. Len(retrieval[r].value) <= Len(text)
      BY <3>2, <3>3
    <3> QED
      BY <2>3, <3>2, <3>4 DEF Beginning
  <2> QED
    BY <2>1, <2>2, <2>3 DEF InOrder
<1> QED
  BY <1>1, RetrievalInduction, PTL

\* Such a retrieval fails only without a handler or after Patience seconds without an
\* answer: an error of TkSelGetSelection is never an accident of the protocol.
THEOREM ErrorsHaveCause == RetrievalSpec => []ErrorHasCause
<1>1. RetrievalInductive => ErrorHasCause
  BY DEF RetrievalInductive, Undisturbed, InOrder, Finished, ErrorHasCause
<1> QED
  BY <1>1, RetrievalInduction, PTL

=============================================================================
