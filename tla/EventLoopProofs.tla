--------------------------- MODULE EventLoopProofs ---------------------------
(***************************************************************************)
(* For any depth of nested loops, any flags, any number of X events,       *)
(* signals and exceptions: select never sleeps on work the innermost loop  *)
(* would do, the service mode tells whether a loop runs, and update leaves *)
(* nothing behind.                                                         *)
(***************************************************************************)
EXTENDS EventLoop, ListLemmas

Pc == {"service", "select", "signal", "check", "idle", "call", "idlecall"}

\* The parts of the invariant that are about the stack of calls alone.
StackOK ==
    /\ frames \in Seq(Frame)
    /\ mode \in {"all", "none"}
    /\ signals \in Nat
    /\ dies \in Nat
    /\ NestsInCallbacks
    /\ ModesNest

\* The parts that are about the round the innermost loop is in.
RoundOK == SourcesAsked /\ UpdateProgress

\* The types of everything else.
RestOK ==
    /\ queue \in Seq(Event)
    /\ blockTime \in {"none", "timer", "poll"}
    /\ masks \subseteq {"file", "xfile"}
    /\ asked \in Nat
    /\ wire \in Nat
    /\ xlib \in Nat
    /\ ready \in BOOLEAN
    /\ timer \in {"none", "later", "due"}
    /\ idle \in BOOLEAN

LEMMA InductiveParts == Inductive <=> StackOK /\ RestOK /\ RoundOK
  BY DEF Inductive, StackOK, RestOK, RoundOK, TypeOK

LEMMA InductivePartsNext ==
    ASSUME StackOK', RestOK', RoundOK'
    PROVE  Inductive'
  BY DEF Inductive, StackOK, RestOK, RoundOK, TypeOK

-----------------------------------------------------------------------------
\* The stack.

LEMMA TopOfStack ==
    ASSUME frames \in Seq(Frame), frames # <<>>
    PROVE  /\ Len(frames) \in Nat \ {0}
           /\ DOMAIN frames = 1 .. Len(frames)
           /\ Len(frames) \in DOMAIN frames
           /\ Top \in Frame
<1>1. Len(frames) \in Nat \ {0} /\ DOMAIN frames = 1 .. Len(frames)
  BY LenProperties, EmptySeq
<1>2. Len(frames) \in 1 .. Len(frames)
  BY <1>1
<1> QED
  BY <1>1, <1>2, ElementOfSeq DEF Top

\* No loop is in the middle of a round: it has no promises to keep.
LEMMA InCallback ==
    ASSUME frames' = <<>> \/ Top'.pc \in Callback
    PROVE  RoundOK'
  BY DEF RoundOK, SourcesAsked, UpdateProgress, At, Callback

\* The innermost call goes on: f is its new frame.
LEMMA TopMoves ==
    ASSUME StackOK, frames # <<>>, NEW f \in Frame,
           frames' = [frames EXCEPT ![Len(frames)] = f],
           f.oldMode = Top.oldMode, f.caller = "all" => Top.caller = "all",
           signals' \in Nat, signals' >= signals, f.pc = "signal" => signals' > 0,
           mode' = mode, dies' = dies
    PROVE  StackOK' /\ frames' # <<>> /\ Top' = f
<1>1. /\ frames \in Seq(Frame)
      /\ Len(frames) \in Nat \ {0}
      /\ DOMAIN frames = 1 .. Len(frames)
      /\ Len(frames) \in 1 .. Len(frames)
  BY TopOfStack DEF StackOK
<1>2. /\ frames' \in Seq(Frame)
      /\ Len(frames') = Len(frames)
      /\ \A j \in 1 .. Len(frames) :
           frames'[j] = IF j = Len(frames) THEN f ELSE frames[j]
  BY <1>1, ExceptSeq
<1>3. DOMAIN frames' = 1 .. Len(frames)
  BY <1>2, LenProperties
<1>4. frames' # <<>> /\ Top' = f
  BY <1>1, <1>2, <1>3, EmptySeq DEF Top
<1>5. NestsInCallbacks'
  <2> SUFFICES ASSUME NEW i \in 1 .. Len(frames)
               PROVE  /\ i = Len(frames) \/ frames'[i].pc \in Callback
                      /\ frames'[i].pc = "signal" => signals' > 0
    BY <1>2, <1>3 DEF NestsInCallbacks, Callback
  <2>1. CASE i = Len(frames)
    BY <2>1, <1>1, <1>2
  <2>2. CASE i # Len(frames)
    <3>1. frames[i].pc \in Callback /\ (frames[i].pc = "signal" => signals > 0)
      BY <2>2, <1>1 DEF NestsInCallbacks, StackOK
    <3>2. signals > 0 => signals' > 0
      BY DEF StackOK
    <3>3. frames'[i] = frames[i]
      BY <2>2, <1>2
    <3> QED
      BY <3>1, <3>2, <3>3
  <2> QED
    BY <2>1, <2>2
<1>6. ModesNest'
  <2>1. mode' = "none"
    BY DEF StackOK, ModesNest
  <2> SUFFICES ASSUME NEW i \in 1 .. Len(frames)
               PROVE  /\ i > 1 => frames'[i].oldMode = "none"
                      /\ i = 1 /\ dies' = 0 => frames'[i].oldMode = "all"
                      /\ frames'[i].caller = "all" => i = 1
    BY <2>1, <1>3, <1>4 DEF ModesNest
  <2>2. /\ i > 1 => frames[i].oldMode = "none"
        /\ i = 1 /\ dies = 0 => frames[i].oldMode = "all"
        /\ frames[i].caller = "all" => i = 1
    BY <1>1 DEF ModesNest, StackOK
  <2>3. CASE i = Len(frames)
    BY <2>2, <2>3, <1>2 DEF Top
  <2>4. CASE i # Len(frames)
    BY <2>2, <2>4, <1>2
  <2> QED
    BY <2>3, <2>4
<1> QED
  BY <1>2, <1>4, <1>5, <1>6 DEF StackOK

LEMMA GotoMoves ==
    ASSUME StackOK, frames # <<>>, NEW pc \in Pc, Goto(pc),
           signals' \in Nat, signals' >= signals, pc = "signal" => signals' > 0,
           mode' = mode, dies' = dies
    PROVE  /\ StackOK'
           /\ frames' # <<>>
           /\ Top' = [Top EXCEPT !.pc = pc]
<1> DEFINE f == [Top EXCEPT !.pc = pc]
<1>1. Top \in Frame
  BY TopOfStack DEF StackOK
<1>2. f \in Frame /\ f.oldMode = Top.oldMode /\ f.caller = Top.caller /\ f.pc = pc
  BY <1>1 DEF Frame, Pc
<1>3. frames' = [frames EXCEPT ![Len(frames)] = f]
  BY DEF Goto, Top
<1> HIDE DEF f
<1>4. StackOK' /\ frames' # <<>> /\ Top' = f
  BY <1>2, <1>3, TopMoves
<1> QED
  BY <1>4 DEF f

LEMMA AgainMoves ==
    ASSUME StackOK, frames # <<>>, NEW caller \in {"update", "sync", "wait"},
           Again(caller), UNCHANGED counts
    PROVE  /\ StackOK'
           /\ frames' # <<>>
           /\ Top' = [Top EXCEPT !.caller = caller, !.pc = First(Top.on)]
<1> DEFINE f == [Top EXCEPT !.caller = caller, !.pc = First(Top.on)]
<1>1. Top \in Frame
  BY TopOfStack DEF StackOK
<1>2. First(Top.on) \in {"idle", "service"}
  BY DEF First
<1>3. f \in Frame /\ f.oldMode = Top.oldMode /\ f.caller # "all" /\ f.pc # "signal"
  BY <1>1, <1>2 DEF Frame
<1>4. frames' = [frames EXCEPT ![Len(frames)] = f]
  BY DEF Again, Top
<1>5. signals' \in Nat /\ signals' >= signals /\ mode' = mode /\ dies' = dies
  BY DEF Again, counts, StackOK
<1> HIDE DEF f
<1>6. StackOK' /\ frames' # <<>> /\ Top' = f
  BY <1>3, <1>4, <1>5, TopMoves
<1> QED
  BY <1>6 DEF f

\* The innermost call returns into the callback that made it.
LEMMA PopMoves ==
    ASSUME StackOK, frames # <<>>, Pop, UNCHANGED counts
    PROVE  StackOK' /\ RoundOK'
<1>1. /\ frames \in Seq(Frame)
      /\ Len(frames) \in Nat \ {0}
      /\ DOMAIN frames = 1 .. Len(frames)
      /\ Len(frames) \in DOMAIN frames
      /\ Top \in Frame
  BY TopOfStack DEF StackOK
<1>2. /\ frames' \in Seq(Frame)
      /\ Len(frames') = Len(frames) - 1
      /\ DOMAIN frames' = 1 .. Len(frames) - 1
      /\ \A i \in 1 .. Len(frames) - 1 : frames'[i] = frames[i]
  BY <1>1, FrontOfStack DEF Pop
<1>3. frames' = <<>> <=> Len(frames) = 1
  BY <1>1, <1>2, EmptySeq
<1>4. \A i \in 1 .. Len(frames) - 1 :
        /\ frames'[i].pc \in Callback
        /\ frames'[i].pc = "signal" => signals > 0
        /\ i > 1 => frames'[i].oldMode = "none"
        /\ i = 1 /\ dies = 0 => frames'[i].oldMode = "all"
        /\ frames'[i].caller = "all" => i = 1
  BY <1>1, <1>2 DEF StackOK, NestsInCallbacks, ModesNest
<1>5. NestsInCallbacks'
  BY <1>2, <1>4 DEF NestsInCallbacks, Callback, counts
<1>6. /\ mode' \in {"all", "none"}
      /\ Len(frames) > 1 => mode' = "none"
      /\ Len(frames) = 1 /\ dies = 0 => mode' = "all"
  BY <1>1 DEF Pop, Frame, StackOK, ModesNest, Top
<1>7. ModesNest'
  BY <1>1, <1>2, <1>3, <1>4, <1>6 DEF ModesNest, counts
<1>8. StackOK'
  BY <1>2, <1>5, <1>6, <1>7 DEF StackOK, counts
<1>9. RoundOK'
  <2>1. CASE Len(frames) = 1
    BY <2>1, <1>3, InCallback
  <2>2. CASE Len(frames) # 1
    <3>1. Len(frames) - 1 \in 1 .. Len(frames) - 1
      BY <2>2, <1>1
    <3>2. Top' = frames'[Len(frames) - 1]
      BY <1>2 DEF Top
    <3> QED
      BY <3>1, <3>2, <1>4, InCallback
  <2> QED
    BY <2>1, <2>2
<1> QED
  BY <1>8, <1>9

\* A callback runs one more loop.
LEMMA EnterMoves ==
    ASSUME StackOK, Running, NEW caller \in {"once", "wait", "update", "all"},
           NEW on \in (SUBSET Kinds) \ {{}}, NEW wait \in BOOLEAN,
           NEW pc \in {"service", "check", "idle"}, Enter(caller, on, wait, pc),
           caller = "all" => mode = "all", UNCHANGED counts
    PROVE  /\ StackOK'
           /\ frames' # <<>>
           /\ Top' = [caller |-> caller, on |-> on, wait |-> wait, done |-> FALSE,
                      oldMode |-> mode, pc |-> pc]
<1> DEFINE f == [caller |-> caller, on |-> on, wait |-> wait, done |-> FALSE,
                 oldMode |-> mode, pc |-> pc]
<1>1. frames \in Seq(Frame) /\ Len(frames) \in Nat /\ DOMAIN frames = 1 .. Len(frames)
  BY LenProperties DEF StackOK
<1>2. f \in Frame /\ f.caller = caller /\ f.oldMode = mode /\ f.pc = pc
  BY DEF Frame, StackOK
<1>3. frames' = Append(frames, f) /\ mode' = "none"
  BY DEF Enter
<1> HIDE DEF f
<1>4. /\ frames' \in Seq(Frame)
      /\ frames' # <<>>
      /\ Len(frames') = Len(frames) + 1
      /\ \A i \in 1 .. Len(frames) : frames'[i] = frames[i]
      /\ frames'[Len(frames) + 1] = f
  BY <1>1, <1>2, <1>3, AppendProperties
<1>5. DOMAIN frames' = 1 .. Len(frames) + 1
  BY <1>4, LenProperties
<1>6. Top' = f
  BY <1>4 DEF Top
<1>7. frames = <<>> <=> Len(frames) = 0
  BY <1>1, EmptySeq
<1>8. \A i \in 1 .. Len(frames) :
        /\ frames[i].pc \in Callback
        /\ frames[i].pc = "signal" => signals > 0
        /\ i > 1 => frames[i].oldMode = "none"
        /\ i = 1 /\ dies = 0 => frames[i].oldMode = "all"
        /\ frames[i].caller = "all" => i = 1
  BY <1>1, <1>7 DEF StackOK, NestsInCallbacks, ModesNest, Running, Top
<1>9. NestsInCallbacks'
  <2> SUFFICES ASSUME NEW i \in 1 .. Len(frames) + 1
               PROVE  /\ i = Len(frames) + 1 \/ frames'[i].pc \in Callback
                      /\ frames'[i].pc = "signal" => signals > 0
    BY <1>4, <1>5 DEF NestsInCallbacks, counts, Callback
  <2>1. CASE i = Len(frames) + 1
    BY <2>1, <1>2, <1>4
  <2>2. CASE i # Len(frames) + 1
    <3>1. i \in 1 .. Len(frames)
      BY <2>2, <1>1
    <3> QED
      BY <3>1, <1>4, <1>8
  <2> QED
    BY <2>1, <2>2
<1>10. ModesNest'
  <2> SUFFICES ASSUME NEW i \in 1 .. Len(frames) + 1
               PROVE  /\ i > 1 => frames'[i].oldMode = "none"
                      /\ i = 1 /\ dies = 0 => frames'[i].oldMode = "all"
                      /\ frames'[i].caller = "all" => i = 1
    BY <1>3, <1>4, <1>5 DEF ModesNest, counts
  <2>1. CASE i = Len(frames) + 1
    BY <2>1, <1>1, <1>2, <1>4, <1>7 DEF StackOK, ModesNest
  <2>2. CASE i # Len(frames) + 1
    <3>1. i \in 1 .. Len(frames)
      BY <2>2, <1>1
    <3> QED
      BY <3>1, <1>4, <1>8
  <2> QED
    BY <2>1, <2>2
<1>11. StackOK'
  BY <1>3, <1>4, <1>9, <1>10 DEF StackOK, counts
<1> QED
  BY <1>4, <1>6, <1>11 DEF f

\* An event was served: every way to go on leaves no round half done.
LEMMA ServedMoves ==
    ASSUME StackOK, frames # <<>>, Top.pc # "select", Served, UNCHANGED counts
    PROVE  StackOK' /\ RoundOK'
<1>1. Top \in Frame
  BY TopOfStack DEF StackOK
<1>2. \A caller \in {"update", "wait"} : Again(caller) => StackOK' /\ RoundOK'
  <2> SUFFICES ASSUME NEW caller \in {"update", "wait"}, Again(caller)
               PROVE  StackOK' /\ RoundOK'
    OBVIOUS
  <2>1. /\ StackOK'
        /\ frames' # <<>>
        /\ Top' = [Top EXCEPT !.caller = caller, !.pc = First(Top.on)]
    BY AgainMoves
  <2>2. /\ Top'.caller = caller
        /\ Top'.on = Top.on
        /\ Top'.pc = First(Top.on)
    BY <2>1, <1>1 DEF Frame
  <2>3. Top'.pc # "select" /\ Top'.pc # "check"
        /\ (Top'.pc = "idle" => Top'.on = {"idle"})
    BY <2>2 DEF First
  <2>4. RoundOK'
    BY <2>2, <2>3 DEF RoundOK, SourcesAsked, UpdateProgress, At, Kinds
  <2> QED
    BY <2>1, <2>4
<1>3. CASE Top.caller = "all" /\ Goto("check") /\ UNCHANGED mode
  <2>1. /\ StackOK'
        /\ frames' # <<>>
        /\ Top' = [Top EXCEPT !.pc = "check"]
    BY <1>3, GotoMoves DEF counts, StackOK, Pc
  <2>2. Top'.caller = "all" /\ Top'.pc = "check"
    BY <2>1, <1>1, <1>3 DEF Frame
  <2> QED
    BY <2>1, <2>2 DEF RoundOK, SourcesAsked, UpdateProgress, At
<1>4. CASE Pop
  BY <1>4, PopMoves
<1> QED
  BY <1>2, <1>3, <1>4 DEF Served

-----------------------------------------------------------------------------
\* The steps of the program and of what is outside.

\* A callback that does not touch the stack: no round is under way.
LEMMA RunningSteps ==
    ASSUME Inductive, Running, UNCHANGED <<frames, mode, counts>>, RestOK'
    PROVE  Inductive'
<1>1. StackOK'
  BY InductiveParts DEF StackOK, NestsInCallbacks, ModesNest, counts
<1>2. frames' = <<>> \/ Top'.pc \in Callback
  BY DEF Running, Top
<1> QED
  BY <1>1, <1>2, InCallback, InductivePartsNext

LEMMA ProgramWithoutLoops ==
    ASSUME Inductive, Register \/ Read \/ Request \/ Ask
    PROVE  Inductive'
<1>1. Running /\ UNCHANGED <<frames, mode, counts>>
  BY DEF Register, Read, Request, Ask
<1>2. RestOK
  BY InductiveParts
<1>3. RestOK'
  <2>1. CASE Register
    BY <2>1, <1>2 DEF Register, RestOK, server
  <2>2. CASE Read
    BY <2>2, <1>2 DEF Read, RestOK, server
  <2>3. CASE Request
    BY <2>3, <1>2 DEF Request, RestOK
  <2>4. CASE Ask
    BY <2>4, <1>2 DEF Ask, RoundTrip, RestOK
  <2> QED
    BY <2>1, <2>2, <2>3, <2>4
<1> QED
  BY <1>1, <1>3, RunningSteps

LEMMA DoOneEventInductive ==
    ASSUME Inductive, DoOneEvent
    PROVE  Inductive'
<1>1. StackOK /\ RestOK /\ Running
  BY InductiveParts DEF DoOneEvent
<1>2. RestOK' /\ UNCHANGED counts
  BY <1>1 DEF DoOneEvent, RestOK, server
<1>3. PICK caller \in {"once", "wait", "update"}, on \in (SUBSET Kinds) \ {{}},
           wait \in BOOLEAN :
        Enter(caller, on, wait, First(on))
  <2>1. \A flags \in Flags : Effective(flags) \in (SUBSET Kinds) \ {{}}
    BY FlagsAssumption DEF Effective, Kinds
  <2>2. Effective({}) = Kinds /\ First(Kinds) = "service"
    BY DEF Effective, First, Kinds
  <2>3. Kinds \in (SUBSET Kinds) \ {{}} /\ {"idle"} \in (SUBSET Kinds) \ {{}}
    BY DEF Kinds
  <2>4. CASE \E flags \in Flags, wait \in BOOLEAN :
                Enter("once", Effective(flags), wait /\ Effective(flags) # {"idle"},
                      First(Effective(flags)))
    BY <2>4, <2>1
  <2>5. CASE Enter("wait", Effective({}), TRUE, "service")
    BY <2>5, <2>2, <2>3
  <2>6. CASE \E on \in {Kinds, {"idle"}} : Enter("update", on, FALSE, First(on))
    BY <2>6, <2>3
  <2> QED
    BY <2>4, <2>5, <2>6 DEF DoOneEvent
<1>4. First(on) \in {"service", "idle"} /\ (First(on) = "idle" => on = {"idle"})
  BY DEF First
<1>5. /\ StackOK'
      /\ frames' # <<>>
      /\ Top' = [caller |-> caller, on |-> on, wait |-> wait, done |-> FALSE,
                 oldMode |-> mode, pc |-> First(on)]
  BY <1>1, <1>2, <1>3, <1>4, EnterMoves
<1>6. Top'.caller # "sync" /\ Top'.pc = First(on) /\ Top'.on = on
  BY <1>5
<1>7. RoundOK'
  BY <1>4, <1>6 DEF RoundOK, SourcesAsked, UpdateProgress, At, Kinds
<1> QED
  BY <1>2, <1>5, <1>7, InductivePartsNext

LEMMA FinishInductive ==
    ASSUME Inductive, NEW i \in DOMAIN frames, Finish(i)
    PROVE  Inductive'
<1>1. StackOK /\ RestOK
  BY InductiveParts
<1>2. /\ frames \in Seq(Frame)
      /\ Len(frames) \in Nat
      /\ DOMAIN frames = 1 .. Len(frames)
      /\ frames[i] \in Frame
  BY <1>1, LenProperties, ElementOfSeq DEF StackOK
<1> DEFINE f == [frames[i] EXCEPT !.done = TRUE]
<1>3. /\ f \in Frame
      /\ f.pc = frames[i].pc
      /\ f.oldMode = frames[i].oldMode
      /\ f.caller = frames[i].caller
  BY <1>2 DEF Frame
<1>4. frames' = [frames EXCEPT ![i] = f]
  BY DEF Finish
<1> HIDE DEF f
<1>5. /\ frames' \in Seq(Frame)
      /\ Len(frames') = Len(frames)
      /\ \A j \in 1 .. Len(frames) : frames'[j] = IF j = i THEN f ELSE frames[j]
  BY <1>2, <1>3, <1>4, ExceptSeq
<1>6. DOMAIN frames' = 1 .. Len(frames) /\ (frames' = <<>> <=> frames = <<>>)
  BY <1>2, <1>5, LenProperties, EmptySeq
<1>7. \A j \in 1 .. Len(frames) :
        /\ frames'[j].pc = frames[j].pc
        /\ frames'[j].oldMode = frames[j].oldMode
        /\ frames'[j].caller = frames[j].caller
  BY <1>3, <1>5
<1>8. UNCHANGED <<mode, signals, dies>>
  BY DEF Finish, counts
<1>9. StackOK'
  BY <1>1, <1>2, <1>5, <1>6, <1>7, <1>8 DEF StackOK, NestsInCallbacks, ModesNest
<1>10. frames' = <<>> \/ Top'.pc \in Callback
  <2>1. frames # <<>> => Len(frames) \in 1 .. Len(frames)
    BY <1>2, EmptySeq
  <2> QED
    BY <2>1, <1>5, <1>6, <1>7 DEF Finish, Running, Top
<1>11. RestOK'
  BY <1>1 DEF Finish, RestOK, server
<1> QED
  BY <1>9, <1>10, <1>11, InCallback, InductivePartsNext

LEMMA DieInductive ==
    ASSUME Inductive, NEW depth \in 0 .. Len(frames) - 1, Die(depth)
    PROVE  Inductive'
<1>1. StackOK /\ RestOK
  BY InductiveParts
<1>2. /\ frames \in Seq(Frame)
      /\ Len(frames) \in Nat
      /\ DOMAIN frames = 1 .. Len(frames)
      /\ depth \in 0 .. Len(frames)
      /\ depth \in Nat
  BY <1>1, LenProperties DEF StackOK
<1>3. /\ frames' \in Seq(Frame)
      /\ Len(frames') = depth
      /\ DOMAIN frames' = 1 .. depth
      /\ \A i \in 1 .. depth : frames'[i] = frames[i]
  BY <1>2, PrefixElements DEF Die
<1>4. frames' = <<>> <=> depth = 0
  BY <1>3, EmptySeq
<1>5. /\ mode' = mode
      /\ signals' = signals
      /\ dies' = dies + 1
      /\ dies' \in Nat
      /\ dies' # 0
  BY <1>1 DEF Die, StackOK
<1>6. mode = "none"
  BY <1>1 DEF Die, StackOK, ModesNest
<1>7. \A i \in 1 .. depth :
        /\ frames'[i].pc \in Callback
        /\ frames'[i].pc = "signal" => signals > 0
        /\ i > 1 => frames'[i].oldMode = "none"
        /\ frames'[i].caller = "all" => i = 1
  BY <1>1, <1>2, <1>3 DEF StackOK, NestsInCallbacks, ModesNest
<1>8. NestsInCallbacks' /\ ModesNest'
  BY <1>3, <1>4, <1>5, <1>6, <1>7 DEF NestsInCallbacks, ModesNest, Callback
<1>9. StackOK'
  BY <1>1, <1>3, <1>5, <1>8 DEF StackOK
<1>10. frames' = <<>> \/ Top'.pc \in Callback
  <2>1. depth # 0 => depth \in 1 .. depth
    BY <1>2
  <2> QED
    BY <2>1, <1>3, <1>4, <1>7 DEF Top
<1>11. RestOK'
  BY <1>1 DEF Die, RestOK, server
<1> QED
  BY <1>9, <1>10, <1>11, InCallback, InductivePartsNext

\* What comes from outside keeps the stack and what the sources said.
LEMMA OutsideInductive ==
    ASSUME Inductive, TimePasses \/ ServerSends \/ DataArrives
    PROVE  Inductive'
<1>1. StackOK /\ RestOK /\ RoundOK
  BY InductiveParts
<1>2. /\ UNCHANGED <<frames, queue, mode, blockTime, xlib, idle, signals, dies>>
      /\ timer' = timer \/ (timer = "later" /\ timer' = "due")
      /\ asked' = asked \/ asked > 0
      /\ RestOK'
  <2>1. CASE TimePasses
    BY <2>1, <1>1 DEF TimePasses, RestOK, server, counts
  <2>2. CASE ServerSends
    BY <2>2, <1>1 DEF ServerSends, RestOK, counts
  <2>3. CASE DataArrives
    BY <2>3, <1>1 DEF DataArrives, RestOK, server, counts
  <2> QED
    BY <2>1, <2>2, <2>3
<1>3. RestOK'
  BY <1>2
<1>4. StackOK'
  BY <1>1, <1>2 DEF StackOK, NestsInCallbacks, ModesNest
<1>5. SourcesAsked'
  BY <1>1, <1>2 DEF RoundOK, SourcesAsked, At, Top, NothingToServe, Willing, Kind
<1>6. UpdateProgress'
  <2>1. asked = 0 => asked' = 0
    BY <1>1, <1>2 DEF RestOK
  <2> QED
    BY <1>1, <1>2, <2>1 DEF RoundOK, UpdateProgress, Top
<1> QED
  BY <1>3, <1>4, <1>5, <1>6, InductivePartsNext DEF RoundOK

-----------------------------------------------------------------------------
\* The queue.

LEMMA WindowsType ==
    ASSUME NEW n \in Nat
    PROVE  Windows(n) \in Seq(Event)
<1>1. Windows(n) \in [1 .. n -> Event]
  BY DEF Windows, Event
<1> QED
  BY <1>1, SeqDef

LEMMA ArriveType ==
    ASSUME RestOK, NEW on, NEW found, Arrive(on, found)
    PROVE  /\ queue' \in Seq(Event)
           /\ xlib' \in Nat
           /\ "window" \in on => xlib' = 0
<1>1. <<>> \in Seq(Event) /\ <<"file">> \in Seq(Event) /\ <<"xfile">> \in Seq(Event)
      /\ <<"timer">> \in Seq(Event)
  BY DEF Event
<1>2. CheckTimer(on, found) \in Seq(Event)
  BY <1>1 DEF CheckTimer
<1>3. Windows(xlib) \in Seq(Event)
  BY WindowsType DEF RestOK
<1> DEFINE file == IF "file" \in found /\ ~ Queued("file") THEN <<"file">> ELSE <<>>
           xfile == IF "xfile" \in found /\ ~ Queued("xfile") THEN <<"xfile">> ELSE <<>>
           windows == IF "window" \in on THEN Windows(xlib) ELSE <<>>
<1>4. file \in Seq(Event) /\ xfile \in Seq(Event) /\ windows \in Seq(Event)
  BY <1>1, <1>3
<1>5. queue' = queue \o file \o xfile \o CheckTimer(on, found) \o windows
  BY DEF Arrive
<1>6. queue \in Seq(Event)
  BY DEF RestOK
<1> HIDE DEF file, xfile, windows
<1>7. queue \o file \in Seq(Event)
  BY <1>4, <1>6, ConcatProperties
<1>8. (queue \o file) \o xfile \in Seq(Event)
  BY <1>4, <1>7, ConcatProperties
<1>9. ((queue \o file) \o xfile) \o CheckTimer(on, found) \in Seq(Event)
  BY <1>2, <1>8, ConcatProperties
<1>10. queue' \in Seq(Event)
  BY <1>4, <1>5, <1>9, ConcatProperties
<1> QED
  BY <1>10 DEF Arrive, RestOK

-----------------------------------------------------------------------------
\* The steps of the loop.

LEMMA ServiceAllInductive ==
    ASSUME Inductive, ServiceAll
    PROVE  Inductive'
<1>1. StackOK /\ RestOK /\ Running /\ mode = "all" /\ UNCHANGED counts
  BY InductiveParts DEF ServiceAll
<1>2. Kinds \in (SUBSET Kinds) \ {{}}
  BY DEF Kinds
<1>3. Enter("all", Kinds, FALSE, "check") /\ Arrive(Kinds, {})
  BY DEF ServiceAll
<1>4. /\ StackOK'
      /\ frames' # <<>>
      /\ Top' = [caller |-> "all", on |-> Kinds, wait |-> FALSE, done |-> FALSE,
                 oldMode |-> mode, pc |-> "check"]
  BY <1>1, <1>2, <1>3, EnterMoves
<1>5. RestOK'
  BY <1>1, <1>3, ArriveType DEF RestOK, ServiceAll
<1>6. RoundOK'
  BY <1>4 DEF RoundOK, SourcesAsked, UpdateProgress, At
<1> QED
  BY <1>4, <1>5, <1>6, InductivePartsNext

LEMMA ServiceEventInductive ==
    ASSUME Inductive, NEW i \in DOMAIN queue, ServiceEvent(i)
    PROVE  Inductive'
<1>1. /\ StackOK /\ RestOK
      /\ frames # <<>>
      /\ Top.pc # "select"
      /\ UNCHANGED counts
  BY InductiveParts DEF ServiceEvent, At
<1> DEFINE others == RemoveAt(queue, i)
<1>2. others \in Seq(Event)
  BY <1>1, RemoveAtElements, LenProperties DEF RestOK
<1>3. Goto("call") /\ UNCHANGED mode => StackOK' /\ RoundOK'
  <2> SUFFICES ASSUME Goto("call"), UNCHANGED mode
               PROVE  StackOK' /\ RoundOK'
    OBVIOUS
  <2>1. StackOK' /\ Top' = [Top EXCEPT !.pc = "call"]
    BY <1>1, GotoMoves DEF Pc, counts, StackOK
  <2>2. Top \in Frame
    BY <1>1, TopOfStack DEF StackOK
  <2>3. Top'.pc \in Callback
    BY <2>1, <2>2 DEF Frame, Callback
  <2> QED
    BY <2>1, <2>3, InCallback
<1>4. Served => StackOK' /\ RoundOK'
  BY <1>1, ServedMoves
<1>5. CASE DisplayFile(others)
  <2>1. Windows(xlib + wire) \in Seq(Event)
    BY <1>1, WindowsType DEF RestOK
  <2>2. queue' \in Seq(Event)
    BY <1>2, <1>5, <2>1, ConcatProperties DEF DisplayFile
  <2>3. RestOK'
    BY <1>1, <1>5, <2>2 DEF RestOK, DisplayFile, ServiceEvent
  <2> QED
    BY <1>4, <1>5, <2>3, InductivePartsNext DEF DisplayFile
<1>6. CASE ServeTimer /\ queue' = others /\ UNCHANGED server
  <2>1. RestOK'
    BY <1>1, <1>2, <1>6 DEF RestOK, ServeTimer, ServiceEvent, server
  <2> QED
    BY <1>3, <1>4, <1>6, <2>1, InductivePartsNext DEF ServeTimer
<1>7. CASE Goto("call") /\ queue' = others /\ UNCHANGED <<server, timer, mode>>
  <2>1. RestOK'
    BY <1>1, <1>2, <1>7 DEF RestOK, ServiceEvent, server
  <2> QED
    BY <1>3, <1>7, <2>1, InductivePartsNext
<1> QED
  BY <1>5, <1>6, <1>7 DEF ServiceEvent

LEMMA CallbackReturnsInductive ==
    ASSUME Inductive, CallbackReturns
    PROVE  Inductive'
<1>1. /\ StackOK /\ RestOK
      /\ frames # <<>>
      /\ Top.pc # "select"
      /\ Served
      /\ UNCHANGED counts
  BY InductiveParts DEF CallbackReturns, At
<1>2. RestOK'
  BY <1>1 DEF CallbackReturns, RestOK, server
<1> QED
  BY <1>1, <1>2, ServedMoves, InductivePartsNext

LEMMA SetupInductive ==
    ASSUME Inductive, Setup
    PROVE  Inductive'
<1>1. StackOK /\ RestOK /\ frames # <<>> /\ Top.pc = "service" /\ NothingToServe
  BY InductiveParts DEF Setup, At
<1>2. /\ Goto("select")
      /\ UNCHANGED <<queue, mode, asked, wire, xlib, ready, timer, idle, signals, dies>>
      /\ blockTime' = IF MayPoll THEN "poll"
                      ELSE IF "timer" \in Top.on /\ timer = "later" THEN "timer"
                      ELSE "none"
  BY DEF Setup, server, counts
<1>3. StackOK' /\ frames' # <<>> /\ Top' = [Top EXCEPT !.pc = "select"]
  BY <1>1, <1>2, GotoMoves DEF Pc, StackOK
<1>4. Top \in Frame
  BY <1>1, TopOfStack DEF StackOK
<1>5. /\ Top'.pc = "select"
      /\ Top'.on = Top.on
      /\ Top'.wait = Top.wait
      /\ Top'.caller = Top.caller
  BY <1>3, <1>4 DEF Frame
<1>6. RestOK'
  BY <1>1, <1>2 DEF RestOK, Setup
<1>7. SourcesAsked'
  <2>1. NothingToServe'
    BY <1>1, <1>2, <1>5 DEF NothingToServe, Willing, Kind
  <2>2. blockTime' # "poll" =>
          /\ Top.wait
          /\ "window" \in Top.on => xlib = 0
          /\ "idle" \in Top.on => ~ idle
          /\ "timer" \in Top.on /\ timer # "none" => blockTime' = "timer"
    BY <1>1, <1>2 DEF MayPoll, RestOK
  <2> QED
    BY <2>1, <2>2, <1>2, <1>5 DEF SourcesAsked
<1>8. UpdateProgress'
  <2>1. UpdateProgress /\ Top.pc \notin Callback /\ Top'.pc \notin Callback
    BY <1>1, <1>5, InductiveParts DEF RoundOK, Callback
  <2> QED
    BY <2>1, <1>1, <1>2, <1>5 DEF UpdateProgress
<1> QED
  BY <1>3, <1>6, <1>7, <1>8, InductivePartsNext DEF RoundOK

\* Both ways out of Tcl_WaitForEvent.
LEMMA WaitForEventReturns ==
    ASSUME Inductive, frames # <<>>, Top.pc \in {"select", "signal"}, NEW found,
           Goto("check"), Arrive(Top.on, found), ReadLater(found) \subseteq found,
           found \subseteq {"file", "xfile"}, masks' = ReadLater(found),
           blockTime' \in {"none", "timer", "poll"},
           UNCHANGED <<mode, asked, wire, ready, timer, idle, signals, dies>>
    PROVE  Inductive'
<1>1. StackOK /\ RestOK /\ RoundOK
  BY InductiveParts
<1>2. StackOK' /\ frames' # <<>> /\ Top' = [Top EXCEPT !.pc = "check"]
  BY <1>1, GotoMoves DEF Pc, StackOK
<1>3. Top \in Frame
  BY <1>1, TopOfStack DEF StackOK
<1>4. Top'.pc = "check" /\ Top'.on = Top.on /\ Top'.caller = Top.caller
  BY <1>2, <1>3 DEF Frame
<1>5. queue' \in Seq(Event) /\ xlib' \in Nat /\ ("window" \in Top.on => xlib' = 0)
  BY <1>1, ArriveType
<1>6. RestOK'
  BY <1>1, <1>5 DEF RestOK
<1>7. Top.pc = "signal" => signals > 0
  BY <1>1, TopOfStack DEF StackOK, NestsInCallbacks, Top
<1>8. Top.caller = "sync" /\ signals = 0 => asked = 0
  BY <1>1, <1>7 DEF RoundOK, UpdateProgress, Callback, StackOK
<1>9. RoundOK'
  BY <1>4, <1>5, <1>8 DEF RoundOK, SourcesAsked, UpdateProgress, At
<1> QED
  BY <1>2, <1>6, <1>9, InductivePartsNext

LEMMA SelectInductive ==
    ASSUME Inductive, Select \/ SignalReturns
    PROVE  Inductive'
<1>1. RestOK
  BY InductiveParts
<1>2. \A found : ReadLater(found) \subseteq found
  BY DEF ReadLater
<1>3. Readable \subseteq {"file", "xfile"} /\ masks \subseteq {"file", "xfile"}
  BY <1>1 DEF Readable, RestOK
<1>4. CASE Select
  <2>1. /\ frames # <<>>
        /\ Top.pc \in {"select", "signal"}
        /\ Goto("check")
        /\ Arrive(Top.on, Readable)
        /\ masks' = ReadLater(Readable)
        /\ blockTime' \in {"none", "timer", "poll"}
        /\ UNCHANGED <<mode, asked, wire, ready, timer, idle, signals, dies>>
    BY <1>4 DEF Select, At, counts
  <2> QED
    BY <2>1, <1>2, <1>3, WaitForEventReturns
<1>5. CASE SignalReturns
  <2>1. /\ frames # <<>>
        /\ Top.pc \in {"select", "signal"}
        /\ Goto("check")
        /\ Arrive(Top.on, masks)
        /\ masks' = ReadLater(masks)
        /\ blockTime' \in {"none", "timer", "poll"}
        /\ UNCHANGED <<mode, asked, wire, ready, timer, idle, signals, dies>>
    BY <1>1, <1>5 DEF SignalReturns, At, counts, RestOK
  <2> QED
    BY <2>1, <1>2, <1>3, WaitForEventReturns
<1> QED
  BY <1>4, <1>5

LEMMA InterruptInductive ==
    ASSUME Inductive, Interrupt
    PROVE  Inductive'
<1>1. StackOK /\ RestOK /\ frames # <<>>
  BY InductiveParts DEF Interrupt, At
<1>2. /\ Goto("signal")
      /\ signals' = signals + 1
      /\ signals' \in Nat
      /\ signals' >= signals
      /\ signals' > 0
      /\ mode' = mode
      /\ dies' = dies
  BY <1>1 DEF Interrupt, StackOK
<1>3. StackOK' /\ frames' # <<>> /\ Top' = [Top EXCEPT !.pc = "signal"]
  BY <1>1, <1>2, GotoMoves DEF Pc
<1>4. Top \in Frame
  BY <1>1, TopOfStack DEF StackOK
<1>5. Top'.pc \in Callback
  BY <1>3, <1>4 DEF Frame, Callback
<1>6. RestOK'
  BY <1>1 DEF Interrupt, RestOK, server
<1> QED
  BY <1>3, <1>5, <1>6, InCallback, InductivePartsNext

LEMMA NothingFoundInductive ==
    ASSUME Inductive, NothingFound
    PROVE  Inductive'
<1>1. StackOK /\ RestOK /\ RoundOK /\ frames # <<>> /\ Top.pc = "check"
      /\ NothingToServe
  BY InductiveParts DEF NothingFound, At
<1>2. /\ Goto("idle")
      /\ UNCHANGED <<queue, mode, blockTime, masks, asked, wire, xlib, ready, timer,
                     idle, signals, dies>>
  BY DEF NothingFound, server, counts
<1>3. StackOK' /\ frames' # <<>> /\ Top' = [Top EXCEPT !.pc = "idle"]
  BY <1>1, <1>2, GotoMoves DEF Pc, StackOK
<1>4. Top \in Frame
  BY <1>1, TopOfStack DEF StackOK
<1>5. Top'.pc = "idle" /\ Top'.on = Top.on /\ Top'.caller = Top.caller
  BY <1>3, <1>4 DEF Frame
<1>6. RestOK'
  BY <1>1, <1>2 DEF RestOK
<1>7. Top.on = Kinds => queue = <<>>
  <2> SUFFICES ASSUME Top.on = Kinds, queue # <<>>
               PROVE  FALSE
    OBVIOUS
  <2>1. queue \in Seq(Event) /\ Len(queue) \in Nat \ {0}
    BY <1>1, EmptySeq DEF RestOK
  <2>2. 1 \in DOMAIN queue /\ queue[1] \in Event
    BY <2>1, LenProperties, ElementOfSeq
  <2>3. Kind(queue[1]) \in Kinds
    BY <2>2 DEF Kind, Event, Kinds
  <2> QED
    BY <2>2, <2>3, <1>1 DEF NothingToServe, Willing
<1>8. RoundOK'
  BY <1>1, <1>2, <1>5, <1>7 DEF RoundOK, SourcesAsked, UpdateProgress, At, Callback
<1> QED
  BY <1>3, <1>6, <1>8, InductivePartsNext

LEMMA ServiceIdleInductive ==
    ASSUME Inductive, ServiceIdle
    PROVE  Inductive'
<1>1. StackOK /\ RestOK /\ frames # <<>>
  BY InductiveParts DEF ServiceIdle, At
<1>2. Goto("idlecall") /\ UNCHANGED <<mode, signals, dies>>
  BY DEF ServiceIdle, counts
<1>3. StackOK' /\ Top' = [Top EXCEPT !.pc = "idlecall"]
  BY <1>1, <1>2, GotoMoves DEF Pc, StackOK
<1>4. Top \in Frame
  BY <1>1, TopOfStack DEF StackOK
<1>5. Top'.pc \in Callback
  BY <1>3, <1>4 DEF Frame, Callback
<1>6. RestOK'
  BY <1>1 DEF ServiceIdle, RestOK, server
<1> QED
  BY <1>3, <1>5, <1>6, InCallback, InductivePartsNext

LEMMA NothingDoneInductive ==
    ASSUME Inductive, NothingDone
    PROVE  Inductive'
<1>1. StackOK /\ RestOK /\ RoundOK /\ frames # <<>> /\ Top.pc = "idle"
      /\ UNCHANGED counts
  BY InductiveParts DEF NothingDone, At
<1>2. Top \in Frame
  BY <1>1, TopOfStack DEF StackOK
<1>3. /\ UNCHANGED <<queue, blockTime, masks, ready, timer, idle>>
      /\ RoundTrip \/ UNCHANGED server
  BY DEF NothingDone
<1>4. RestOK'
  <2>1. CASE RoundTrip
    BY <2>1, <1>1, <1>3 DEF RestOK, RoundTrip
  <2>2. CASE UNCHANGED server
    BY <2>2, <1>1, <1>3 DEF RestOK, server
  <2> QED
    BY <2>1, <2>2, <1>3
<1>5. CASE Goto("service") /\ UNCHANGED <<mode, server>>
  <2>1. StackOK' /\ frames' # <<>> /\ Top' = [Top EXCEPT !.pc = "service"]
    BY <1>1, <1>5, GotoMoves DEF Pc, StackOK, counts
  <2>2. Top'.pc = "service" /\ Top'.on = Top.on /\ Top'.caller = Top.caller
    BY <2>1, <1>2 DEF Frame
  <2>3. RoundOK'
    BY <1>1, <1>5, <2>2 DEF RoundOK, SourcesAsked, UpdateProgress, At, Callback,
                            counts, server
  <2> QED
    BY <1>4, <2>1, <2>3, InductivePartsNext
<1>6. CASE RoundTrip /\ Again("sync")
  <2>1. /\ StackOK'
        /\ frames' # <<>>
        /\ Top' = [Top EXCEPT !.caller = "sync", !.pc = First(Top.on)]
    BY <1>1, <1>6, AgainMoves
  <2>2. Top'.pc = First(Top.on) /\ Top'.on = Top.on
    BY <2>1, <1>2 DEF Frame
  <2>3. /\ Top'.pc # "select"
        /\ Top'.pc # "check"
        /\ Top'.pc = "idle" => Top'.on = {"idle"}
    BY <2>2 DEF First
  <2>4. RoundOK'
    BY <1>6, <2>2, <2>3 DEF RoundOK, SourcesAsked, UpdateProgress, At, Kinds, RoundTrip
  <2> QED
    BY <1>4, <2>1, <2>4, InductivePartsNext
<1>7. CASE Pop
  BY <1>1, <1>4, <1>7, PopMoves, InductivePartsNext
<1> QED
  BY <1>5, <1>6, <1>7 DEF NothingDone

-----------------------------------------------------------------------------
LEMMA InitInductive == Init => Inductive
<1> SUFFICES ASSUME Init
             PROVE  Inductive
  OBVIOUS
<1>1. frames = <<>> /\ queue = <<>>
  BY DEF Init
<1>2. TypeOK
  BY <1>1, EmptySeq DEF Init, TypeOK
<1>3. NestsInCallbacks /\ ModesNest /\ SourcesAsked /\ UpdateProgress
  BY <1>1 DEF Init, NestsInCallbacks, ModesNest, SourcesAsked, UpdateProgress, At
<1> QED
  BY <1>2, <1>3 DEF Inductive

LEMMA StepInductive == Inductive /\ [Next]_vars => Inductive'
<1> SUFFICES ASSUME Inductive, [Next]_vars
             PROVE  Inductive'
  OBVIOUS
<1>1. CASE Program
  BY <1>1, DoOneEventInductive, ProgramWithoutLoops, FinishInductive, DieInductive,
     ServiceAllInductive DEF Program
<1>2. CASE Outside
  BY <1>2, OutsideInductive, InterruptInductive DEF Outside
<1>3. CASE Loop
  BY <1>3, ServiceEventInductive, SetupInductive, SelectInductive, NothingFoundInductive,
     ServiceIdleInductive, NothingDoneInductive DEF Loop
<1>4. CASE Return
  BY <1>4, CallbackReturnsInductive, SelectInductive DEF Return
<1>5. CASE UNCHANGED vars
  <2>1. UNCHANGED <<frames, queue, mode, blockTime, masks, asked, wire, xlib, ready,
                    timer, idle, signals, dies>>
    BY <1>5 DEF vars, server, counts
  <2> QED
    BY <2>1 DEF Inductive, TypeOK, NestsInCallbacks, ModesNest, SourcesAsked,
                UpdateProgress, At, Top, NothingToServe, Willing, Kind
<1> QED
  BY <1>1, <1>2, <1>3, <1>4, <1>5 DEF Next

(***************************************************************************)
(* What the sources said before select stays true until select returns,    *)
(* because only a callback could change it and loops nest in callbacks.    *)
(***************************************************************************)
THEOREM InductiveInvariant == Spec => []Inductive
  BY InitInductive, StepInductive, PTL DEF Spec

\* Every variable keeps its type, for any depth and any flags.
THEOREM TypeCorrect == Spec => []TypeOK
<1>1. Inductive => TypeOK
  BY DEF Inductive
<1> QED
  BY <1>1, InductiveInvariant, PTL

\* select never sleeps while the innermost loop has something to serve.
THEOREM NoLostWakeup == Spec => []NeverSleepsOnWork
<1>1. Inductive => NeverSleepsOnWork
  BY DEF Inductive, SourcesAsked, NeverSleepsOnWork, Sleeping
<1> QED
  BY <1>1, InductiveInvariant, PTL

\* The service mode is ALL only outside of every loop, and again ALL when the
\* last loop has returned, so that Tcl_ServiceAll is never nested in a loop.
THEOREM ModeTellsLoops == Spec => []ModeMeansLoop
<1>1. Inductive => ModeMeansLoop
  BY DEF Inductive, ModesNest, ModeMeansLoop
<1> QED
  BY <1>1, InductiveInvariant, PTL

-----------------------------------------------------------------------------
LEMMA SameDepth ==
    ASSUME frames \in Seq(Frame), frames # <<>>, NEW f \in Frame,
           frames' = [frames EXCEPT ![Len(frames)] = f]
    PROVE  ~ (Len(frames') < Len(frames))
<1>1. Len(frames) \in Nat \ {0} /\ Len(frames) \in 1 .. Len(frames)
  BY TopOfStack
<1>2. Len(frames') = Len(frames)
  BY <1>1, ExceptSeq
<1> QED
  BY <1>1, <1>2

\* Only the round that follows XSync and found nothing ends an update.
LEMMA EndOfUpdate ==
    ASSUME Inductive, Next, UpdateEnds
    PROVE  /\ Top.caller = "sync"
           /\ ~ ("idle" \in Top.on /\ idle)
           /\ UNCHANGED <<queue, idle, server>>
<1>1. /\ StackOK
      /\ frames # <<>>
      /\ Top.pc = "idle"
      /\ Top.caller \in {"update", "sync"}
      /\ Len(frames') < Len(frames)
  BY InductiveParts DEF UpdateEnds, At
<1>2. frames \in Seq(Frame) /\ Top \in Frame
  BY <1>1, TopOfStack DEF StackOK
<1>3. ~ (Len(frames) < Len(frames))
  BY <1>1, TopOfStack DEF StackOK
<1>4. \A pc \in Pc : ~ Goto(pc)
  <2> SUFFICES ASSUME NEW pc \in Pc, Goto(pc)
               PROVE  FALSE
    OBVIOUS
  <2>1. [Top EXCEPT !.pc = pc] \in Frame
    BY <1>2 DEF Frame, Pc
  <2>2. frames' = [frames EXCEPT ![Len(frames)] = [Top EXCEPT !.pc = pc]]
    BY DEF Goto, Top
  <2> QED
    BY <2>1, <2>2, <1>1, <1>2, SameDepth
<1>5. ~ Again("sync")
  <2> SUFFICES ASSUME Again("sync")
               PROVE  FALSE
    OBVIOUS
  <2> DEFINE f == [Top EXCEPT !.caller = "sync", !.pc = First(Top.on)]
  <2>1. f \in Frame
    BY <1>2 DEF Frame, First
  <2>2. frames' = [frames EXCEPT ![Len(frames)] = f]
    BY DEF Again, Top
  <2> HIDE DEF f
  <2> QED
    BY <2>1, <2>2, <1>1, <1>2, SameDepth
<1>6. ~ Program
  <2>1. ~ Running
    BY <1>1 DEF Running, Callback
  <2> QED
    BY <2>1 DEF Program, DoOneEvent, Register, Read, Request, Ask, Finish, Die, ServiceAll
<1>7. ~ Outside
  BY <1>1, <1>3 DEF Outside, TimePasses, ServerSends, DataArrives, Interrupt, At
<1>8. ~ Return
  BY <1>1 DEF Return, CallbackReturns, SignalReturns, At
<1>9. NothingDone
  <2>1. ~ ServiceIdle
    BY <1>4 DEF ServiceIdle, Pc
  <2>2. ~ (\E i \in DOMAIN queue : ServiceEvent(i)) /\ ~ Setup /\ ~ Select /\ ~ NothingFound
    BY <1>1 DEF ServiceEvent, Setup, Select, NothingFound, At
  <2> QED
    BY <2>1, <2>2, <1>6, <1>7, <1>8 DEF Next, Loop
<1>10. ~ Goto("service")
  BY <1>4 DEF Pc
<1> QED
  BY <1>1, <1>5, <1>9, <1>10 DEF NothingDone

\* update and update idletasks leave nothing behind that they were to serve.
THEOREM UpdateIsThorough == Spec => UpdateLeavesNothing
<1>1. Inductive /\ [Next]_vars =>
        [UpdateEnds =>
            /\ "idle" \in Top.on => ~ idle'
            /\ Top.on = Kinds => queue' = <<>> /\ xlib' = 0
            /\ signals = 0 => asked' = 0]_vars
  <2> SUFFICES ASSUME Inductive, Next, UpdateEnds
               PROVE  /\ "idle" \in Top.on => ~ idle'
                      /\ Top.on = Kinds => queue' = <<>> /\ xlib' = 0
                      /\ signals = 0 => asked' = 0
    OBVIOUS
  <2>1. /\ Top.caller = "sync"
        /\ ~ ("idle" \in Top.on /\ idle)
        /\ UNCHANGED <<queue, idle, server>>
    BY EndOfUpdate
  <2>2. frames # <<>> /\ Top.pc = "idle" /\ UpdateProgress
    BY InductiveParts DEF UpdateEnds, At, RoundOK
  <2> QED
    BY <2>1, <2>2 DEF UpdateProgress, server, Kinds, Callback
<1> QED
  BY <1>1, InductiveInvariant, PTL DEF Spec, UpdateLeavesNothing
=============================================================================
