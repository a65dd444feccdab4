---------------------------- MODULE FileEventProofs ----------------------------
(***************************************************************************)
(* For every number of objects, every way to open and close the handle,    *)
(* every nesting, and any number of exceptions and croaks: an object       *)
(* watches what it waits for and handles unless PerlIO_watch refuses it,   *)
(* the notifier only knows objects that are alive, and waits nest.         *)
(***************************************************************************)
EXTENDS FileEvent, ListLemmas, FiniteSetTheorems

USE ModeAssumption, MaxTiesAssumption, NULLAssumption

-----------------------------------------------------------------------------
\* The fields of a handler record.
LEMMA HandlerFields ==
    ASSUME NEW r \in PerlIOHandler
    PROVE  /\ r.ready \subseteq Mode /\ r.wait \subseteq Mode /\ r.handler \subseteq Mode
           /\ r.calling \subseteq Mode /\ r.mask \subseteq Mode /\ r.callback \subseteq Mode
           /\ r.pending \in BOOLEAN /\ r.croaked \in BOOLEAN
  BY DEF PerlIOHandler

LEMMA FreshFields ==
    /\ Fresh \in PerlIOHandler
    /\ Fresh.mask = {} /\ Fresh.wait = {} /\ Fresh.handler = {} /\ Fresh.ready = {}
    /\ Fresh.pending = FALSE /\ Fresh.croaked = FALSE
    /\ Wanted(Fresh) = {}
  BY DEF Fresh, PerlIOHandler, Wanted

\* PerlIO_watch never refuses an empty mask, nor less than it accepts.
LEMMA AcceptsLess ==
    ASSUME TypeOK
    PROVE  /\ {} \in accepts
           /\ \A mask \in accepts : \A less \in SUBSET mask : less \in accepts
<1>1. CASE accepts \in Openings
  BY <1>1, OpeningsAssumption
<1>2. CASE accepts = {{}}
  BY <1>2
<1> QED
  BY <1>1, <1>2 DEF TypeOK

\* PerlIO_watch changes the mask, or croaks.
LEMMA WatchedFields ==
    ASSUME NEW r \in PerlIOHandler
    PROVE  /\ Watched(r) \in PerlIOHandler
           /\ Watched(r).mask = IF Refused(r) THEN r.mask ELSE Wanted(r)
           /\ Watched(r).croaked = (r.croaked \/ Refused(r))
           /\ Wanted(Watched(r)) = Wanted(r)
           /\ Watched(r).pending = r.pending
           /\ Watched(r).wait = r.wait
           /\ Wanted(r) \subseteq Mode
<1>1. CASE Refused(r)
  BY <1>1, HandlerFields DEF Watched, Wanted, PerlIOHandler
<1>2. CASE ~ Refused(r)
  BY <1>2, HandlerFields DEF Watched, Wanted, PerlIOHandler
<1> QED
  BY <1>1, <1>2

\* What PerlIO_DESTROY watches.
LEMMA UnwatchedFields ==
    ASSUME TypeOK, NEW r \in PerlIOHandler
    PROVE  /\ Unwatched(r) \in PerlIOHandler
           /\ Unwatched(r).mask = r.mask /\ Wanted(Unwatched(r)) = {}
           /\ Unwatched(r).pending = r.pending /\ Unwatched(r).wait = {}
           /\ Unwatched(r).croaked = r.croaked
           /\ ~ Refused(Unwatched(r))
<1>1. /\ Unwatched(r) \in PerlIOHandler
      /\ Unwatched(r).mask = r.mask /\ Wanted(Unwatched(r)) = {}
      /\ Unwatched(r).pending = r.pending /\ Unwatched(r).wait = {}
      /\ Unwatched(r).croaked = r.croaked
  BY DEF Unwatched, Wanted, PerlIOHandler
<1> QED
  BY <1>1, AcceptsLess DEF Refused

\* The handler h of the notifier is as it should be when o has the record r.
Sound(h, o, r) ==
    open /\ h # NULL =>
        /\ h.owner \in live
        /\ h.mask # {}
        /\ h.mask = IF h.owner = o THEN r.mask ELSE obj[h.owner].mask

\* No object's mask is astray when o has the record r.
LEMMA MasksKept ==
    ASSUME Inductive, NEW o \in Object, accepts' = accepts,
           \A p \in Object : p # o => obj'[p] = obj[p],
           obj'[o].mask # Wanted(obj'[o]) => Refused(obj'[o]) /\ obj'[o].croaked
    PROVE  MaskAgrees'
<1>1. ASSUME NEW p \in Object, obj'[p].mask # Wanted(obj'[p])
      PROVE  Wanted(obj'[p]) \notin accepts' /\ obj'[p].croaked
  <2>1. CASE p = o
    BY <1>1, <2>1 DEF Refused
  <2>2. CASE p # o
    BY <1>1, <2>2 DEF Inductive, MaskAgrees, Refused
  <2> QED
    BY <2>1, <2>2
<1>2. \A p \in Object : Wanted(obj'[p]) = Wanted(obj[p])'
  BY DEF Wanted
<1> QED
  BY <1>1, <1>2 DEF MaskAgrees, Refused, Wanted

\* PerlIO_DESTROY takes the object's handler away from the notifier.
LEMMA DestroyEffect ==
    ASSUME Inductive, NEW o \in live, NEW r \in PerlIOHandler,
           NEW h \in FileHandler \cup {NULL}, Sound(h, o, r), Destroy(o, r, h),
           accepts' = accepts, open' => open
    PROVE  /\ obj' \in [Object -> PerlIOHandler]
           /\ fileHandler' \in FileHandler \cup {NULL}
           /\ live' = live \ {o}
           /\ \A p \in Object : p # o => obj'[p] = obj[p]
           /\ obj'[o] = Fresh
           /\ MaskAgrees' /\ OwnerAlive'
<1>1. /\ obj \in [Object -> PerlIOHandler] /\ live \subseteq Object /\ o \in Object
      /\ TypeOK
  BY DEF Inductive, TypeOK
<1>2. /\ obj' = [obj EXCEPT ![o] = Fresh] /\ live' = live \ {o}
      /\ fileHandler' = Notified(h, o, Unwatched(r))
  BY DEF Destroy
<1>3. /\ obj' \in [Object -> PerlIOHandler]
      /\ \A p \in Object : p # o => obj'[p] = obj[p]
      /\ obj'[o] = Fresh
  BY <1>1, <1>2, FreshFields
<1>4. MaskAgrees'
  BY <1>1, <1>3, FreshFields, MasksKept
<1>5. fileHandler' = IF ~ open \/ r.mask = {} THEN h ELSE NULL
  BY <1>1, <1>2, UnwatchedFields DEF Notified, DeleteFileHandler
<1>6. ASSUME open', fileHandler' # NULL
      PROVE  /\ fileHandler'.owner \in live'
             /\ fileHandler'.mask = obj'[fileHandler'.owner].mask
             /\ fileHandler'.mask # {}
  <2>1. open /\ fileHandler' = h /\ r.mask = {} /\ h # NULL
    BY <1>5, <1>6
  <2>2. /\ h.owner \in live /\ h.mask # {}
        /\ h.mask = IF h.owner = o THEN r.mask ELSE obj[h.owner].mask
    BY <2>1 DEF Sound
  <2>3. h.owner # o
    BY <2>1, <2>2
  <2> QED
    BY <1>1, <1>2, <1>3, <2>1, <2>2, <2>3
<1>7. OwnerAlive'
  BY <1>6 DEF OwnerAlive
<1> QED
  BY <1>2, <1>3, <1>4, <1>5, <1>7

\* PerlIO_watch leaves the notifier with the handler of a live object, or none.
LEMMA NotifiedSound ==
    ASSUME Inductive, NEW o \in live, NEW r \in PerlIOHandler, r.mask = obj[o].mask,
           NEW h, h = Notified(fileHandler, o, r)
    PROVE  h \in FileHandler \cup {NULL} /\ Sound(h, o, Watched(r))
<1>1. /\ o \in Object /\ fileHandler \in FileHandler \cup {NULL}
      /\ Wanted(r) \subseteq Mode
  BY WatchedFields DEF Inductive, TypeOK
<1>2. /\ CreateFileHandler(o, Wanted(r)) \in FileHandler
      /\ CreateFileHandler(o, Wanted(r)).owner = o
      /\ CreateFileHandler(o, Wanted(r)).mask = Wanted(r)
  BY <1>1 DEF CreateFileHandler, FileHandler
<1>3. open /\ fileHandler # NULL =>
        /\ fileHandler.owner \in live
        /\ fileHandler.mask = obj[fileHandler.owner].mask
        /\ fileHandler.mask # {}
  BY DEF Inductive, OwnerAlive
<1>4. CASE Refused(r) \/ ~ open \/ r.mask = Wanted(r)
  <2>1. h = fileHandler
    BY <1>4 DEF Notified
  <2>2. open => Watched(r).mask = r.mask
    BY <1>4, WatchedFields
  <2> QED
    BY <1>1, <1>3, <2>1, <2>2 DEF Sound
<1>5. CASE ~ (Refused(r) \/ ~ open \/ r.mask = Wanted(r))
  <2>1. h = IF Wanted(r) = {} THEN NULL ELSE CreateFileHandler(o, Wanted(r))
    BY <1>5 DEF Notified, DeleteFileHandler
  <2>2. Watched(r).mask = Wanted(r)
    BY <1>5, WatchedFields
  <2> QED
    BY <1>2, <2>1, <2>2 DEF Sound
<1> QED
  BY <1>4, <1>5

LEMMA UpdateEffect ==
    ASSUME Inductive, NEW o \in live, NEW r \in PerlIOHandler, r.mask = obj[o].mask,
           NEW held \in BOOLEAN, Update(o, r, held), accepts' = accepts, open' => open
    PROVE  /\ obj' \in [Object -> PerlIOHandler]
           /\ fileHandler' \in FileHandler \cup {NULL}
           /\ live' = IF held THEN live ELSE live \ {o}
           /\ \A p \in Object : p # o => obj'[p] = obj[p]
           /\ obj'[o] = IF held THEN Watched(r) ELSE Fresh
           /\ MaskAgrees' /\ OwnerAlive'
<1> DEFINE h == Notified(fileHandler, o, r)
           w == Watched(r)
<1>1. /\ obj \in [Object -> PerlIOHandler] /\ live \subseteq Object /\ o \in Object
  BY DEF Inductive, TypeOK
<1>2. h \in FileHandler \cup {NULL} /\ Sound(h, o, w)
  BY NotifiedSound
<1>3. /\ w \in PerlIOHandler
      /\ w.mask # Wanted(w) => Refused(w) /\ w.croaked
  BY WatchedFields DEF Refused
<1>4. CASE ~ held
  <2>1. Destroy(o, w, h)
    BY <1>4 DEF Update
  <2> HIDE DEF h, w
  <2> QED
    BY <1>2, <1>3, <1>4, <2>1, DestroyEffect
<1>5. CASE held
  <2>1. obj' = [obj EXCEPT ![o] = w] /\ fileHandler' = h /\ live' = live
    BY <1>5 DEF Update
  <2> HIDE DEF h, w
  <2>2. /\ obj' \in [Object -> PerlIOHandler]
        /\ \A p \in Object : p # o => obj'[p] = obj[p]
        /\ obj'[o] = w
    BY <1>1, <1>3, <2>1
  <2>3. MaskAgrees'
    BY <1>1, <1>3, <2>2, MasksKept
  <2>4. OwnerAlive'
    BY <1>1, <1>2, <2>1, <2>2 DEF OwnerAlive, Sound
  <2> QED
    BY <1>2, <1>5, <2>1, <2>2, <2>3, <2>4 DEF w
<1> QED
  BY <1>4, <1>5

-----------------------------------------------------------------------------
\* Who is referred to by a stack with one more frame, or one less.

LEMMA PushReferences ==
    ASSUME NEW st \in Seq(Frame), NEW f \in Frame, NEW leaks, NEW p
    PROVE  /\ Append(st, f) \in Seq(Frame)
           /\ Referenced(p, Append(st, f), leaks) <=> Referenced(p, st, leaks) \/ p = f.object
<1>1. /\ Append(st, f) \in Seq(Frame)
      /\ Len(st) \in Nat /\ DOMAIN st = 1 .. Len(st)
      /\ DOMAIN Append(st, f) = 1 .. Len(st) + 1
      /\ \A i \in DOMAIN st : Append(st, f)[i] = st[i]
      /\ Append(st, f)[Len(st) + 1] = f
  BY AppendProperties, LenProperties
<1> QED
  BY <1>1 DEF Referenced

LEMMA PopReferences ==
    ASSUME NEW st \in Seq(Frame), st # <<>>, NEW leaks, NEW p
    PROVE  /\ Front(st) \in Seq(Frame)
           /\ st[Len(st)] \in Frame
           /\ Referenced(p, st, leaks) <=>
                Referenced(p, Front(st), leaks) \/ p = st[Len(st)].object
<1>1. /\ Front(st) \in Seq(Frame)
      /\ Len(st) \in Nat \ {0} /\ DOMAIN st = 1 .. Len(st)
      /\ DOMAIN Front(st) = 1 .. Len(st) - 1
      /\ \A i \in 1 .. Len(st) - 1 : Front(st)[i] = st[i]
      /\ st[Len(st)] \in Frame
  BY FrontOfStack, LenProperties
<1> QED
  BY <1>1 DEF Referenced

\* CallNext touches one object, not what it watches, and refers to it at most.
LEMMA CallNextEffect ==
    ASSUME TypeOK, NEW o \in Object, NEW r \in PerlIOHandler, NEW rest \in SUBSET Mode,
           NEW below \in Seq(Frame), CallNext(o, r, rest, below), pinned' = pinned
    PROVE  /\ obj' \in [Object -> PerlIOHandler]
           /\ frames' \in Seq(Frame)
           /\ \A p \in Object : p # o => obj'[p] = obj[p]
           /\ obj'[o].mask = r.mask /\ Wanted(obj'[o]) = Wanted(r)
           /\ obj'[o].pending = r.pending /\ obj'[o].croaked = r.croaked
           /\ \A p : /\ Referenced(p, below, pinned) => Referenced(p, frames', pinned)
                     /\ Referenced(p, frames', pinned) =>
                          Referenced(p, below, pinned) \/ p = o
<1>1. obj \in [Object -> PerlIOHandler]
  BY DEF TypeOK
<1>2. CASE rest \cap r.callback = {}
  BY <1>1, <1>2 DEF CallNext
<1>3. CASE rest \cap r.callback # {}
  <2>1. PICK m \in rest \cap r.callback :
          /\ obj' = [obj EXCEPT ![o] = [r EXCEPT !.calling = @ \cup {m}]]
          /\ frames' = Append(below, [kind |-> "callback", object |-> o, mode |-> m,
                                      saved |-> {k \in rest : m < k}])
    BY <1>3 DEF CallNext
  <2> DEFINE f == [kind |-> "callback", object |-> o, mode |-> m,
                   saved |-> {k \in rest : m < k}]
             s == [r EXCEPT !.calling = @ \cup {m}]
  <2>2. f \in Frame /\ f.object = o
    BY HandlerFields DEF Frame
  <2>3. /\ s \in PerlIOHandler /\ s.mask = r.mask /\ Wanted(s) = Wanted(r)
        /\ s.pending = r.pending /\ s.croaked = r.croaked
    BY HandlerFields DEF PerlIOHandler, Wanted
  <2> HIDE DEF f, s
  <2>4. obj' = [obj EXCEPT ![o] = s] /\ frames' = Append(below, f)
    BY <2>1 DEF f, s
  <2>5. /\ frames' \in Seq(Frame)
        /\ \A p : Referenced(p, frames', pinned) <=> Referenced(p, below, pinned) \/ p = o
    BY <2>2, <2>4, PushReferences
  <2> QED
    BY <1>1, <2>3, <2>4, <2>5
<1> QED
  BY <1>2, <1>3

-----------------------------------------------------------------------------
\* What keeps the parts of the invariant.

\* One live object changes, but not what it watches.
LEMMA TouchKeeps ==
    ASSUME Inductive, NEW o \in live,
           \A p \in Object : p # o => obj'[p] = obj[p],
           obj'[o].mask = obj[o].mask, Wanted(obj'[o]) = Wanted(obj[o]),
           obj'[o].croaked = obj[o].croaked,
           UNCHANGED <<live, current, open, accepts>>,
           fileHandler' # NULL =>
                /\ fileHandler # NULL
                /\ fileHandler'.owner = fileHandler.owner
                /\ fileHandler'.mask = fileHandler.mask
    PROVE  /\ MaskAgrees' /\ OwnerAlive'
           /\ \A p \in Object : p \notin live => obj'[p] = Fresh
<1>1. live \subseteq Object /\ current \in Object \cup {NULL} /\ o \in Object
  BY DEF Inductive, TypeOK
<1>2. \A p \in Object : obj'[p].mask = obj[p].mask
  BY <1>1
<1>3. MaskAgrees'
  <2>1. obj'[o].mask # Wanted(obj'[o]) => Refused(obj'[o]) /\ obj'[o].croaked
    BY <1>1 DEF Inductive, MaskAgrees, Refused
  <2> QED
    BY <1>1, <2>1, MasksKept
<1>4. OwnerAlive'
  BY <1>1, <1>2 DEF Inductive, OwnerAlive
<1> QED
  BY <1>1, <1>3, <1>4 DEF Inductive, LiveIsReferenced

\* The references move, but not from or to another object.
LEMMA SameReferences ==
    ASSUME Inductive, UNCHANGED <<live, current, ties>>,
           \A p \in Object : p \notin live => obj'[p] = Fresh,
           \A p \in Object : p = current \/ Referenced(p, frames', pinned')
                             <=> p = current \/ Referenced(p, frames, pinned)
    PROVE  LiveIsReferenced'
  BY DEF Inductive, LiveIsReferenced

\* The tied object is alive.
LEMMA CurrentIsLive ==
    ASSUME Inductive, current # NULL
    PROVE  /\ current \in live /\ current \in Object /\ current = ties
           /\ obj[current] \in PerlIOHandler
  BY DEF Inductive, TypeOK, LiveIsReferenced

\* The event that a pending object waits for stays in the queue.
LEMMA PendingKept ==
    ASSUME Inductive, LiveIsReferenced', live' \subseteq Object,
           current' \in Object \cup {NULL},
           current' # NULL =>
                (obj'[current'].pending /\ ~ obj'[current'].croaked => ioEvents' > 0)
    PROVE  PendingIsQueued'
<1> SUFFICES ASSUME current' # NULL
             PROVE  /\ current' \in live' /\ \A p \in live' : p <= current'
                    /\ obj'[current'].pending /\ ~ obj'[current'].croaked => ioEvents' > 0
  BY DEF PendingIsQueued, Newest
<1>1. current' \in live' /\ current' = ties'
  BY DEF LiveIsReferenced
<1>2. \A p \in live' : p <= ties'
  BY DEF LiveIsReferenced
<1> QED
  BY <1>1, <1>2

\* What the calls of the program have in common: the tied object is updated.
LEMMA CurrentUpdated ==
    ASSUME Inductive, current # NULL, NEW r \in PerlIOHandler,
           r.mask = obj[current].mask, r.pending = obj[current].pending,
           r.croaked = obj[current].croaked,
           Update(current, r, TRUE),
           UNCHANGED <<current, ties, fileEvents, ioEvents, pinned, unwinds, accepts>>,
           open' \in BOOLEAN, open' => open, closed' \subseteq Object,
           frames' \in Seq(Frame),
           \A p : Referenced(p, frames, pinned) => Referenced(p, frames', pinned),
           \A p : Referenced(p, frames', pinned) =>
                    Referenced(p, frames, pinned) \/ p = current
    PROVE  Inductive'
<1>1. /\ current \in live /\ current \in Object /\ current = ties
      /\ obj[current] \in PerlIOHandler
  BY CurrentIsLive
<1>2. /\ obj' \in [Object -> PerlIOHandler]
      /\ fileHandler' \in FileHandler \cup {NULL}
      /\ live' = live
      /\ \A p \in Object : p # current => obj'[p] = obj[p]
      /\ obj'[current] = Watched(r)
      /\ MaskAgrees' /\ OwnerAlive'
  BY <1>1, UpdateEffect
<1>3. \A p \in Object : p \notin live => obj'[p] = Fresh
  BY <1>1, <1>2 DEF Inductive, LiveIsReferenced
<1>4. LiveIsReferenced'
  BY <1>2, <1>3, SameReferences
<1>5. TypeOK'
  BY <1>2 DEF Inductive, TypeOK
<1>6. PendingIsQueued'
  <2>1. /\ obj'[current].pending = obj[current].pending
        /\ obj[current].croaked => obj'[current].croaked
    BY <1>2, WatchedFields
  <2>2. obj[current].pending /\ ~ obj[current].croaked => ioEvents > 0
    BY DEF Inductive, PendingIsQueued
  <2> QED
    BY <1>2, <1>4, <1>5, <2>1, <2>2, PendingKept DEF TypeOK
<1> QED
  BY <1>2, <1>4, <1>5, <1>6 DEF Inductive

\* And what the ends of waits and callbacks have in common: an object that is not
\* tied any more may go with its last reference.
LEMMA ObjectGoes ==
    ASSUME Inductive, NEW o \in live, NEW r \in PerlIOHandler, NEW held \in BOOLEAN,
           obj' \in [Object -> PerlIOHandler],
           fileHandler' \in FileHandler \cup {NULL},
           live' = IF held THEN live ELSE live \ {o},
           \A p \in Object : p # o => obj'[p] = obj[p],
           obj'[o] = IF held THEN Watched(r) ELSE Fresh,
           r.pending = obj[o].pending, r.croaked = obj[o].croaked,
           MaskAgrees', OwnerAlive',
           UNCHANGED <<ties, fileEvents, ioEvents, pinned, handle, unwinds>>,
           current' \in {current, NULL}, frames' \in Seq(Frame),
           \A p : Referenced(p, frames', pinned) => Referenced(p, frames, pinned),
           \A p : p = current \/ Referenced(p, frames, pinned) =>
                    p = current' \/ Referenced(p, frames', pinned) \/ p = o,
           held <=> o = current' \/ Referenced(o, frames', pinned)
    PROVE  Inductive'
<1>1. o \in Object /\ live \subseteq Object
  BY DEF Inductive, TypeOK
<1>3. \A p \in Object : p \in live <=> p = current \/ Referenced(p, frames, pinned)
  BY DEF Inductive, LiveIsReferenced
<1>4. ASSUME NEW p \in Object
      PROVE  p \in live' <=> p = current' \/ Referenced(p, frames', pinned)
  <2>1. CASE p = o
    BY <2>1
  <2>2. CASE p # o
    <3>1. p \in live' <=> p \in live
      BY <2>2
    <3>2. p = current' => p = current
      BY DEF Object
    <3> QED
      BY <1>3, <2>2, <3>1, <3>2
  <2> QED
    BY <2>1, <2>2
<1>5. \A p \in Object : /\ p \in live' => p <= ties
                        /\ p \notin live' => obj'[p] = Fresh
  BY <1>1 DEF Inductive, LiveIsReferenced
<1>6. LiveIsReferenced'
  <2>1. current' # NULL => current' = ties'
    BY DEF Inductive, LiveIsReferenced
  <2>2. ties' = ties /\ pinned' = pinned
    OBVIOUS
  <2>3. \A p \in Object : /\ p \in live' <=> p = current' \/ Referenced(p, frames', pinned')
                          /\ p \in live' => p <= ties'
                          /\ p \notin live' => obj'[p] = Fresh
    BY <1>4, <1>5, <2>2
  <2> QED
    BY <2>1, <2>3 DEF LiveIsReferenced
<1>7. TypeOK'
  BY DEF Inductive, TypeOK, handle
<1>8. PendingIsQueued'
  <2>1. current' # NULL => current' = current /\ current \in Object
    BY DEF Inductive, TypeOK
  <2>2. current # NULL =>
            (obj'[current].pending /\ ~ obj'[current].croaked =>
                obj[current].pending /\ ~ obj[current].croaked)
    BY <2>1, WatchedFields, FreshFields DEF Inductive, TypeOK
  <2>3. current # NULL /\ obj[current].pending /\ ~ obj[current].croaked => ioEvents > 0
    BY DEF Inductive, PendingIsQueued
  <2> QED
    BY <1>6, <1>7, <2>1, <2>2, <2>3, PendingKept DEF TypeOK
<1> QED
  BY <1>6, <1>7, <1>8 DEF Inductive

LEMMA ObjectReleased ==
    ASSUME Inductive, NEW o \in live, NEW r \in PerlIOHandler,
           r.mask = obj[o].mask, r.pending = obj[o].pending, r.croaked = obj[o].croaked,
           NEW held \in BOOLEAN, Update(o, r, held),
           UNCHANGED <<ties, fileEvents, ioEvents, pinned, handle, unwinds>>,
           current' \in {current, NULL}, frames' \in Seq(Frame),
           \A p : Referenced(p, frames', pinned) => Referenced(p, frames, pinned),
           \A p : p = current \/ Referenced(p, frames, pinned) =>
                    p = current' \/ Referenced(p, frames', pinned) \/ p = o,
           held <=> o = current' \/ Referenced(o, frames', pinned)
    PROVE  Inductive'
<1>1. accepts' = accepts /\ (open' => open)
  BY DEF handle
<1>2. /\ obj' \in [Object -> PerlIOHandler]
      /\ fileHandler' \in FileHandler \cup {NULL}
      /\ live' = IF held THEN live ELSE live \ {o}
      /\ \A p \in Object : p # o => obj'[p] = obj[p]
      /\ obj'[o] = IF held THEN Watched(r) ELSE Fresh
      /\ MaskAgrees' /\ OwnerAlive'
  BY <1>1, UpdateEffect
<1> QED
  BY <1>2, ObjectGoes

-----------------------------------------------------------------------------
\* The invariant holds at the start.
LEMMA InitInductive == Init => Inductive
<1> SUFFICES ASSUME Init PROVE Inductive
  OBVIOUS
<1>1. \A p : ~ Referenced(p, frames, pinned)
  BY DEF Init, Referenced
<1>2. Fresh \in PerlIOHandler /\ Fresh.mask = Wanted(Fresh)
  BY FreshFields
<1>3. TypeOK
  <2>1. obj \in [Object -> PerlIOHandler] /\ frames \in Seq(Frame)
    BY <1>2 DEF Init
  <2>2. ties \in 0 .. MaxTies
    BY DEF Init
  <2>3. live \subseteq Object /\ pinned \subseteq Object /\ closed \subseteq Object
    BY DEF Init
  <2>4. open \in BOOLEAN /\ accepts \in Openings \cup {{{}}}
    BY DEF Init
  <2> QED
    BY <2>1, <2>2, <2>3, <2>4 DEF Init, TypeOK
<1>4. \A p \in Object : p \notin live /\ p # current /\ obj[p] = Fresh
  BY DEF Init, Object
<1>5. MaskAgrees
  BY <1>2, <1>4 DEF MaskAgrees
<1> QED
  BY <1>1, <1>3, <1>4, <1>5 DEF Init, Inductive, OwnerAlive, PendingIsQueued,
       LiveIsReferenced

\* The new object is the newest, and the notifier gets its handler, or keeps what
\* it has if PerlIO_watch croaks or finds nothing to watch.
LEMMA TieInductive ==
    ASSUME Inductive, NEW r \in PerlIOHandler, r.mask = {}, r.pending = FALSE, Tie(r)
    PROVE  Inductive'
<1> DEFINE o == ties + 1
           w == Watched(r)
<1>1. /\ obj \in [Object -> PerlIOHandler] /\ live \subseteq Object /\ ties \in Nat
      /\ current = NULL /\ ties < MaxTies /\ fileHandler \in FileHandler \cup {NULL}
  BY DEF Inductive, TypeOK, Tie
<1>2. o \in Object /\ o \notin live /\ o # NULL
  BY <1>1 DEF Object, Inductive, LiveIsReferenced
<1>4. /\ ties' = o /\ current' = o /\ live' = live \cup {o}
      /\ obj' = [obj EXCEPT ![o] = w]
      /\ fileHandler' = Notified(fileHandler, o, r)
      /\ UNCHANGED <<fileEvents, ioEvents, frames, pinned, open, accepts, closed, unwinds>>
  BY DEF Tie, handle
<1>5. /\ w \in PerlIOHandler /\ w.pending = FALSE
      /\ w.mask = IF Refused(r) THEN {} ELSE Wanted(r)
      /\ w.mask # Wanted(w) => Refused(w) /\ w.croaked
      /\ Wanted(r) \subseteq Mode
  BY WatchedFields DEF Refused
<1>6. /\ CreateFileHandler(o, Wanted(r)) \in FileHandler
      /\ CreateFileHandler(o, Wanted(r)).owner = o
      /\ CreateFileHandler(o, Wanted(r)).mask = Wanted(r)
  BY <1>2, <1>5 DEF CreateFileHandler, FileHandler
<1>3. \/ fileHandler' = fileHandler
      \/ /\ fileHandler' = CreateFileHandler(o, Wanted(r))
         /\ ~ Refused(r) /\ Wanted(r) # {}
  BY <1>4 DEF Notified
<1> HIDE DEF w
<1>7. /\ obj' \in [Object -> PerlIOHandler] /\ obj'[o] = w
      /\ \A p \in Object : p # o => obj'[p] = obj[p]
  BY <1>1, <1>2, <1>4, <1>5
<1>8. MaskAgrees'
  BY <1>2, <1>4, <1>5, <1>7, MasksKept
<1>9. OwnerAlive'
  <2>1. CASE fileHandler' = fileHandler
    <3>1. open /\ fileHandler # NULL =>
            /\ fileHandler.owner \in live
            /\ fileHandler.mask = obj[fileHandler.owner].mask
            /\ fileHandler.mask # {}
      BY DEF Inductive, OwnerAlive
    <3>2. open' /\ fileHandler' # NULL =>
            /\ fileHandler'.owner \in live'
            /\ fileHandler'.mask = obj'[fileHandler'.owner].mask
            /\ fileHandler'.mask # {}
      BY <1>1, <1>2, <1>4, <1>7, <2>1, <3>1
    <3> QED
      BY <3>2 DEF OwnerAlive
  <2>2. CASE /\ fileHandler' = CreateFileHandler(o, Wanted(r))
             /\ ~ Refused(r) /\ Wanted(r) # {}
    <3>1. /\ fileHandler'.owner = o /\ fileHandler'.mask = Wanted(r)
          /\ o \in live' /\ obj'[o].mask = Wanted(r)
      BY <1>4, <1>5, <1>6, <1>7, <2>2
    <3> QED
      BY <2>2, <3>1 DEF OwnerAlive
  <2> QED
    BY <1>3, <2>1, <2>2
<1>10. LiveIsReferenced'
  <2>1. ASSUME NEW p \in Object
        PROVE  /\ p \in live' <=> p = current' \/ Referenced(p, frames', pinned')
               /\ p \in live' => p <= ties'
               /\ p \notin live' => obj'[p] = Fresh
    <3>1. p \in live <=> Referenced(p, frames, pinned)
      BY <1>1, <1>2 DEF Inductive, LiveIsReferenced, Object
    <3>2. p \in live => p <= ties
      BY DEF Inductive, LiveIsReferenced
    <3>3. p \notin live => obj[p] = Fresh
      BY DEF Inductive, LiveIsReferenced
    <3>4. p \in Nat
      BY DEF Object
    <3> QED
      BY <1>1, <1>4, <1>7, <3>1, <3>2, <3>3, <3>4
  <2> QED
    BY <1>4, <2>1 DEF LiveIsReferenced
<1>11. TypeOK'
  <2>1. fileHandler' \in FileHandler \cup {NULL}
    BY <1>1, <1>3, <1>6
  <2>2. ties' \in 0 .. MaxTies /\ live' \subseteq Object
    BY <1>1, <1>2, <1>4
  <2> QED
    BY <1>2, <1>4, <1>7, <2>1, <2>2 DEF Inductive, TypeOK
<1>12. PendingIsQueued'
  BY <1>2, <1>4, <1>5, <1>7, <1>10, <1>11, PendingKept DEF TypeOK
<1> QED
  BY <1>8, <1>9, <1>10, <1>11, <1>12 DEF Inductive

LEMMA TieHandlerInductive ==
    ASSUME Inductive, NEW m \in Mode, TieHandler(m)
    PROVE  Inductive'
<1> DEFINE r == [Fresh EXCEPT !.handler = {m}, !.callback = {m}]
<1>1. r \in PerlIOHandler /\ r.mask = {} /\ r.pending = FALSE
  BY DEF Fresh, PerlIOHandler
<1>2. Tie(r)
  BY DEF TieHandler
<1> HIDE DEF r
<1> QED
  BY <1>1, <1>2, TieInductive

LEMMA TieQueryInductive ==
    ASSUME Inductive, TieQuery
    PROVE  Inductive'
  BY FreshFields, TieInductive DEF TieQuery

LEMMA SetHandlerInductive ==
    ASSUME Inductive, NEW m \in Mode, SetHandler(m)
    PROVE  Inductive'
<1> DEFINE r == [obj[current] EXCEPT !.handler = @ \cup {m}, !.callback = @ \cup {m}]
<1>1. obj[current] \in PerlIOHandler /\ current # NULL
  BY CurrentIsLive DEF SetHandler
<1>2. /\ r \in PerlIOHandler /\ r.mask = obj[current].mask
      /\ r.pending = obj[current].pending /\ r.croaked = obj[current].croaked
  BY <1>1, HandlerFields DEF PerlIOHandler
<1>3. /\ Update(current, r, TRUE)
      /\ UNCHANGED <<current, ties, fileEvents, ioEvents, frames, pinned, open, accepts,
                     closed, unwinds>>
  BY DEF SetHandler, handle
<1> HIDE DEF r
<1> QED
  BY <1>1, <1>2, <1>3, CurrentUpdated DEF Inductive, TypeOK

LEMMA CloseInductive ==
    ASSUME Inductive, Close
    PROVE  Inductive'
<1> DEFINE r == Unwatched(obj[current])
<1>1. /\ obj[current] \in PerlIOHandler /\ current # NULL /\ current \in Object
      /\ closed \subseteq Object /\ TypeOK
  BY CurrentIsLive DEF Close, Inductive, TypeOK
<1>2. /\ r \in PerlIOHandler /\ r.mask = obj[current].mask
      /\ r.pending = obj[current].pending /\ r.croaked = obj[current].croaked
  BY <1>1, UnwatchedFields
<1>3. /\ Update(current, r, TRUE)
      /\ closed' \subseteq Object /\ open' = FALSE
      /\ UNCHANGED <<current, ties, fileEvents, ioEvents, frames, pinned, accepts, unwinds>>
  BY <1>1 DEF Close
<1> HIDE DEF r
<1> QED
  BY <1>1, <1>2, <1>3, CurrentUpdated DEF Inductive, TypeOK

\* Without the tie, nothing but what may be watched changes.
LEMMA CloseUntiedInductive ==
    ASSUME Inductive, CloseUntied
    PROVE  Inductive'
<1>1. /\ open' = FALSE /\ accepts' = {{}}
      /\ UNCHANGED <<obj, live, current, ties, fileHandler, fileEvents, ioEvents, frames,
                     pinned, closed, unwinds>>
  BY DEF CloseUntied
<1>2. TypeOK'
  BY <1>1 DEF Inductive, TypeOK
<1>3. MaskAgrees'
  <2>1. ASSUME NEW o \in Object, obj[o].mask # Wanted(obj[o])
        PROVE  Wanted(obj[o]) \notin {{}} /\ obj[o].croaked
    BY <2>1, AcceptsLess DEF Inductive, MaskAgrees, Refused
  <2> QED
    BY <1>1, <2>1 DEF MaskAgrees, Refused, Wanted
<1>4. OwnerAlive'
  BY <1>1 DEF OwnerAlive
<1>5. PendingIsQueued' /\ LiveIsReferenced'
  BY <1>1 DEF Inductive, PendingIsQueued, LiveIsReferenced, Newest, Referenced
<1> QED
  BY <1>2, <1>3, <1>4, <1>5 DEF Inductive

\* The frame of the wait refers to the object.
LEMMA WaitInductive ==
    ASSUME Inductive, NEW m \in Mode, Wait(m)
    PROVE  Inductive'
<1> DEFINE r == [obj[current] EXCEPT !.wait = @ \cup {m}]
           f == [kind |-> "wait", object |-> current, mode |-> m,
                 saved |-> obj[current].wait \cap {m}]
<1>1. /\ obj[current] \in PerlIOHandler /\ current # NULL /\ current \in Object
      /\ frames \in Seq(Frame) /\ closed \subseteq Object
      /\ obj \in [Object -> PerlIOHandler] /\ current \in live
  BY CurrentIsLive DEF Wait, Inductive, TypeOK
<1>2. /\ r \in PerlIOHandler /\ r.mask = obj[current].mask
      /\ r.pending = obj[current].pending /\ r.croaked = obj[current].croaked
      /\ Wanted(r) = Wanted(obj[current]) \cup {m}
  BY <1>1, HandlerFields DEF PerlIOHandler, Wanted
<1>3. f \in Frame /\ f.object = current
  BY <1>1 DEF Frame
<1>4. /\ \/ /\ m \in r.mask
            /\ obj' = [obj EXCEPT ![current] = r]
            /\ frames' = Append(frames, f)
            /\ UNCHANGED <<live, fileHandler>>
         \/ /\ Update(current, r, TRUE)
            /\ frames' \in {frames, Append(frames, f)}
      /\ UNCHANGED <<current, ties, fileEvents, ioEvents, pinned, open, accepts, closed,
                     unwinds>>
  BY DEF Wait, handle
<1> HIDE DEF r, f
<1>5. /\ frames' \in Seq(Frame)
      /\ \A p : Referenced(p, frames, pinned) => Referenced(p, frames', pinned)
      /\ \A p : Referenced(p, frames', pinned) =>
                    Referenced(p, frames, pinned) \/ p = current
  <2>1. frames' \in {frames, Append(frames, f)}
    BY <1>4
  <2>2. CASE frames' = frames
    BY <1>1, <2>2
  <2>3. CASE frames' = Append(frames, f)
    BY <1>1, <1>3, <2>3, PushReferences
  <2> QED
    BY <2>1, <2>2, <2>3
<1>6. CASE Update(current, r, TRUE)
  BY <1>1, <1>2, <1>4, <1>5, <1>6, CurrentUpdated DEF Inductive, TypeOK
<1>7. CASE /\ m \in r.mask
           /\ obj' = [obj EXCEPT ![current] = r]
           /\ UNCHANGED <<live, fileHandler>>
  <2>1. /\ obj' \in [Object -> PerlIOHandler] /\ obj'[current] = r
        /\ \A p \in Object : p # current => obj'[p] = obj[p]
    BY <1>1, <1>2, <1>7
  <2>2. r.mask # Wanted(r) => Refused(r) /\ r.croaked
    <3> SUFFICES ASSUME r.mask # Wanted(r)
                 PROVE  Wanted(r) \notin accepts /\ r.croaked
      BY DEF Refused
    <3>1. obj[current].mask # Wanted(obj[current])
      BY <1>2, <1>7
    <3>2. Wanted(obj[current]) \notin accepts /\ obj[current].croaked
      BY <1>1, <3>1 DEF Inductive, MaskAgrees, Refused
    <3>3. Wanted(obj[current]) \in SUBSET Wanted(r)
      BY <1>2
    <3> QED
      BY <1>2, <3>2, <3>3, AcceptsLess DEF Inductive
  <2>3. MaskAgrees'
    BY <1>1, <1>4, <2>1, <2>2, MasksKept
  <2>4. OwnerAlive'
    <3>1. \A p \in Object : obj'[p].mask = obj[p].mask
      BY <1>2, <2>1
    <3> QED
      BY <1>1, <1>4, <1>7, <3>1 DEF Inductive, TypeOK, OwnerAlive
  <2>5. LiveIsReferenced'
    <3>1. \A p \in Object : p \notin live => obj'[p] = Fresh
      BY <1>1, <2>1 DEF Inductive, LiveIsReferenced
    <3> QED
      BY <1>4, <1>5, <1>7, <3>1, SameReferences
  <2>6. TypeOK'
    BY <1>4, <1>5, <1>7, <2>1 DEF Inductive, TypeOK
  <2>7. PendingIsQueued'
    <3>1. obj[current].pending /\ ~ obj[current].croaked => ioEvents > 0
      BY <1>1 DEF Inductive, PendingIsQueued
    <3> QED
      BY <1>2, <1>4, <2>1, <2>5, <2>6, <3>1, PendingKept DEF TypeOK
  <2> QED
    BY <2>3, <2>4, <2>5, <2>6, <2>7 DEF Inductive
<1> QED
  BY <1>4, <1>6, <1>7

\* The object goes with the tie, unless a frame or a leak refers to it, or the
\* croak of PerlIO_watch keeps the tie.
LEMMA DeleteHandlerInductive ==
    ASSUME Inductive, NEW m \in Mode, DeleteHandler(m)
    PROVE  Inductive'
<1> DEFINE r == [obj[current] EXCEPT !.handler = @ \ {m}, !.callback = @ \ {m}]
           held == Referenced(current, frames, pinned)
<1>1. /\ obj[current] \in PerlIOHandler /\ current # NULL /\ current \in Object
      /\ current \in live /\ frames \in Seq(Frame)
  BY CurrentIsLive DEF DeleteHandler, Inductive, TypeOK
<1>2. /\ r \in PerlIOHandler /\ r.mask = obj[current].mask
      /\ r.pending = obj[current].pending /\ r.croaked = obj[current].croaked
  BY <1>1, HandlerFields DEF PerlIOHandler
<1>3. /\ Update(current, r, Refused(r) \/ held)
      /\ current' = IF Refused(r) THEN current ELSE NULL
      /\ UNCHANGED <<ties, fileEvents, ioEvents, frames, pinned, handle, unwinds>>
  BY DEF DeleteHandler
<1>4. held \in BOOLEAN
  BY DEF Referenced
<1>5. CASE Refused(r)
  <2>1. Update(current, r, TRUE) /\ current' = current
    <3>1. (Refused(r) \/ held) = TRUE
      BY <1>5
    <3> HIDE DEF r, held
    <3> QED
      BY <1>3, <1>5, <3>1
  <2> HIDE DEF r, held
  <2>2. open' = open /\ accepts' = accepts /\ closed' = closed
    BY <1>3 DEF handle
  <2> QED
    BY <1>1, <1>2, <1>3, <2>1, <2>2, CurrentUpdated DEF Inductive, TypeOK
<1>6. CASE ~ Refused(r)
  <2>1. Update(current, r, held) /\ current' = NULL
    <3>1. (Refused(r) \/ held) = held
      BY <1>4, <1>6 DEF Refused
    <3> HIDE DEF r, held
    <3> QED
      BY <1>3, <1>6, <3>1
  <2>2. held <=> current = current' \/ Referenced(current, frames', pinned)
    BY <1>1, <1>3, <2>1
  <2> HIDE DEF r, held
  <2>3. \A p : Referenced(p, frames', pinned) => Referenced(p, frames, pinned)
    BY <1>3
  <2>4. \A p : p = current \/ Referenced(p, frames, pinned) =>
              p = current' \/ Referenced(p, frames', pinned) \/ p = current
    BY <1>3
  <2> QED
    BY <1>1, <1>2, <1>3, <1>4, <2>1, <2>2, <2>3, <2>4, ObjectReleased
<1> QED
  BY <1>5, <1>6

\* The frames below the innermost one refer to everything it does not refer to.
LEMMA InnermostFrame ==
    ASSUME Inductive, frames # <<>>
    PROVE  /\ Top \in Frame /\ Top.object \in live /\ Top.object \in Object
           /\ obj[Top.object] \in PerlIOHandler
           /\ Front(frames) \in Seq(Frame)
           /\ \A p : Referenced(p, frames, pinned) <=>
                    Referenced(p, Front(frames), pinned) \/ p = Top.object
<1>1. frames \in Seq(Frame)
  BY DEF Inductive, TypeOK
<1>2. /\ Top \in Frame /\ Front(frames) \in Seq(Frame)
      /\ \A p : Referenced(p, frames, pinned) <=>
               Referenced(p, Front(frames), pinned) \/ p = Top.object
  BY <1>1, PopReferences DEF Top
<1>3. Top.object \in Object
  BY <1>2 DEF Frame
<1>4. Top.object \in live
  BY <1>2, <1>3 DEF Inductive, LiveIsReferenced
<1> QED
  BY <1>2, <1>3, <1>4 DEF Inductive, TypeOK

\* Popping the innermost frame with an update of its object.
LEMMA FramePopped ==
    ASSUME Inductive, frames # <<>>, frames' = Front(frames),
           NEW r \in PerlIOHandler,
           r.mask = obj[Top.object].mask, r.pending = obj[Top.object].pending,
           r.croaked = obj[Top.object].croaked,
           NEW held \in BOOLEAN,
           held <=> Top.object = current \/ Referenced(Top.object, Front(frames), pinned),
           Update(Top.object, r, held),
           UNCHANGED <<current, ties, fileEvents, ioEvents, pinned, handle, unwinds>>
    PROVE  Inductive'
<1> DEFINE o == Top.object
<1>1. /\ o \in live
      /\ Front(frames) \in Seq(Frame)
      /\ \A p : Referenced(p, frames, pinned) <=>
               Referenced(p, Front(frames), pinned) \/ p = o
  BY InnermostFrame
<1> HIDE DEF o
<1>2. /\ r.mask = obj[o].mask /\ r.pending = obj[o].pending /\ r.croaked = obj[o].croaked
      /\ Update(o, r, held)
      /\ held <=> o = current' \/ Referenced(o, frames', pinned)
  BY DEF o
<1> QED
  BY <1>1, <1>2, ObjectReleased

LEMMA WaitReturnsInductive ==
    ASSUME Inductive, WaitReturns
    PROVE  Inductive'
<1> DEFINE o == Top.object
           m == Top.mode
           r == [obj[o] EXCEPT !.wait = (@ \ {m}) \cup Top.saved]
           s == IF Refused(r) THEN r ELSE [r EXCEPT !.ready = @ \ {m}]
           held == o = current \/ Referenced(o, Front(frames), pinned)
<1>1. frames # <<>> /\ frames' = Front(frames)
  BY DEF WaitReturns
<1>2. obj[o] \in PerlIOHandler /\ Top \in Frame
  BY <1>1, InnermostFrame
<1>3. Top.saved \subseteq Mode
  BY <1>2 DEF Frame
<1>4. /\ r \in PerlIOHandler /\ r.mask = obj[o].mask /\ r.pending = obj[o].pending
      /\ r.croaked = obj[o].croaked
  BY <1>2, <1>3, HandlerFields DEF PerlIOHandler
<1>5. /\ Update(o, s, held)
      /\ UNCHANGED <<current, ties, fileEvents, ioEvents, pinned, handle, unwinds>>
  BY DEF WaitReturns
<1>6. held \in BOOLEAN
  BY DEF Referenced
<1> HIDE DEF r
<1>7. /\ s \in PerlIOHandler /\ s.mask = obj[o].mask /\ s.pending = obj[o].pending
      /\ s.croaked = obj[o].croaked
  BY <1>4, HandlerFields DEF PerlIOHandler
<1> HIDE DEF s
<1> QED
  BY <1>1, <1>5, <1>6, <1>7, FramePopped

\* A callback returns: the pass goes on with the same object, or the object goes.
LEMMA CallbackReturnsInductive ==
    ASSUME Inductive, CallbackReturns
    PROVE  Inductive'
<1> DEFINE o == Top.object
           r == [obj[o] EXCEPT !.calling = @ \ {Top.mode}]
           held == o = current \/ Referenced(o, Front(frames), pinned)
<1>1. frames # <<>> /\ held \in BOOLEAN
  BY DEF CallbackReturns, Referenced
<1>2. /\ obj[o] \in PerlIOHandler /\ Top \in Frame /\ o \in live /\ o \in Object
      /\ Front(frames) \in Seq(Frame)
      /\ \A p : Referenced(p, frames, pinned) <=>
                Referenced(p, Front(frames), pinned) \/ p = o
  BY <1>1, InnermostFrame
<1>3. Top.saved \in SUBSET Mode
  BY <1>2 DEF Frame
<1>4. /\ r \in PerlIOHandler /\ r.mask = obj[o].mask /\ r.pending = obj[o].pending
      /\ Wanted(r) = Wanted(obj[o]) /\ r.croaked = obj[o].croaked
  BY <1>2, HandlerFields DEF PerlIOHandler, Wanted
<1>5. /\ UNCHANGED <<current, ties, fileEvents, ioEvents, pinned, handle, unwinds>>
      /\ UNCHANGED <<open, accepts, closed>>
  BY DEF CallbackReturns, handle
<1>6. CASE ~ held
  <2>1. Destroy(o, r, fileHandler) /\ frames' = Front(frames)
    BY <1>6 DEF CallbackReturns
  <2>2. ~ Referenced(o, Front(frames), pinned) /\ o # current
    BY <1>6
  <2> HIDE DEF r, held, o
  <2>3. fileHandler \in FileHandler \cup {NULL} /\ Sound(fileHandler, o, r)
    BY <1>4 DEF Inductive, TypeOK, OwnerAlive, Sound
  <2>4. /\ obj' \in [Object -> PerlIOHandler]
        /\ fileHandler' \in FileHandler \cup {NULL}
        /\ live' = live \ {o}
        /\ \A p \in Object : p # o => obj'[p] = obj[p]
        /\ obj'[o] = Fresh
        /\ MaskAgrees' /\ OwnerAlive'
    BY <1>2, <1>4, <1>5, <2>1, <2>3, DestroyEffect
  <2>5. /\ FALSE \in BOOLEAN
        /\ live' = IF FALSE THEN live ELSE live \ {o}
        /\ obj'[o] = IF FALSE THEN Watched(r) ELSE Fresh
    BY <2>4
  <2>6. /\ frames' \in Seq(Frame) /\ current' \in {current, NULL}
        /\ \A p : Referenced(p, frames', pinned) => Referenced(p, frames, pinned)
        /\ \A p : p = current \/ Referenced(p, frames, pinned) =>
                    p = current' \/ Referenced(p, frames', pinned) \/ p = o
        /\ ~ (o = current' \/ Referenced(o, frames', pinned))
    BY <1>2, <1>5, <2>1, <2>2
  <2> QED
    BY <1>2, <1>4, <1>5, <2>4, <2>5, <2>6, ObjectGoes
<1>7. CASE held
  <2>1. /\ CallNext(o, r, Top.saved, Front(frames))
        /\ UNCHANGED <<live, fileHandler>>
    BY <1>7 DEF CallbackReturns
  <2> HIDE DEF r, held, o
  <2>2. /\ obj' \in [Object -> PerlIOHandler]
        /\ frames' \in Seq(Frame)
        /\ \A p \in Object : p # o => obj'[p] = obj[p]
        /\ obj'[o].mask = r.mask /\ Wanted(obj'[o]) = Wanted(r)
        /\ obj'[o].pending = r.pending /\ obj'[o].croaked = r.croaked
        /\ \A p : /\ Referenced(p, Front(frames), pinned) => Referenced(p, frames', pinned)
                  /\ Referenced(p, frames', pinned) =>
                        Referenced(p, Front(frames), pinned) \/ p = o
    BY <1>2, <1>3, <1>4, <1>5, <2>1, CallNextEffect DEF Inductive
  <2>3. /\ MaskAgrees' /\ OwnerAlive'
        /\ \A p \in Object : p \notin live => obj'[p] = Fresh
    BY <1>2, <1>5, <1>4, <2>1, <2>2, TouchKeeps
  <2>4. LiveIsReferenced'
    <3>1. \A p \in Object : p = current \/ Referenced(p, frames', pinned)
                            <=> p = current \/ Referenced(p, frames, pinned)
      <4>1. o = current \/ Referenced(o, Front(frames), pinned)
        BY <1>7 DEF held
      <4> QED
        BY <1>2, <2>2, <4>1
    <3> QED
      BY <1>5, <2>1, <2>3, <3>1, SameReferences
  <2>5. TypeOK'
    BY <1>5, <2>1, <2>2 DEF Inductive, TypeOK
  <2>6. PendingIsQueued'
    <3>1. \A p \in Object : /\ obj'[p].pending = obj[p].pending
                            /\ obj'[p].croaked = obj[p].croaked
      BY <1>2, <1>4, <2>2
    <3>2. current # NULL =>
            (obj'[current].pending /\ ~ obj'[current].croaked => ioEvents > 0)
      BY <3>1 DEF Inductive, PendingIsQueued, TypeOK
    <3> QED
      BY <1>5, <2>4, <2>5, <3>2, PendingKept DEF TypeOK
  <2> QED
    BY <2>3, <2>4, <2>5, <2>6 DEF Inductive
<1> QED
  BY <1>6, <1>7

\* The readiness of one live object, or of the notifier's record, changes.
LEMMA ReadinessKeeps ==
    ASSUME Inductive, NEW o \in live, NEW ready \in SUBSET Mode,
           obj' = [obj EXCEPT ![o].ready = ready],
           \/ fileHandler' = fileHandler
           \/ /\ fileHandler # NULL
              /\ fileHandler' \in FileHandler
              /\ fileHandler'.owner = fileHandler.owner
              /\ fileHandler'.mask = fileHandler.mask,
           fileEvents' \in Nat,
           UNCHANGED <<live, current, ties, ioEvents, frames, pinned, handle, unwinds>>
    PROVE  Inductive'
<1>1. /\ obj \in [Object -> PerlIOHandler] /\ o \in Object
      /\ fileHandler \in FileHandler \cup {NULL}
      /\ UNCHANGED <<open, accepts, closed>>
  BY DEF Inductive, TypeOK, handle
<1> DEFINE r == [obj[o] EXCEPT !.ready = ready]
<1>2. /\ r \in PerlIOHandler /\ r.mask = obj[o].mask /\ Wanted(r) = Wanted(obj[o])
      /\ r.pending = obj[o].pending /\ r.croaked = obj[o].croaked
  BY <1>1, HandlerFields DEF PerlIOHandler, Wanted
<1>3. obj' = [obj EXCEPT ![o] = r]
  OBVIOUS
<1> HIDE DEF r
<1>4. /\ obj' \in [Object -> PerlIOHandler] /\ obj'[o] = r
      /\ \A p \in Object : p # o => obj'[p] = obj[p]
  BY <1>1, <1>2, <1>3
<1>5. /\ MaskAgrees' /\ OwnerAlive'
      /\ \A p \in Object : p \notin live => obj'[p] = Fresh
  BY <1>1, <1>2, <1>4, TouchKeeps
<1>6. LiveIsReferenced'
  BY <1>5, SameReferences
<1>7. TypeOK'
  BY <1>1, <1>4 DEF Inductive, TypeOK
<1>8. PendingIsQueued'
  <2>1. \A p \in Object : /\ obj'[p].pending = obj[p].pending
                          /\ obj'[p].croaked = obj[p].croaked
    BY <1>2, <1>4
  <2>2. current # NULL =>
            (obj'[current].pending /\ ~ obj'[current].croaked => ioEvents > 0)
    BY <2>1 DEF Inductive, PendingIsQueued, TypeOK
  <2> QED
    BY <1>6, <1>7, <2>2, PendingKept DEF TypeOK
<1> QED
  BY <1>5, <1>6, <1>7, <1>8 DEF Inductive

LEMMA BufferFoundInductive ==
    ASSUME Inductive, NEW o \in Object, NEW m \in Mode, BufferFound(o, m)
    PROVE  Inductive'
<1>1. /\ o \in live /\ obj[o] \in PerlIOHandler
      /\ obj' = [obj EXCEPT ![o].ready = obj[o].ready \cup {m}]
      /\ UNCHANGED <<live, current, ties, fileHandler, fileEvents, ioEvents, frames, pinned,
                     handle, unwinds>>
  BY DEF BufferFound, Inductive, TypeOK
<1>2. obj[o].ready \cup {m} \in SUBSET Mode /\ fileEvents \in Nat
  BY <1>1, HandlerFields DEF Inductive, TypeOK
<1> QED
  BY <1>1, <1>2, ReadinessKeeps

\* Nothing happens to the objects.
LEMMA ObjectsUnchanged ==
    ASSUME Inductive, UNCHANGED <<obj, live, current, ties, frames, pinned, handle>>,
           fileHandler' \in FileHandler \cup {NULL},
           fileHandler' # NULL =>
                /\ fileHandler # NULL
                /\ fileHandler'.owner = fileHandler.owner
                /\ fileHandler'.mask = fileHandler.mask,
           fileEvents' \in Nat, ioEvents' \in Nat, unwinds' \in Nat,
           ioEvents' >= ioEvents
    PROVE  Inductive'
<1>1. TypeOK'
  BY DEF Inductive, TypeOK, handle
<1>2. MaskAgrees' /\ OwnerAlive'
  BY DEF Inductive, MaskAgrees, OwnerAlive, Wanted, Refused, handle
<1>3. LiveIsReferenced'
  BY DEF Inductive, LiveIsReferenced, Referenced
<1>4. PendingIsQueued'
  BY DEF Inductive, PendingIsQueued, Newest, TypeOK
<1> QED
  BY <1>1, <1>2, <1>3, <1>4 DEF Inductive

LEMMA SelectInductive ==
    ASSUME Inductive, NEW selected \in SUBSET Mode, Select(selected)
    PROVE  Inductive'
<1>1. /\ fileHandler \in FileHandler
      /\ fileEvents \in Nat /\ ioEvents \in Nat /\ unwinds \in Nat
  BY DEF Inductive, TypeOK, Select
<1>2. /\ fileHandler' = [fileHandler EXCEPT !.ready = selected]
      /\ fileEvents' = IF fileHandler.ready = {} THEN fileEvents + 1 ELSE fileEvents
      /\ UNCHANGED <<obj, live, current, ties, ioEvents, frames, pinned, handle, unwinds>>
  BY DEF Select
<1>3. /\ fileHandler' \in FileHandler
      /\ fileHandler'.owner = fileHandler.owner /\ fileHandler'.mask = fileHandler.mask
  BY <1>1, <1>2 DEF FileHandler
<1>4. fileEvents' \in Nat /\ ioEvents' \in Nat /\ unwinds' \in Nat /\ ioEvents' >= ioEvents
  BY <1>1, <1>2
<1>5. fileHandler # NULL
  BY DEF Select
<1> QED
  BY <1>2, <1>3, <1>4, <1>5, ObjectsUnchanged

\* The object may be a freed one, if the handle is closed: then it stays as
\* PerlIO_DESTROY left it.
LEMMA ServiceFileEventInductive ==
    ASSUME Inductive, ServiceFileEvent
    PROVE  Inductive'
<1>1. /\ fileEvents' = fileEvents - 1 /\ fileEvents > 0
      /\ UNCHANGED <<live, current, ties, ioEvents, frames, pinned, handle, unwinds>>
  BY DEF ServiceFileEvent
<1>2. fileEvents' \in Nat /\ ioEvents \in Nat /\ unwinds \in Nat
  BY <1>1 DEF Inductive, TypeOK
<1>3. CASE fileHandler = NULL
  <2>1. UNCHANGED <<fileHandler, obj>>
    BY <1>3 DEF ServiceFileEvent
  <2> QED
    BY <1>1, <1>2, <1>3, <2>1, ObjectsUnchanged
<1>4. CASE fileHandler # NULL
  <2> DEFINE o == fileHandler.owner
             ready == obj[o].ready
                        \cup (fileHandler.ready \cap fileHandler.mask \cap obj[o].mask)
  <2>1. /\ fileHandler' = [fileHandler EXCEPT !.ready = {}]
        /\ obj' = [obj EXCEPT ![o].ready = ready]
    BY <1>4 DEF ServiceFileEvent
  <2>2. /\ fileHandler \in FileHandler /\ o \in Object
        /\ obj \in [Object -> PerlIOHandler]
    BY <1>4 DEF Inductive, TypeOK, FileHandler
  <2>3. ready \in SUBSET Mode
    BY <2>2, HandlerFields
  <2>4. /\ fileHandler' \in FileHandler
        /\ fileHandler'.owner = fileHandler.owner /\ fileHandler'.mask = fileHandler.mask
    BY <2>1, <2>2 DEF FileHandler
  <2>5. CASE o \in live
    <3> HIDE DEF o, ready
    <3> QED
      BY <1>1, <1>2, <1>4, <2>1, <2>3, <2>4, <2>5, ReadinessKeeps
  <2>6. CASE o \notin live
    <3>1. obj[o] = Fresh
      BY <2>2, <2>6 DEF Inductive, LiveIsReferenced
    <3>2. ready = {}
      BY <3>1, FreshFields
    <3> HIDE DEF o, ready
    <3>3. obj' = obj
      <4>1. obj' = [obj EXCEPT ![o] = [obj[o] EXCEPT !.ready = ready]]
        BY <2>1
      <4>2. [obj[o] EXCEPT !.ready = ready] = obj[o]
        BY <3>1, <3>2 DEF Fresh
      <4> QED
        BY <2>2, <4>1, <4>2
    <3> QED
      BY <1>1, <1>2, <1>4, <2>4, <3>3, ObjectsUnchanged
  <2> QED
    BY <2>5, <2>6
<1> QED
  BY <1>3, <1>4

\* The records after events were queued for the objects in due.
Marked(due) == [o \in Object |-> [obj[o] EXCEPT !.pending = @ \/ o \in due]]

LEMMA DueMarked ==
    ASSUME Inductive, NEW due \in SUBSET live, NEW objs, objs = Marked(due)
    PROVE  /\ objs \in [Object -> PerlIOHandler]
           /\ Cardinality(due) \in Nat /\ (due # {} => Cardinality(due) > 0)
           /\ \A o \in Object :
                /\ objs[o].mask = obj[o].mask /\ Wanted(objs[o]) = Wanted(obj[o])
                /\ objs[o].croaked = obj[o].croaked /\ objs[o].wait = obj[o].wait
                /\ o \notin live => objs[o] = Fresh
           /\ \A n \in Nat : n = ioEvents + Cardinality(due) /\ current # NULL =>
                (objs[current].pending /\ ~ objs[current].croaked => n > 0)
<1>1. /\ obj \in [Object -> PerlIOHandler] /\ live \subseteq Object /\ ioEvents \in Nat
      /\ current \in Object \cup {NULL}
  BY DEF Inductive, TypeOK
<1>2. Cardinality(due) \in Nat /\ (due # {} => Cardinality(due) > 0)
  <2>1. IsFiniteSet(Object)
    BY FS_Interval DEF Object
  <2>2. IsFiniteSet(due)
    BY <1>1, <2>1, FS_Subset
  <2>3. Cardinality(due) \in Nat /\ (due # {} => Cardinality(due) # 0)
    BY <2>2, FS_CardinalityType, FS_EmptySet
  <2> QED
    BY <2>3
<1>3. ASSUME NEW o \in Object
      PROVE  /\ objs[o] \in PerlIOHandler
             /\ objs[o].mask = obj[o].mask /\ Wanted(objs[o]) = Wanted(obj[o])
             /\ objs[o].croaked = obj[o].croaked /\ objs[o].wait = obj[o].wait
             /\ objs[o].pending = (obj[o].pending \/ o \in due)
             /\ o \notin live => objs[o] = Fresh
  <2>1. /\ objs[o] = [obj[o] EXCEPT !.pending = obj[o].pending \/ o \in due]
        /\ obj[o] \in PerlIOHandler
    BY <1>1 DEF Marked
  <2>2. o \notin live => objs[o] = Fresh
    <3>1. SUFFICES ASSUME o \notin live
                   PROVE  objs[o] = Fresh
      OBVIOUS
    <3>2. o \notin due /\ obj[o] = Fresh
      BY <3>1 DEF Inductive, LiveIsReferenced
    <3>3. (Fresh.pending \/ o \in due) = FALSE
      BY <3>2, FreshFields
    <3>4. objs[o] = [Fresh EXCEPT !.pending = FALSE]
      BY <2>1, <3>2, <3>3
    <3> QED
      BY <3>4 DEF Fresh
  <2>3. (obj[o].pending \/ o \in due) \in BOOLEAN
    OBVIOUS
  <2> QED
    BY <2>1, <2>2, <2>3 DEF PerlIOHandler, Wanted
<1>4. objs \in [Object -> PerlIOHandler]
  <2>1. objs = [o \in Object |-> objs[o]]
    BY DEF Marked
  <2> QED
    BY <1>3, <2>1
<1>5. ASSUME NEW n \in Nat, n = ioEvents + Cardinality(due), current # NULL,
             objs[current].pending, ~ objs[current].croaked
      PROVE  n > 0
  <2>1. obj[current].pending \/ due # {}
    BY <1>1, <1>3, <1>5
  <2>2. ~ obj[current].croaked
    BY <1>1, <1>3, <1>5
  <2>3. obj[current].pending => ioEvents > 0
    BY <1>5, <2>2 DEF Inductive, PendingIsQueued
  <2>4. ioEvents > 0 \/ Cardinality(due) > 0
    BY <1>2, <2>1, <2>3
  <2> QED
    BY <1>1, <1>2, <1>5, <2>4
<1> QED
  BY <1>2, <1>3, <1>4, <1>5

LEMMA CheckInductive ==
    ASSUME Inductive, Check
    PROVE  Inductive'
<1> DEFINE due == {o \in live : Due(obj[o])}
           objs == Marked(due)
<1>1. /\ live \subseteq Object /\ ioEvents \in Nat /\ current \in Object \cup {NULL}
  BY DEF Inductive, TypeOK
<1>2. /\ ioEvents' = ioEvents + Cardinality(due)
      /\ obj' = objs
      /\ UNCHANGED <<live, current, ties, fileHandler, fileEvents, frames, pinned, open,
                     accepts, closed, unwinds>>
  BY DEF Check, handle, Marked
<1>3. due \in SUBSET live /\ objs = Marked(due)
  OBVIOUS
<1> HIDE DEF due, objs
<1>6. /\ objs \in [Object -> PerlIOHandler]
      /\ Cardinality(due) \in Nat
      /\ \A o \in Object :
            /\ objs[o].mask = obj[o].mask /\ Wanted(objs[o]) = Wanted(obj[o])
            /\ objs[o].croaked = obj[o].croaked
            /\ o \notin live => objs[o] = Fresh
      /\ \A n \in Nat : n = ioEvents + Cardinality(due) /\ current # NULL =>
            (objs[current].pending /\ ~ objs[current].croaked => n > 0)
  BY <1>3, DueMarked
<1>4. /\ obj' \in [Object -> PerlIOHandler]
      /\ Cardinality(due) \in Nat
      /\ \A o \in Object :
            /\ obj'[o].mask = obj[o].mask /\ Wanted(obj'[o]) = Wanted(obj[o])
            /\ obj'[o].croaked = obj[o].croaked
            /\ o \notin live => obj'[o] = Fresh
      /\ \A n \in Nat : n = ioEvents + Cardinality(due) /\ current # NULL =>
            (obj'[current].pending /\ ~ obj'[current].croaked => n > 0)
  BY <1>2, <1>6
<1>5. ioEvents' \in Nat
  BY <1>1, <1>2, <1>4
<1>7. TypeOK'
  BY <1>2, <1>4, <1>5 DEF Inductive, TypeOK
<1>8. MaskAgrees'
  <2>1. ASSUME NEW o \in Object, obj'[o].mask # Wanted(obj'[o])
        PROVE  Wanted(obj'[o]) \notin accepts' /\ obj'[o].croaked
    BY <1>2, <1>4, <2>1 DEF Inductive, MaskAgrees, Refused
  <2>2. \A o \in Object : Wanted(obj'[o]) = Wanted(obj[o])'
    BY DEF Wanted
  <2> QED
    BY <2>1, <2>2 DEF MaskAgrees, Refused, Wanted
<1>9. OwnerAlive'
  BY <1>1, <1>2, <1>4 DEF Inductive, OwnerAlive
<1>10. LiveIsReferenced'
  BY <1>2, <1>4, SameReferences
<1>11. PendingIsQueued'
  BY <1>1, <1>2, <1>4, <1>5, <1>10, PendingKept
<1> QED
  BY <1>7, <1>8, <1>9, <1>10, <1>11 DEF Inductive

\* The event finds the tied object, if there is one, and clears its pending.
LEMMA ServiceIOEventInductive ==
    ASSUME Inductive, ServiceIOEvent
    PROVE  Inductive'
<1>1. /\ live \subseteq Object /\ frames \in Seq(Frame) /\ current \in Object \cup {NULL}
      /\ obj \in [Object -> PerlIOHandler] /\ ioEvents \in Nat
  BY DEF Inductive, TypeOK
<1>2. /\ ioEvents' \in Nat
      /\ UNCHANGED <<live, current, ties, fileHandler, fileEvents, pinned, handle, unwinds>>
  <2>1. ioEvents > 0 /\ ioEvents' = ioEvents - 1
    BY ZenonT(20) DEF ServiceIOEvent
  <2>2. UNCHANGED <<live, current, ties, fileHandler, fileEvents, pinned, handle, unwinds>>
    BY ZenonT(20) DEF ServiceIOEvent
  <2> QED
    BY <1>1, <2>1, <2>2
<1>3. CASE live = {} /\ UNCHANGED <<obj, frames>>
  <2>1. current = NULL
    BY <1>3, CurrentIsLive
  <2>2. TypeOK' /\ MaskAgrees' /\ OwnerAlive'
    BY <1>2, <1>3 DEF Inductive, TypeOK, MaskAgrees, OwnerAlive, Wanted, Refused, handle
  <2>3. LiveIsReferenced'
    BY <1>2, <1>3 DEF Inductive, LiveIsReferenced, Referenced
  <2>4. PendingIsQueued'
    BY <1>2, <2>1 DEF PendingIsQueued
  <2> QED
    BY <2>2, <2>3, <2>4 DEF Inductive
<1>4. ASSUME NEW o \in live, Newest(o),
             CallNext(o, [[obj[o] EXCEPT !.ready = @ \cap obj[o].mask]
                            EXCEPT !.ready = @ \ Callable([obj[o] EXCEPT
                                                             !.ready = @ \cap obj[o].mask]),
                                   !.pending = FALSE],
                      Callable([obj[o] EXCEPT !.ready = @ \cap obj[o].mask]), frames)
      PROVE  Inductive'
  <2> DEFINE r == [obj[o] EXCEPT !.ready = @ \cap obj[o].mask]
             s == [r EXCEPT !.ready = @ \ Callable(r), !.pending = FALSE]
  <2>1. o \in Object /\ obj[o] \in PerlIOHandler
    BY <1>1
  <2>2. /\ r \in PerlIOHandler /\ r.mask = obj[o].mask /\ Wanted(r) = Wanted(obj[o])
        /\ r.croaked = obj[o].croaked
    BY <2>1, HandlerFields DEF PerlIOHandler, Wanted
  <2>3. CallNext(o, s, Callable(r), frames)
    BY <1>4
  <2> HIDE DEF r
  <2>4. Callable(r) \in SUBSET Mode
    BY <2>2, HandlerFields DEF Callable
  <2>5. /\ s \in PerlIOHandler /\ s.mask = obj[o].mask /\ Wanted(s) = Wanted(obj[o])
        /\ s.pending = FALSE /\ s.croaked = obj[o].croaked
    BY <2>2, HandlerFields DEF PerlIOHandler, Wanted
  <2> HIDE DEF s
  <2>6. /\ obj' \in [Object -> PerlIOHandler]
        /\ frames' \in Seq(Frame)
        /\ \A p \in Object : p # o => obj'[p] = obj[p]
        /\ obj'[o].mask = s.mask /\ Wanted(obj'[o]) = Wanted(s)
        /\ obj'[o].pending = s.pending /\ obj'[o].croaked = s.croaked
        /\ \A p : /\ Referenced(p, frames, pinned) => Referenced(p, frames', pinned)
                  /\ Referenced(p, frames', pinned) => Referenced(p, frames, pinned) \/ p = o
    BY <1>1, <1>2, <2>1, <2>3, <2>4, <2>5, CallNextEffect DEF Inductive
  <2>7. /\ MaskAgrees' /\ OwnerAlive'
        /\ \A p \in Object : p \notin live => obj'[p] = Fresh
    BY <1>2, <2>5, <2>6, TouchKeeps DEF handle
  <2>8. LiveIsReferenced'
    <3>1. o = current \/ Referenced(o, frames, pinned)
      BY <2>1 DEF Inductive, LiveIsReferenced
    <3>2. \A p \in Object : p = current \/ Referenced(p, frames', pinned)
                            <=> p = current \/ Referenced(p, frames, pinned)
      BY <2>6, <3>1
    <3> QED
      BY <1>2, <2>7, <3>2, SameReferences
  <2>9. TypeOK'
    BY <1>2, <2>6 DEF Inductive, TypeOK, handle
  <2>10. PendingIsQueued'
    <3>1. current # NULL => current = o
      <4>1. SUFFICES ASSUME current # NULL
                     PROVE  current = o
        OBVIOUS
      <4>2. current <= o /\ o <= current
        BY <1>4, <4>1 DEF Inductive, PendingIsQueued, Newest
      <4> QED
        BY <1>1, <2>1, <4>1, <4>2 DEF Object
    <3>2. current # NULL => obj'[current].pending = FALSE
      BY <2>5, <2>6, <3>1
    <3> QED
      BY <1>1, <1>2, <2>8, <3>2, PendingKept
  <2> QED
    BY <2>7, <2>8, <2>9, <2>10 DEF Inductive
<1> QED
  BY <1>3, <1>4 DEF ServiceIOEvent

\* An exception leaves every object alive that a frame below the handler, or a
\* leaked reference, refers to, and takes the handler of the others along.
LEMMA AbandonInductive ==
    ASSUME Inductive, NEW depth \in 0 .. Len(frames),
           NEW objs \in [Object -> PerlIOHandler],
           \A p \in Object :
                /\ objs[p].mask = obj[p].mask /\ Wanted(objs[p]) = Wanted(obj[p])
                /\ objs[p].croaked = obj[p].croaked
                /\ p \notin live => objs[p] = Fresh,
           NEW h \in FileHandler \cup {NULL},
           h # NULL =>
                /\ fileHandler # NULL
                /\ h.owner = fileHandler.owner /\ h.mask = fileHandler.mask,
           fileEvents' \in Nat, ioEvents' \in Nat,
           current # NULL =>
                (objs[current].pending /\ ~ objs[current].croaked => ioEvents' > 0),
           Abandon(depth, objs, h)
    PROVE  Inductive'
<1> DEFINE lost == {frames[i] : i \in depth + 1 .. Len(frames)}
           leaks == pinned \cup {f.object : f \in {g \in lost : g.kind = "callback"}}
           below == SubSeq(frames, 1, depth)
           gone == {o \in live : o # current /\ ~ Referenced(o, below, leaks)}
<1>1. /\ obj \in [Object -> PerlIOHandler] /\ live \subseteq Object
      /\ frames \in Seq(Frame) /\ Len(frames) \in Nat /\ DOMAIN frames = 1 .. Len(frames)
      /\ unwinds \in Nat /\ current \in Object \cup {NULL} /\ pinned \subseteq Object
  BY LenProperties DEF Inductive, TypeOK
<1>2. ASSUME NEW i \in 1 .. Len(frames)
      PROVE  frames[i] \in Frame /\ frames[i].object \in Object
  <2>1. frames[i] \in Frame
    BY <1>1, ElementOfSeq
  <2> QED
    BY <2>1 DEF Frame
<1>3. /\ below \in Seq(Frame) /\ DOMAIN below = 1 .. depth
      /\ \A i \in 1 .. depth : below[i] = frames[i]
  BY <1>1, SubSeqProperties
<1>4. /\ frames' = below /\ pinned' = leaks /\ unwinds' = unwinds + 1
      /\ live' = live \ gone
      /\ obj' = [o \in Object |-> IF o \in gone THEN Fresh ELSE objs[o]]
      /\ fileHandler' = IF open /\ \E o \in gone : objs[o].mask # {} THEN NULL ELSE h
      /\ UNCHANGED <<current, ties, open, accepts, closed>>
  BY DEF Abandon, DeleteFileHandler, handle
<1>5. leaks \subseteq Object
  BY <1>1, <1>2
<1>6. \A p \in Object : Referenced(p, below, leaks) => Referenced(p, frames, pinned)
  <2> SUFFICES ASSUME NEW p \in Object, Referenced(p, below, leaks)
               PROVE  p \in pinned \/ \E i \in DOMAIN frames : frames[i].object = p
    BY DEF Referenced
  <2>1. CASE \E i \in DOMAIN below : below[i].object = p
    BY <1>1, <1>3, <2>1
  <2>2. CASE p \in leaks
    BY <1>1, <2>2
  <2> QED
    BY <2>1, <2>2 DEF Referenced
<1>7. gone \subseteq live /\ current \notin gone
  OBVIOUS
<1>8. \A p \in live : p \in gone <=> p # current /\ ~ Referenced(p, below, leaks)
  OBVIOUS
<1> HIDE DEF lost, leaks, below, gone
<1>9. \A o \in Object : obj'[o] = IF o \in gone THEN Fresh ELSE objs[o]
  BY <1>4
<1>10. TypeOK'
  <2>1. obj' \in [Object -> PerlIOHandler]
    BY <1>1, <1>4, FreshFields
  <2> QED
    BY <1>1, <1>3, <1>4, <1>5, <2>1 DEF Inductive, TypeOK
<1>11. MaskAgrees'
  <2>1. ASSUME NEW o \in Object, obj'[o].mask # Wanted(obj'[o])
        PROVE  Wanted(obj'[o]) \notin accepts' /\ obj'[o].croaked
    <3>1. o \notin gone /\ obj'[o] = objs[o]
      BY <1>9, <2>1, FreshFields
    <3> QED
      BY <1>4, <2>1, <3>1 DEF Inductive, MaskAgrees, Refused
  <2>2. \A o \in Object : Wanted(obj'[o]) = Wanted(obj[o])'
    BY DEF Wanted
  <2> QED
    BY <2>1, <2>2 DEF MaskAgrees, Refused, Wanted
<1>12. OwnerAlive'
  <2> SUFFICES ASSUME open', fileHandler' # NULL
               PROVE  /\ fileHandler'.owner \in live'
                      /\ fileHandler'.mask = obj'[fileHandler'.owner].mask
                      /\ fileHandler'.mask # {}
    BY DEF OwnerAlive
  <2>1. open /\ fileHandler' = h /\ \A o \in gone : objs[o].mask = {}
    BY <1>4
  <2>2. /\ fileHandler.owner \in live
        /\ fileHandler.mask = obj[fileHandler.owner].mask
        /\ fileHandler.mask # {}
    BY <2>1 DEF Inductive, OwnerAlive
  <2> QED
    BY <1>1, <1>4, <1>9, <2>1, <2>2
<1>13. LiveIsReferenced'
  <2>1. ASSUME NEW p \in Object
        PROVE  /\ p \in live' <=> p = current \/ Referenced(p, below, leaks)
               /\ p \in live' => p <= ties
               /\ p \notin live' => obj'[p] = Fresh
    <3>1. p \in live <=> p = current \/ Referenced(p, frames, pinned)
      BY DEF Inductive, LiveIsReferenced
    <3>2. p \in live' <=> p = current \/ Referenced(p, below, leaks)
      BY <1>4, <1>6, <1>8, <3>1
    <3> QED
      BY <1>4, <1>9, <3>2 DEF Inductive, LiveIsReferenced
  <2>2. current' # NULL => current' = ties'
    BY <1>4 DEF Inductive, LiveIsReferenced
  <2> QED
    BY <1>4, <2>1, <2>2 DEF LiveIsReferenced
<1>14. PendingIsQueued'
  <2>1. current # NULL => obj'[current] = objs[current]
    BY <1>1, <1>7, <1>9
  <2>3. live' \subseteq Object
    BY <1>1, <1>4
  <2> QED
    BY <1>1, <1>4, <1>13, <2>1, <2>3, PendingKept
<1> QED
  BY <1>10, <1>11, <1>12, <1>13, <1>14 DEF Inductive

LEMMA DieInductive ==
    ASSUME Inductive, NEW depth \in 0 .. Len(frames), Die(depth)
    PROVE  Inductive'
<1>1. /\ obj \in [Object -> PerlIOHandler] /\ fileHandler \in FileHandler \cup {NULL}
      /\ \A p \in Object : p \notin live => obj[p] = Fresh
      /\ fileEvents' \in Nat /\ ioEvents' \in Nat /\ ioEvents' = ioEvents
  BY DEF Inductive, TypeOK, LiveIsReferenced, Die
<1>2. current # NULL => (obj[current].pending /\ ~ obj[current].croaked => ioEvents' > 0)
  BY <1>1 DEF Inductive, PendingIsQueued
<1>3. Abandon(depth, obj, fileHandler)
  BY DEF Die
<1> QED
  BY <1>1, <1>2, <1>3, AbandonInductive

\* The tied object whose event is lost is astray: PerlIO_watch croaked for it.
LEMMA LoopCroaksInductive ==
    ASSUME Inductive, NEW depth \in 0 .. Len(frames), LoopCroaks(depth)
    PROVE  Inductive'
<1>1. /\ obj \in [Object -> PerlIOHandler] /\ fileHandler \in FileHandler \cup {NULL}
      /\ \A p \in Object : p \notin live => obj[p] = Fresh
      /\ fileEvents \in Nat /\ ioEvents \in Nat /\ live \subseteq Object
      /\ current \in Object \cup {NULL}
  BY DEF Inductive, TypeOK, LiveIsReferenced
<1>2. current # NULL => (obj[current].pending /\ ~ obj[current].croaked => ioEvents > 0)
  BY DEF Inductive, PendingIsQueued
<1>3. ASSUME fileEvents > 0, fileHandler # NULL, fileEvents' = fileEvents - 1,
             Abandon(depth, obj, [fileHandler EXCEPT !.ready = {}]), ioEvents' = ioEvents
      PROVE  Inductive'
  <2> DEFINE h == [fileHandler EXCEPT !.ready = {}]
  <2>1. h \in FileHandler /\ h.owner = fileHandler.owner /\ h.mask = fileHandler.mask
    BY <1>1, <1>3 DEF FileHandler
  <2>2. fileEvents' \in Nat /\ ioEvents' \in Nat
    BY <1>1, <1>3
  <2>3. Abandon(depth, obj, h)
    BY <1>3
  <2> HIDE DEF h
  <2> QED
    BY <1>1, <1>2, <1>3, <2>1, <2>2, <2>3, AbandonInductive
<1>4. ASSUME ioEvents > 0, NEW o \in live, Newest(o), Astray(o), ioEvents' = ioEvents - 1,
             Abandon(depth, obj, fileHandler), fileEvents' = fileEvents
      PROVE  Inductive'
  <2>1. fileEvents' \in Nat /\ ioEvents' \in Nat
    BY <1>1, <1>4
  <2>2. current # NULL => obj[current].croaked
    <3> SUFFICES ASSUME current # NULL
                 PROVE  obj[current].croaked
      OBVIOUS
    <3>1. current <= o /\ o <= current
      BY <1>4 DEF Inductive, PendingIsQueued, Newest
    <3>2. current = o
      BY <1>1, <1>4, <3>1 DEF Object
    <3>3. obj[o].mask # Wanted(obj[o])
      BY <1>4 DEF Astray
    <3> QED
      BY <1>1, <1>4, <3>2, <3>3 DEF Inductive, MaskAgrees
  <2> QED
    BY <1>1, <1>4, <2>1, <2>2, AbandonInductive
<1>5. ASSUME NEW due \in SUBSET live, ioEvents' = ioEvents + Cardinality(due),
             NEW objs, objs = Marked(due),
             Abandon(depth, objs, fileHandler), fileEvents' = fileEvents
      PROVE  Inductive'
  <2>1. /\ objs \in [Object -> PerlIOHandler]
        /\ Cardinality(due) \in Nat
        /\ \A p \in Object :
            /\ objs[p].mask = obj[p].mask /\ Wanted(objs[p]) = Wanted(obj[p])
            /\ objs[p].croaked = obj[p].croaked
            /\ p \notin live => objs[p] = Fresh
        /\ \A n \in Nat : n = ioEvents + Cardinality(due) /\ current # NULL =>
            (objs[current].pending /\ ~ objs[current].croaked => n > 0)
    BY <1>5, DueMarked
  <2>2. fileEvents' \in Nat /\ ioEvents' \in Nat
    BY <1>1, <1>5, <2>1
  <2>3. current # NULL =>
            (objs[current].pending /\ ~ objs[current].croaked => ioEvents' > 0)
    BY <1>5, <2>1, <2>2
  <2> QED
    BY <1>1, <1>5, <2>1, <2>2, <2>3, AbandonInductive
<1>6. \/ /\ fileEvents > 0 /\ fileHandler # NULL /\ fileEvents' = fileEvents - 1
         /\ Abandon(depth, obj, [fileHandler EXCEPT !.ready = {}]) /\ ioEvents' = ioEvents
      \/ /\ ioEvents > 0
         /\ \E o \in live : Newest(o) /\ Astray(o)
         /\ ioEvents' = ioEvents - 1
         /\ Abandon(depth, obj, fileHandler) /\ fileEvents' = fileEvents
      \/ \E due \in SUBSET live :
            /\ ioEvents' = ioEvents + Cardinality(due)
            /\ Abandon(depth, Marked(due), fileHandler) /\ fileEvents' = fileEvents
  <2>1. ASSUME NEW o \in live,
               LET due == {p \in live : o < p /\ Due(obj[p])}
               IN  /\ ioEvents' = ioEvents + Cardinality(due)
                   /\ Abandon(depth, [p \in Object |->
                                         [obj[p] EXCEPT !.pending = @ \/ p \in due]],
                              fileHandler)
        PROVE  \E due \in SUBSET live :
                    /\ ioEvents' = ioEvents + Cardinality(due)
                    /\ Abandon(depth, Marked(due), fileHandler)
    <3> DEFINE due == {p \in live : o < p /\ Due(obj[p])}
    <3>1. due \in SUBSET live
      OBVIOUS
    <3>2. /\ ioEvents' = ioEvents + Cardinality(due)
          /\ Abandon(depth, Marked(due), fileHandler)
      BY <2>1 DEF Marked
    <3> HIDE DEF due
    <3> QED
      BY <3>1, <3>2
  <2> QED
    BY <2>1 DEF LoopCroaks
<1> QED
  BY <1>3, <1>4, <1>5, <1>6

-----------------------------------------------------------------------------
(***************************************************************************)
(* The waits of the stack.                                                 *)
(***************************************************************************)

\* One of the first n frames waits for mode m of object o.
Waited(n, o, m) ==
    \E j \in 1 .. n :
        frames[j].kind = "wait" /\ frames[j].object = o /\ frames[j].mode = m

\* The frame f may stand above the first n frames: what it will restore is what
\* they need, and what it calls is not waited for there.
Fits(f, n) ==
    /\ f.kind = "wait" =>
        /\ f.saved \subseteq {f.mode}
        /\ f.object \notin closed /\ Waited(n, f.object, f.mode) => f.mode \in f.saved
        /\ unwinds = 0 /\ ~ obj[f.object].croaked /\ f.mode \in f.saved
              => Waited(n, f.object, f.mode)
    /\ f.kind = "callback" =>
        \A m \in {f.mode} \cup f.saved :
            Waited(n, f.object, m) => f.object \in closed

LEMMA FrameFields ==
    ASSUME NEW f \in Frame
    PROVE  /\ f.kind \in {"callback", "wait"} /\ f.object \in Object /\ f.mode \in Mode
           /\ f.saved \subseteq Mode
  BY DEF Frame

\* Every frame fits the frames below it.
LEMMA FramesFit ==
    ASSUME TypeOK, OldWaitIsBelow, DoMaskInhibited, NEW i \in DOMAIN frames
    PROVE  Fits(frames[i], i - 1)
<1>1. /\ i \in Nat /\ Len(frames) \in Nat /\ DOMAIN frames = 1 .. Len(frames)
      /\ frames[i] \in Frame
  BY LenProperties, ElementOfSeq DEF TypeOK
<1>2. WaitBelow(i) <=> Waited(i - 1, frames[i].object, frames[i].mode)
  BY DEF WaitBelow, Waited
<1>3. frames[i].kind = "wait" =>
        /\ frames[i].saved \subseteq {frames[i].mode}
        /\ frames[i].object \notin closed /\ WaitBelow(i) => frames[i].mode \in frames[i].saved
        /\ unwinds = 0 /\ ~ obj[frames[i].object].croaked
              /\ frames[i].mode \in frames[i].saved => WaitBelow(i)
  BY DEF OldWaitIsBelow
<1>4. ASSUME frames[i].kind = "callback", NEW m \in {frames[i].mode} \cup frames[i].saved,
             NEW j \in 1 .. i - 1, frames[j].kind = "wait",
             frames[j].object = frames[i].object, frames[j].mode = m
      PROVE  frames[i].object \in closed
  <2>1. j \in DOMAIN frames /\ j < i
    BY <1>1
  <2> QED
    BY <1>4, <2>1 DEF DoMaskInhibited
<1> QED
  BY <1>2, <1>3, <1>4 DEF Fits, Waited

\* The positions of a stack of n frames with at most one on top of them.
LEMMA TopPosition ==
    ASSUME NEW n \in Nat, NEW k \in Nat, n <= k, k <= n + 1, NEW i \in 1 .. k
    PROVE  /\ i \in 1 .. n \/ (i = n + 1 /\ k = n + 1)
           /\ i - 1 \in 0 .. n
           /\ \A j \in 1 .. i - 1 : j \in 1 .. n /\ j \in 1 .. k
  OBVIOUS

LEMMA LowerPosition ==
    ASSUME NEW st \in Seq(Frame), NEW n \in Nat, n <= Len(st), NEW i \in 1 .. n
    PROVE  i \in DOMAIN st
<1>1. DOMAIN st = 1 .. Len(st) /\ Len(st) \in Nat
  BY LenProperties
<1> QED
  BY <1>1

LEMMA EarlierPosition ==
    ASSUME NEW st \in Seq(Frame), NEW i \in DOMAIN st, NEW j \in DOMAIN st, i < j
    PROVE  i \in 1 .. j - 1 /\ j - 1 \in Nat
<1>1. DOMAIN st = 1 .. Len(st) /\ Len(st) \in Nat
  BY LenProperties
<1> QED
  BY <1>1

\* PerlIO_watch croaked for the same live objects as before, or for more.
KeepsCroaks == \A o \in live : o \in live' /\ obj[o].croaked => obj'[o].croaked

\* The object of a frame is alive.
LEMMA FrameIsLive ==
    ASSUME Inductive, NEW i \in DOMAIN frames
    PROVE  frames[i].object \in live
<1>1. frames[i] \in Frame
  BY LenProperties, ElementOfSeq DEF Inductive, TypeOK
<1>2. Referenced(frames[i].object, frames, pinned) /\ frames[i].object \in Object
  BY <1>1 DEF Referenced, Frame
<1> QED
  BY <1>2 DEF Inductive, LiveIsReferenced

LEMMA NextFrameIsLive ==
    ASSUME Inductive', NEW i \in DOMAIN frames'
    PROVE  frames'[i].object \in live'
<1>1. frames'[i] \in Frame
  BY LenProperties, ElementOfSeq DEF Inductive, TypeOK
<1>2. Referenced(frames'[i].object, frames', pinned') /\ frames'[i].object \in Object
  BY <1>1 DEF Referenced, Frame
<1> QED
  BY <1>2 DEF Inductive, LiveIsReferenced

\* A step keeps the first n frames and puts at most one on top of them, which
\* fits there.
LEMMA StackKeeps ==
    ASSUME Inductive, Inductive', OldWaitIsBelow, DoMaskInhibited, KeepsCroaks,
           NEW n \in Nat, n <= Len(frames), n <= Len(frames'), Len(frames') <= n + 1,
           \A i \in 1 .. n : frames'[i] = frames[i],
           closed \subseteq closed', unwinds' = 0 => unwinds = 0,
           Len(frames') = n + 1 =>
                Fits(frames'[n + 1], n) /\ frames'[n + 1].object \in live
    PROVE  /\ OldWaitIsBelow' /\ DoMaskInhibited'
           /\ \A o, m : WaitFrame(o, m)' <=>
                \/ Waited(n, o, m)
                \/ /\ Len(frames') = n + 1 /\ frames'[n + 1].kind = "wait"
                   /\ frames'[n + 1].object = o /\ frames'[n + 1].mode = m
<1>1. /\ Len(frames) \in Nat /\ DOMAIN frames = 1 .. Len(frames)
      /\ Len(frames') \in Nat /\ DOMAIN frames' = 1 .. Len(frames')
      /\ frames \in Seq(Frame) /\ frames' \in Seq(Frame)
  BY LenProperties DEF Inductive, TypeOK
<1>2. ASSUME NEW i \in DOMAIN frames'
      PROVE  /\ Fits(frames'[i], i - 1) /\ i - 1 \in 0 .. n
             /\ ~ obj'[frames'[i].object].croaked => ~ obj[frames'[i].object].croaked
  <2>0. ASSUME frames'[i].object \in live
        PROVE  ~ obj'[frames'[i].object].croaked => ~ obj[frames'[i].object].croaked
    BY <2>0, NextFrameIsLive DEF KeepsCroaks
  <2>1. /\ i \in 1 .. n \/ (i = n + 1 /\ Len(frames') = n + 1)
        /\ i - 1 \in 0 .. n
    BY <1>1, TopPosition
  <2>2. CASE i \in 1 .. n
    <3>1. i \in DOMAIN frames
      BY <1>1, <2>2, LowerPosition
    <3>2. i \in DOMAIN frames /\ frames'[i] = frames[i]
      BY <2>2, <3>1
    <3>3. Fits(frames[i], i - 1) /\ frames[i].object \in live
      BY <3>2, FramesFit, FrameIsLive DEF Inductive
    <3> QED
      BY <2>0, <2>1, <3>2, <3>3
  <2>3. CASE i = n + 1 /\ Len(frames') = n + 1
    <3>1. i - 1 = n
      BY <2>3
    <3> QED
      BY <2>0, <2>1, <2>3, <3>1
  <2> QED
    BY <2>1, <2>2, <2>3
<1>3. ASSUME NEW k \in 0 .. n, NEW o, NEW m
      PROVE  Waited(k, o, m) <=> \E j \in 1 .. k : /\ frames'[j].kind = "wait"
                                                   /\ frames'[j].object = o
                                                   /\ frames'[j].mode = m
  <2>1. \A j \in 1 .. k : frames'[j] = frames[j]
    BY <1>3
  <2> QED
    BY <2>1 DEF Waited
<1>4. OldWaitIsBelow'
  <2> SUFFICES ASSUME NEW i \in DOMAIN frames', frames'[i].kind = "wait"
               PROVE  /\ frames'[i].saved \subseteq {frames'[i].mode}
                      /\ frames'[i].object \notin closed' /\ WaitBelow(i)'
                            => frames'[i].mode \in frames'[i].saved
                      /\ unwinds' = 0 /\ ~ obj'[frames'[i].object].croaked
                            /\ frames'[i].mode \in frames'[i].saved
                            => WaitBelow(i)'
    BY DEF OldWaitIsBelow
  <2>1. WaitBelow(i)' <=> Waited(i - 1, frames'[i].object, frames'[i].mode)
    <3> DEFINE k == i - 1
    <3>1. k \in 0 .. n
      BY <1>2
    <3> HIDE DEF k
    <3>2. Waited(k, frames'[i].object, frames'[i].mode)
            <=> \E j \in 1 .. k : /\ frames'[j].kind = "wait"
                                  /\ frames'[j].object = frames'[i].object
                                  /\ frames'[j].mode = frames'[i].mode
      <4>1. \A j \in 1 .. k : frames'[j] = frames[j]
        BY <3>1
      <4> QED
        BY <4>1 DEF Waited
    <3>3. WaitBelow(i)' <=> \E j \in 1 .. k : /\ frames'[j].kind = "wait"
                                              /\ frames'[j].object = frames'[i].object
                                              /\ frames'[j].mode = frames'[i].mode
      BY DEF WaitBelow, k
    <3>4. WaitBelow(i)' <=> Waited(k, frames'[i].object, frames'[i].mode)
      BY <3>2, <3>3
    <3> QED
      BY <3>4 DEF k
  <2> QED
    BY <1>2, <2>1 DEF Fits
<1>5. DoMaskInhibited'
  <2> SUFFICES ASSUME NEW i \in DOMAIN frames', NEW j \in DOMAIN frames', i < j,
                      frames'[i].kind = "wait", frames'[j].kind = "callback",
                      frames'[i].object = frames'[j].object,
                      frames'[i].mode \in {frames'[j].mode} \cup frames'[j].saved
               PROVE  frames'[i].object \in closed'
    BY DEF DoMaskInhibited
  <2>1. i \in 1 .. j - 1
    BY <1>1, EarlierPosition
  <2>2. Waited(j - 1, frames'[j].object, frames'[i].mode)
    BY <1>2, <1>3, <2>1
  <2> QED
    BY <1>2, <2>2 DEF Fits
<1>6. ASSUME NEW o, NEW m
      PROVE  WaitFrame(o, m)' <=>
                \/ Waited(n, o, m)
                \/ /\ Len(frames') = n + 1 /\ frames'[n + 1].kind = "wait"
                   /\ frames'[n + 1].object = o /\ frames'[n + 1].mode = m
  <2>1. Waited(n, o, m) <=> \E j \in 1 .. n : /\ frames'[j].kind = "wait"
                                              /\ frames'[j].object = o
                                              /\ frames'[j].mode = m
    BY <1>3
  <2>2. \A j \in DOMAIN frames' : j \in 1 .. n \/ (j = n + 1 /\ Len(frames') = n + 1)
    BY <1>1, TopPosition
  <2>3. \A j \in 1 .. n : j \in DOMAIN frames'
    BY <1>1, LowerPosition
  <2>4. Len(frames') = n + 1 => n + 1 \in DOMAIN frames'
    <3>1. n + 1 \in 1 .. n + 1
      OBVIOUS
    <3> QED
      BY <1>1, <3>1
  <2> QED
    BY <2>1, <2>2, <2>3, <2>4 DEF WaitFrame
<1> QED
  BY <1>4, <1>5, <1>6

\* All frames.
LEMMA AllWaited ==
    ASSUME TypeOK, NEW o, NEW m
    PROVE  WaitFrame(o, m) <=> Waited(Len(frames), o, m)
<1>1. DOMAIN frames = 1 .. Len(frames)
  BY LenProperties DEF TypeOK
<1> QED
  BY <1>1 DEF WaitFrame, Waited

\* The frames below a callback have all the waits.
LEMMA BelowCallback ==
    ASSUME TypeOK, frames # <<>>, Top.kind = "callback", NEW o, NEW m
    PROVE  WaitFrame(o, m) <=> Waited(Len(frames) - 1, o, m)
<1>1. DOMAIN frames = 1 .. Len(frames) /\ Len(frames) \in Nat \ {0}
  BY LenProperties, EmptySeq DEF TypeOK
<1>2. \A j \in DOMAIN frames : frames[j].kind = "wait" => j \in 1 .. Len(frames) - 1
  BY <1>1 DEF Top
<1> QED
  BY <1>1, <1>2 DEF WaitFrame, Waited

\* The stack will be `below', or have a callback for a part of rest above it.
CallbackAbove(o, rest, below) ==
    \/ frames' = below
    \/ \E g \in Frame : /\ frames' = Append(below, g)
                        /\ g.kind = "callback" /\ g.object = o
                        /\ g.mode \in rest /\ g.saved \subseteq rest

\* CallNext leaves waitMask alone and pushes at most such a callback.
LEMMA CallNextPushes ==
    ASSUME TypeOK, NEW o \in Object, NEW r \in PerlIOHandler, NEW rest \in SUBSET Mode,
           NEW below \in Seq(Frame), CallNext(o, r, rest, below)
    PROVE  /\ \A p \in Object : p # o => obj'[p] = obj[p]
           /\ obj'[o].wait = r.wait /\ obj'[o].croaked = r.croaked
           /\ CallbackAbove(o, rest, below)
<1>1. obj \in [Object -> PerlIOHandler]
  BY DEF TypeOK
<1>2. CASE rest \cap r.callback = {}
  BY <1>1, <1>2 DEF CallNext, CallbackAbove
<1>3. CASE rest \cap r.callback # {}
  <2>1. PICK m \in rest \cap r.callback :
          /\ obj' = [obj EXCEPT ![o] = [r EXCEPT !.calling = @ \cup {m}]]
          /\ frames' = Append(below, [kind |-> "callback", object |-> o, mode |-> m,
                                      saved |-> {k \in rest : m < k}])
    BY <1>3 DEF CallNext
  <2> DEFINE g == [kind |-> "callback", object |-> o, mode |-> m,
                   saved |-> {k \in rest : m < k}]
             s == [r EXCEPT !.calling = @ \cup {m}]
  <2>2. /\ g \in Frame /\ g.kind = "callback" /\ g.object = o /\ g.mode \in rest
        /\ g.saved \subseteq rest
    BY HandlerFields DEF Frame
  <2>3. s.wait = r.wait /\ s.croaked = r.croaked
    BY HandlerFields DEF PerlIOHandler
  <2> HIDE DEF g, s
  <2>4. obj' = [obj EXCEPT ![o] = s] /\ frames' = Append(below, g)
    BY <2>1 DEF g, s
  <2> QED
    BY <1>1, <2>2, <2>3, <2>4 DEF CallbackAbove
<1> QED
  BY <1>2, <1>3

\* A mode in the waitMask of a live object, and a wait for it on the stack.
LEMMA WaitsOfLive ==
    ASSUME WaitMaskIsStack, NEW o \in live, NEW m \in Mode
    PROVE  /\ o \notin closed /\ WaitFrame(o, m) => m \in obj[o].wait
           /\ unwinds = 0 /\ ~ obj[o].croaked /\ m \in obj[o].wait => WaitFrame(o, m)
  BY DEF WaitMaskIsStack

\* The stack stays; an object keeps its waitMask, gets more of it in a wait that
\* croaks, is closed or is new.
LEMMA StackStays ==
    ASSUME Inductive, Inductive', WaitsInductive, UNCHANGED <<frames, unwinds>>,
           closed \subseteq closed', KeepsCroaks,
           \A o \in live' :
                \/ o \in live /\ obj'[o].wait = obj[o].wait
                \/ o \in live /\ obj[o].wait \subseteq obj'[o].wait /\ obj'[o].croaked
                \/ o \in closed' \cup (Object \ live) /\ obj'[o].wait = {}
    PROVE  WaitsInductive'
<1>1. OldWaitIsBelow'
  <2>1. ASSUME NEW i \in DOMAIN frames
        PROVE  ~ obj'[frames[i].object].croaked => ~ obj[frames[i].object].croaked
    <3>1. frames[i].object \in live /\ frames'[i].object \in live'
      BY <2>1, FrameIsLive, NextFrameIsLive
    <3> QED
      BY <3>1 DEF KeepsCroaks
  <2> QED
    BY <2>1 DEF WaitsInductive, OldWaitIsBelow, WaitBelow
<1>2. DoMaskInhibited'
  BY DEF WaitsInductive, DoMaskInhibited
<1>3. ASSUME NEW o \in live'
      PROVE  /\ o \notin closed' => \A m \in Mode : WaitFrame(o, m)' => m \in obj'[o].wait
             /\ unwinds' = 0 /\ ~ obj'[o].croaked => \A m \in obj'[o].wait : WaitFrame(o, m)'
  <2>1. \A m : WaitFrame(o, m)' <=> WaitFrame(o, m)
    BY DEF WaitFrame
  <2>2. ASSUME o \in live
        PROVE  /\ obj[o].wait \subseteq Mode
               /\ ~ obj'[o].croaked => ~ obj[o].croaked
               /\ \A m \in Mode :
                    /\ o \notin closed /\ WaitFrame(o, m) => m \in obj[o].wait
                    /\ unwinds = 0 /\ ~ obj[o].croaked /\ m \in obj[o].wait
                          => WaitFrame(o, m)
    <3>1. obj[o].wait \subseteq Mode
      BY <2>2, HandlerFields DEF Inductive, TypeOK
    <3>2. ~ obj'[o].croaked => ~ obj[o].croaked
      BY <2>2 DEF KeepsCroaks
    <3> QED
      BY <2>2, <3>1, <3>2, WaitsOfLive DEF WaitsInductive
  <2>3. CASE o \in live /\ obj'[o].wait = obj[o].wait
    BY <2>1, <2>2, <2>3
  <2>4. CASE o \in live /\ obj[o].wait \subseteq obj'[o].wait /\ obj'[o].croaked
    BY <2>1, <2>2, <2>4
  <2>5. CASE o \in Object \ live /\ obj'[o].wait = {}
    <3>1. ~ Referenced(o, frames, pinned)
      BY <2>5 DEF Inductive, LiveIsReferenced
    <3>2. \A m : ~ WaitFrame(o, m)
      BY <3>1 DEF WaitFrame, Referenced
    <3> QED
      BY <2>1, <2>5, <3>2
  <2>6. CASE o \in closed' /\ obj'[o].wait = {}
    BY <2>6
  <2> QED
    BY <1>3, <2>3, <2>4, <2>5, <2>6
<1>4. WaitMaskIsStack'
  BY <1>3 DEF WaitMaskIsStack
<1> QED
  BY <1>1, <1>2, <1>4 DEF WaitsInductive

\* PerlIO_watch leaves waitMask as it finds it, and touches no other object's.
LEMMA UpdateWaits ==
    ASSUME Inductive, NEW o \in live, NEW r \in PerlIOHandler, r.mask = obj[o].mask,
           r.croaked = obj[o].croaked, accepts' = accepts, open' => open,
           NEW held \in BOOLEAN, Update(o, r, held)
    PROVE  /\ live' \subseteq live
           /\ \A p \in live' : p # o => obj'[p] = obj[p]
           /\ o \in live' => obj'[o].wait = r.wait /\ (Refused(r) => obj'[o].croaked)
           /\ KeepsCroaks
<1>1. live \subseteq Object
  BY DEF Inductive, TypeOK
<1>2. /\ live' = IF held THEN live ELSE live \ {o}
      /\ \A p \in Object : p # o => obj'[p] = obj[p]
      /\ obj'[o] = IF held THEN Watched(r) ELSE Fresh
  BY UpdateEffect
<1>3. /\ Watched(r).wait = r.wait
      /\ Watched(r).croaked = (r.croaked \/ Refused(r))
  BY WatchedFields
<1>4. KeepsCroaks
  BY <1>1, <1>2, <1>3 DEF KeepsCroaks
<1> QED
  BY <1>1, <1>2, <1>3, <1>4

LEMMA InitWaits == Init => WaitsInductive
  BY DEF Init, WaitsInductive, WaitMaskIsStack, OldWaitIsBelow, DoMaskInhibited

\* fileevent, CLOSE and the event loop's own steps leave the stack alone.
LEMMA TieWaits ==
    ASSUME Inductive, Inductive', WaitsInductive, NEW r \in PerlIOHandler,
           r.wait = {}, Tie(r)
    PROVE  WaitsInductive'
<1> DEFINE t == ties + 1
           w == Watched(r)
<1>1. t \in Object /\ t \notin live
  BY DEF Tie, Inductive, TypeOK, LiveIsReferenced, Object
<1>2. w.wait = {}
  BY WatchedFields
<1>3. /\ obj \in [Object -> PerlIOHandler] /\ live \subseteq Object
      /\ obj' = [obj EXCEPT ![t] = w] /\ live' = live \cup {t}
      /\ UNCHANGED <<frames, unwinds, closed>>
  BY DEF Tie, Inductive, TypeOK, handle
<1> HIDE DEF t, w
<1>4. \A o \in live' :
            \/ o \in live /\ obj'[o].wait = obj[o].wait
            \/ o \in live /\ obj[o].wait \subseteq obj'[o].wait /\ obj'[o].croaked
            \/ o \in closed' \cup (Object \ live) /\ obj'[o].wait = {}
  BY <1>1, <1>2, <1>3
<1>5. KeepsCroaks
  BY <1>1, <1>3 DEF KeepsCroaks
<1> QED
  BY <1>3, <1>4, <1>5, StackStays

LEMMA TieHandlerWaits ==
    ASSUME Inductive, Inductive', WaitsInductive, NEW m \in Mode, TieHandler(m)
    PROVE  WaitsInductive'
<1> DEFINE r == [Fresh EXCEPT !.handler = {m}, !.callback = {m}]
<1>1. r \in PerlIOHandler /\ r.wait = {}
  BY DEF Fresh, PerlIOHandler
<1>2. Tie(r)
  BY DEF TieHandler
<1> HIDE DEF r
<1> QED
  BY <1>1, <1>2, TieWaits

LEMMA TieQueryWaits ==
    ASSUME Inductive, Inductive', WaitsInductive, TieQuery
    PROVE  WaitsInductive'
  BY FreshFields, TieWaits DEF TieQuery

LEMMA HandlerWaits ==
    ASSUME Inductive, Inductive', WaitsInductive, NEW m \in Mode,
           SetHandler(m) \/ DeleteHandler(m)
    PROVE  WaitsInductive'
<1> DEFINE set == [obj[current] EXCEPT !.handler = @ \cup {m}, !.callback = @ \cup {m}]
           deleted == [obj[current] EXCEPT !.handler = @ \ {m}, !.callback = @ \ {m}]
           kept == Refused(deleted) \/ Referenced(current, frames, pinned)
<1>1. /\ current \in live /\ current \in Object /\ obj[current] \in PerlIOHandler
      /\ UNCHANGED <<frames, unwinds, closed, open, accepts>>
  BY CurrentIsLive DEF SetHandler, DeleteHandler, handle
<1>2. \A r \in {set, deleted} :
        /\ r \in PerlIOHandler /\ r.mask = obj[current].mask /\ r.wait = obj[current].wait
        /\ r.croaked = obj[current].croaked
  <2>1. /\ set \in PerlIOHandler
        /\ set.mask = obj[current].mask /\ set.wait = obj[current].wait
        /\ set.croaked = obj[current].croaked
    BY <1>1, HandlerFields DEF PerlIOHandler
  <2>2. /\ deleted \in PerlIOHandler
        /\ deleted.mask = obj[current].mask /\ deleted.wait = obj[current].wait
        /\ deleted.croaked = obj[current].croaked
    BY <1>1, HandlerFields DEF PerlIOHandler
  <2> HIDE DEF set, deleted
  <2> QED
    BY <2>1, <2>2
<1>3. \E r \in {set, deleted}, held \in BOOLEAN : Update(current, r, held)
  <2>1. kept \in BOOLEAN
    BY DEF Referenced, Refused
  <2>2. Update(current, set, TRUE) \/ Update(current, deleted, kept)
    BY DEF SetHandler, DeleteHandler
  <2> HIDE DEF set, deleted, kept
  <2> QED
    BY <2>1, <2>2
<1> HIDE DEF set, deleted, kept
<1>4. /\ \A o \in live' : o \in live /\ obj'[o].wait = obj[o].wait
      /\ KeepsCroaks
  <2>1. PICK r \in {set, deleted}, held \in BOOLEAN : Update(current, r, held)
    BY <1>3
  <2>2. /\ r \in PerlIOHandler /\ r.mask = obj[current].mask /\ r.wait = obj[current].wait
        /\ r.croaked = obj[current].croaked
    BY <1>2
  <2> QED
    BY <1>1, <2>1, <2>2, UpdateWaits
<1> QED
  BY <1>1, <1>4, StackStays

LEMMA CloseWaits ==
    ASSUME Inductive, Inductive', WaitsInductive, Close
    PROVE  WaitsInductive'
<1> DEFINE r == Unwatched(obj[current])
<1>1. /\ current \in live /\ obj[current] \in PerlIOHandler
      /\ UNCHANGED <<frames, unwinds>> /\ closed' = closed \cup {current}
      /\ accepts' = accepts /\ open' = FALSE
      /\ Update(current, r, TRUE)
  BY CurrentIsLive DEF Close
<1>2. /\ r \in PerlIOHandler /\ r.mask = obj[current].mask /\ r.wait = {}
      /\ r.croaked = obj[current].croaked
  BY <1>1, UnwatchedFields DEF Inductive
<1> HIDE DEF r
<1>3. /\ live' \subseteq live /\ KeepsCroaks
      /\ \A p \in live' : p # current => obj'[p] = obj[p]
      /\ current \in live' => obj'[current].wait = {}
  BY <1>1, <1>2, UpdateWaits
<1> QED
  BY <1>1, <1>3, StackStays

LEMMA LoopWaits ==
    ASSUME Inductive, Inductive', WaitsInductive,
           \/ \E m \in Mode, o \in Object : BufferFound(o, m)
           \/ \E selected \in SUBSET Mode : Select(selected)
           \/ Check
           \/ ServiceFileEvent
           \/ CloseUntied
           \/ UNCHANGED vars
    PROVE  WaitsInductive'
<1>1. obj \in [Object -> PerlIOHandler] /\ live \subseteq Object
  BY DEF Inductive, TypeOK
<1>2. UNCHANGED <<live, frames, unwinds, closed>>
  BY DEF BufferFound, Select, Check, ServiceFileEvent, CloseUntied, vars, handle
<1>3. ASSUME NEW o \in Object
      PROVE  obj'[o].wait = obj[o].wait /\ obj'[o].croaked = obj[o].croaked
  <2>1. obj[o] \in PerlIOHandler /\ \A p \in Object : obj[p] \in PerlIOHandler
    BY <1>1
  <2>2. ASSUME NEW m \in Mode, NEW p \in Object, BufferFound(p, m)
        PROVE  obj'[o].wait = obj[o].wait /\ obj'[o].croaked = obj[o].croaked
    BY <1>1, <2>1, <2>2 DEF BufferFound, PerlIOHandler
  <2>3. CASE Check
    BY <2>1, <2>3 DEF Check, PerlIOHandler
  <2>4. CASE ServiceFileEvent
    BY <1>1, <2>1, <2>4 DEF ServiceFileEvent, PerlIOHandler
  <2>5. CASE \/ UNCHANGED vars \/ CloseUntied
             \/ \E selected \in SUBSET Mode : Select(selected)
    BY <2>5 DEF Select, CloseUntied, vars
  <2> QED
    BY <2>2, <2>3, <2>4, <2>5
<1>4. KeepsCroaks
  BY <1>1, <1>3 DEF KeepsCroaks
<1> QED
  BY <1>1, <1>2, <1>3, <1>4, StackStays

\* What a step leaves of waitMask and of the stack, for one object.
LEMMA WaitMaskStep ==
    ASSUME WaitsInductive, NEW o \in live, NEW t \in Object, NEW m \in Mode,
           obj[o].wait \subseteq Mode, closed \subseteq closed', unwinds' = 0 => unwinds = 0,
           ~ obj'[o].croaked => ~ obj[o].croaked,
           o # t => /\ obj'[o].wait = obj[o].wait
                    /\ \A k : WaitFrame(o, k)' <=> WaitFrame(o, k),
           o = t => /\ \A k : k # m => /\ k \in obj'[o].wait <=> k \in obj[o].wait
                                       /\ WaitFrame(o, k)' <=> WaitFrame(o, k)
                    /\ o \notin closed' /\ WaitFrame(o, m)' => m \in obj'[o].wait
                    /\ unwinds' = 0 /\ ~ obj'[o].croaked /\ m \in obj'[o].wait
                            => WaitFrame(o, m)'
    PROVE  /\ o \notin closed' => \A k \in Mode : WaitFrame(o, k)' => k \in obj'[o].wait
           /\ unwinds' = 0 /\ ~ obj'[o].croaked => \A k \in obj'[o].wait : WaitFrame(o, k)'
<1>1. \A k \in Mode :
        /\ o \notin closed /\ WaitFrame(o, k) => k \in obj[o].wait
        /\ unwinds = 0 /\ ~ obj[o].croaked /\ k \in obj[o].wait => WaitFrame(o, k)
  BY WaitsOfLive DEF WaitsInductive
<1>2. CASE o # t
  BY <1>1, <1>2
<1>3. CASE o = t
  BY <1>1, <1>3
<1> QED
  BY <1>2, <1>3

\* PerlIO_wait keeps what the waits below it need.
LEMMA WaitWaits ==
    ASSUME Inductive, Inductive', WaitsInductive, NEW m \in Mode, Wait(m)
    PROVE  WaitsInductive'
<1> DEFINE r == [obj[current] EXCEPT !.wait = @ \cup {m}]
           f == [kind |-> "wait", object |-> current, mode |-> m,
                 saved |-> obj[current].wait \cap {m}]
           n == Len(frames)
<1>1. /\ current \in live /\ current \in Object /\ obj[current] \in PerlIOHandler
      /\ UNCHANGED <<unwinds, closed, open, accepts>>
      /\ \/ /\ obj' = [obj EXCEPT ![current] = r]
            /\ frames' = Append(frames, f)
            /\ live' = live
         \/ /\ Update(current, r, TRUE)
            /\ frames' = IF Refused(r) THEN frames ELSE Append(frames, f)
  BY CurrentIsLive DEF Wait, handle
<1>2. /\ r \in PerlIOHandler /\ r.mask = obj[current].mask
      /\ r.wait = obj[current].wait \cup {m} /\ r.croaked = obj[current].croaked
  BY <1>1, HandlerFields DEF PerlIOHandler
<1>3. f \in Frame /\ f.kind = "wait" /\ f.object = current /\ f.mode = m
      /\ f.saved = obj[current].wait \cap {m}
  BY <1>1 DEF Frame
<1>4. Fits(f, n)
  <2>1. WaitFrame(current, m) <=> Waited(n, current, m)
    BY AllWaited DEF Inductive
  <2>2. /\ current \notin closed /\ WaitFrame(current, m) => m \in obj[current].wait
        /\ unwinds = 0 /\ ~ obj[current].croaked /\ m \in obj[current].wait
              => WaitFrame(current, m)
    BY <1>1, WaitsOfLive DEF WaitsInductive
  <2> HIDE DEF f, n
  <2> QED
    BY <1>3, <2>1, <2>2 DEF Fits
<1> HIDE DEF f, r
<1>5. /\ live' \subseteq live /\ KeepsCroaks
      /\ \A p \in live' : p # current => obj'[p] = obj[p]
      /\ current \in live' => obj'[current].wait = obj[current].wait \cup {m}
      /\ frames' = Append(frames, f)
            \/ (frames' = frames /\ (current \in live' => obj'[current].croaked))
  <2>1. CASE /\ obj' = [obj EXCEPT ![current] = r]
             /\ frames' = Append(frames, f)
             /\ live' = live
    <3>1. obj \in [Object -> PerlIOHandler] /\ live \subseteq Object
      BY DEF Inductive, TypeOK
    <3>2. obj'[current] = r /\ \A p \in Object : p # current => obj'[p] = obj[p]
      BY <1>1, <2>1, <3>1
    <3>3. KeepsCroaks
      BY <1>2, <2>1, <3>1, <3>2 DEF KeepsCroaks
    <3> QED
      BY <1>2, <2>1, <3>1, <3>2, <3>3
  <2>2. CASE /\ Update(current, r, TRUE)
             /\ frames' = IF Refused(r) THEN frames ELSE Append(frames, f)
    <3>1. /\ live' \subseteq live /\ KeepsCroaks
          /\ \A p \in live' : p # current => obj'[p] = obj[p]
          /\ current \in live' => /\ obj'[current].wait = r.wait
                                  /\ Refused(r) => obj'[current].croaked
      BY <1>1, <1>2, <2>2, UpdateWaits
    <3> QED
      BY <1>2, <2>2, <3>1
  <2> QED
    BY <1>1, <2>1, <2>2
<1>6. CASE frames' = frames /\ (current \in live' => obj'[current].croaked)
  BY <1>1, <1>5, <1>6, StackStays
<1>7. CASE frames' = Append(frames, f)
  <2>1. /\ n \in Nat /\ Len(frames') = n + 1 /\ frames'[n + 1] = f
        /\ \A i \in 1 .. n : frames'[i] = frames[i]
        /\ frames' \in Seq(Frame)
    BY <1>7, <1>3, AppendProperties, LenProperties DEF Inductive, TypeOK
  <2> HIDE DEF n
  <2>2. n = Len(frames)
    BY DEF n
  <2>3. /\ OldWaitIsBelow' /\ DoMaskInhibited'
        /\ \A o, k : WaitFrame(o, k)' <=>
              \/ Waited(n, o, k)
              \/ /\ Len(frames') = n + 1 /\ frames'[n + 1].kind = "wait"
                 /\ frames'[n + 1].object = o /\ frames'[n + 1].mode = k
    BY <1>1, <1>3, <1>4, <1>5, <2>1, <2>2, StackKeeps DEF WaitsInductive
  <2>4. \A o, k : WaitFrame(o, k)' <=> WaitFrame(o, k) \/ (o = current /\ k = m)
    <3>1. \A o, k : WaitFrame(o, k) <=> Waited(n, o, k)
      BY <2>2, AllWaited DEF Inductive
    <3> QED
      BY <1>3, <2>1, <2>3, <3>1
  <2>5. ASSUME NEW o \in live'
        PROVE  /\ o \notin closed' => \A k \in Mode : WaitFrame(o, k)' => k \in obj'[o].wait
               /\ unwinds' = 0 /\ ~ obj'[o].croaked
                    => \A k \in obj'[o].wait : WaitFrame(o, k)'
    <3>1. o \in live /\ obj[o].wait \subseteq Mode
      BY <1>5, HandlerFields DEF Inductive, TypeOK
    <3>2. ~ obj'[o].croaked => ~ obj[o].croaked
      BY <1>5, <3>1 DEF KeepsCroaks
    <3>3. o # current => /\ obj'[o].wait = obj[o].wait
                         /\ \A k : WaitFrame(o, k)' <=> WaitFrame(o, k)
      BY <1>5, <2>4
    <3>4. o = current => /\ \A k : k # m => /\ k \in obj'[o].wait <=> k \in obj[o].wait
                                            /\ WaitFrame(o, k)' <=> WaitFrame(o, k)
                         /\ m \in obj'[o].wait /\ WaitFrame(o, m)'
      BY <1>5, <2>4
    <3> QED
      BY <1>1, <3>1, <3>2, <3>3, <3>4, WaitMaskStep
  <2> QED
    BY <2>3, <2>5 DEF WaitsInductive, WaitMaskIsStack
<1> QED
  BY <1>5, <1>6, <1>7

\* The frames below the innermost one, and what that one restores or calls next.
LEMMA BelowTop ==
    ASSUME Inductive, WaitsInductive, frames # <<>>, NEW n, n = Len(frames) - 1
    PROVE  /\ n \in Nat /\ Fits(Top, n)
           /\ Front(frames) \in Seq(Frame) /\ Len(Front(frames)) = n
           /\ \A i \in 1 .. n : Front(frames)[i] = frames[i]
           /\ \A o, m : WaitFrame(o, m) <=>
                \/ Waited(n, o, m)
                \/ Top.kind = "wait" /\ Top.object = o /\ Top.mode = m
<1>1. frames \in Seq(Frame)
  BY DEF Inductive, TypeOK
<1>2. /\ Front(frames) \in Seq(Frame)
      /\ Len(frames) \in Nat \ {0} /\ DOMAIN frames = 1 .. Len(frames)
      /\ DOMAIN Front(frames) = 1 .. Len(frames) - 1
      /\ \A i \in 1 .. Len(frames) - 1 : Front(frames)[i] = frames[i]
  BY <1>1, FrontOfStack, LenProperties
<1>3. n \in Nat /\ Len(frames) = n + 1 /\ Len(frames) \in DOMAIN frames
  BY <1>2
<1>4. Len(Front(frames)) = n
  BY <1>2, <1>3, LenProperties
<1>5. Fits(Top, n)
  BY <1>3, FramesFit DEF Top, Inductive, WaitsInductive
<1>6. \A j \in DOMAIN frames : j \in 1 .. n \/ j = Len(frames)
  BY <1>2, <1>3
<1>7. \A j \in 1 .. n : j \in DOMAIN frames
  BY <1>2, <1>3
<1>8. ASSUME NEW o, NEW m
      PROVE  WaitFrame(o, m) <=>
                \/ Waited(n, o, m)
                \/ Top.kind = "wait" /\ Top.object = o /\ Top.mode = m
  BY <1>3, <1>6, <1>7 DEF WaitFrame, Waited, Top
<1> QED
  BY <1>2, <1>3, <1>4, <1>5, <1>8

\* The wait restores what the waits below it need.
LEMMA WaitReturnsWaits ==
    ASSUME Inductive, Inductive', WaitsInductive, WaitReturns
    PROVE  WaitsInductive'
<1> DEFINE t == Top.object
           m == Top.mode
           r == [obj[t] EXCEPT !.wait = (@ \ {m}) \cup Top.saved]
           s == IF Refused(r) THEN r ELSE [r EXCEPT !.ready = @ \ {m}]
           held == t = current \/ Referenced(t, Front(frames), pinned)
           n == Len(frames) - 1
<1>1. /\ frames # <<>> /\ frames' = Front(frames) /\ Top.kind = "wait"
      /\ Update(t, s, held) /\ UNCHANGED <<unwinds, closed, open, accepts>>
  BY DEF WaitReturns, handle
<1>2. /\ obj[t] \in PerlIOHandler /\ Top \in Frame /\ t \in live /\ t \in Object
      /\ m \in Mode /\ Top.saved \subseteq Mode
  BY <1>1, InnermostFrame, FrameFields
<1>3. /\ s \in PerlIOHandler /\ s.mask = obj[t].mask /\ s.croaked = obj[t].croaked
      /\ s.wait = (obj[t].wait \ {m}) \cup Top.saved
  <2>1. /\ r \in PerlIOHandler /\ r.mask = obj[t].mask /\ r.croaked = obj[t].croaked
        /\ r.wait = (obj[t].wait \ {m}) \cup Top.saved
    BY <1>2, HandlerFields DEF PerlIOHandler
  <2> HIDE DEF r
  <2> QED
    BY <2>1, HandlerFields DEF PerlIOHandler
<1>4. held \in BOOLEAN
  BY DEF Referenced
<1> HIDE DEF r, s, held, n
<1>5. /\ n \in Nat /\ Fits(Top, n)
      /\ Front(frames) \in Seq(Frame) /\ Len(Front(frames)) = n
      /\ \A i \in 1 .. n : Front(frames)[i] = frames[i]
      /\ \A o, k : WaitFrame(o, k) <=> \/ Waited(n, o, k)
                                       \/ Top.kind = "wait" /\ t = o /\ m = k
  BY <1>1, BelowTop DEF n
<1>6. /\ live' \subseteq live /\ KeepsCroaks
      /\ \A p \in live' : p # t => obj'[p] = obj[p]
      /\ t \in live' => obj'[t].wait = (obj[t].wait \ {m}) \cup Top.saved
  BY <1>1, <1>2, <1>3, <1>4, UpdateWaits
<1>7. Len(frames) \in Nat /\ n <= Len(frames)
  BY LenProperties DEF n, Inductive, TypeOK
<1>8. n <= Len(frames') /\ Len(frames') <= n + 1 /\ Len(frames') # n + 1
  BY <1>1, <1>5
<1>9. /\ OldWaitIsBelow' /\ DoMaskInhibited'
      /\ \A o, k : WaitFrame(o, k)' <=> Waited(n, o, k)
  BY <1>1, <1>5, <1>6, <1>7, <1>8, StackKeeps DEF WaitsInductive
<1>10. /\ Top.saved \subseteq {m}
       /\ t \notin closed /\ Waited(n, t, m) => m \in Top.saved
       /\ unwinds = 0 /\ ~ obj[t].croaked /\ m \in Top.saved => Waited(n, t, m)
  BY <1>1, <1>5 DEF Fits
<1> HIDE DEF t, m
<1>11. ASSUME NEW o \in live'
       PROVE  /\ o \notin closed' => \A k \in Mode : WaitFrame(o, k)' => k \in obj'[o].wait
              /\ unwinds' = 0 /\ ~ obj'[o].croaked
                    => \A k \in obj'[o].wait : WaitFrame(o, k)'
  <2>1. o \in live /\ obj[o].wait \subseteq Mode
    BY <1>6, HandlerFields DEF Inductive, TypeOK
  <2>2. ~ obj'[o].croaked => ~ obj[o].croaked
    BY <1>6, <2>1 DEF KeepsCroaks
  <2>3. PICK u \in Object, c \in Mode : u = t /\ c = m
    BY <1>2
  <2>4. o # u => /\ obj'[o].wait = obj[o].wait
                 /\ \A k : WaitFrame(o, k)' <=> WaitFrame(o, k)
    BY <1>1, <1>5, <1>6, <1>9, <2>3
  <2>5. o = u => /\ \A k : k # c => (k \in obj'[o].wait <=> k \in obj[o].wait)
                 /\ c \in obj'[o].wait <=> c \in Top.saved
    BY <1>6, <1>10, <2>3
  <2>6. o = u => \A k : k # c => (WaitFrame(o, k)' <=> WaitFrame(o, k))
    BY <1>1, <1>5, <1>9, <2>3
  <2>7. o = u => /\ o \notin closed' /\ WaitFrame(o, c)' => c \in obj'[o].wait
                 /\ unwinds' = 0 /\ ~ obj'[o].croaked /\ c \in obj'[o].wait
                        => WaitFrame(o, c)'
    <3>1. WaitFrame(o, c)' <=> Waited(n, o, c)
      BY <1>9
    <3> QED
      BY <1>1, <1>10, <2>2, <2>3, <2>5, <3>1
  <2> QED
    BY <1>1, <2>1, <2>2, <2>4, <2>5, <2>6, <2>7, WaitMaskStep
<1> QED
  BY <1>9, <1>11 DEF WaitsInductive, WaitMaskIsStack

\* CallNext keeps the waits, whichever callback it pushes above them.
LEMMA CallNextWaits ==
    ASSUME Inductive, Inductive', WaitsInductive, NEW o \in live, NEW r \in PerlIOHandler,
           NEW rest \in SUBSET Mode, NEW below \in Seq(Frame), CallNext(o, r, rest, below),
           r.wait = obj[o].wait, r.croaked = obj[o].croaked,
           UNCHANGED <<live, closed, unwinds>>,
           Len(below) <= Len(frames),
           \A i \in 1 .. Len(below) : below[i] = frames[i],
           \A p, m : WaitFrame(p, m) <=> Waited(Len(below), p, m),
           \A m \in rest : Waited(Len(below), o, m) => o \in closed
    PROVE  WaitsInductive'
<1> DEFINE n == Len(below)
<1>1. n \in Nat /\ live \subseteq Object
  BY LenProperties DEF Inductive, TypeOK
<1>2. /\ \A p \in Object : p # o => obj'[p] = obj[p]
      /\ obj'[o].wait = r.wait /\ obj'[o].croaked = r.croaked
      /\ CallbackAbove(o, rest, below)
  BY <1>1, CallNextPushes DEF Inductive
<1>3. KeepsCroaks
  BY <1>1, <1>2 DEF KeepsCroaks
<1>4. /\ OldWaitIsBelow' /\ DoMaskInhibited'
      /\ \A p, m : WaitFrame(p, m)' <=> Waited(n, p, m)
  <2>1. CASE frames' = below
    <3>1. frames' \in Seq(Frame) /\ Len(frames') = n /\ n # n + 1
      BY <1>1, <2>1
    <3> HIDE DEF n
    <3>2. n = Len(below)
      BY DEF n
    <3>3. n <= Len(frames) /\ n <= Len(frames') /\ Len(frames') <= n + 1
          /\ \A i \in 1 .. n : frames'[i] = frames[i]
      BY <1>1, <2>1, <3>1, <3>2
    <3> QED
      BY <1>1, <1>3, <3>1, <3>3, StackKeeps DEF WaitsInductive
  <2>2. ASSUME NEW g \in Frame, frames' = Append(below, g), g.kind = "callback",
               g.object = o, g.mode \in rest, g.saved \subseteq rest
        PROVE  /\ OldWaitIsBelow' /\ DoMaskInhibited'
               /\ \A p, m : WaitFrame(p, m)' <=> Waited(n, p, m)
    <3>1. /\ frames' \in Seq(Frame) /\ Len(frames') = n + 1 /\ frames'[n + 1] = g
          /\ \A i \in 1 .. n : frames'[i] = below[i]
      BY <2>2, AppendProperties, LenProperties
    <3>2. Fits(g, n)
      BY <2>2 DEF Fits
    <3> HIDE DEF n
    <3>3. n = Len(below)
      BY DEF n
    <3>4. n <= Len(frames) /\ n <= Len(frames') /\ Len(frames') <= n + 1
          /\ \A i \in 1 .. n : frames'[i] = frames[i]
      BY <1>1, <3>1, <3>3
    <3> QED
      BY <1>1, <1>3, <2>2, <3>1, <3>2, <3>4, StackKeeps DEF WaitsInductive
  <2> QED
    BY <1>2, <2>1, <2>2 DEF CallbackAbove
<1>5. ASSUME NEW p \in live'
      PROVE  /\ p \notin closed' => \A m \in Mode : WaitFrame(p, m)' => m \in obj'[p].wait
             /\ unwinds' = 0 /\ ~ obj'[p].croaked
                    => \A m \in obj'[p].wait : WaitFrame(p, m)'
  <2>1. /\ p \in live /\ obj'[p].wait = obj[p].wait /\ obj[p].wait \subseteq Mode
        /\ obj'[p].croaked = obj[p].croaked
    BY <1>2, HandlerFields DEF Inductive, TypeOK
  <2> QED
    BY <1>4, <2>1, WaitsOfLive DEF WaitsInductive
<1> QED
  BY <1>4, <1>5 DEF WaitsInductive, WaitMaskIsStack

\* Frames go, and with them perhaps objects; those that stay keep their waitMask.
\* If no exception passed, all waits are below.
LEMMA FramesGo ==
    ASSUME Inductive, Inductive', WaitsInductive, NEW n \in Nat, n <= Len(frames),
           frames' \in Seq(Frame), Len(frames') = n,
           \A i \in 1 .. n : frames'[i] = frames[i],
           live' \subseteq live, closed' = closed, unwinds' = 0 => unwinds = 0,
           \A p \in live' : /\ obj'[p].wait = obj[p].wait
                            /\ obj'[p].croaked = obj[p].croaked,
           unwinds' = 0 => \A o, m : WaitFrame(o, m) <=> Waited(n, o, m)
    PROVE  WaitsInductive'
<1>1. n <= Len(frames') /\ Len(frames') <= n + 1 /\ Len(frames') # n + 1
  OBVIOUS
<1>2. frames \in Seq(Frame) /\ live \subseteq Object
  BY DEF Inductive, TypeOK
<1>3. /\ OldWaitIsBelow' /\ DoMaskInhibited'
      /\ \A o, m : WaitFrame(o, m)' <=> Waited(n, o, m)
  <2>1. KeepsCroaks
    BY DEF KeepsCroaks
  <2> QED
    BY <1>1, <2>1, StackKeeps DEF WaitsInductive
<1>4. ASSUME NEW o, NEW m, WaitFrame(o, m)'
      PROVE  WaitFrame(o, m)
  <2>1. PICK j \in 1 .. n :
            frames[j].kind = "wait" /\ frames[j].object = o /\ frames[j].mode = m
    BY <1>3, <1>4 DEF Waited
  <2>2. j \in DOMAIN frames
    BY <1>2, LowerPosition
  <2> QED
    BY <2>1, <2>2 DEF WaitFrame
<1>5. ASSUME NEW p \in live'
      PROVE  /\ p \notin closed' => \A m \in Mode : WaitFrame(p, m)' => m \in obj'[p].wait
             /\ unwinds' = 0 /\ ~ obj'[p].croaked
                    => \A m \in obj'[p].wait : WaitFrame(p, m)'
  <2>1. /\ p \in live /\ obj'[p].wait = obj[p].wait /\ obj[p].wait \subseteq Mode
        /\ obj'[p].croaked = obj[p].croaked
    BY <1>2, HandlerFields DEF Inductive, TypeOK
  <2> QED
    BY <1>3, <1>4, <2>1, WaitsOfLive DEF WaitsInductive
<1> QED
  BY <1>3, <1>5 DEF WaitsInductive, WaitMaskIsStack

LEMMA CallbackReturnsWaits ==
    ASSUME Inductive, Inductive', WaitsInductive, CallbackReturns
    PROVE  WaitsInductive'
<1> DEFINE t == Top.object
           r == [obj[t] EXCEPT !.calling = @ \ {Top.mode}]
           held == t = current \/ Referenced(t, Front(frames), pinned)
           n == Len(frames) - 1
           below == Front(frames)
<1>1. /\ frames # <<>> /\ Top.kind = "callback"
      /\ UNCHANGED <<unwinds, closed, open, accepts>>
  BY DEF CallbackReturns, handle
<1>2. /\ obj[t] \in PerlIOHandler /\ Top \in Frame /\ t \in live /\ t \in Object
      /\ Top.saved \in SUBSET Mode
  BY <1>1, InnermostFrame, FrameFields
<1>3. /\ r \in PerlIOHandler /\ r.mask = obj[t].mask /\ r.wait = obj[t].wait
      /\ r.croaked = obj[t].croaked
  BY <1>2, HandlerFields DEF PerlIOHandler
<1>4. \/ CallNext(t, r, Top.saved, below) /\ live' = live
      \/ Destroy(t, r, fileHandler) /\ frames' = below
  BY DEF CallbackReturns
<1> HIDE DEF r, n, below
<1>5. /\ n \in Nat /\ Fits(Top, n)
      /\ below \in Seq(Frame) /\ Len(below) = n
      /\ \A i \in 1 .. n : below[i] = frames[i]
      /\ \A o, k : WaitFrame(o, k) <=> \/ Waited(n, o, k)
                                       \/ Top.kind = "wait" /\ t = o /\ Top.mode = k
  BY <1>1, BelowTop DEF n, below
<1>6. Len(frames) \in Nat /\ n <= Len(frames)
  BY LenProperties DEF n, Inductive, TypeOK
<1>7. \A o, k : WaitFrame(o, k) <=> Waited(n, o, k)
  BY <1>1, <1>5
<1>8. \A k \in Top.saved : Waited(n, t, k) => t \in closed
  BY <1>1, <1>5 DEF Fits
<1> HIDE DEF t
<1>9. CASE CallNext(t, r, Top.saved, below) /\ live' = live
  BY <1>1, <1>2, <1>3, <1>5, <1>6, <1>7, <1>8, <1>9, CallNextWaits
<1>10. CASE Destroy(t, r, fileHandler) /\ frames' = below
  <2>1. obj \in [Object -> PerlIOHandler] /\ live \subseteq Object
    BY DEF Inductive, TypeOK
  <2>2. live' = live \ {t} /\ \A p \in live' : obj'[p] = obj[p]
    BY <1>10, <2>1 DEF Destroy
  <2> QED
    BY <1>1, <1>5, <1>6, <1>7, <1>10, <2>2, FramesGo
<1> QED
  BY <1>4, <1>9, <1>10

\* doMask never has a mode that is waited for.
LEMMA ServiceIOEventWaits ==
    ASSUME Inductive, Inductive', WaitsInductive, ServiceIOEvent
    PROVE  WaitsInductive'
<1>1. /\ UNCHANGED <<live, closed, unwinds>>
      /\ frames \in Seq(Frame) /\ live \subseteq Object
  BY DEF ServiceIOEvent, Inductive, TypeOK, handle
<1>2. CASE UNCHANGED <<obj, frames>>
  <2>1. KeepsCroaks
    BY <1>2 DEF KeepsCroaks
  <2> QED
    BY <1>1, <1>2, <2>1, StackStays
<1>3. CASE ~ UNCHANGED <<obj, frames>>
  <2>1. PICK o \in live :
          LET r == [obj[o] EXCEPT !.ready = @ \cap obj[o].mask]
          IN  CallNext(o, [r EXCEPT !.ready = @ \ Callable(r), !.pending = FALSE],
                       Callable(r), frames)
    BY <1>3 DEF ServiceIOEvent
  <2> DEFINE r == [obj[o] EXCEPT !.ready = @ \cap obj[o].mask]
             s == [r EXCEPT !.ready = @ \ Callable(r), !.pending = FALSE]
             rest == Callable(r)
  <2>2. o \in Object /\ obj[o] \in PerlIOHandler
    BY <1>1 DEF Inductive, TypeOK
  <2>3. r \in PerlIOHandler /\ r.wait = obj[o].wait /\ r.croaked = obj[o].croaked
    BY <2>2, HandlerFields DEF PerlIOHandler
  <2>4. CallNext(o, s, rest, frames)
    BY <2>1
  <2> HIDE DEF r
  <2>5. rest \in SUBSET Mode /\ \A m \in rest : m \notin obj[o].wait
    BY <2>3, HandlerFields DEF Callable
  <2>6. s \in PerlIOHandler /\ s.wait = obj[o].wait /\ s.croaked = obj[o].croaked
    BY <2>3, HandlerFields DEF PerlIOHandler
  <2>7. \A p, m : WaitFrame(p, m) <=> Waited(Len(frames), p, m)
    BY AllWaited DEF Inductive
  <2>8. \A m \in rest : Waited(Len(frames), o, m) => o \in closed
    BY <2>5, <2>7, WaitsOfLive DEF WaitsInductive
  <2>9. /\ Len(frames) <= Len(frames)
        /\ \A i \in 1 .. Len(frames) : frames[i] = frames[i]
    BY <1>1, LenProperties
  <2> HIDE DEF s, rest
  <2> QED
    BY <1>1, <2>2, <2>4, <2>5, <2>6, <2>7, <2>8, <2>9, CallNextWaits
<1> QED
  BY <1>2, <1>3

\* An exception takes the innermost frames away and restores no mask.
LEMMA AbandonWaits ==
    ASSUME Inductive, Inductive', WaitsInductive, NEW depth \in 0 .. Len(frames),
           NEW objs,
           \A p \in Object : objs[p].wait = obj[p].wait /\ objs[p].croaked = obj[p].croaked,
           NEW h, Abandon(depth, objs, h)
    PROVE  WaitsInductive'
<1>1. /\ frames \in Seq(Frame) /\ unwinds \in Nat /\ live \subseteq Object
  BY DEF Inductive, TypeOK
<1>2. /\ frames' = SubSeq(frames, 1, depth)
      /\ unwinds' = unwinds + 1 /\ closed' = closed
      /\ live' \subseteq live
      /\ \A p \in live' : obj'[p] = objs[p]
  BY <1>1 DEF Abandon, handle
<1>3. Len(frames) \in Nat
  BY <1>1, LenProperties
<1>4. /\ depth \in Nat /\ depth <= Len(frames) /\ Len(frames') = depth
      /\ frames' \in Seq(Frame)
      /\ \A i \in 1 .. depth : frames'[i] = frames[i]
  BY <1>1, <1>2, <1>3, SubSeqProperties
<1>5. unwinds' # 0
  BY <1>1, <1>2
<1> QED
  BY <1>1, <1>2, <1>4, <1>5, FramesGo

LEMMA LoopCroaksWaits ==
    ASSUME Inductive, Inductive', WaitsInductive, NEW depth \in 0 .. Len(frames),
           LoopCroaks(depth)
    PROVE  WaitsInductive'
<1>1. \/ \E h : Abandon(depth, obj, h)
      \/ \E due \in SUBSET live : \E h : Abandon(depth, Marked(due), h)
  <2>1. ASSUME NEW o \in live,
               LET due == {p \in live : o < p /\ Due(obj[p])}
               IN  Abandon(depth, [p \in Object |->
                                     [obj[p] EXCEPT !.pending = @ \/ p \in due]],
                           fileHandler)
        PROVE  \E due \in SUBSET live : \E h : Abandon(depth, Marked(due), h)
    <3> DEFINE due == {p \in live : o < p /\ Due(obj[p])}
    <3>1. due \in SUBSET live
      OBVIOUS
    <3>2. Abandon(depth, Marked(due), fileHandler)
      BY <2>1 DEF Marked
    <3> HIDE DEF due
    <3> QED
      BY <3>1, <3>2
  <2> QED
    BY <2>1 DEF LoopCroaks
<1>2. ASSUME NEW h, Abandon(depth, obj, h)
      PROVE  WaitsInductive'
  BY <1>2, AbandonWaits
<1>3. ASSUME NEW due \in SUBSET live, NEW objs, objs = Marked(due), NEW h,
             Abandon(depth, objs, h)
      PROVE  WaitsInductive'
  <2>1. \A p \in Object : objs[p].wait = obj[p].wait /\ objs[p].croaked = obj[p].croaked
    BY <1>3, DueMarked
  <2> QED
    BY <1>3, <2>1, AbandonWaits
<1> QED
  BY <1>1, <1>2, <1>3

LEMMA StepWaits ==
    ASSUME Inductive, Inductive', WaitsInductive, [Next]_vars
    PROVE  WaitsInductive'
<1>1. ASSUME NEW m \in Mode,
             TieHandler(m) \/ SetHandler(m) \/ DeleteHandler(m) \/ Wait(m)
      PROVE  WaitsInductive'
  BY <1>1, TieHandlerWaits, HandlerWaits, WaitWaits
<1>2. ASSUME NEW depth \in 0 .. Len(frames), Die(depth) \/ LoopCroaks(depth)
      PROVE  WaitsInductive'
  <2>1. CASE Die(depth)
    <3>1. Abandon(depth, obj, fileHandler)
      BY <2>1 DEF Die
    <3> QED
      BY <3>1, AbandonWaits
  <2> QED
    BY <1>2, <2>1, LoopCroaksWaits
<1>3. CASE TieQuery \/ Close \/ WaitReturns \/ ServiceIOEvent \/ CallbackReturns
  BY <1>3, TieQueryWaits, CloseWaits, WaitReturnsWaits, ServiceIOEventWaits,
     CallbackReturnsWaits
<1>4. CASE \/ \E m \in Mode, o \in Object : BufferFound(o, m)
           \/ \E selected \in SUBSET Mode : Select(selected)
           \/ Check
           \/ ServiceFileEvent
           \/ CloseUntied
           \/ UNCHANGED vars
  BY <1>4, LoopWaits
<1> QED
  BY <1>1, <1>2, <1>3, <1>4 DEF Next

-----------------------------------------------------------------------------
LEMMA StepInductive ==
    ASSUME Inductive, Next
    PROVE  Inductive'
<1>1. ASSUME NEW m \in Mode,
             \/ TieHandler(m)
             \/ SetHandler(m)
             \/ DeleteHandler(m)
             \/ Wait(m)
             \/ \E o \in Object : BufferFound(o, m)
      PROVE  Inductive'
  BY <1>1, TieHandlerInductive, SetHandlerInductive, DeleteHandlerInductive, WaitInductive,
     BufferFoundInductive
<1>2. ASSUME NEW selected \in SUBSET Mode, Select(selected)
      PROVE  Inductive'
  BY <1>2, SelectInductive
<1>3. ASSUME NEW depth \in 0 .. Len(frames), Die(depth) \/ LoopCroaks(depth)
      PROVE  Inductive'
  BY <1>3, DieInductive, LoopCroaksInductive
<1>4. CASE \/ TieQuery \/ Close \/ CloseUntied \/ WaitReturns \/ Check
           \/ ServiceFileEvent \/ ServiceIOEvent \/ CallbackReturns
  BY <1>4, TieQueryInductive, CloseInductive, CloseUntiedInductive, WaitReturnsInductive,
     CheckInductive, ServiceFileEventInductive, ServiceIOEventInductive,
     CallbackReturnsInductive
<1> QED
  BY <1>1, <1>2, <1>3, <1>4 DEF Next

LEMMA StutterInductive ==
    ASSUME Inductive, UNCHANGED vars
    PROVE  Inductive'
<1>1. ioEvents \in Nat /\ fileEvents \in Nat /\ unwinds \in Nat
      /\ fileHandler \in FileHandler \cup {NULL}
  BY DEF Inductive, TypeOK
<1> QED
  BY <1>1, ObjectsUnchanged DEF vars, handle

(***************************************************************************)
(* The objects in the list are those that are tied or referred to, which   *)
(* is what the other parts rest on: PerlIO_watch and PerlIO_DESTROY then   *)
(* leave the notifier with the handler of a live object, or none, while    *)
(* the handle has a descriptor.  A croak of PerlIO_watch changes neither   *)
(* mask nor the notifier's handler, and the object that is destroyed is    *)
(* unwatched with empty masks, which no handle refuses.                    *)
(***************************************************************************)
THEOREM InductiveInvariant == Spec => []Inductive
<1>1. Init => Inductive
  BY InitInductive
<1>2. Inductive /\ [Next]_vars => Inductive'
  BY StepInductive, StutterInductive
<1> QED
  BY <1>1, <1>2, PTL DEF Spec

\* Every variable keeps its type.
THEOREM TypeCorrect == Spec => []TypeOK
<1>1. Inductive => TypeOK
  BY DEF Inductive
<1> QED
  BY <1>1, InductiveInvariant, PTL

\* mask, as PerlIO_watch left it, is waitMask | handlerMask, unless PerlIO_watch
\* croaked for the object and would croak again for these masks.
THEOREM MasksAgree == Spec => []MaskAgrees
<1>1. Inductive => MaskAgrees
  BY DEF Inductive
<1> QED
  BY <1>1, InductiveInvariant, PTL

\* While the handle has its descriptor, the clientData of the notifier's handler is
\* never an object that was freed, and its mask is that object's.
THEOREM OwnersAlive == Spec => []OwnerAlive
<1>1. Inductive => OwnerAlive
  BY DEF Inductive
<1> QED
  BY <1>1, InductiveInvariant, PTL

\* PerlIOCheckProc may skip a pending object: its event is in the queue, unless a
\* croak of PerlIO_watch for the object was thrown out of the loop.
THEOREM PendingCorrect == Spec => []PendingIsQueued
<1>1. Inductive => PendingIsQueued
  BY DEF Inductive
<1> QED
  BY <1>1, InductiveInvariant, PTL

\* The waits of the stack need what is known of the objects, and nothing of the
\* event loop: what oldWait keeps is there for the wait below, and doMask leaves
\* out what is waited for.
LEMMA WaitsInvariant == Spec => []WaitsInductive
<1>1. Init => WaitsInductive
  BY InitWaits
<1>2. Inductive /\ Inductive' /\ WaitsInductive /\ [Next]_vars => WaitsInductive'
  BY StepWaits
<1> QED
  BY <1>1, <1>2, InductiveInvariant, PTL DEF Spec

\* waitMask has what the waits on the stack need, however they nest, and nothing
\* else unless an exception passed or PerlIO_watch croaked for the object.
THEOREM WaitsNest == Spec => []WaitMaskIsStack
<1>1. WaitsInductive => WaitMaskIsStack
  BY DEF WaitsInductive
<1> QED
  BY <1>1, WaitsInvariant, PTL

\* PerlIO_wait inhibits the callback of its mode for as long as it runs, also as a
\* later mode of the doMask of a callback above it.
THEOREM CallbacksInhibited == Spec => []Inhibited
<1>1. WaitsInductive => Inhibited
  BY DEF WaitsInductive, DoMaskInhibited, Inhibited
<1> QED
  BY <1>1, WaitsInvariant, PTL

=============================================================================
