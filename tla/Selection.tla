------------------------------ MODULE Selection ------------------------------
(***************************************************************************)
(* Getting the selection from another application, in one piece or by the  *)
(* INCR protocol (pTk/mTk/unix/tkUnixSelect.c, and HandleTclCommand of     *)
(* generic/tkSelect.c).  Both sides wait in nested event loops:            *)
(* TkSelGetSelection and SelectionNotify at the requestor,                 *)
(* ConvertSelection at the owner, so that retrievals and transfers nest    *)
(* like stacks, while one property of one window and one CommandInfo serve *)
(* them all.  One requestor, one owner, one target, no MULTIPLE; the text  *)
(* is ASCII, a chunk holds Bytes of it.  An application that died takes no *)
(* more steps.                                                             *)
(***************************************************************************)
EXTENDS Integers, Sequences, FiniteSets

CONSTANTS
    Retrieval,      \* the calls of Tk_GetSelection at the requestor
    Bytes,          \* TK_SEL_BYTES_AT_ONCE
    Lengths,        \* the lengths a text may have
    Patience,       \* the seconds both sides wait for each other, 5 in the code
    MaxTricks,      \* bound: what the owner's program does in between
    MaxLength,      \* bound: the length of a text
    None, INCR      \* contents of the property: none, the INCR announcement

ASSUME RetrievalAssumption == IsFiniteSet(Retrieval)
ASSUME BytesAssumption == Bytes \in Nat \ {0} /\ Patience \in Nat \ {0}
ASSUME BoundsAssumption ==
    MaxTricks \in Nat /\ MaxLength \in Nat /\ Lengths \subseteq 1 .. MaxLength
\* Bytes are told apart by the text they are of and their position in it.
Data == Seq(Int \X Int)

ASSUME PropertyAssumption ==
    None \notin Data /\ INCR \notin Data /\ None # INCR

VARIABLES
    text,           \* what the owner's callback returns
    handler,        \* there is a TkSelHandler
    next,           \* byteOffset of its CommandInfo
    transfer,       \* the stack pendingIncrs of ConvertSelection calls that wait
    retrieval,      \* the TkSelRetrievalInfos
    frames,         \* the stack of loops of the requestor
    property,       \* server: the property the selection is passed in
    listening,      \* server: the owner selected PropertyChange events
    toOwner,        \* server: events under way to the owner
    toRequestor,    \*         and to the requestor
    tricks,         \* how many MaxTricks are used up
    spoiled         \* history: the retrievals something interfered with

ownerVars == <<text, handler, next, transfer>>
requestorVars == <<retrieval, frames>>
retrievalVars == <<ownerVars, requestorVars, property, listening, toOwner,
                   toRequestor, tricks, spoiled>>

\* The i-th byte of a text says which text it is of.
Text(version, n) == [i \in 1 .. n |-> <<version, i>>]
Texts == {Text(v, n) : v \in 0 .. MaxTricks, n \in Lengths}

\* No text is as long as this: offsets and values are not counted beyond.
Beyond == MaxLength + 1
AtMost(n, max) == IF n < max THEN n ELSE max
Append1(value, chunk) == SubSeq(value \o chunk, 1, AtMost(Len(value \o chunk), Beyond))

\* What the code appends when it takes the INCR announcement for data.
Garbage == <<<<-1, -1>>>>

Unused(result) == [result |-> result, idle |-> 0, value |-> <<>>]

Waiting == {r \in Retrieval : retrieval[r].result = "pending"}
Going == {frames[i].get : i \in DOMAIN frames}
Top(stack) == stack[Len(stack)]
Pop(stack) == SubSeq(stack, 1, Len(stack) - 1)

\* Innermost loops go round only while what they wait for has not happened.
RequestorRuns == frames # <<>> => retrieval[Top(frames).get].result = "pending"
OwnerRuns == transfer # <<>> => Top(transfer).incrs > 0

RetrievalInit ==
    /\ \E n \in Lengths : text = Text(0, n)
    /\ handler \in BOOLEAN
    /\ next = 0
    /\ transfer = <<>>
    /\ retrieval = [r \in Retrieval |-> Unused("new")]
    /\ frames = <<>>
    /\ property = None
    /\ listening = FALSE
    /\ toOwner = <<>> /\ toRequestor = <<>>
    /\ tricks = 0 /\ spoiled = {}

-----------------------------------------------------------------------------
\* The X server: requests take effect at once, events arrive in order.

ChangeProperty(chunk, events) ==
    /\ property' = chunk
    /\ toRequestor' = toRequestor \o events

\* XDeleteProperty; the owner hears of it if it listens.
DeleteProperty(from) ==
    /\ property' = None
    /\ toOwner' = IF listening /\ property # None THEN Append(from, "delete") ELSE from

-----------------------------------------------------------------------------
\* The requestor.

RequestsIn(queue) == {i \in DOMAIN queue : queue[i] = "request"}

\* What becomes of a TkSelRetrievalInfo.
SetInfo(r, result, idle, value) ==
    retrieval' = [retrieval EXCEPT
                     ![r] = [result |-> result, idle |-> idle, value |-> value]]

\* Nothing of an earlier retrieval is left anywhere.
Quiet ==
    /\ frames = <<>> /\ toRequestor = <<>>
    /\ RequestsIn(toOwner) = {}
    /\ \A i \in DOMAIN transfer : transfer[i].offset = -1

\* TkSelGetSelection, also from a callback while another retrieval waits.
GetSelection(r) ==
    /\ RequestorRuns
    /\ retrieval[r].result = "new"
    /\ SetInfo(r, "pending", 0, <<>>)
    /\ frames' = Append(frames, [get |-> r, incr |-> FALSE])
    /\ toOwner' = Append(toOwner, "request")
    /\ spoiled' = IF Quiet THEN spoiled ELSE spoiled \cup Going \cup {r}
    /\ UNCHANGED <<ownerVars, property, listening, toRequestor, tricks>>

Event(queue, event) == queue # <<>> /\ Head(queue) = event

\* The retrieval an answer is taken for: the newest that waits.
IsNewest(i) ==
    /\ ~ frames[i].incr /\ frames[i].get \in Waiting
    /\ \A j \in i + 1 .. Len(frames) : frames[j].incr \/ frames[j].get \notin Waiting

\* What the SelectionNotify of a conversion that was not refused does.
Answer(i) ==
    LET r == frames[i].get
    IN  \/ /\ property = None
           /\ UNCHANGED <<retrieval, frames, property, toOwner>>
        \/ /\ property = INCR
           /\ SetInfo(r, "pending", 0, retrieval[r].value)
           /\ frames' = Append(frames, [get |-> r, incr |-> TRUE])
           /\ DeleteProperty(toOwner)
        \/ /\ property \notin {None, INCR}
           /\ SetInfo(r, "ok", retrieval[r].idle, Append1(retrieval[r].value, property))
           /\ UNCHANGED <<frames, property, toOwner>>

\* TkSelEventProc for a SelectionNotify event.
SelectionNotify ==
    /\ RequestorRuns
    /\ toRequestor # <<>> /\ Head(toRequestor) \in {"notify", "refuse"}
    /\ toRequestor' = Tail(toRequestor)
    /\ \/ /\ \A i \in DOMAIN frames : ~ IsNewest(i)
          /\ UNCHANGED <<retrieval, frames, property, toOwner>>
       \/ \E i \in DOMAIN frames :
            /\ IsNewest(i)
            /\ \/ Head(toRequestor) = "notify" /\ Answer(i)
               \/ /\ Head(toRequestor) = "refuse"
                  /\ LET r == frames[i].get
                     IN  SetInfo(r, "error", retrieval[r].idle, retrieval[r].value)
                  /\ UNCHANGED <<frames, property, toOwner>>
    /\ UNCHANGED <<ownerVars, listening, tricks, spoiled>>

\* The retrieval that gets a new value of the property: the oldest INCR transfer.
IsOldest(i) ==
    /\ frames[i].incr /\ frames[i].get \in Waiting
    /\ \A j \in 1 .. i - 1 : ~ frames[j].incr \/ frames[j].get \notin Waiting

\* SelRcvIncrProc: an empty value ends the transfer.
Receive(r) ==
    /\ SetInfo(r, IF property = <<>> THEN "ok" ELSE "pending", 0,
               Append1(retrieval[r].value, IF property = INCR THEN Garbage ELSE property))
    /\ DeleteProperty(toOwner)

\* A PropertyNotify event with a new value; it may find the property read already.
NewValue ==
    /\ RequestorRuns
    /\ Event(toRequestor, "new")
    /\ toRequestor' = Tail(toRequestor)
    /\ \/ /\ property = None \/ \A i \in DOMAIN frames : ~ IsOldest(i)
          /\ UNCHANGED <<retrieval, property, toOwner>>
       \/ /\ property # None
          /\ \E i \in DOMAIN frames : IsOldest(i) /\ Receive(frames[i].get)
    /\ UNCHANGED <<ownerVars, frames, listening, tricks, spoiled>>

\* (Mutant: it gives up a second early.)
SelTimeoutEarly(r) ==
    /\ RequestorRuns
    /\ r \in Waiting
    /\ SetInfo(r, IF retrieval[r].idle + 1 >= Patience - 1 THEN "error"
                  ELSE retrieval[r].result,
               retrieval[r].idle + 1, retrieval[r].value)
    /\ UNCHANGED <<ownerVars, frames, property, listening, toOwner, toRequestor,
                   tricks, spoiled>>

\* (Mutant: the timer is not created again.)
SelTimeoutOnce(r) ==
    /\ RequestorRuns
    /\ r \in Waiting /\ retrieval[r].idle = 0
    /\ SetInfo(r, IF retrieval[r].idle + 1 >= Patience THEN "error"
                  ELSE retrieval[r].result,
               retrieval[r].idle + 1, retrieval[r].value)
    /\ UNCHANGED <<ownerVars, frames, property, listening, toOwner, toRequestor,
                   tricks, spoiled>>

\* SelTimeoutProc, once a second.
SelTimeout(r) ==
    /\ RequestorRuns
    /\ r \in Waiting
    /\ SetInfo(r, IF retrieval[r].idle + 1 >= Patience THEN "error"
                  ELSE retrieval[r].result,
               retrieval[r].idle + 1, retrieval[r].value)
    /\ UNCHANGED <<ownerVars, frames, property, listening, toOwner, toRequestor,
                   tricks, spoiled>>

\* The innermost loop ends; with its own loop the TkSelRetrievalInfo goes.
Leave ==
    /\ ~ RequestorRuns
    /\ frames' = Pop(frames)
    /\ IF Top(frames).incr
         THEN UNCHANGED <<retrieval, spoiled>>
         ELSE /\ SetInfo(Top(frames).get, "returned", 0, <<>>)
              /\ spoiled' = spoiled \ {Top(frames).get}
    /\ UNCHANGED <<ownerVars, property, listening, toOwner, toRequestor, tricks>>

-----------------------------------------------------------------------------
\* The owner.

\* What the program does while its application waits, or its callback in place of
\* returning text, may harm the retrievals that go on.
Trick ==
    /\ tricks < MaxTricks
    /\ tricks' = tricks + 1
    /\ spoiled' = spoiled \cup Going

Honest == UNCHANGED <<tricks, spoiled>>

\* (Mutant: every portion starts at the beginning.)
StartAfresh(offset) == 0

\* HandleTclCommand goes on where the last call stopped if that is the offset it is
\* asked for, and starts again from the beginning if not.
Start(offset) == IF offset = next THEN next ELSE 0
Portion(offset) ==
    SubSeq(text, Start(offset) + 1, AtMost(Start(offset) + Bytes, Len(text)))

\* The whole text fits into the property.
ConvertShort ==
    /\ handler
    /\ Len(Portion(0)) < Bytes
    /\ ChangeProperty(Portion(0), <<"new", "notify">>)
    /\ next' = Len(Portion(0))
    /\ Honest /\ UNCHANGED <<handler, transfer, listening>>

Refuse == property' = property /\ toRequestor' = Append(toRequestor, "refuse")

\* No handler, or a callback that dies or deletes the handler at once.
ConvertNothing ==
    /\ Refuse
    /\ \/ ~ handler /\ Honest /\ UNCHANGED <<handler, next>>
       \/ handler /\ Trick /\ next' = 0 /\ handler' \in BOOLEAN
    /\ UNCHANGED <<transfer, listening>>

Await(offset) ==
    /\ transfer' = Append(transfer, [offset |-> offset, incrs |-> 1, idle |-> 0])
    /\ listening' = TRUE

\* The text is too long: an INCR transfer begins when SelectionSize has had a second
\* portion, which HandleCompat takes for words of the type INCR and so not for a full
\* one, or the callback has died.
ConvertIncr ==
    /\ handler
    /\ Len(Portion(0)) = Bytes
    /\ ChangeProperty(INCR, <<"new", "notify">>)
    /\ Await(0)
    /\ \/ next' = AtMost(2 * Bytes, Len(text)) /\ Honest
       \/ next' = Bytes /\ Trick
    /\ UNCHANGED handler

\* The callback deletes the handler in SelectionSize: the requestor is refused, but
\* numIncrs stays 1.
ConvertVanishes ==
    /\ handler
    /\ Len(Portion(0)) = Bytes
    /\ Refuse
    /\ Await(-1)
    /\ handler' = FALSE /\ next' = 0
    /\ Trick

\* ConvertSelection, up to the loop it waits in.
ConvertSelection ==
    /\ OwnerRuns
    /\ Event(toOwner, "request")
    /\ toOwner' = Tail(toOwner)
    /\ ConvertShort \/ ConvertNothing \/ ConvertIncr \/ ConvertVanishes
    /\ UNCHANGED <<requestorVars, text>>

\* What becomes of an IncrInfo.
SetTransfer(i, offset, incrs, idle) ==
    transfer' = [transfer EXCEPT
                    ![i] = [offset |-> offset, incrs |-> incrs, idle |-> idle]]

\* The transfer is not idle; but a timer that has given up is not created again.
Served(i) == IF transfer[i].idle < Patience THEN 0 ELSE Patience

\* A chunk, full, last or empty, and where the next one starts.
SendChunk(i, chunk) ==
    /\ ChangeProperty(chunk, <<"new">>)
    /\ SetTransfer(i,
           IF Len(chunk) = Bytes THEN AtMost(transfer[i].offset + Bytes, Beyond)
           ELSE IF chunk = <<>> THEN -1 ELSE -2,
           IF chunk = <<>> THEN transfer[i].incrs - 1 ELSE transfer[i].incrs, Served(i))

\* The transfer that is served: the newest that is not complete.
IsServed(i) ==
    /\ transfer[i].offset # -1
    /\ \A j \in i + 1 .. Len(transfer) : transfer[j].offset = -1

Serve(i) ==
    LET offset == transfer[i].offset
    IN  \/ /\ ~ handler
           /\ SetTransfer(i, -1, transfer[i].incrs - 1, Served(i))
           /\ Honest /\ UNCHANGED <<handler, next, property, toRequestor>>
        \/ /\ handler /\ offset = -2
           /\ SendChunk(i, <<>>)
           /\ Honest /\ UNCHANGED <<handler, next>>
        \/ /\ handler /\ offset # -2
           /\ SendChunk(i, Portion(offset))
           /\ next' = Start(offset) + Len(Portion(offset))
           /\ Honest /\ UNCHANGED handler
        \/ \* the callback dies: taken for the end of the text
           /\ handler /\ offset # -2
           /\ SendChunk(i, <<>>)
           /\ next' = Start(offset)
           /\ Trick /\ UNCHANGED handler
        \/ \* the callback deletes the handler
           /\ handler /\ offset # -2
           /\ SetTransfer(i, offset, transfer[i].incrs, Served(i))
           /\ handler' = FALSE /\ next' = 0
           /\ Trick /\ UNCHANGED <<property, toRequestor>>

\* TkSelPropProc, when the requestor has read the property.
PropertyDeleted ==
    /\ OwnerRuns
    /\ Event(toOwner, "delete")
    /\ toOwner' = Tail(toOwner)
    /\ \/ /\ \A i \in DOMAIN transfer : ~ IsServed(i)
          /\ Honest
          /\ UNCHANGED <<handler, next, transfer, property, toRequestor>>
       \/ \E i \in DOMAIN transfer : IsServed(i) /\ Serve(i)
    /\ UNCHANGED <<requestorVars, text, listening>>

\* (Mutant: the timer is not created again.)
IncrTimeoutOnce(i) ==
    /\ OwnerRuns
    /\ transfer[i].idle = 0
    /\ SetTransfer(i, transfer[i].offset, transfer[i].incrs, transfer[i].idle + 1)
    /\ UNCHANGED <<requestorVars, text, handler, next, property, listening, toOwner,
                   toRequestor, tricks, spoiled>>

\* (Mutant: the timer is created again when it has given up.)
IncrTimeoutAgain(i) ==
    /\ OwnerRuns
    /\ SetTransfer(i, transfer[i].offset,
                   IF transfer[i].idle + 1 >= Patience THEN 0 ELSE transfer[i].incrs,
                   transfer[i].idle + 1)
    /\ spoiled' = IF transfer[i].idle + 1 >= Patience THEN spoiled \cup Going
                  ELSE spoiled
    /\ UNCHANGED <<requestorVars, text, handler, next, property, listening, toOwner,
                   toRequestor, tricks>>

\* IncrTimeoutProc, for any transfer on the stack.
IncrTimeout(i) ==
    /\ OwnerRuns
    /\ transfer[i].idle < Patience
    /\ SetTransfer(i, transfer[i].offset,
                   IF transfer[i].idle + 1 >= Patience THEN 0 ELSE transfer[i].incrs,
                   transfer[i].idle + 1)
    /\ spoiled' = IF transfer[i].idle + 1 >= Patience THEN spoiled \cup Going
                  ELSE spoiled
    /\ UNCHANGED <<requestorVars, text, handler, next, property, listening, toOwner,
                   toRequestor, tricks>>

\* ConvertSelection returns from its loop.
ConvertReturns ==
    /\ ~ OwnerRuns
    /\ transfer' = Pop(transfer)
    /\ listening' = FALSE
    /\ UNCHANGED <<requestorVars, text, handler, next, property, toOwner, toRequestor,
                   tricks, spoiled>>

\* The text changes, as when the program selects something else.
ChangeText ==
    /\ OwnerRuns /\ Trick
    /\ \E n \in Lengths : text' = Text(tricks + 1, n)
    /\ UNCHANGED <<requestorVars, handler, next, transfer, property, listening,
                   toOwner, toRequestor>>

\* Tk_GetXSelection in the owner: it calls the handler itself.
GetLocally ==
    /\ OwnerRuns /\ Trick
    /\ handler
    /\ next' = Len(text)
    /\ UNCHANGED <<requestorVars, text, handler, transfer, property, listening,
                   toOwner, toRequestor>>

\* SelectionHandle: Tk_CreateXSelHandler or Tk_DeleteSelHandler.
SelectionHandle ==
    /\ OwnerRuns /\ Trick
    /\ handler' \in BOOLEAN
    /\ next' = 0
    /\ UNCHANGED <<requestorVars, text, transfer, property, listening, toOwner,
                   toRequestor>>

Requestor ==
    \/ SelectionNotify \/ NewValue \/ Leave
    \/ \E r \in Retrieval : SelTimeout(r)

Owner ==
    \/ ConvertSelection \/ PropertyDeleted \/ ConvertReturns
    \/ \E i \in DOMAIN transfer : IncrTimeout(i)

RetrievalNext ==
    \/ \E r \in Retrieval : GetSelection(r)
    \/ Requestor \/ Owner
    \/ ChangeText \/ GetLocally \/ SelectionHandle

RetrievalSpec == RetrievalInit /\ [][RetrievalNext]_retrievalVars

\* The requestor handles its events and its timers.
FairRequestor ==
    /\ WF_retrievalVars(SelectionNotify \/ NewValue \/ Leave)
    /\ \A r \in Retrieval : WF_retrievalVars(SelTimeout(r))

\* So does the owner.
FairOwner ==
    /\ WF_retrievalVars(ConvertSelection \/ PropertyDeleted \/ ConvertReturns)
    /\ \A i \in 1 .. Cardinality(Retrieval) :
          WF_retrievalVars(i \in DOMAIN transfer /\ IncrTimeout(i))

\* One side goes on; the other may have died.
FairRetrievalSpec == RetrievalSpec /\ (FairRequestor \/ FairOwner)

-----------------------------------------------------------------------------
Transfer == [offset : -2 .. Beyond, incrs : -1 .. 1, idle : 0 .. Patience]
RetrievalInfo == [result : {"new", "pending", "ok", "error", "returned"},
                  idle : 0 .. Patience, value : Data]

\* Whatever one side sends and the other does, the offsets stay within the text, a
\* count of idle seconds stops at Patience, and there are at most as many transfers as retrievals.
RetrievalTypeOK ==
    /\ text \in Texts
    /\ handler \in BOOLEAN /\ listening \in BOOLEAN
    /\ next \in 0 .. Beyond - 1
    /\ transfer \in Seq(Transfer)
    /\ Len(transfer) + Cardinality(RequestsIn(toOwner)) <= Cardinality(Retrieval)
    /\ retrieval \in [Retrieval -> RetrievalInfo]
    /\ \A r \in Retrieval : Len(retrieval[r].value) <= Beyond
    /\ frames \in Seq([get : Retrieval, incr : BOOLEAN])
    /\ \/ property \in {None, INCR}
       \/ property \in Data /\ Len(property) <= Bytes
    /\ toOwner \in Seq({"request", "delete"})
    /\ toRequestor \in Seq({"new", "notify", "refuse"})
    /\ tricks \in 0 .. MaxTricks /\ spoiled \subseteq Retrieval

\* What a retrieval that nothing interfered with has so far is the beginning of the
\* text, in order and without gaps, and all of it when it succeeds.
Whole ==
    \A r \in Going \ spoiled :
        /\ Len(retrieval[r].value) <= Len(text)
        /\ retrieval[r].value = SubSeq(text, 1, Len(retrieval[r].value))
        /\ retrieval[r].result = "ok" => retrieval[r].value = text

\* Such a retrieval fails only when there is no handler, or when it has waited for
\* Patience seconds in vain.
ErrorHasCause ==
    \A r \in Going \ spoiled :
        retrieval[r].result = "error" => \/ retrieval[r].idle = Patience
                                         \/ ~ handler

-----------------------------------------------------------------------------
\* Why Whole holds: the two sides take turns, and what is under way between them says
\* whose turn it is.

Used == {r \in Retrieval : retrieval[r].result # "new"}

\* Counts and what fits where, for every retrieval and transfer.
Bookkeeping ==
    /\ Len(transfer) + Cardinality(RequestsIn(toOwner))
         <= Cardinality(Used)
    /\ \A i \in DOMAIN transfer : transfer[i].offset # -1 => transfer[i].incrs >= 0
    /\ \A r \in Retrieval :
          /\ retrieval[r].result = "new" => retrieval[r] = Unused("new")
          /\ retrieval[r].result = "pending" => retrieval[r].idle < Patience
    /\ property \notin {None, INCR} => Len(property) <= MaxLength

\* A retrieval has a loop until it returns, and its first loop is the outer one.
LoopsNest ==
    \A i \in DOMAIN frames :
        /\ retrieval[frames[i].get].result \in {"pending", "ok", "error"}
        /\ ~ frames[i].incr =>
              \A j \in 1 .. i - 1 : frames[j].get # frames[i].get

Beginning(n) == SubSeq(text, 1, n)

OneLoop(r) == frames = <<[get |-> r, incr |-> FALSE]>>
TwoLoops(r) == frames = <<[get |-> r, incr |-> FALSE], [get |-> r, incr |-> TRUE]>>

\* Every transfer is complete, or every one but the innermost, whose loop goes round.
NoneServed == \A i \in DOMAIN transfer : transfer[i].offset = -1
LastServed ==
    /\ transfer # <<>>
    /\ Top(transfer).incrs = 1
    /\ \A i \in 1 .. Len(transfer) - 1 : transfer[i].offset = -1

\* The request is on its way, behind the last events of former retrievals.
Asked(r) ==
    /\ OneLoop(r) /\ retrieval[r].value = <<>>
    /\ toRequestor = <<>>
    /\ toOwner # <<>>
    /\ RequestsIn(toOwner) = {Len(toOwner)}
    /\ NoneServed

\* The whole text is in the property.
Answered(r) ==
    /\ OneLoop(r) /\ retrieval[r].value = <<>>
    /\ toOwner = <<>> /\ toRequestor \in {<<"new", "notify">>, <<"notify">>}
    /\ NoneServed
    /\ property = text

Refused(r) ==
    /\ OneLoop(r) /\ retrieval[r].value = <<>>
    /\ toOwner = <<>> /\ toRequestor = <<"refuse">>
    /\ NoneServed
    /\ ~ handler

\* The property says that the text will come in chunks.
Announced(r) ==
    /\ OneLoop(r) /\ retrieval[r].value = <<>>
    /\ toOwner = <<>> /\ toRequestor \in {<<"new", "notify">>, <<"notify">>}
    /\ LastServed /\ handler
    /\ Top(transfer).offset = 0
    /\ property = INCR

\* The requestor has read the property, and has all up to the offset.
OwnersTurn(r) ==
    /\ TwoLoops(r)
    /\ toOwner \in {<<>>, <<"delete">>} /\ toRequestor = <<>>
    /\ LastServed /\ handler
    /\ property = None
    /\ LET offset == Top(transfer).offset
       IN  \/ /\ offset \in 0 .. Len(text)
              /\ offset > 0 => next = offset
              /\ retrieval[r].value = Beginning(offset)
           \/ offset = -2 /\ retrieval[r].value = text

\* A chunk is in the property, and reaches up to the offset.
RequestorsTurn(r) ==
    /\ TwoLoops(r)
    /\ toOwner = <<>> /\ toRequestor = <<"new">>
    /\ handler
    /\ property \in Data
    /\ \/ /\ LastServed /\ property # <<>>
          /\ \/ /\ next \in 1 .. Len(text) /\ Top(transfer).offset = next
                /\ retrieval[r].value \o property = Beginning(next)
             \/ Top(transfer).offset = -2 /\ retrieval[r].value \o property = text
       \/ NoneServed /\ property = <<>> /\ retrieval[r].value = text

\* The result is there, and the loops end.
Finished(r) ==
    LET value == retrieval[r].value
    IN  /\ retrieval[r].result \in {"ok", "error"}
        /\ Len(value) <= Len(text) /\ value = Beginning(Len(value))
        /\ retrieval[r].result = "ok" => value = text
        /\ retrieval[r].result = "error" => retrieval[r].idle = Patience \/ ~ handler

Proceeds(r) ==
    \/ Asked(r) \/ Answered(r) \/ Refused(r)
    \/ Announced(r) \/ OwnersTurn(r) \/ RequestorsTurn(r)

InOrder(r) ==
    \/ Finished(r)
    \/ retrieval[r].result = "pending" /\ Proceeds(r)

\* A retrieval that nothing interfered with is alone, and at one of these points.
Undisturbed == \A r \in Going \ spoiled : Going = {r} /\ InOrder(r)

RetrievalInductive == RetrievalTypeOK /\ Bookkeeping /\ LoopsNest /\ Undisturbed

-----------------------------------------------------------------------------
\* A transfer whose handler was used for something else in between, and which it
\* starts again from the beginning for every chunk.
Crossed ==
    \E i \in DOMAIN transfer : transfer[i].offset > 0 /\ transfer[i].offset # next

\* Every retrieval ends while the requestor goes on, also when the owner dies, unless
\* its transfer is crossed: none begins twice, so that the loops are left for good.
EveryGetReturns == FairRequestor => []<>(Going = {} \/ Crossed)

\* The same without the proviso: the loop of TkSelGetSelection ends when the
\* selection is there, or when no response is received within a few seconds.
EveryGetReturnsAsDocumented == FairRequestor => []<>(Going = {})

\* Every transfer ends while the owner goes on, unless it is crossed: the requestor
\* may time out, leave, ask again, or have died.
TransferEnds == FairOwner => []<>(transfer = <<>> \/ Crossed)

=============================================================================
