-------------------------- MODULE StreamReaderProofs --------------------------
(***************************************************************************)
(* What holds of the stream reader for any tool calls, any chunks and      *)
(* bodies of any length.                                                   *)
(*                                                                         *)
(* The argument is about one sequence, the events delivered followed by    *)
(* those in the queue: it only grows, each of its events fits behind those *)
(* before it (Fits), its blocks are the ones the reader's fields name      *)
(* (Blocks), and its fragments are those of the lines read (Fragments).      *)
(***************************************************************************)
EXTENDS StreamReader, SequenceTheorems, FiniteSetTheorems, WellFoundedInduction, TLAPS

Event ==
    [kind : {"start", "stop", "error"}]
    \cup [kind : {"blockStart", "blockStop"}, index : Nat]
    \cup [kind : {"blockDelta"}, index : Nat, token : Nat \X Nat]
    \cup [kind : {"delta"}, reason : FinishReasons \cup {"none"}, usage : BOOLEAN]

Events == Seq(Event)

(* The events of a message that goes on.                                   *)
Going == {"start", "blockStart", "blockDelta", "blockStop"}

(* The blocks that the first n events of E start and stop.                 *)
Starts(E, n) == {E[i].index : i \in {j \in 1 .. n : E[j].kind = "blockStart"}}
Stops(E, n) == {E[i].index : i \in {j \in 1 .. n : E[j].kind = "blockStop"}}

(* The fragments that E has of a block.                                    *)
Pieces(E, idx) ==
    {E[i].token : i \in {j \in 1 .. Len(E) : E[j].kind = "blockDelta" /\ E[j].index = idx}}

(* The n-th event of E fits behind those before it; quiet says that the    *)
(* upstream sends no content after a finish_reason.                        *)
Fits(E, n, quiet) ==
    LET e == E[n]
    IN  /\ e.kind = "start" => n = 1
        /\ e.kind \in {"blockStart", "blockDelta", "blockStop", "delta"} => n > 1
        /\ e.kind \in Going \cup {"delta", "error"} => \A i \in 1 .. (n - 1) : E[i].kind \in Going
        /\ e.kind = "stop" => n > 1 /\ E[n - 1].kind \in {"delta", "error"}
        /\ e.kind = "blockStart" => e.index \notin Starts(E, n - 1)
        /\ e.kind = "blockStop" => e.index \in Starts(E, n - 1) \ Stops(E, n - 1)
        /\ e.kind = "blockDelta" =>
             /\ e.index \in Starts(E, n - 1)
             /\ \A i \in 1 .. (n - 1) : E[i].kind = "blockDelta" => Precedes(E[i].token, e.token)
        /\ quiet /\ e.kind = "blockDelta" => e.index \notin Stops(E, n - 1)
        /\ quiet /\ e.kind = "delta" => Starts(E, n - 1) \subseteq Stops(E, n - 1)

AllFit(E, quiet) == \A n \in 1 .. Len(E) : Fits(E, n, quiet)

-----------------------------------------------------------------------------
(* Sequences of events.                                                    *)

LEMMA EventKinds ==
    \A e \in Event :
        /\ e.kind \in Going \cup {"delta", "stop", "error"}
        /\ e.kind \in {"blockStart", "blockDelta", "blockStop"} => e.index \in Nat
        /\ e.kind = "blockDelta" => e.token \in Nat \X Nat
  BY DEF Event, Going

LEMMA ConcatEvents ==
    ASSUME NEW E \in Events, NEW F \in Events, NEW G \in Events
    PROVE  E \o F \in Events /\ E \o (F \o G) = (E \o F) \o G
  BY ConcatAssociative DEF Events

LEMMA PairOfEvents ==
    ASSUME NEW d \in Event, NEW e \in Event
    PROVE  <<d, e>> \in Events /\ <<d, e>> = <<d>> \o <<e>>
<1>1. <<d, e>> = Append(<<d>>, e)
  OBVIOUS
<1>2. <<d>> \in Seq(Event) /\ <<d, e>> \in Seq(Event)
  OBVIOUS
<1>3. Append(<<d>>, e) = <<d>> \o <<e>>
  BY <1>2, AppendIsConcat
<1> QED BY <1>1, <1>2, <1>3 DEF Events

(* The sequence E and one more event.                                      *)
Then(E, e) == E \o <<e>>

(* What one more event adds to a sequence.                                 *)
Grown(F, E, e) ==
    /\ F \in Events /\ Len(E) \in Nat /\ Len(F) = Len(E) + 1 /\ F[Len(F)] = e
    /\ \A n \in 1 .. Len(E) : F[n] = E[n]
    /\ \A n \in 0 .. Len(E) : Starts(F, n) = Starts(E, n) /\ Stops(F, n) = Stops(E, n)
    /\ e.kind = "blockStart" => Starts(F, Len(F)) = Starts(E, Len(E)) \cup {e.index}
    /\ e.kind # "blockStart" => Starts(F, Len(F)) = Starts(E, Len(E))
    /\ e.kind = "blockStop" => Stops(F, Len(F)) = Stops(E, Len(E)) \cup {e.index}
    /\ e.kind # "blockStop" => Stops(F, Len(F)) = Stops(E, Len(E))
    /\ \A idx : e.kind = "blockDelta" /\ e.index = idx => Pieces(F, idx) = Pieces(E, idx) \cup {e.token}
    /\ \A idx : e.kind # "blockDelta" \/ e.index # idx => Pieces(F, idx) = Pieces(E, idx)

LEMMA OneMore ==
    ASSUME NEW E \in Events, NEW e \in Event, NEW F, F = Then(E, e)
    PROVE  Grown(F, E, e)
<1> DEFINE m == Len(E) + 1
<1>1. F \in Events /\ Len(E) \in Nat /\ Len(F) = m /\ F[m] = e /\ \A n \in 1 .. Len(E) : F[n] = E[n]
  BY DEF Events, Then
<1>2. \A n \in 0 .. Len(E) : 1 .. n \subseteq 1 .. Len(E)
  BY <1>1
<1>3. ASSUME NEW n \in 0 .. Len(E)
      PROVE  Starts(F, n) = Starts(E, n) /\ Stops(F, n) = Stops(E, n)
  BY <1>1, <1>2 DEF Starts, Stops
<1>4. \A j : j \in 1 .. m <=> j \in 1 .. Len(E) \/ j = m
  BY <1>1
<1>5. /\ e.kind = "blockStart" => Starts(F, m) = Starts(E, Len(E)) \cup {e.index}
      /\ e.kind # "blockStart" => Starts(F, m) = Starts(E, Len(E))
  BY <1>1, <1>4 DEF Starts
<1>6. /\ e.kind = "blockStop" => Stops(F, m) = Stops(E, Len(E)) \cup {e.index}
      /\ e.kind # "blockStop" => Stops(F, m) = Stops(E, Len(E))
  BY <1>1, <1>4 DEF Stops
<1>7. ASSUME NEW idx
      PROVE  /\ e.kind = "blockDelta" /\ e.index = idx => Pieces(F, idx) = Pieces(E, idx) \cup {e.token}
             /\ e.kind # "blockDelta" \/ e.index # idx => Pieces(F, idx) = Pieces(E, idx)
  BY <1>1, <1>4 DEF Pieces
<1> QED BY <1>1, <1>3, <1>5, <1>6, <1>7 DEF Grown

(* An event that fits leaves all the others fitting.                       *)
LEMMA OneMoreFits ==
    ASSUME NEW E \in Events, NEW e \in Event, NEW F, F = Then(E, e), NEW quiet \in BOOLEAN,
           AllFit(E, quiet), Fits(F, Len(E) + 1, quiet)
    PROVE  AllFit(F, quiet)
<1>1. /\ Len(E) \in Nat /\ Len(F) = Len(E) + 1
      /\ \A n \in 1 .. Len(E) : F[n] = E[n]
      /\ \A n \in 0 .. Len(E) : Starts(F, n) = Starts(E, n) /\ Stops(F, n) = Stops(E, n)
  BY OneMore DEF Grown
<1> SUFFICES ASSUME NEW n \in 1 .. Len(F)
             PROVE  Fits(F, n, quiet)
  BY DEF AllFit
<1>2. CASE n = Len(E) + 1
  BY <1>2
<1>3. CASE n \in 1 .. Len(E)
  <2>1. /\ Fits(E, n, quiet) /\ F[n] = E[n] /\ n - 1 \in 0 .. Len(E)
        /\ \A i \in 1 .. (n - 1) : F[i] = E[i]
        /\ n > 1 => F[n - 1] = E[n - 1]
    BY <1>1, <1>3 DEF AllFit
  <2>2. Starts(F, n - 1) = Starts(E, n - 1) /\ Stops(F, n - 1) = Stops(E, n - 1)
    BY <1>1, <2>1
  <2> QED BY <2>1, <2>2 DEF Fits
<1> QED BY <1>1, <1>2, <1>3

-----------------------------------------------------------------------------
(* The reader.                                                             *)

Reader ==
    [queue : Events, done : BOOLEAN, started : BOOLEAN, textOpen : BOOLEAN,
     toolBlocks : UNION {[D -> Nat] : D \in SUBSET Tools}, blockOrder : Seq(Nat),
     pendingFinish : FinishReasons \cup {"none"}, pendingUsage : BOOLEAN]

(* The events handed out and those that will be.                           *)
All(r) == delivered \o r.queue

Values(f) == {f[x] : x \in DOMAIN f}

(* The blocks that the reader r has opened, in the events E.               *)
Blocks(r, E, quiet) ==
    /\ IsFiniteSet(DOMAIN r.toolBlocks)
    /\ Values(r.toolBlocks) = 1 .. Cardinality(DOMAIN r.toolBlocks)
    /\ \A s, t \in DOMAIN r.toolBlocks : r.toolBlocks[s] = r.toolBlocks[t] => s = t
    /\ Starts(E, Len(E)) = (IF r.textOpen THEN {0} ELSE {}) \cup Values(r.toolBlocks)
    /\ \A i, j \in 1 .. Len(r.blockOrder) : r.blockOrder[i] = r.blockOrder[j] => i = j
    /\ Values(r.blockOrder) = Starts(E, Len(E)) \ Stops(E, Len(E))
    /\ Stops(E, Len(E)) \subseteq Starts(E, Len(E))
    /\ quiet /\ ~Finishing(r) => Stops(E, Len(E)) = {}
    /\ quiet /\ Finishing(r) => r.blockOrder = <<>>

(* The fragments in E are text and args, all of which precede next.        *)
Fragments(r, E, text, args, next) ==
    /\ Pieces(E, 0) = text
    /\ \A t \in DOMAIN r.toolBlocks : Pieces(E, r.toolBlocks[t]) = args[t]
    /\ \A t \in Tools \ DOMAIN r.toolBlocks : args[t] = {}
    /\ \A i \in 1 .. Len(E) : E[i].kind = "blockDelta" => Precedes(E[i].token, next)

Tokens == Nat \X Nat

(* A reader in the middle of a message.                                    *)
Reading(r, quiet, text, args, next) ==
    /\ r \in Reader /\ ~r.done /\ r.started
    /\ All(r) # <<>> /\ \A i \in 1 .. Len(All(r)) : All(r)[i].kind \in Going
    /\ AllFit(All(r), quiet)
    /\ Blocks(r, All(r), quiet)
    /\ Fragments(r, All(r), text, args, next)

(* The fields that enqueuing leaves alone.                                 *)
SameFields(q, r) ==
    /\ q.done = r.done /\ q.started = r.started /\ q.textOpen = r.textOpen
    /\ q.toolBlocks = r.toolBlocks /\ q.blockOrder = r.blockOrder
    /\ q.pendingFinish = r.pendingFinish /\ q.pendingUsage = r.pendingUsage

(* What opening and filling blocks never touches.                          *)
Kept(q, r) == q.pendingFinish = r.pendingFinish /\ q.pendingUsage = r.pendingUsage

LEMMA EnqueueAll ==
    ASSUME delivered \in Events, NEW r \in Reader, NEW s \in Events
    PROVE  /\ Enqueue(r, s) \in Reader
           /\ All(Enqueue(r, s)) = All(r) \o s
           /\ SameFields(Enqueue(r, s), r)
<1>1. r.queue \in Events /\ Enqueue(r, s).queue = r.queue \o s
  BY DEF Enqueue, Reader
<1>2. r.queue \o s \in Events
  BY <1>1 DEF Events
<1>3. Enqueue(r, s) \in Reader /\ SameFields(Enqueue(r, s), r)
  BY <1>1, <1>2 DEF Enqueue, Reader, SameFields
<1>4. delivered \o (r.queue \o s) = (delivered \o r.queue) \o s
  BY <1>1, ConcatEvents
<1> QED BY <1>1, <1>3, <1>4 DEF All

LEMMA AllEvents ==
    ASSUME delivered \in Events, NEW r \in Reader
    PROVE  /\ All(r) \in Events /\ Len(All(r)) \in Nat
           /\ \A i \in 1 .. Len(All(r)) : All(r)[i] \in Event
  BY DEF All, Reader, Events

(* One more open block.                                                    *)
OrderGrows(q, order, idx) ==
    /\ Values(q) = Values(order) \cup {idx}
    /\ \A i, j \in 1 .. Len(q) : q[i] = q[j] => i = j

LEMMA OneMoreOpen ==
    ASSUME NEW order \in Seq(Nat), NEW idx \in Nat, idx \notin Values(order),
           \A i, j \in 1 .. Len(order) : order[i] = order[j] => i = j
    PROVE  OrderGrows(Append(order, idx), order, idx)
<1> DEFINE q == Append(order, idx)
<1>1. /\ Len(order) \in Nat /\ Len(q) = Len(order) + 1 /\ q[Len(order) + 1] = idx
      /\ \A i \in 1 .. Len(order) : q[i] = order[i]
      /\ DOMAIN q = 1 .. Len(q) /\ DOMAIN order = 1 .. Len(order)
  OBVIOUS
<1> HIDE DEF q
<1>2. Values(q) = Values(order) \cup {idx}
  BY <1>1 DEF Values
<1>3. \A i \in 1 .. Len(order) : order[i] # idx
  BY <1>1 DEF Values
<1>4. \A i : i \in 1 .. Len(q) <=> i \in 1 .. Len(order) \/ i = Len(order) + 1
  BY <1>1
<1>5. \A i, j \in 1 .. Len(q) : q[i] = q[j] => i = j
  BY <1>1, <1>3, <1>4
<1> QED BY <1>2, <1>5 DEF OrderGrows, q

LEMMA Order ==
    /\ \A x, y, z \in Tokens : Precedes(x, y) /\ Precedes(y, z) => Precedes(x, z)
    /\ \A x, y \in Tokens : Precedes(x, y) => ~Precedes(y, x) /\ x # y
  BY DEF Precedes, Tokens

-----------------------------------------------------------------------------
(* The text block.                                                         *)

LEMMA OpenTextReads ==
    ASSUME delivered \in Events, NEW quiet \in BOOLEAN, NEW text, NEW args, NEW next,
           NEW r, Reading(r, quiet, text, args, next), quiet => ~Finishing(r)
    PROVE  /\ Reading(OpenText(r), quiet, text, args, next)
           /\ OpenText(r).textOpen /\ Kept(OpenText(r), r)
<1> DEFINE e == [kind |-> "blockStart", index |-> 0]
           q == [r EXCEPT !.textOpen = TRUE, !.blockOrder = Append(@, 0)]
           o == OpenText(r)
           E == All(r)
           F == All(o)
<1>1. CASE r.textOpen
  BY <1>1 DEF OpenText, Kept
<1>2. CASE ~r.textOpen
  <2>1. r \in Reader /\ e \in Event /\ E \in Events /\ Len(E) \in Nat
    BY AllEvents DEF Reading, Event
  <2>2. q \in Reader /\ q.queue = r.queue /\ q.blockOrder = Append(r.blockOrder, 0) /\ q.textOpen
        /\ q.done = r.done /\ q.started = r.started /\ q.toolBlocks = r.toolBlocks
        /\ q.pendingFinish = r.pendingFinish /\ q.pendingUsage = r.pendingUsage
    <3>1. r.blockOrder \in Seq(Nat) /\ Append(r.blockOrder, 0) \in Seq(Nat)
      BY <2>1 DEF Reader
    <3> QED BY <2>1, <3>1 DEF Reader
  <2>3. <<e>> \in Events /\ o = Enqueue(q, <<e>>) /\ All(q) = E
    BY <1>2, <2>1, <2>2 DEF OpenText, Events, All
  <2>4. o \in Reader /\ SameFields(o, q) /\ F = Then(E, e)
    BY <2>2, <2>3, EnqueueAll DEF Then
  <2> HIDE DEF q, o
  <2>5. /\ F \in Events /\ Len(F) = Len(E) + 1 /\ F[Len(E) + 1] = e
        /\ \A n \in 1 .. Len(E) : F[n] = E[n]
        /\ \A n \in 0 .. Len(E) : Starts(F, n) = Starts(E, n) /\ Stops(F, n) = Stops(E, n)
        /\ Starts(F, Len(F)) = Starts(E, Len(E)) \cup {0} /\ Stops(F, Len(F)) = Stops(E, Len(E))
        /\ \A idx : Pieces(F, idx) = Pieces(E, idx)
    <3>1. e.kind = "blockStart" /\ e.index = 0
      OBVIOUS
    <3> HIDE DEF e, E, F
    <3>2. Grown(F, E, e)
      BY <2>1, <2>4, OneMore
    <3> QED BY <3>1, <3>2 DEF Grown
  <2>6. Len(E) > 0 /\ F # <<>>
    BY <2>1, <2>5 DEF Reading, Events
  <2>7. 0 \notin Starts(E, Len(E)) /\ 0 \notin Values(r.blockOrder)
    <3>1. 0 \notin Values(r.toolBlocks)
      BY FS_CardinalityType DEF Reading, Blocks
    <3> QED BY <1>2, <3>1 DEF Reading, Blocks
  <2>8. Fits(F, Len(E) + 1, quiet)
    BY <2>5, <2>6, <2>7 DEF Fits, Reading, Going
  <2>9. AllFit(F, quiet)
    BY <2>1, <2>4, <2>8, OneMoreFits DEF Reading
  <2>10. \A i \in 1 .. Len(F) : F[i].kind \in Going
    BY <2>1, <2>5 DEF Reading, Going
  <2>11. Finishing(o) <=> Finishing(r)
    BY <2>2, <2>4 DEF SameFields, Finishing
  <2>12. Blocks(o, F, quiet)
    <3>1. /\ o.toolBlocks = r.toolBlocks /\ o.textOpen /\ o.blockOrder = Append(r.blockOrder, 0)
          /\ r.blockOrder \in Seq(Nat)
      BY <2>1, <2>2, <2>4 DEF SameFields, Reader
    <3>2. OrderGrows(o.blockOrder, r.blockOrder, 0)
      <4>1. \A i, j \in 1 .. Len(r.blockOrder) : r.blockOrder[i] = r.blockOrder[j] => i = j
        BY DEF Reading, Blocks
      <4>2. OrderGrows(Append(r.blockOrder, 0), r.blockOrder, 0)
        BY <2>7, <3>1, <4>1, OneMoreOpen
      <4> QED BY <3>1, <4>2
    <3> QED BY <1>2, <2>5, <2>7, <2>11, <3>1, <3>2 DEF Reading, Blocks, OrderGrows
  <2>13. Fragments(o, F, text, args, next)
    <3>1. Fragments(r, E, text, args, next) /\ o.toolBlocks = r.toolBlocks
      BY <2>2, <2>4 DEF Reading, SameFields
    <3>2. /\ Len(E) \in Nat /\ Len(F) = Len(E) + 1 /\ F[Len(E) + 1].kind # "blockDelta"
          /\ \A n \in 1 .. Len(E) : F[n] = E[n]
          /\ \A idx : Pieces(F, idx) = Pieces(E, idx)
      BY <2>1, <2>5
    <3> HIDE DEF E, F
    <3>3. \A i \in 1 .. Len(F) : F[i].kind = "blockDelta" => i \in 1 .. Len(E)
      BY <3>2
    <3> QED BY <3>1, <3>2, <3>3 DEF Fragments
  <2> QED BY <2>2, <2>4, <2>6, <2>9, <2>10, <2>11, <2>12, <2>13 DEF Reading, SameFields, Kept, o
<1> QED BY <1>1, <1>2

(* An event that may come next in a message that goes on.                  *)
MayFollow(E, e, quiet) ==
    /\ e.kind \in Going \ {"start"}
    /\ e.kind = "blockStart" => e.index \notin Starts(E, Len(E))
    /\ e.kind = "blockStop" => e.index \in Starts(E, Len(E)) \ Stops(E, Len(E))
    /\ e.kind = "blockDelta" =>
         /\ e.index \in Starts(E, Len(E))
         /\ quiet => e.index \notin Stops(E, Len(E))
         /\ \A i \in 1 .. Len(E) : E[i].kind = "blockDelta" => Precedes(E[i].token, e.token)

(* The reader o is q after the event e has been enqueued behind E.         *)
Goes(o, q, E, e, quiet) ==
    /\ o \in Reader /\ SameFields(o, q) /\ All(o) = Then(E, e)
    /\ All(o) # <<>> /\ \A i \in 1 .. Len(All(o)) : All(o)[i].kind \in Going
    /\ AllFit(All(o), quiet)

(* One more event of a message that goes on.                               *)
LEMMA Grow ==
    ASSUME delivered \in Events, NEW quiet \in BOOLEAN, NEW text, NEW args, NEW next,
           NEW r, Reading(r, quiet, text, args, next),
           NEW q \in Reader, q.queue = r.queue, ~q.done, q.started,
           NEW e \in Event, NEW o, o = Enqueue(q, <<e>>),
           MayFollow(All(r), e, quiet)
    PROVE  Goes(o, q, All(r), e, quiet)
<1> DEFINE E == All(r)
           F == All(o)
<1>1. r \in Reader /\ E \in Events /\ Len(E) \in Nat /\ E # <<>>
  BY AllEvents DEF Reading
<1>2. <<e>> \in Events /\ All(q) = E
  BY DEF Events, All
<1>3. o \in Reader /\ SameFields(o, q) /\ F = Then(E, e)
  BY <1>2, EnqueueAll DEF Then
<1>4. /\ F \in Events /\ Len(F) = Len(E) + 1 /\ F[Len(F)] = e
      /\ \A n \in 1 .. Len(E) : F[n] = E[n]
      /\ \A n \in 0 .. Len(E) : Starts(F, n) = Starts(E, n) /\ Stops(F, n) = Stops(E, n)
  <2>1. Grown(F, E, e)
    BY <1>1, <1>3, OneMore
  <2> HIDE DEF E, F
  <2> QED BY <2>1 DEF Grown
<1>5. Len(E) > 0 /\ F # <<>>
  BY <1>1, <1>4 DEF Events
<1>6. \A i \in 1 .. Len(F) : F[i].kind \in Going
  <2>1. \A i \in 1 .. Len(E) : E[i].kind \in Going
    BY DEF Reading
  <2>2. e.kind \in Going
    BY DEF MayFollow
  <2> HIDE DEF E, F
  <2> QED BY <1>1, <1>4, <2>1, <2>2
<1>7. Fits(F, Len(E) + 1, quiet)
  <2>1. e.kind \in {"blockStart", "blockDelta", "blockStop"}
    BY DEF Going, MayFollow
  <2>2. \A i \in 1 .. Len(E) : F[i].kind \in Going
    BY <1>4, <1>6
  <2>3. (Len(E) + 1) - 1 = Len(E)
    BY <1>1
  <2>4. Starts(F, Len(E)) = Starts(E, Len(E)) /\ Stops(F, Len(E)) = Stops(E, Len(E))
    BY <1>1, <1>4
  <2>5. \A i \in 1 .. Len(E) : F[i] = E[i]
    BY <1>4
  <2>6. /\ e.kind = "blockStart" => e.index \notin Starts(F, Len(E))
        /\ e.kind = "blockStop" => e.index \in Starts(F, Len(E)) \ Stops(F, Len(E))
        /\ e.kind = "blockDelta" =>
              /\ e.index \in Starts(F, Len(E))
              /\ quiet => e.index \notin Stops(F, Len(E))
              /\ \A i \in 1 .. Len(E) : F[i].kind = "blockDelta" => Precedes(F[i].token, e.token)
    BY <2>4, <2>5 DEF MayFollow
  <2>7. F[Len(E) + 1] = e /\ Len(E) + 1 > 1
    BY <1>1, <1>4, <1>5
  <2> HIDE DEF E, F
  <2> QED BY <2>1, <2>2, <2>3, <2>6, <2>7 DEF Fits
<1>8. AllFit(F, quiet)
  <2>1. AllFit(E, quiet)
    BY DEF Reading
  <2> HIDE DEF E, F
  <2> QED BY <1>1, <1>3, <1>7, <2>1, OneMoreFits
<1> QED BY <1>3, <1>5, <1>6, <1>8 DEF Goes

(* A piece of a block that is open, and where it belongs.                  *)
AddPiece(r, idx, piece) ==
    Enqueue(r, <<[kind |-> "blockDelta", index |-> idx, token |-> piece]>>)

WithText(text, idx, piece) == IF idx = 0 THEN text \cup {piece} ELSE text

WithArgs(r, args, idx, piece) ==
    [t \in Tools |-> IF t \in DOMAIN r.toolBlocks /\ r.toolBlocks[t] = idx
                     THEN args[t] \cup {piece} ELSE args[t]]

LEMMA AddPieceReads ==
    ASSUME delivered \in Events, NEW quiet \in BOOLEAN, NEW text, NEW args,
           NEW piece \in Tokens, NEW next \in Tokens, Precedes(piece, next),
           NEW idx \in Nat, NEW r,
           Reading(r, quiet, text, args, piece), quiet => ~Finishing(r),
           idx \in Starts(All(r), Len(All(r)))
    PROVE  /\ Reading(AddPiece(r, idx, piece), quiet, WithText(text, idx, piece),
                       WithArgs(r, args, idx, piece), next)
           /\ Kept(AddPiece(r, idx, piece), r)
<1> DEFINE e == [kind |-> "blockDelta", index |-> idx, token |-> piece]
           o == AddPiece(r, idx, piece)
           E == All(r)
           F == All(o)
<1>1. /\ r \in Reader /\ E \in Events /\ Len(E) \in Nat /\ ~r.done /\ r.started
      /\ \A i \in 1 .. Len(E) : E[i] \in Event
  BY AllEvents DEF Reading
<1>2. e \in Event /\ e.kind = "blockDelta" /\ e.index = idx /\ e.token = piece
  BY DEF Event, Tokens
<1>3. quiet => Stops(E, Len(E)) = {}
  BY DEF Reading, Blocks
<1>4. \A i \in 1 .. Len(E) : E[i].kind = "blockDelta" => Precedes(E[i].token, e.token)
  BY DEF Reading, Fragments
<1>11. o = Enqueue(r, <<e>>)
  BY DEF AddPiece
<1> HIDE DEF e, o
<1>5. /\ o \in Reader /\ SameFields(o, r) /\ F = Then(E, e)
      /\ F # <<>> /\ \A i \in 1 .. Len(F) : F[i].kind \in Going
      /\ AllFit(F, quiet)
  <2>1. MayFollow(E, e, quiet)
    BY <1>2, <1>3, <1>4 DEF Going, MayFollow
  <2>2. Goes(o, r, E, e, quiet)
    BY <1>1, <1>2, <1>11, <2>1, Grow
  <2> QED BY <2>2 DEF Goes
<1>6. /\ F \in Events /\ Len(F) = Len(E) + 1 /\ F[Len(F)] = e
      /\ \A i \in 1 .. Len(E) : F[i] = E[i]
      /\ Starts(F, Len(F)) = Starts(E, Len(E)) /\ Stops(F, Len(F)) = Stops(E, Len(E))
      /\ Pieces(F, idx) = Pieces(E, idx) \cup {piece}
      /\ \A i : i # idx => Pieces(F, i) = Pieces(E, i)
  <2> HIDE DEF E, F
  <2>1. Grown(F, E, e)
    BY <1>1, <1>2, <1>5, OneMore
  <2> QED BY <1>2, <2>1 DEF Grown
<1>7. Kept(o, r) /\ ~o.done /\ o.started
  BY <1>1, <1>5 DEF Kept, SameFields
<1>8. Blocks(o, F, quiet)
  <2>1. Blocks(r, E, quiet)
    BY DEF Reading
  <2>2. /\ o.toolBlocks = r.toolBlocks /\ o.textOpen = r.textOpen /\ o.blockOrder = r.blockOrder
        /\ Finishing(o) <=> Finishing(r)
    BY <1>5 DEF SameFields, Finishing
  <2>3. Starts(F, Len(F)) = Starts(E, Len(E)) /\ Stops(F, Len(F)) = Stops(E, Len(E))
    BY <1>6
  <2> HIDE DEF E, F
  <2> QED BY <2>1, <2>2, <2>3 DEF Blocks
<1>9. Fragments(o, F, WithText(text, idx, piece), WithArgs(r, args, idx, piece), next)
  <2>1. /\ Pieces(E, 0) = text
        /\ \A t \in DOMAIN r.toolBlocks : Pieces(E, r.toolBlocks[t]) = args[t]
        /\ \A t \in Tools \ DOMAIN r.toolBlocks : args[t] = {}
        /\ o.toolBlocks = r.toolBlocks /\ DOMAIN r.toolBlocks \subseteq Tools
    BY <1>1, <1>5 DEF Reading, Fragments, SameFields, Reader
  <2> HIDE DEF E, F
  <2>2. Pieces(F, 0) = WithText(text, idx, piece)
    BY <1>6, <2>1 DEF WithText
  <2>3. \A t \in DOMAIN r.toolBlocks : Pieces(F, r.toolBlocks[t]) = WithArgs(r, args, idx, piece)[t]
    BY <1>6, <2>1 DEF WithArgs
  <2>4. \A t \in Tools \ DOMAIN r.toolBlocks : WithArgs(r, args, idx, piece)[t] = {}
    BY <2>1 DEF WithArgs
  <2>5. ASSUME NEW i \in 1 .. Len(F), F[i].kind = "blockDelta"
        PROVE  Precedes(F[i].token, next)
    <3>1. CASE i = Len(F)
      BY <1>2, <1>6, <3>1
    <3>2. CASE i \in 1 .. Len(E)
      <4>1. F[i] = E[i] /\ E[i] \in Event
        BY <1>1, <1>6, <3>2
      <4>2. E[i].token \in Tokens /\ Precedes(E[i].token, piece)
        BY <1>2, <1>4, <2>5, <3>2, <4>1, EventKinds DEF Tokens
      <4> QED BY <4>1, <4>2, Order
    <3> QED BY <1>1, <1>6, <3>1, <3>2
  <2> QED BY <2>1, <2>2, <2>3, <2>4, <2>5 DEF Fragments
<1> QED BY <1>5, <1>7, <1>8, <1>9 DEF Reading, o

LEMMA AddTextReads ==
    ASSUME delivered \in Events, NEW quiet \in BOOLEAN, NEW text, NEW args \in [Tools -> SUBSET Tokens],
           NEW line \in Nat, NEW r,
           Reading(r, quiet, text, args, <<line, 0>>), quiet => ~Finishing(r)
    PROVE  /\ Reading(AddText(r, line), quiet, text \cup {<<line, 0>>}, args, <<line, 1>>)
           /\ Kept(AddText(r, line), r)
<1> DEFINE o == OpenText(r)
<1>1. Reading(o, quiet, text, args, <<line, 0>>) /\ o.textOpen /\ Kept(o, r)
  BY OpenTextReads
<1>2. AddText(r, line) = AddPiece(o, 0, <<line, 0>>)
  BY DEF AddText, AddPiece
<1> HIDE DEF o
<1>3. 0 \in Starts(All(o), Len(All(o)))
  BY <1>1 DEF Reading, Blocks
<1>4. <<line, 0>> \in Tokens /\ <<line, 1>> \in Tokens /\ Precedes(<<line, 0>>, <<line, 1>>)
  BY DEF Tokens, Precedes
<1>5. quiet => ~Finishing(o)
  BY <1>1 DEF Kept, Finishing
<1>6. /\ Reading(AddPiece(o, 0, <<line, 0>>), quiet, WithText(text, 0, <<line, 0>>),
                 WithArgs(o, args, 0, <<line, 0>>), <<line, 1>>)
      /\ Kept(AddPiece(o, 0, <<line, 0>>), o)
  BY <1>1, <1>3, <1>4, <1>5, AddPieceReads
<1>7. WithText(text, 0, <<line, 0>>) = text \cup {<<line, 0>>}
  BY DEF WithText
<1>8. WithArgs(o, args, 0, <<line, 0>>) = args
  <2>1. \A t \in DOMAIN o.toolBlocks : o.toolBlocks[t] # 0
    <3>1. Values(o.toolBlocks) = 1 .. Cardinality(DOMAIN o.toolBlocks)
      BY <1>1 DEF Reading, Blocks
    <3> QED BY <3>1 DEF Values
  <2> QED BY <2>1 DEF WithArgs
<1> QED BY <1>1, <1>2, <1>6, <1>7, <1>8 DEF Kept

-----------------------------------------------------------------------------
(* The tool blocks.                                                        *)

LEMMA OpenToolReads ==
    ASSUME delivered \in Events, NEW quiet \in BOOLEAN, NEW text, NEW args, NEW next,
           NEW tool \in Tools,
           NEW r, Reading(r, quiet, text, args, next), quiet => ~Finishing(r)
    PROVE  /\ Reading(OpenTool(r, tool), quiet, text, args, next)
           /\ tool \in DOMAIN OpenTool(r, tool).toolBlocks /\ Kept(OpenTool(r, tool), r)
<1> DEFINE D == DOMAIN r.toolBlocks
           idx == Cardinality(D) + 1
           e == [kind |-> "blockStart", index |-> idx]
           b == [t \in D \cup {tool} |-> IF t = tool THEN idx ELSE r.toolBlocks[t]]
           q == [r EXCEPT !.toolBlocks = b, !.blockOrder = Append(@, idx)]
           o == OpenTool(r, tool)
           E == All(r)
           F == All(o)
<1>1. CASE tool \in D
  BY <1>1 DEF OpenTool, Kept
<1>2. CASE tool \notin D
  <2>1. /\ r \in Reader /\ E \in Events /\ Len(E) \in Nat /\ IsFiniteSet(D)
        /\ Cardinality(D) \in Nat /\ idx \in Nat /\ D \subseteq Tools
        /\ r.toolBlocks \in [D -> Nat] /\ ~r.done /\ r.started
    BY AllEvents, FS_CardinalityType DEF Reading, Blocks, Reader
  <2>2. e \in Event /\ e.kind = "blockStart" /\ e.index = idx
    BY <2>1 DEF Event
  <2>3. r.blockOrder \in Seq(Nat) /\ Append(r.blockOrder, idx) \in Seq(Nat)
    BY <2>1 DEF Reader
  <2>4. b \in [D \cup {tool} -> Nat] /\ D \cup {tool} \in SUBSET Tools
    BY <2>1
  <2>5. /\ q \in Reader /\ q.queue = r.queue /\ q.blockOrder = Append(r.blockOrder, idx)
        /\ q.textOpen = r.textOpen /\ q.done = r.done /\ q.started = r.started /\ q.toolBlocks = b
        /\ q.pendingFinish = r.pendingFinish /\ q.pendingUsage = r.pendingUsage
    <3> HIDE DEF b, idx
    <3> QED BY <2>1, <2>3, <2>4 DEF Reader
  <2>6. o = Enqueue(q, <<e>>)
    BY <1>2 DEF OpenTool, NextBlock
  <2>7. Values(r.toolBlocks) = 1 .. Cardinality(D) /\ idx \notin Starts(E, Len(E)) /\ idx # 0
    BY <2>1 DEF Reading, Blocks
  <2> HIDE DEF q, o, e, idx, b
  <2>8. /\ o \in Reader /\ SameFields(o, q) /\ F = Then(E, e)
        /\ F # <<>> /\ \A i \in 1 .. Len(F) : F[i].kind \in Going
        /\ AllFit(F, quiet)
    <3>1. MayFollow(E, e, quiet)
      BY <2>2, <2>7 DEF Going, MayFollow
    <3>2. Goes(o, q, E, e, quiet)
      BY <2>1, <2>2, <2>5, <2>6, <3>1, Grow
    <3> QED BY <3>2 DEF Goes
  <2>9. Grown(F, E, e)
    BY <2>1, <2>2, <2>8, OneMore
  <2>10. Kept(o, r) /\ ~o.done /\ o.started
    BY <2>1, <2>5, <2>8 DEF Kept, SameFields
  <2>11. /\ DOMAIN b = D \cup {tool} /\ b[tool] = idx
         /\ \A t \in D : b[t] = r.toolBlocks[t] /\ b[t] # idx /\ b[t] \in Values(r.toolBlocks)
    BY <1>2, <2>1, <2>7 DEF b, idx, Values
  <2>12. Blocks(o, F, quiet)
    <3>1. /\ o.toolBlocks = b /\ o.textOpen = r.textOpen /\ o.blockOrder = Append(r.blockOrder, idx)
          /\ Finishing(o) <=> Finishing(r)
      BY <2>5, <2>8 DEF SameFields, Finishing
    <3>2. /\ IsFiniteSet(D \cup {tool}) /\ Cardinality(D \cup {tool}) = idx
      BY <1>2, <2>1, FS_AddElement DEF idx
    <3>3. Values(b) = Values(r.toolBlocks) \cup {idx}
      BY <2>11 DEF Values
    <3>4. Values(b) = 1 .. Cardinality(D \cup {tool})
      BY <2>1, <2>7, <3>2, <3>3 DEF idx
    <3>5. \A s, t \in DOMAIN b : b[s] = b[t] => s = t
      <4>1. \A s, t \in D : r.toolBlocks[s] = r.toolBlocks[t] => s = t
        BY DEF Reading, Blocks
      <4> QED BY <2>11, <4>1
    <3>6. /\ Starts(F, Len(F)) = Starts(E, Len(E)) \cup {idx} /\ Stops(F, Len(F)) = Stops(E, Len(E))
      BY <2>2, <2>9 DEF Grown
    <3>7. Starts(F, Len(F)) = (IF o.textOpen THEN {0} ELSE {}) \cup Values(b)
      <4>1. Starts(E, Len(E)) = (IF r.textOpen THEN {0} ELSE {}) \cup Values(r.toolBlocks)
        BY DEF Reading, Blocks
      <4> HIDE DEF E, F
      <4> QED BY <3>1, <3>3, <3>6, <4>1
    <3>8. OrderGrows(o.blockOrder, r.blockOrder, idx)
      <4>1. o.blockOrder = Append(r.blockOrder, idx) /\ idx \notin Values(r.blockOrder)
            /\ \A i, j \in 1 .. Len(r.blockOrder) : r.blockOrder[i] = r.blockOrder[j] => i = j
        BY <2>7, <3>1 DEF Reading, Blocks
      <4> QED BY <2>1, <2>3, <4>1, OneMoreOpen DEF idx
    <3>9. /\ Values(r.blockOrder) = Starts(E, Len(E)) \ Stops(E, Len(E))
          /\ Stops(E, Len(E)) \subseteq Starts(E, Len(E))
          /\ quiet /\ ~Finishing(r) => Stops(E, Len(E)) = {}
      BY DEF Reading, Blocks
    <3>10. /\ Values(o.blockOrder) = Starts(F, Len(F)) \ Stops(F, Len(F))
           /\ Stops(F, Len(F)) \subseteq Starts(F, Len(F))
           /\ quiet /\ ~Finishing(o) => Stops(F, Len(F)) = {}
      <4> HIDE DEF E, F
      <4> QED BY <2>7, <3>1, <3>6, <3>8, <3>9 DEF OrderGrows
    <3>11. quiet => ~Finishing(o)
      BY <3>1
    <3> HIDE DEF E, F
    <3> QED BY <2>11, <3>1, <3>2, <3>4, <3>5, <3>7, <3>8, <3>10, <3>11 DEF Blocks, OrderGrows
  <2>13. Fragments(o, F, text, args, next)
    <3>1. /\ Pieces(E, 0) = text
          /\ \A t \in D : Pieces(E, r.toolBlocks[t]) = args[t]
          /\ \A t \in Tools \ D : args[t] = {}
          /\ \A i \in 1 .. Len(E) : E[i].kind = "blockDelta" => Precedes(E[i].token, next)
      BY DEF Reading, Fragments
    <3>2. Pieces(E, idx) = {}
      <4>1. \A i \in 1 .. Len(E) : E[i].kind = "blockDelta" => E[i].index \in Starts(E, i - 1)
        BY DEF Reading, AllFit, Fits
      <4>2. \A i \in 1 .. Len(E) : Starts(E, i - 1) \subseteq Starts(E, Len(E))
        BY <2>1 DEF Starts
      <4> QED BY <2>7, <4>1, <4>2 DEF Pieces
    <3>3. o.toolBlocks = b
      BY <2>5, <2>8 DEF SameFields
    <3>4. \A i : Pieces(F, i) = Pieces(E, i)
      BY <2>2, <2>9 DEF Grown
    <3>5. \A i \in 1 .. Len(F) : F[i].kind = "blockDelta" => Precedes(F[i].token, next)
      BY <2>2, <2>9, <3>1 DEF Grown
    <3> HIDE DEF E, F
    <3> QED BY <1>2, <2>11, <3>1, <3>2, <3>3, <3>4, <3>5 DEF Fragments
  <2>14. tool \in DOMAIN o.toolBlocks
    BY <2>5, <2>8, <2>11 DEF SameFields
  <2> QED BY <2>8, <2>10, <2>12, <2>13, <2>14 DEF Reading, o
<1> QED BY <1>1, <1>2

LEMMA Later ==
    ASSUME delivered \in Events, NEW quiet \in BOOLEAN, NEW text, NEW args,
           NEW next \in Tokens, NEW next2 \in Tokens, Precedes(next, next2),
           NEW r, Reading(r, quiet, text, args, next)
    PROVE  Reading(r, quiet, text, args, next2)
<1> DEFINE E == All(r)
<1>1. /\ r \in Reader /\ \A i \in 1 .. Len(E) : E[i] \in Event
      /\ \A i \in 1 .. Len(E) : E[i].kind = "blockDelta" => Precedes(E[i].token, next)
  BY AllEvents DEF Reading, Fragments
<1>2. ASSUME NEW i \in 1 .. Len(E), E[i].kind = "blockDelta"
      PROVE  Precedes(E[i].token, next2)
  <2>1. E[i].token \in Tokens /\ Precedes(E[i].token, next)
    BY <1>1, <1>2, EventKinds DEF Tokens
  <2> QED BY <2>1, Order
<1>3. Fragments(r, E, text, args, next2)
  BY <1>2 DEF Reading, Fragments
<1> QED BY <1>3 DEF Reading

ToolArgs(args, d, piece) ==
    IF d.args THEN [args EXCEPT ![d.tool] = @ \cup {piece}] ELSE args

LEMMA AddToolReads ==
    ASSUME delivered \in Events, NEW quiet \in BOOLEAN, NEW text, NEW args \in [Tools -> SUBSET Tokens],
           NEW d \in [tool : Tools, args : BOOLEAN],
           NEW piece \in Tokens, NEW next \in Tokens, Precedes(piece, next),
           NEW r, Reading(r, quiet, text, args, piece), quiet => ~Finishing(r)
    PROVE  /\ Reading(AddTool(r, d, piece), quiet, text, ToolArgs(args, d, piece), next)
           /\ Kept(AddTool(r, d, piece), r)
<1> DEFINE o == OpenTool(r, d.tool)
           idx == o.toolBlocks[d.tool]
<1>1. d.tool \in Tools /\ d.args \in BOOLEAN
  OBVIOUS
<1>2. Reading(o, quiet, text, args, piece) /\ d.tool \in DOMAIN o.toolBlocks /\ Kept(o, r)
  BY <1>1, OpenToolReads
<1>3. CASE ~d.args
  <2>1. AddTool(r, d, piece) = o /\ ToolArgs(args, d, piece) = args
    BY <1>3 DEF AddTool, ToolArgs
  <2> HIDE DEF o
  <2>2. Reading(o, quiet, text, args, next)
    BY <1>2, Later
  <2> QED BY <1>2, <2>1, <2>2
<1>4. CASE d.args
  <2>1. AddTool(r, d, piece) = AddPiece(o, idx, piece)
    <3>1. [kind |-> "blockDelta", token |-> piece, index |-> idx]
            = [kind |-> "blockDelta", index |-> idx, token |-> piece]
      OBVIOUS
    <3> QED BY <1>4, <3>1 DEF AddTool, AddPiece
  <2> HIDE DEF o
  <2>2. /\ o \in Reader /\ idx \in Values(o.toolBlocks) /\ idx \in Starts(All(o), Len(All(o)))
        /\ Values(o.toolBlocks) = 1 .. Cardinality(DOMAIN o.toolBlocks)
        /\ \A s, t \in DOMAIN o.toolBlocks : o.toolBlocks[s] = o.toolBlocks[t] => s = t
    <3>1. idx \in Values(o.toolBlocks)
      BY <1>2 DEF Values
    <3> QED BY <1>2, <3>1 DEF Reading, Blocks
  <2>3. idx \in Nat /\ idx # 0
    BY <2>2, FS_CardinalityType DEF Reading, Blocks
  <2>4. quiet => ~Finishing(o)
    BY <1>2 DEF Kept, Finishing
  <2> HIDE DEF idx
  <2>5. /\ Reading(AddPiece(o, idx, piece), quiet, WithText(text, idx, piece),
                   WithArgs(o, args, idx, piece), next)
        /\ Kept(AddPiece(o, idx, piece), o)
    BY <1>2, <2>2, <2>3, <2>4, AddPieceReads
  <2>6. WithText(text, idx, piece) = text
    BY <2>3 DEF WithText
  <2>7. WithArgs(o, args, idx, piece) = ToolArgs(args, d, piece)
    <3>1. \A t \in DOMAIN o.toolBlocks : o.toolBlocks[t] = idx <=> t = d.tool
      BY <1>2, <2>2 DEF idx
    <3> QED BY <1>2, <1>4, <3>1 DEF WithArgs, ToolArgs
  <2> QED BY <1>2, <2>1, <2>5, <2>6, <2>7 DEF Kept
<1> QED BY <1>1, <1>3, <1>4

(* The n-th tool call of a line, and all before it.                        *)
WithPieces(args, ds, n, line) ==
    [t \in Tools |-> args[t] \cup {<<line, m>> : m \in {k \in 1 .. n : ds[k].tool = t /\ ds[k].args}}]

(* The readers that AddTools goes through.                                 *)
Steps(f, N, r, ds, line) ==
    f = [n \in 0 .. N |-> IF n = 0 THEN r ELSE AddTool(f[n - 1], ds[n], <<line, n>>)]

LEMMA StepsExist ==
    ASSUME NEW r, NEW ds, NEW line, NEW N \in Nat
    PROVE  \E f : Steps(f, N, r, ds, line)
<1> DEFINE T == {n \in Nat : ~\E f : Steps(f, n, r, ds, line)}
<1> SUFFICES ASSUME T # {}
             PROVE  FALSE
  OBVIOUS
<1>1. PICK n \in T : \A m \in T : <<m, n>> \notin OpToRel(<, Nat)
  BY NatLessThanWellFounded, WFMin
<1>2. n \in Nat /\ \A m \in Nat : m < n => \E f : Steps(f, m, r, ds, line)
  BY <1>1 DEF OpToRel
<1>3. CASE n = 0
  <2>1. Steps([i \in 0 .. 0 |-> r], 0, r, ds, line)
    BY DEF Steps
  <2> QED BY <1>1, <1>3, <2>1
<1>4. CASE n > 0
  <2>1. PICK f : Steps(f, n - 1, r, ds, line)
    BY <1>2, <1>4
  <2> DEFINE g == [i \in 0 .. n |-> IF i = n THEN AddTool(f[n - 1], ds[n], <<line, n>>) ELSE f[i]]
  <2>2. \A i \in 0 .. (n - 1) :
           f[i] = IF i = 0 THEN r ELSE AddTool(f[i - 1], ds[i], <<line, i>>)
    BY <2>1, Zenon DEF Steps
  <2>3. \A i \in 0 .. n : g[i] = IF i = 0 THEN r ELSE AddTool(g[i - 1], ds[i], <<line, i>>)
    <3> SUFFICES ASSUME NEW i \in 0 .. n
                 PROVE  g[i] = IF i = 0 THEN r ELSE AddTool(g[i - 1], ds[i], <<line, i>>)
      OBVIOUS
    <3>1. CASE i = n
      BY <1>2, <1>4, <3>1
    <3>2. CASE i = 0
      <4>1. 0 \in 0 .. n /\ 0 \in 0 .. (n - 1) /\ 0 # n
        BY <1>2, <1>4
      <4>2. g[0] = f[0]
        BY <4>1
      <4> HIDE DEF g
      <4> QED BY <2>2, <3>2, <4>1, <4>2
    <3>3. CASE i \in 1 .. (n - 1)
      <4>1. i # n /\ i - 1 # n /\ i - 1 \in 0 .. n /\ i # 0 /\ i \in 0 .. (n - 1)
        BY <1>2, <1>4, <3>3
      <4>2. g[i] = f[i] /\ g[i - 1] = f[i - 1]
        BY <4>1
      <4> HIDE DEF g
      <4> QED BY <2>2, <4>1, <4>2
    <3> QED BY <1>2, <1>4, <3>1, <3>2, <3>3
  <2>4. g = [i \in 0 .. n |-> g[i]]
    OBVIOUS
  <2>5. Steps(g, n, r, ds, line)
    <3> HIDE DEF g
    <3> QED BY <2>3, <2>4 DEF Steps
  <2> QED BY <1>1, <2>5
<1> QED BY <1>2, <1>3, <1>4

LEMMA AddToolsReads ==
    ASSUME delivered \in Events, NEW quiet \in BOOLEAN, NEW text, NEW args \in [Tools -> SUBSET Tokens],
           NEW ds \in Seq([tool : Tools, args : BOOLEAN]), NEW line \in Nat,
           NEW r, Reading(r, quiet, text, args, <<line, 1>>), quiet => ~Finishing(r) \/ ds = <<>>
    PROVE  /\ Reading(AddTools(r, ds, line), quiet, text, WithPieces(args, ds, Len(ds), line),
                      <<line, Len(ds) + 1>>)
           /\ Kept(AddTools(r, ds, line), r)
<1> DEFINE N == Len(ds)
           h == CHOOSE f : Steps(f, N, r, ds, line)
           Good(n) == /\ Reading(h[n], quiet, text, WithPieces(args, ds, n, line), <<line, n + 1>>)
                      /\ Kept(h[n], r)
<1>1. N \in Nat /\ \A n \in 1 .. N : ds[n] \in [tool : Tools, args : BOOLEAN]
  BY LenProperties
<1>2. Steps(h, N, r, ds, line)
  BY <1>1, StepsExist
<1>3. AddTools(r, ds, line) = h[N]
  BY DEF AddTools, Steps
<1> HIDE DEF h
<1>4. /\ h[0] = r
      /\ \A n \in 1 .. N : h[n] = AddTool(h[n - 1], ds[n], <<line, n>>)
  <2>1. \A n \in 0 .. N : h[n] = IF n = 0 THEN r ELSE AddTool(h[n - 1], ds[n], <<line, n>>)
    BY <1>2, Zenon DEF Steps
  <2> HIDE DEF N
  <2>2. 0 \in 0 .. N /\ \A n \in 1 .. N : n \in 0 .. N /\ n # 0
    BY <1>1
  <2> QED BY <2>1, <2>2
<1>5. Good(0)
  <2>1. WithPieces(args, ds, 0, line) = args
    BY DEF WithPieces
  <2>2. Kept(r, r)
    BY DEF Kept
  <2> QED BY <1>4, <2>1, <2>2
<1>6. ASSUME NEW n \in 1 .. N, Good(n - 1)
      PROVE  Good(n)
  <2> DEFINE p == <<line, n>>
             a == WithPieces(args, ds, n - 1, line)
             o == h[n - 1]
  <2>1. n \in Nat /\ n - 1 \in Nat /\ (n - 1) + 1 = n /\ ds[n] \in [tool : Tools, args : BOOLEAN] /\ ds # <<>>
    BY <1>1
  <2>2. Reading(o, quiet, text, a, p) /\ Kept(o, r)
    BY <1>6, <2>1
  <2>3. a \in [Tools -> SUBSET Tokens]
    BY <2>1 DEF WithPieces, Tokens
  <2>4. p \in Tokens /\ <<line, n + 1>> \in Tokens /\ Precedes(p, <<line, n + 1>>)
    BY <2>1 DEF Tokens, Precedes
  <2>5. quiet => ~Finishing(o)
    BY <2>1, <2>2 DEF Kept, Finishing
  <2>6. h[n] = AddTool(o, ds[n], p)
    BY <1>4
  <2>7. ToolArgs(a, ds[n], p) = WithPieces(args, ds, n, line)
    <3>1. \A k : k \in 1 .. n <=> k \in 1 .. (n - 1) \/ k = n
      BY <2>1
    <3>2. \A t \in Tools : ToolArgs(a, ds[n], p)[t] = WithPieces(args, ds, n, line)[t]
      BY <2>1, <2>3, <3>1 DEF ToolArgs, WithPieces
    <3> QED BY <2>3, <3>2 DEF ToolArgs, WithPieces
  <2> HIDE DEF p, a, o
  <2>8. Reading(AddTool(o, ds[n], p), quiet, text, ToolArgs(a, ds[n], p), <<line, n + 1>>) /\ Kept(AddTool(o, ds[n], p), o)
    BY <2>1, <2>2, <2>3, <2>4, <2>5, AddToolReads
  <2> QED BY <2>2, <2>6, <2>7, <2>8 DEF Kept
<1> HIDE DEF Good
<1>7. \A n \in 0 .. N : Good(n)
  <2> DEFINE T == {n \in Nat : n <= N /\ ~Good(n)}
  <2> SUFFICES ASSUME T # {}
               PROVE  FALSE
    BY <1>1
  <2>1. PICK n \in T : \A m \in T : <<m, n>> \notin OpToRel(<, Nat)
    BY NatLessThanWellFounded, WFMin
  <2>2. n \in Nat /\ n <= N /\ ~Good(n) /\ \A m \in T : ~(m < n)
    BY <2>1 DEF OpToRel
  <2> HIDE DEF N
  <2>3. n # 0
    BY <1>5, <2>2
  <2>4. n \in 1 .. N /\ n - 1 \in Nat /\ n - 1 <= N /\ n - 1 < n
    BY <1>1, <2>2, <2>3
  <2>5. Good(n - 1)
    BY <2>2, <2>4
  <2> QED BY <1>6, <2>2, <2>4, <2>5
<1> QED BY <1>1, <1>3, <1>7 DEF Good

-----------------------------------------------------------------------------
(* The end of a message.                                                   *)

LEMMA CloseBlocksReads ==
    ASSUME delivered \in Events, NEW quiet \in BOOLEAN, NEW text, NEW args, NEW next,
           NEW reason \in FinishReasons,
           NEW r, Reading(r, quiet, text, args, next)
    PROVE  /\ Reading(CloseBlocks(r, reason), quiet, text, args, next)
           /\ CloseBlocks(r, reason).pendingFinish = reason
           /\ CloseBlocks(r, reason).pendingUsage = r.pendingUsage
<1> DEFINE order == r.blockOrder
           stops == [i \in DOMAIN order |-> [kind |-> "blockStop", index |-> order[i]]]
           q == Enqueue(r, stops)
           o == CloseBlocks(r, reason)
           E == All(r)
           F == All(o)
           k == Len(order)
           m == Len(E)
<1>1. /\ r \in Reader /\ E \in Events /\ m \in Nat /\ order \in Seq(Nat) /\ k \in Nat
      /\ DOMAIN order = 1 .. k /\ \A i \in 1 .. k : order[i] \in Nat
  BY AllEvents DEF Reading, Reader
<1>2. stops \in Events /\ Len(stops) = k /\ DOMAIN stops = 1 .. k
      /\ \A i \in 1 .. k : stops[i].kind = "blockStop" /\ stops[i].index = order[i]
  <2>1. \A i \in 1 .. k : stops[i] \in Event /\ stops[i].kind = "blockStop" /\ stops[i].index = order[i]
    BY <1>1 DEF Event
  <2>2. DOMAIN stops = 1 .. k
    BY <1>1
  <2>3. stops = [i \in 1 .. k |-> stops[i]]
    BY <1>1
  <2> HIDE DEF stops, k
  <2>4. stops \in Seq(Event)
    BY <1>1, <2>1, <2>3
  <2>5. Len(stops) = k
    BY <1>1, <2>2, <2>4
  <2> QED BY <2>1, <2>2, <2>4, <2>5 DEF Events
<1> HIDE DEF stops
<1>3. q \in Reader /\ SameFields(q, r) /\ All(q) = E \o stops
  BY <1>1, <1>2, EnqueueAll
<1>4. o = [q EXCEPT !.blockOrder = <<>>, !.pendingFinish = reason]
  BY DEF CloseBlocks, stops
<1> HIDE DEF q, o
<1>5. /\ o \in Reader /\ F = E \o stops /\ o.blockOrder = <<>> /\ o.pendingFinish = reason
      /\ o.pendingUsage = r.pendingUsage /\ o.toolBlocks = r.toolBlocks /\ o.textOpen = r.textOpen
      /\ ~o.done /\ o.started
  <2>1. <<>> \in Seq(Nat) /\ reason \in FinishReasons \cup {"none"}
    OBVIOUS
  <2>2. o \in Reader
    BY <1>3, <1>4, <2>1 DEF Reader
  <2>3. o.queue = q.queue
    BY <1>3, <1>4 DEF Reader
  <2>4. /\ o.blockOrder = <<>> /\ o.pendingFinish = reason
        /\ o.pendingUsage = q.pendingUsage /\ o.toolBlocks = q.toolBlocks /\ o.textOpen = q.textOpen
        /\ o.done = q.done /\ o.started = q.started
    BY <1>3, <1>4 DEF Reader
  <2> QED BY <1>3, <2>2, <2>3, <2>4 DEF All, SameFields, Reading
<1>6. /\ F \in Events /\ Len(F) = m + k /\ \A n \in 1 .. m : F[n] = E[n]
      /\ \A i \in 1 .. k : F[m + i].kind = "blockStop" /\ F[m + i].index = order[i]
  <2>1. F \in Events
    BY <1>1, <1>2, <1>5, ConcatEvents
  <2>2. Len(F) = m + k /\ \A i \in 1 .. (m + k) : F[i] = IF i <= m THEN E[i] ELSE stops[i - m]
    <3>1. E \in Seq(Event) /\ stops \in Seq(Event)
      BY <1>1, <1>2 DEF Events
    <3>2. /\ Len(E \o stops) = m + Len(stops)
          /\ \A i \in 1 .. (m + Len(stops)) :
                (E \o stops)[i] = IF i <= m THEN E[i] ELSE stops[i - m]
      <4> HIDE DEF E
      <4> QED BY <3>1, ConcatProperties
    <3> QED BY <1>2, <1>5, <3>2
  <2>3. m \in Nat /\ k \in Nat
    BY <1>1
  <2>4. /\ \A n \in 1 .. m : F[n] = E[n]
        /\ \A i \in 1 .. k : F[m + i] = stops[i]
    <3> HIDE DEF m, k, E, F
    <3>1. \A i \in 1 .. k : m + i \in 1 .. (m + k) /\ ~(m + i <= m) /\ (m + i) - m = i
      BY <2>3
    <3>2. \A n \in 1 .. m : n \in 1 .. (m + k) /\ n <= m
      BY <2>3
    <3> QED BY <2>2, <3>1, <3>2
  <2> QED BY <1>2, <2>1, <2>2, <2>4
<1>7. \A n \in 1 .. Len(F) : n \in 1 .. m \/ \E i \in 1 .. k : n = m + i
  <2> SUFFICES ASSUME NEW n \in 1 .. Len(F), n \notin 1 .. m
               PROVE  \E i \in 1 .. k : n = m + i
    OBVIOUS
  <2> HIDE DEF m, k, F
  <2>1. n - m \in 1 .. k /\ n = m + (n - m)
    BY <1>1, <1>6
  <2> QED BY <2>1
<1>20. m \in Nat /\ k \in Nat
  BY <1>1
<1> HIDE DEF m, k
<1>8. m > 0 /\ F # <<>> /\ \A n \in 1 .. Len(F) : F[n].kind \in Going
  <2>1. E # <<>> /\ \A n \in 1 .. m : E[n].kind \in Going
    BY DEF Reading, m
  <2>2. m > 0
    BY <1>1, <2>1 DEF Events, m
  <2>3. F # <<>>
    BY <1>1, <1>6, <2>2 DEF Events
  <2>4. "blockStop" \in Going
    BY DEF Going
  <2> QED BY <1>6, <1>7, <2>1, <2>2, <2>3, <2>4
<1>9. /\ Values(order) = Starts(E, m) \ Stops(E, m) /\ Stops(E, m) \subseteq Starts(E, m)
      /\ \A i, j \in 1 .. k : order[i] = order[j] => i = j
  BY DEF Reading, Blocks, m, k
<1>10. ASSUME NEW j \in 0 .. k
       PROVE  /\ Starts(F, m + j) = Starts(E, m)
              /\ Stops(F, m + j) = Stops(E, m) \cup {order[i] : i \in 1 .. j}
  <2>1. \A n : n \in 1 .. (m + j) <=> n \in 1 .. m \/ \E i \in 1 .. j : n = m + i
    <3>1. \A n \in 1 .. (m + j) : n \in 1 .. m \/ (n - m \in 1 .. j /\ n = m + (n - m))
      BY <1>1
    <3>2. \A i \in 1 .. j : m + i \in 1 .. (m + j)
      BY <1>1
    <3>3. \A n \in 1 .. m : n \in 1 .. (m + j)
      BY <1>1
    <3> QED BY <3>1, <3>2, <3>3
  <2>2. \A i \in 1 .. j : F[m + i].kind = "blockStop" /\ F[m + i].index = order[i]
    BY <1>1, <1>6
  <2> HIDE DEF E, F, order
  <2>3. Starts(F, m + j) = Starts(E, m)
    BY <1>6, <2>1, <2>2 DEF Starts
  <2>4. Stops(F, m + j) = Stops(E, m) \cup {order[i] : i \in 1 .. j}
    <3>1. ASSUME NEW x \in Stops(F, m + j)
          PROVE  x \in Stops(E, m) \cup {order[i] : i \in 1 .. j}
      <4>1. PICK n \in 1 .. (m + j) : F[n].kind = "blockStop" /\ x = F[n].index
        BY DEF Stops
      <4> QED BY <1>6, <2>1, <2>2, <4>1 DEF Stops
    <3>2. ASSUME NEW x \in Stops(E, m)
          PROVE  x \in Stops(F, m + j)
      BY <1>6, <2>1 DEF Stops
    <3>3. ASSUME NEW i \in 1 .. j
          PROVE  order[i] \in Stops(F, m + j)
      BY <2>1, <2>2 DEF Stops
    <3> QED BY <3>1, <3>2, <3>3
  <2> QED BY <2>3, <2>4
<1>11. \A idx : Pieces(F, idx) = Pieces(E, idx)
  <2>1. \A n \in 1 .. m : n \in 1 .. Len(F)
    BY <1>1, <1>6
  <2>2. m = Len(E)
    BY DEF m
  <2> HIDE DEF E, F, order
  <2>3. \A n \in 1 .. Len(F) : F[n].kind = "blockDelta" => n \in 1 .. m
    BY <1>6, <1>7
  <2>4. \A n \in 1 .. m : F[n] = E[n]
    BY <1>6
  <2> QED BY <2>1, <2>2, <2>3, <2>4 DEF Pieces
<1>12. AllFit(F, quiet)
  <2>1. ASSUME NEW n \in 1 .. m
        PROVE  Fits(F, n, quiet)
    <3>1. Fits(E, n, quiet) /\ F[n] = E[n] /\ n - 1 \in 0 .. m /\ (n > 1 => F[n - 1] = E[n - 1])
          /\ \A i \in 1 .. (n - 1) : F[i] = E[i]
      <4>1. AllFit(E, quiet) /\ m = Len(E)
        BY DEF Reading, m
      <4>2. n - 1 \in 0 .. m /\ (n > 1 => n - 1 \in 1 .. m) /\ \A i \in 1 .. (n - 1) : i \in 1 .. m
        BY <1>20
      <4> HIDE DEF E, F
      <4> QED BY <1>6, <4>1, <4>2 DEF AllFit
    <3>2. Starts(F, n - 1) = Starts(E, n - 1) /\ Stops(F, n - 1) = Stops(E, n - 1)
      BY <3>1 DEF Starts, Stops
    <3> HIDE DEF E, F
    <3> QED BY <3>1, <3>2 DEF Fits
  <2>2. ASSUME NEW i \in 1 .. k
        PROVE  Fits(F, m + i, quiet)
    <3>1. F[m + i].kind = "blockStop" /\ F[m + i].index = order[i] /\ i - 1 \in 0 .. k
          /\ (m + i) - 1 = m + (i - 1) /\ m + i > 1
      <4>1. i - 1 \in 0 .. k /\ (m + i) - 1 = m + (i - 1) /\ m + i > 1
        BY <1>8, <1>20
      <4> QED BY <1>6, <4>1
    <3>2. /\ Starts(F, (m + i) - 1) = Starts(E, m)
          /\ Stops(F, (m + i) - 1) = Stops(E, m) \cup {order[j] : j \in 1 .. (i - 1)}
      BY <1>10, <3>1
    <3>3. order[i] \in Values(order)
      BY <1>1 DEF Values
    <3>4. \A j \in 1 .. (i - 1) : order[j] # order[i]
      <4>1. \A j \in 1 .. (i - 1) : j \in 1 .. k /\ j # i
        BY <1>20
      <4> QED BY <1>9, <4>1
    <3>5. order[i] \in Starts(F, (m + i) - 1) \ Stops(F, (m + i) - 1)
      BY <1>9, <3>2, <3>3, <3>4
    <3>6. \A j \in 1 .. ((m + i) - 1) : F[j].kind \in Going
      BY <1>1, <1>6, <1>8
    <3> HIDE DEF E, F, order
    <3> QED BY <3>1, <3>5, <3>6 DEF Fits, Going
  <2> QED BY <1>7, <2>1, <2>2 DEF AllFit
<1>13. Blocks(o, F, quiet)
  <2>1. Values(order) = {order[i] : i \in 1 .. k} /\ Len(F) = m + k /\ k \in 0 .. k
    BY <1>1, <1>6 DEF Values
  <2>2. Starts(F, Len(F)) = Starts(E, m) /\ Stops(F, Len(F)) = Starts(E, m)
    BY <1>9, <1>10, <2>1
  <2>3. Values(o.blockOrder) = {} /\ \A i, j \in 1 .. Len(o.blockOrder) : o.blockOrder[i] = o.blockOrder[j] => i = j
    BY <1>5 DEF Values
  <2>4. Finishing(o)
    BY <1>5, FinishAssumption DEF Finishing
  <2>5. /\ IsFiniteSet(DOMAIN r.toolBlocks)
        /\ Values(r.toolBlocks) = 1 .. Cardinality(DOMAIN r.toolBlocks)
        /\ \A s, t \in DOMAIN r.toolBlocks : r.toolBlocks[s] = r.toolBlocks[t] => s = t
        /\ Starts(E, m) = (IF r.textOpen THEN {0} ELSE {}) \cup Values(r.toolBlocks)
    BY DEF Reading, Blocks, m
  <2> HIDE DEF E, F, order
  <2> QED BY <1>5, <2>2, <2>3, <2>4, <2>5 DEF Blocks
<1>14. Fragments(o, F, text, args, next)
  <2>1. Fragments(r, E, text, args, next) /\ m = Len(E)
    BY DEF Reading, m
  <2>2. \A n \in 1 .. Len(F) : F[n].kind = "blockDelta" => n \in 1 .. m
    BY <1>6, <1>7
  <2> HIDE DEF E, F, order
  <2> QED BY <1>5, <1>6, <1>11, <2>1, <2>2 DEF Fragments
<1> QED BY <1>5, <1>8, <1>12, <1>13, <1>14 DEF Reading, o

-----------------------------------------------------------------------------
(* What holds in every state.                                              *)

Line == Chunk \cup [kind : {"ignored", "[DONE]", "EOF", "unreadable"}]

(* The upstream gave a finish_reason.                                      *)
Finished == \E i \in DOMAIN sent : sent[i].kind = "chunk" /\ sent[i].finish # "none"

ArgsSent == [t \in Tools |-> SentArgs(t)]

(* Blocks and fragments.                                                   *)
Sound(r, E, quiet, text, args, next) ==
    /\ AllFit(E, quiet)
    /\ Blocks(r, E, quiet)
    /\ Fragments(r, E, text, args, next)

Told(r, E) == Sound(r, E, ContentEnds, SentText, ArgsSent, <<Len(sent) + 1, 0>>)

(* How far the message has come.                                           *)
Progress(r, E) ==
    /\ r.done => E # <<>> /\ E[Len(E)].kind \in {"stop", "error"}
    /\ ~r.done => \A i \in 1 .. Len(E) : E[i].kind \in Going
    /\ ~r.done => IF r.started THEN E # <<>> ELSE r = NewReader /\ delivered = <<>>

(* The finish reason and the usage.                                        *)
Closing(r, E) ==
    /\ Finishing(r) <=> Finished
    /\ ~includeUsage /\ ~r.done => ~Finishing(r)
    /\ \A i \in 1 .. Len(E) : E[i].kind = "delta" =>
         Finishing(r) /\ (includeUsage /\ ~E[i].usage => sent # <<>> /\ Last(sent).kind = "[DONE]")

Types ==
    /\ includeUsage \in BOOLEAN /\ result \in {"event", "ErrStreamDone", "error"}
    /\ delivered \in Events /\ reader \in Reader /\ sent \in Seq(Line)

Returned ==
    /\ result = "event" => \A i \in 1 .. Len(delivered) : delivered[i].kind # "stop"
    /\ result = "error" => ~reader.done

IInv ==
    /\ Types
    /\ Told(reader, All(reader))
    /\ Progress(reader, All(reader))
    /\ Closing(reader, All(reader))
    /\ Returned

-----------------------------------------------------------------------------
(* One more line.                                                          *)

LEMMA ReadMore ==
    ASSUME sent \in Seq(Line), NEW line \in Line, sent' = Append(sent, line)
    PROVE  /\ sent' \in Seq(Line) /\ Len(sent) \in Nat /\ Len(sent') = Len(sent) + 1
           /\ DOMAIN sent = 1 .. Len(sent) /\ DOMAIN sent' = 1 .. Len(sent')
           /\ sent'[Len(sent) + 1] = line /\ \A i \in 1 .. Len(sent) : sent'[i] = sent[i]
           /\ \A i : i \in DOMAIN sent' <=> i \in DOMAIN sent \/ i = Len(sent) + 1
<1>1. sent' \in Seq(Line) /\ Len(sent) \in Nat /\ Len(sent') = Len(sent) + 1
  OBVIOUS
<1>2. DOMAIN sent = 1 .. Len(sent) /\ DOMAIN sent' = 1 .. Len(sent')
  BY <1>1
<1>3. sent'[Len(sent) + 1] = line /\ \A i \in 1 .. Len(sent) : sent'[i] = sent[i]
  BY <1>1
<1>4. \A i : i \in DOMAIN sent' <=> i \in DOMAIN sent \/ i = Len(sent) + 1
  BY <1>1, <1>2
<1> QED BY <1>1, <1>2, <1>3, <1>4

LEMMA LineKinds ==
    ASSUME NEW line \in Line
    PROVE  /\ line.kind = "chunk" => line \in Chunk
           /\ line \in Chunk =>
                /\ line.kind = "chunk" /\ line.text \in BOOLEAN /\ line.usage \in BOOLEAN
                /\ line.tools \in ToolDeltas /\ line.finish \in FinishReasons \cup {"none"}
                /\ line.tools \in Seq([tool : Tools, args : BOOLEAN])
  BY ToolDeltasAssumption DEF Line, Chunk

(* What a line adds to what was sent.                                      *)
LEMMA ReadOther ==
    ASSUME sent \in Seq(Line), NEW line \in Line, sent' = Append(sent, line), line.kind # "chunk"
    PROVE  /\ SentText' = SentText /\ ArgsSent' = ArgsSent
           /\ ContentEnds' <=> ContentEnds
           /\ Finished' <=> Finished
<1>1. /\ \A i : i \in DOMAIN sent' <=> i \in DOMAIN sent \/ i = Len(sent) + 1
      /\ sent'[Len(sent) + 1] = line /\ \A i \in DOMAIN sent : sent'[i] = sent[i]
      /\ ~(line.kind = "chunk")
  BY ReadMore
<1>2. \A i \in DOMAIN sent' : sent'[i].kind = "chunk" <=> i \in DOMAIN sent /\ sent[i].kind = "chunk"
  BY <1>1, ReadMore
<1>3. SentText' = SentText
  BY <1>1, <1>2 DEF SentText
<1>4. ArgsSent' = ArgsSent
  BY <1>1, <1>2 DEF ArgsSent, SentArgs
<1>5. ContentEnds' <=> ContentEnds
  BY <1>1, <1>2 DEF ContentEnds, Content
<1>6. Finished' <=> Finished
  BY <1>1, <1>2 DEF Finished
<1> QED BY <1>3, <1>4, <1>5, <1>6

WithLine(text, c, line) == IF c.text THEN text \cup {<<line, 0>>} ELSE text

LEMMA ReadAChunk ==
    ASSUME sent \in Seq(Line), NEW c \in Chunk, sent' = Append(sent, c)
    PROVE  /\ SentText' = WithLine(SentText, c, Len(sent) + 1)
           /\ ArgsSent' = WithPieces(ArgsSent, c.tools, Len(c.tools), Len(sent) + 1)
           /\ ContentEnds' => ContentEnds /\ (Finished => ~Content(c))
           /\ Finished' <=> Finished \/ c.finish # "none"
<1> DEFINE k == Len(sent) + 1
<1>1. /\ c \in Line /\ c.kind = "chunk" /\ c.tools \in Seq([tool : Tools, args : BOOLEAN])
      /\ c.text \in BOOLEAN
  BY LineKinds DEF Line
<1>2. /\ \A i : i \in DOMAIN sent' <=> i \in DOMAIN sent \/ i = k
      /\ sent'[k] = c /\ \A i \in DOMAIN sent : sent'[i] = sent[i]
      /\ \A i \in DOMAIN sent : i < k
      /\ DOMAIN c.tools = 1 .. Len(c.tools)
  BY <1>1, ReadMore
<1> HIDE DEF k
<1>3. SentText' = WithLine(SentText, c, k)
  <2>1. ASSUME NEW x
        PROVE  x \in SentText' <=> x \in SentText \/ (c.text /\ x = <<k, 0>>)
    BY <1>1, <1>2 DEF SentText
  <2> QED BY <2>1 DEF WithLine
<1>4. ArgsSent' = WithPieces(ArgsSent, c.tools, Len(c.tools), k)
  <2>1. ASSUME NEW t \in Tools
        PROVE  SentArgs(t)' = SentArgs(t) \cup {<<k, m>> : m \in {j \in 1 .. Len(c.tools) :
                                                      c.tools[j].tool = t /\ c.tools[j].args}}
    <3> DEFINE G(i, s) == {<<i, n>> : n \in {m \in DOMAIN s[i].tools :
                                s[i].tools[m].tool = t /\ s[i].tools[m].args}}
    <3>1. SentArgs(t)' = UNION {G(i, sent') : i \in {j \in DOMAIN sent' : sent'[j].kind = "chunk"}}
      BY DEF SentArgs
    <3>2. SentArgs(t) = UNION {G(i, sent) : i \in {j \in DOMAIN sent : sent[j].kind = "chunk"}}
      BY DEF SentArgs
    <3>3. \A i \in DOMAIN sent : G(i, sent') = G(i, sent)
      BY <1>2
    <3>4. G(k, sent') = {<<k, m>> : m \in {j \in 1 .. Len(c.tools) : c.tools[j].tool = t /\ c.tools[j].args}}
      BY <1>2
    <3> HIDE DEF G
    <3>5. SentArgs(t)' = SentArgs(t) \cup G(k, sent')
      BY <1>1, <1>2, <3>1, <3>2, <3>3
    <3> QED BY <3>4, <3>5
  <2> QED BY <2>1 DEF ArgsSent, WithPieces
<1>5. ASSUME ContentEnds'
      PROVE  ContentEnds /\ (Finished => ~Content(c))
  <2>1. ContentEnds
    BY <1>2, <1>5 DEF ContentEnds
  <2>2. ASSUME Finished
        PROVE  ~Content(c)
    <3>1. PICK i \in DOMAIN sent : sent[i].kind = "chunk" /\ sent[i].finish # "none"
      BY <2>2 DEF Finished
    <3> QED BY <1>2, <1>5, <3>1 DEF ContentEnds
  <2> QED BY <2>1, <2>2
<1>6. Finished' <=> Finished \/ c.finish # "none"
  BY <1>1, <1>2 DEF Finished
<1> QED BY <1>3, <1>4, <1>5, <1>6 DEF k

(* What is asked less of the blocks still holds of them.                   *)
LEMMA Weaken ==
    ASSUME NEW quiet \in BOOLEAN, NEW loud \in BOOLEAN, loud => quiet, NEW r, NEW E,
           AllFit(E, quiet), Blocks(r, E, quiet)
    PROVE  AllFit(E, loud) /\ Blocks(r, E, loud)
  BY DEF AllFit, Fits, Blocks

LEMMA QuietType == ContentEnds \in BOOLEAN /\ ContentEnds' \in BOOLEAN
  BY DEF ContentEnds

-----------------------------------------------------------------------------
(* A chunk is consumed.                                                    *)

NoArgs == [t \in Tools |-> {}]

LEMMA NewFits ==
    ASSUME NEW quiet \in BOOLEAN, NEW next
    PROVE  /\ NewReader \in Reader /\ ~Finishing(NewReader)
           /\ AllFit(<<>>, quiet) /\ Blocks(NewReader, <<>>, quiet)
           /\ Fragments(NewReader, <<>>, {}, NoArgs, next)
<1>1. /\ NewReader.queue = <<>> /\ ~NewReader.done /\ ~NewReader.started /\ ~NewReader.textOpen
      /\ NewReader.toolBlocks = <<>> /\ NewReader.blockOrder = <<>>
      /\ NewReader.pendingFinish = "none" /\ NewReader.pendingUsage = FALSE
  BY DEF NewReader
<1>2. NewReader \in Reader
  <2>1. <<>> \in [{} -> Nat] /\ {} \in SUBSET Tools
    OBVIOUS
  <2>2. <<>> \in Events /\ <<>> \in Seq(Nat)
    BY DEF Events
  <2> QED BY <2>1, <2>2 DEF NewReader, Reader
<1>3. Len(<<>>) = 0 /\ DOMAIN <<>> = {}
  OBVIOUS
<1>4. AllFit(<<>>, quiet) /\ Starts(<<>>, 0) = {} /\ Stops(<<>>, 0) = {} /\ \A idx : Pieces(<<>>, idx) = {}
  BY <1>3 DEF AllFit, Starts, Stops, Pieces
<1>5. Values(<<>>) = {}
  BY <1>3 DEF Values
<1>6. IsFiniteSet({}) /\ Cardinality({}) = 0
  BY FS_EmptySet
<1>7. Blocks(NewReader, <<>>, quiet)
  <2>1. Starts(<<>>, Len(<<>>)) = {} /\ Stops(<<>>, Len(<<>>)) = {}
    BY <1>3, <1>4
  <2>2. /\ DOMAIN NewReader.toolBlocks = {} /\ Values(NewReader.toolBlocks) = {}
        /\ Values(NewReader.blockOrder) = {} /\ Len(NewReader.blockOrder) = 0
    BY <1>1, <1>3, <1>5
  <2>3. 1 .. 0 = {}
    OBVIOUS
  <2>4. ~Finishing(NewReader)
    BY <1>1 DEF Finishing
  <2> HIDE <1>4
  <2> QED BY <1>1, <1>6, <2>1, <2>2, <2>3, <2>4 DEF Blocks
<1>8. Fragments(NewReader, <<>>, {}, NoArgs, next)
  BY <1>1, <1>3, <1>4 DEF Fragments, NoArgs
<1> QED BY <1>1, <1>2, <1>4, <1>7, <1>8 DEF Finishing

LEMMA BeginReads ==
    ASSUME delivered = <<>>, NEW quiet \in BOOLEAN, NEW next
    PROVE  /\ Reading(Begin(NewReader), quiet, {}, NoArgs, next)
           /\ Kept(Begin(NewReader), NewReader)
<1> DEFINE e == [kind |-> "start"]
           q == [NewReader EXCEPT !.started = TRUE]
           o == Begin(NewReader)
           F == All(o)
<1>1. delivered \in Events /\ <<>> \in Events /\ e \in Event /\ e.kind = "start"
  BY DEF Events, Event
<1>2. /\ NewReader \in Reader /\ ~Finishing(NewReader)
      /\ AllFit(<<>>, quiet) /\ Blocks(NewReader, <<>>, quiet)
      /\ Fragments(NewReader, <<>>, {}, NoArgs, next)
  BY NewFits
<1>3. /\ q \in Reader /\ q.queue = <<>> /\ ~q.done /\ q.started /\ q.textOpen = NewReader.textOpen
      /\ q.toolBlocks = NewReader.toolBlocks /\ q.blockOrder = NewReader.blockOrder
      /\ q.pendingFinish = NewReader.pendingFinish /\ q.pendingUsage = NewReader.pendingUsage
  BY <1>2 DEF Reader, NewReader
<1>4. o = Enqueue(q, <<e>>)
  BY DEF Begin, NewReader
<1>5. <<e>> \in Events /\ <<>> \o <<>> = <<>>
  BY <1>1 DEF Events
<1> HIDE DEF q, e, o
<1>6. All(q) = <<>>
  BY <1>3, <1>5 DEF All
<1>7. o \in Reader /\ SameFields(o, q) /\ F = Then(<<>>, e)
  <2>1. All(o) = All(q) \o <<e>> /\ o \in Reader /\ SameFields(o, q)
    BY <1>1, <1>3, <1>4, <1>5, EnqueueAll
  <2> QED BY <1>6, <2>1 DEF Then
<1>8. Grown(F, <<>>, e)
  BY <1>1, <1>7, OneMore
<1> HIDE DEF F
<1>9. Len(<<>>) = 0
  OBVIOUS
<1>10. F \in Events /\ Len(F) = 1 /\ F[1] = e
  BY <1>8, <1>9 DEF Grown
<1>11. F # <<>> /\ \A i \in 1 .. Len(F) : F[i].kind \in Going
  BY <1>1, <1>9, <1>10 DEF Going
<1>12. AllFit(F, quiet)
  <2>1. Fits(F, 1, quiet)
    BY <1>1, <1>10 DEF Fits
  <2> QED BY <1>10, <2>1 DEF AllFit
<1>13. /\ Starts(F, Len(F)) = Starts(<<>>, Len(<<>>)) /\ Stops(F, Len(F)) = Stops(<<>>, Len(<<>>))
       /\ \A idx : Pieces(F, idx) = Pieces(<<>>, idx)
  BY <1>1, <1>8 DEF Grown
<1>14. Blocks(o, F, quiet)
  BY <1>2, <1>3, <1>7, <1>13 DEF Blocks, SameFields, Finishing
<1>15. Fragments(o, F, {}, NoArgs, next)
  <2>1. \A i \in 1 .. Len(F) : F[i].kind # "blockDelta"
    BY <1>1, <1>10
  <2> QED BY <1>2, <1>3, <1>7, <1>13, <2>1 DEF Fragments, SameFields
<1> QED BY <1>3, <1>7, <1>11, <1>12, <1>14, <1>15 DEF Reading, Kept, SameFields, F, o

(* The reader after a chunk, before it is known whether more must follow.  *)
Used(r, c, line) ==
    LET begun  == Begin(r)
        texted == IF c.text THEN AddText(begun, line) ELSE begun
        tooled == AddTools(texted, c.tools, line)
        closed == IF c.finish # "none" THEN CloseBlocks(tooled, c.finish) ELSE tooled
    IN  [closed EXCEPT !.pendingUsage = @ \/ c.usage]

LEMMA UsedReads ==
    ASSUME delivered \in Events, NEW quiet \in BOOLEAN, NEW text, NEW args \in [Tools -> SUBSET Tokens],
           NEW line \in Nat, NEW c \in Chunk,
           NEW r, r = Begin(r), Reading(r, quiet, text, args, <<line, 0>>),
           quiet => ~Finishing(r) \/ ~Content(c)
    PROVE  /\ Reading(Used(r, c, line), quiet, WithLine(text, c, line),
                      WithPieces(args, c.tools, Len(c.tools), line), <<line + 1, 0>>)
           /\ Used(r, c, line).pendingFinish = IF c.finish # "none" THEN c.finish ELSE r.pendingFinish
<1> DEFINE texted == IF c.text THEN AddText(r, line) ELSE r
           tooled == AddTools(texted, c.tools, line)
           closed == IF c.finish # "none" THEN CloseBlocks(tooled, c.finish) ELSE tooled
           used   == Used(r, c, line)
           text2  == WithLine(text, c, line)
           args2  == WithPieces(args, c.tools, Len(c.tools), line)
           end    == <<line + 1, 0>>
<1>1. /\ c.kind = "chunk" /\ c.text \in BOOLEAN /\ c.usage \in BOOLEAN
      /\ c.finish \in FinishReasons \cup {"none"}
      /\ c.tools \in Seq([tool : Tools, args : BOOLEAN]) /\ Len(c.tools) \in Nat
  <2>1. c \in Line
    BY DEF Line
  <2>2. c.tools \in Seq([tool : Tools, args : BOOLEAN])
    BY <2>1, LineKinds
  <2>3. Len(c.tools) \in Nat
    BY <2>2, LenProperties
  <2> QED BY <2>1, <2>2, <2>3, LineKinds
<1>2. used = [closed EXCEPT !.pendingUsage = @ \/ c.usage]
  BY DEF Used
<1>3. /\ <<line, 0>> \in Tokens /\ <<line, 1>> \in Tokens /\ Precedes(<<line, 0>>, <<line, 1>>)
      /\ <<line, Len(c.tools) + 1>> \in Tokens /\ end \in Tokens
      /\ Precedes(<<line, Len(c.tools) + 1>>, end)
  BY <1>1 DEF Tokens, Precedes
<1>4. Reading(texted, quiet, text2, args, <<line, 1>>) /\ Kept(texted, r)
  <2>1. CASE c.text
    <3>1. quiet => ~Finishing(r)
      BY <1>1, <2>1 DEF Content
    <3> QED BY <2>1, <3>1, AddTextReads DEF WithLine
  <2>2. CASE ~c.text
    BY <1>3, <2>2, Later DEF WithLine, Kept
  <2> QED BY <2>1, <2>2
<1>5. quiet => ~Finishing(texted) \/ c.tools = <<>>
  BY <1>1, <1>4 DEF Content, Kept, Finishing
<1> HIDE DEF texted
<1>6. Reading(tooled, quiet, text2, args2, <<line, Len(c.tools) + 1>>) /\ Kept(tooled, texted)
  <2> HIDE DEF text2
  <2> QED BY <1>1, <1>4, <1>5, AddToolsReads
<1> HIDE DEF tooled, text2, args2, end
<1>7. Reading(tooled, quiet, text2, args2, end)
  BY <1>3, <1>6, Later
<1>8. /\ Reading(closed, quiet, text2, args2, end)
      /\ closed.pendingFinish = IF c.finish # "none" THEN c.finish ELSE r.pendingFinish
  <2>1. CASE c.finish # "none"
    BY <1>1, <1>7, <2>1, CloseBlocksReads
  <2>2. CASE c.finish = "none"
    BY <1>4, <1>6, <1>7, <2>2 DEF Kept
  <2> QED BY <2>1, <2>2
<1> HIDE DEF closed, used
<1>9. /\ used \in Reader /\ used.queue = closed.queue /\ used.done = closed.done
      /\ used.started = closed.started /\ used.textOpen = closed.textOpen
      /\ used.toolBlocks = closed.toolBlocks /\ used.blockOrder = closed.blockOrder
      /\ used.pendingFinish = closed.pendingFinish
  <2>1. closed \in Reader /\ (closed.pendingUsage \/ c.usage) \in BOOLEAN
    BY <1>8 DEF Reading
  <2> QED BY <1>2, <2>1 DEF Reader
<1>10. All(used) = All(closed)
  BY <1>9 DEF All
<1>11. Blocks(used, All(closed), quiet)
  BY <1>8, <1>9 DEF Reading, Blocks, Finishing
<1>12. Fragments(used, All(closed), text2, args2, end)
  BY <1>8, <1>9 DEF Reading, Fragments
<1>13. Reading(used, quiet, text2, args2, end)
  BY <1>8, <1>9, <1>10, <1>11, <1>12 DEF Reading
<1> QED BY <1>8, <1>9, <1>13 DEF used, text2, args2, end

(* One of the last events of a message.                                    *)
MayEnd(r, E, e) ==
    /\ e.kind \in {"delta", "stop", "error"}
    /\ e.kind = "delta" => Finishing(r) /\ E # <<>>
    /\ e.kind \in {"delta", "error"} => \A i \in 1 .. Len(E) : E[i].kind \in Going
    /\ e.kind = "stop" => E # <<>> /\ E[Len(E)].kind \in {"delta", "error"}

SameBlocks(o, r) ==
    /\ o.textOpen = r.textOpen /\ o.toolBlocks = r.toolBlocks
    /\ o.blockOrder = r.blockOrder /\ o.pendingFinish = r.pendingFinish

LEMMA EndSound ==
    ASSUME NEW E \in Events, NEW e \in Event, NEW F, F = Then(E, e), NEW quiet \in BOOLEAN,
           NEW text, NEW args, NEW next, NEW r, NEW o, SameBlocks(o, r),
           MayEnd(r, E, e), Sound(r, E, quiet, text, args, next)
    PROVE  Grown(F, E, e) /\ Sound(o, F, quiet, text, args, next)
<1>1. Grown(F, E, e)
  BY OneMore
<1>2. Len(E) \in Nat /\ Len(F) = Len(E) + 1 /\ F[Len(E) + 1] = e /\ \A n \in 1 .. Len(E) : F[n] = E[n]
  BY <1>1 DEF Grown
<1>3. /\ Starts(F, Len(F)) = Starts(E, Len(E)) /\ Stops(F, Len(F)) = Stops(E, Len(E))
      /\ \A idx : Pieces(F, idx) = Pieces(E, idx)
      /\ Starts(F, Len(E)) = Starts(E, Len(E)) /\ Stops(F, Len(E)) = Stops(E, Len(E))
  <2>1. e.kind # "blockStart" /\ e.kind # "blockStop" /\ e.kind # "blockDelta"
    BY DEF MayEnd
  <2> QED BY <1>1, <2>1 DEF Grown
<1>4. Blocks(o, F, quiet)
  BY <1>3 DEF Sound, Blocks, SameBlocks, Finishing
<1>5. Fragments(o, F, text, args, next)
  <2>1. \A n \in 1 .. Len(F) : F[n].kind = "blockDelta" => n \in 1 .. Len(E)
    BY <1>2 DEF MayEnd
  <2> QED BY <1>2, <1>3, <2>1 DEF Sound, Fragments, SameBlocks
<1>6. Fits(F, Len(E) + 1, quiet)
  <2>1. (Len(E) + 1) - 1 = Len(E) /\ \A n \in 1 .. Len(E) : F[n].kind = E[n].kind
    BY <1>2
  <2>2. E # <<>> => Len(E) + 1 > 1 /\ Len(E) \in 1 .. Len(E)
    BY <1>2 DEF Events
  <2>3. quiet /\ e.kind = "delta" => Starts(E, Len(E)) \subseteq Stops(E, Len(E))
    <3> SUFFICES ASSUME quiet, e.kind = "delta"
                 PROVE  Starts(E, Len(E)) \subseteq Stops(E, Len(E))
      OBVIOUS
    <3>1. r.blockOrder = <<>>
      BY DEF MayEnd, Sound, Blocks
    <3>2. Values(r.blockOrder) = {}
      BY <3>1 DEF Values
    <3> QED BY <3>2 DEF Sound, Blocks
  <2>4. e.kind \in {"delta", "stop", "error"} /\ F[Len(E) + 1] = e
    BY <1>2 DEF MayEnd
  <2>5. e.kind \in {"delta", "error"} => \A n \in 1 .. Len(E) : F[n].kind \in Going
    BY <2>1 DEF MayEnd
  <2>6. e.kind = "stop" => Len(E) + 1 > 1 /\ F[Len(E)].kind \in {"delta", "error"}
    BY <2>1, <2>2 DEF MayEnd
  <2>7. e.kind = "delta" => Len(E) + 1 > 1
    BY <2>2 DEF MayEnd
  <2> QED BY <1>3, <2>1, <2>3, <2>4, <2>5, <2>6, <2>7 DEF Fits, Going
<1>7. AllFit(F, quiet)
  BY <1>6, OneMoreFits DEF Sound
<1> QED BY <1>1, <1>4, <1>5, <1>7 DEF Sound

(* What Finish and the end of the body leave behind.                       *)
Over(o, r, quiet, text, args, next) ==
    /\ o \in Reader /\ o.done /\ SameBlocks(o, r)
    /\ Sound(o, All(o), quiet, text, args, next)
    /\ All(o) # <<>> /\ All(o)[Len(All(o))].kind \in {"stop", "error"}
    /\ \A i \in 1 .. Len(All(o)) :
         All(o)[i].kind = "delta" => Finishing(r) /\ All(o)[i].usage = r.pendingUsage

NoDelta(r) == \A i \in 1 .. Len(All(r)) : All(r)[i].kind # "delta"

GoingOn(r) == r \in Reader /\ ~r.done /\ \A i \in 1 .. Len(All(r)) : All(r)[i].kind \in Going

LEMMA CutOffSound ==
    ASSUME delivered \in Events, NEW quiet \in BOOLEAN, NEW text, NEW args, NEW next,
           NEW r, GoingOn(r), Sound(r, All(r), quiet, text, args, next)
    PROVE  LET o == Enqueue([r EXCEPT !.done = TRUE], <<[kind |-> "error"]>>)
           IN  Over(o, r, quiet, text, args, next) /\ NoDelta(o)
<1> DEFINE e == [kind |-> "error"]
           q == [r EXCEPT !.done = TRUE]
           o == Enqueue(q, <<e>>)
           E == All(r)
           F == All(o)
<1>1. r \in Reader /\ E \in Events /\ Len(E) \in Nat /\ e \in Event /\ e.kind = "error" /\ <<e>> \in Events
  BY AllEvents DEF GoingOn, Event, Events
<1>2. /\ q \in Reader /\ q.queue = r.queue /\ q.done /\ SameBlocks(q, r)
  BY <1>1 DEF Reader, SameBlocks
<1> HIDE DEF e, q
<1>3. All(q) = E
  BY <1>2 DEF All
<1>4. o \in Reader /\ SameFields(o, q) /\ F = Then(E, e)
  BY <1>1, <1>2, <1>3, EnqueueAll DEF Then
<1>5. SameBlocks(o, r) /\ o.done
  BY <1>2, <1>4 DEF SameBlocks, SameFields
<1> HIDE DEF o
<1>6. MayEnd(r, E, e)
  BY <1>1 DEF MayEnd, GoingOn
<1>7. Grown(F, E, e) /\ Sound(o, F, quiet, text, args, next)
  BY <1>1, <1>4, <1>5, <1>6, EndSound
<1>8. F \in Events /\ Len(F) = Len(E) + 1 /\ F[Len(F)] = e /\ \A n \in 1 .. Len(E) : F[n] = E[n]
  BY <1>7 DEF Grown
<1>9. F # <<>>
  BY <1>1, <1>8 DEF Events
<1>10. \A n \in 1 .. Len(F) : F[n].kind # "delta"
  <2>1. \A n \in 1 .. Len(E) : E[n].kind # "delta"
    BY DEF GoingOn, Going
  <2> HIDE DEF E, F
  <2> QED BY <1>1, <1>8, <2>1
<1> QED BY <1>1, <1>4, <1>5, <1>7, <1>8, <1>9, <1>10 DEF Over, NoDelta, o, q, e

LEMMA FinishSound ==
    ASSUME delivered \in Events, NEW quiet \in BOOLEAN, NEW text, NEW args, NEW next,
           NEW r, GoingOn(r), Sound(r, All(r), quiet, text, args, next),
           Finishing(r) => All(r) # <<>>
    PROVE  Over(Finish(r), r, quiet, text, args, next)
<1>1. CASE ~Finishing(r)
  <2>1. Finish(r) = Enqueue([r EXCEPT !.done = TRUE], <<[kind |-> "error"]>>)
    BY <1>1 DEF Finish, GoingOn
  <2> QED BY <2>1, CutOffSound
<1>2. CASE Finishing(r)
  <2> DEFINE d == Delta(r)
             s == [kind |-> "stop"]
             q == [r EXCEPT !.done = TRUE]
             o == Finish(r)
             E == All(r)
             D == Then(E, d)
             F == All(o)
  <2>1. /\ r \in Reader /\ E \in Events /\ Len(E) \in Nat /\ E # <<>>
        /\ s \in Event /\ s.kind = "stop"
    BY <1>2, AllEvents DEF GoingOn, Event
  <2>2. d \in Event /\ d.kind = "delta" /\ d.usage = r.pendingUsage
    BY <2>1 DEF Delta, Event, Reader
  <2>3. o = Enqueue(q, <<d, s>>)
    BY <1>2 DEF Finish, GoingOn
  <2>4. q \in Reader /\ q.queue = r.queue /\ q.done /\ SameBlocks(q, r)
    BY <2>1 DEF Reader, SameBlocks
  <2> HIDE DEF d, s, q, o
  <2>5. All(q) = E
    BY <2>4 DEF All
  <2>6. o \in Reader /\ SameFields(o, q) /\ F = Then(D, s)
    <3>1. <<d, s>> \in Events /\ <<d>> \in Events /\ <<s>> \in Events /\ <<d, s>> = <<d>> \o <<s>>
      <4>1. <<d>> \in Events /\ <<s>> \in Events
        BY <2>1, <2>2 DEF Events
      <4> QED BY <2>1, <2>2, <4>1, PairOfEvents
    <3>2. o \in Reader /\ SameFields(o, q) /\ F = E \o <<d, s>>
      BY <2>3, <2>4, <2>5, <3>1, EnqueueAll
    <3> HIDE DEF E, F
    <3>3. E \o (<<d>> \o <<s>>) = (E \o <<d>>) \o <<s>>
      BY <2>1, <3>1, ConcatEvents
    <3> QED BY <3>1, <3>2, <3>3 DEF Then
  <2>7. SameBlocks(o, r) /\ o.done /\ SameBlocks(r, r)
    BY <2>4, <2>6 DEF SameBlocks, SameFields
  <2>8. MayEnd(r, E, d)
    BY <1>2, <2>1, <2>2 DEF MayEnd, GoingOn
  <2>9. Grown(D, E, d) /\ Sound(r, D, quiet, text, args, next)
    BY <2>1, <2>2, <2>7, <2>8, EndSound
  <2>10. D \in Events /\ Len(D) = Len(E) + 1 /\ D[Len(D)] = d /\ \A n \in 1 .. Len(E) : D[n] = E[n]
    BY <2>9 DEF Grown
  <2>11. D # <<>> /\ MayEnd(r, D, s)
    <3>1. D # <<>>
      BY <2>1, <2>10 DEF Events
    <3> HIDE DEF D
    <3> QED BY <2>1, <2>2, <2>10, <3>1 DEF MayEnd
  <2> HIDE DEF D, F, E
  <2>12. Grown(F, D, s) /\ Sound(o, F, quiet, text, args, next)
    BY <2>1, <2>6, <2>7, <2>9, <2>10, <2>11, EndSound
  <2>13. F \in Events /\ Len(F) = Len(D) + 1 /\ F[Len(F)] = s /\ \A n \in 1 .. Len(D) : F[n] = D[n]
    BY <2>12 DEF Grown
  <2>14. F # <<>>
    BY <2>1, <2>10, <2>13 DEF Events
  <2>15. \A n \in 1 .. Len(F) : F[n].kind = "delta" => n = Len(D)
    <3>1. \A n \in 1 .. Len(E) : E[n].kind # "delta"
      BY DEF GoingOn, Going, E
    <3> QED BY <2>1, <2>10, <2>13, <3>1
  <2>16. F[Len(D)] = d
    BY <2>1, <2>10, <2>13
  <2>17. \A n \in 1 .. Len(F) : F[n].kind = "delta" => Finishing(r) /\ F[n].usage = r.pendingUsage
    BY <1>2, <2>2, <2>15, <2>16
  <2> QED BY <2>1, <2>6, <2>7, <2>12, <2>13, <2>14, <2>17 DEF Over, F, o
<1> QED BY <1>1, <1>2

-----------------------------------------------------------------------------
(* The steps.                                                              *)

LEMMA InitIInv == Init => IInv
<1> SUFFICES ASSUME Init
             PROVE  IInv
  OBVIOUS
<1>1. /\ reader = NewReader /\ delivered = <<>> /\ sent = <<>> /\ result = "event"
      /\ includeUsage \in BOOLEAN
  BY DEF Init
<1>2. NewReader.queue = <<>> /\ ~NewReader.done /\ ~NewReader.started
  BY DEF NewReader
<1>3. All(reader) = <<>> /\ Len(<<>>) = 0
  BY <1>1, <1>2 DEF All
<1>4. SentText = {} /\ ArgsSent = NoArgs /\ ~Finished
  BY <1>1 DEF SentText, ArgsSent, SentArgs, NoArgs, Finished
<1>5. /\ NewReader \in Reader /\ ~Finishing(NewReader)
      /\ Sound(NewReader, <<>>, ContentEnds, {}, NoArgs, <<Len(sent) + 1, 0>>)
  BY NewFits, QuietType DEF Sound
<1>6. Types
  <2>1. <<>> \in Seq(Line) /\ <<>> \in Events
    BY DEF Events
  <2> QED BY <1>1, <1>5, <2>1 DEF Types
<1>7. Told(reader, All(reader))
  BY <1>1, <1>3, <1>4, <1>5 DEF Told
<1>8. Progress(reader, All(reader)) /\ Closing(reader, All(reader)) /\ Returned
  BY <1>1, <1>2, <1>3, <1>4, <1>5 DEF Progress, Closing, Returned
<1> QED BY <1>6, <1>7, <1>8 DEF IInv

(* What the lines read say goes into Told and Closing only.                *)
LEMMA SameTold ==
    ASSUME NEW r, NEW E, Told(r, E), UNCHANGED sent
    PROVE  Sound(r, E, ContentEnds', SentText', ArgsSent', <<Len(sent') + 1, 0>>)
<1>1. (ContentEnds' <=> ContentEnds) /\ SentText' = SentText /\ ArgsSent' = ArgsSent
  BY DEF ContentEnds, SentText, ArgsSent, SentArgs
<1>2. AllFit(E, ContentEnds') /\ Blocks(r, E, ContentEnds')
  BY <1>1, QuietType, Weaken DEF Told, Sound
<1>3. Fragments(r, E, SentText, ArgsSent, <<Len(sent) + 1, 0>>) /\ Len(sent') = Len(sent)
  BY DEF Told, Sound
<1> QED BY <1>1, <1>2, <1>3 DEF Sound

(* A line that is no chunk changes nothing about what was told.            *)
LEMMA OtherTold ==
    ASSUME Types, NEW line \in Line, sent' = Append(sent, line), line.kind # "chunk",
           NEW r \in Reader, Told(r, All(r))
    PROVE  Sound(r, All(r), ContentEnds', SentText', ArgsSent', <<Len(sent') + 1, 0>>)
<1> DEFINE E == All(r)
           next == <<Len(sent) + 1, 0>>
           next2 == <<Len(sent') + 1, 0>>
<1>1. SentText' = SentText /\ ArgsSent' = ArgsSent /\ (ContentEnds' <=> ContentEnds)
  BY ReadOther DEF Types
<1>2. Len(sent) \in Nat /\ Len(sent') = Len(sent) + 1
  BY ReadMore DEF Types
<1>3. next \in Tokens /\ next2 \in Tokens /\ Precedes(next, next2)
  BY <1>2 DEF Tokens, Precedes
<1> HIDE DEF next, next2
<1>4. /\ AllFit(E, ContentEnds') /\ Blocks(r, E, ContentEnds')
      /\ Fragments(r, E, SentText', ArgsSent', next)
  <2>1. AllFit(E, ContentEnds) /\ Blocks(r, E, ContentEnds) /\ Fragments(r, E, SentText, ArgsSent, next)
    BY DEF Told, Sound, next
  <2>2. AllFit(E, ContentEnds') /\ Blocks(r, E, ContentEnds')
    BY <1>1, <2>1, QuietType, Weaken
  <2> QED BY <1>1, <2>1, <2>2
<1>5. ASSUME NEW i \in 1 .. Len(E), E[i].kind = "blockDelta"
      PROVE  Precedes(E[i].token, next2)
  <2>1. E[i] \in Event
    BY AllEvents DEF Types
  <2>2. E[i].token \in Tokens /\ Precedes(E[i].token, next)
    BY <1>4, <1>5, <2>1, EventKinds DEF Fragments, Tokens
  <2> QED BY <1>3, <2>2, Order
<1>6. Fragments(r, E, SentText', ArgsSent', next2)
  BY <1>4, <1>5 DEF Fragments
<1> QED BY <1>4, <1>6 DEF Sound, next2

(* Handing an event out moves it, and changes no event.                    *)
LEMMA HandOut ==
    ASSUME Types, Deliver
    PROVE  /\ delivered' \in Events /\ reader' \in Reader /\ SameFields(reader', reader)
           /\ All(reader)' = All(reader)
           /\ Head(reader.queue) \in Event /\ Len(delivered) \in Nat
           /\ Len(delivered') = Len(delivered) + 1 /\ delivered'[Len(delivered')] = Head(reader.queue)
           /\ \A i \in 1 .. Len(delivered) : delivered'[i] = delivered[i]
           /\ delivered' # <<>>
<1> DEFINE q == reader.queue
           h == Head(q)
           t == Tail(q)
<1>1. /\ delivered \in Events /\ reader \in Reader /\ q \in Events /\ q # <<>>
      /\ delivered' = Append(delivered, h)
      /\ reader' = [reader EXCEPT !.queue = t]
  BY DEF Types, Deliver, Reader
<1>2. h \in Event /\ t \in Events /\ q = <<h>> \o t
  <2>1. q \in Seq(Event)
    BY <1>1 DEF Events
  <2> QED BY <1>1, <2>1, HeadTailProperties DEF Events
<1> HIDE DEF h, t
<1>3. reader' \in Reader /\ SameFields(reader', reader) /\ reader'.queue = t
  BY <1>1, <1>2 DEF Reader, SameFields
<1>4. /\ delivered' = delivered \o <<h>> /\ delivered' \in Events /\ <<h>> \in Events
      /\ Len(delivered) \in Nat /\ Len(delivered') = Len(delivered) + 1
      /\ delivered'[Len(delivered')] = h
      /\ \A i \in 1 .. Len(delivered) : delivered'[i] = delivered[i]
  BY <1>1, <1>2, AppendIsConcat DEF Events
<1>5. All(reader)' = All(reader)
  <2>1. All(reader)' = (delivered \o <<h>>) \o t
    BY <1>3, <1>4 DEF All
  <2>2. delivered \o (<<h>> \o t) = (delivered \o <<h>>) \o t
    BY <1>1, <1>2, <1>4, ConcatEvents
  <2> QED BY <1>2, <2>1, <2>2 DEF All
<1>6. delivered' # <<>>
  BY <1>4 DEF Events
<1> QED BY <1>2, <1>3, <1>4, <1>5, <1>6 DEF h

LEMMA DeliverIInv == IInv /\ Deliver => IInv'
<1> SUFFICES ASSUME IInv, Deliver
             PROVE  IInv'
  OBVIOUS
<1> DEFINE E == All(reader)
<1>1. /\ Types /\ Told(reader, E) /\ Progress(reader, E) /\ Closing(reader, E) /\ Returned
      /\ UNCHANGED <<includeUsage, sent>> /\ result = "event"
      /\ result' = IF Head(reader.queue).kind = "stop" THEN "ErrStreamDone" ELSE "event"
  BY DEF IInv, Deliver
<1>2. /\ delivered' \in Events /\ reader' \in Reader /\ SameFields(reader', reader)
      /\ All(reader)' = E
      /\ Head(reader.queue) \in Event /\ Len(delivered) \in Nat
      /\ Len(delivered') = Len(delivered) + 1 /\ delivered'[Len(delivered')] = Head(reader.queue)
      /\ \A i \in 1 .. Len(delivered) : delivered'[i] = delivered[i]
      /\ delivered' # <<>>
  BY <1>1, HandOut
<1>3. Types'
  BY <1>1, <1>2 DEF Types
<1>4. Told(reader, All(reader))'
  <2>1. Sound(reader, E, ContentEnds', SentText', ArgsSent', <<Len(sent') + 1, 0>>)
    BY <1>1, SameTold
  <2>2. Sound(reader', E, ContentEnds', SentText', ArgsSent', <<Len(sent') + 1, 0>>)
    <3> HIDE DEF E
    <3> QED BY <1>2, <2>1 DEF Sound, Blocks, Fragments, SameFields, Finishing
  <2> QED BY <1>2, <2>2 DEF Told
<1>5. reader.queue # <<>> /\ NewReader.queue = <<>> /\ reader # NewReader
  BY DEF Deliver, NewReader
<1>6. Progress(reader, All(reader))'
  <2>1. reader.done \/ reader.started
    BY <1>1, <1>5 DEF Progress
  <2> HIDE DEF E
  <2> QED BY <1>1, <1>2, <2>1 DEF Progress, SameFields
<1>7. Closing(reader, All(reader))'
  <2> HIDE DEF E
  <2>1. (Finished' <=> Finished) /\ (Finishing(reader') <=> Finishing(reader))
    BY <1>1, <1>2 DEF SameFields, Finishing, Finished
  <2> QED BY <1>1, <1>2, <2>1 DEF Closing, SameFields
<1>8. Returned'
  BY <1>1, <1>2 DEF Returned
<1> QED BY <1>3, <1>4, <1>6, <1>7, <1>8 DEF IInv

LEMMA DeliverStopIInv == IInv /\ DeliverStopWhenDone => IInv'
<1> SUFFICES ASSUME IInv, DeliverStopWhenDone
             PROVE  IInv'
  OBVIOUS
<1> DEFINE E == All(reader)
           s == [kind |-> "stop"]
<1>1. /\ Types /\ Told(reader, E) /\ Progress(reader, E) /\ Closing(reader, E) /\ Returned
      /\ UNCHANGED <<includeUsage, sent, reader>> /\ result = "event" /\ reader.queue = <<>>
      /\ reader.done /\ delivered' = Append(delivered, s) /\ result' = "ErrStreamDone"
  BY DEF IInv, DeliverStopWhenDone
<1>2. s \in Event /\ s.kind = "stop" /\ delivered \in Seq(Event) /\ reader \in Reader
  BY <1>1 DEF Event, Types, Events
<1> HIDE DEF s
<1>3. E = delivered
  BY <1>1, <1>2, ConcatEmptySeq DEF All
<1>4. delivered' = Then(delivered, s) /\ delivered' \in Events
  BY <1>1, <1>2, AppendIsConcat DEF Then, Events
<1>5. All(reader)' = Then(E, s)
  <2>1. delivered' \o <<>> = delivered'
    BY <1>4, ConcatEmptySeq DEF Events
  <2> QED BY <1>1, <1>3, <1>4, <2>1 DEF All
<1>6. MayEnd(reader, E, s) /\ SameBlocks(reader, reader)
  <2>1. E # <<>> /\ Len(E) \in 1 .. Len(E)
    BY <1>1, <1>2, <1>3 DEF Progress
  <2> QED BY <1>1, <1>2, <1>3, <2>1 DEF Progress, Returned, MayEnd, SameBlocks
<1> DEFINE F == Then(E, s)
<1>7. Grown(F, E, s) /\ Sound(reader, F, ContentEnds', SentText', ArgsSent', <<Len(sent') + 1, 0>>)
  <2>1. Sound(reader, E, ContentEnds', SentText', ArgsSent', <<Len(sent') + 1, 0>>)
    BY <1>1, SameTold
  <2>2. E \in Events
    BY <1>2, <1>3 DEF Events
  <2> HIDE DEF E
  <2> QED BY <1>2, <1>6, <2>1, <2>2, QuietType, EndSound
<1> HIDE DEF F, E
<1>8. /\ F \in Events /\ Len(E) \in Nat /\ Len(F) = Len(E) + 1 /\ F[Len(F)] = s
      /\ \A i \in 1 .. Len(E) : F[i] = E[i]
  BY <1>7 DEF Grown
<1>9. F # <<>> /\ \A i \in 1 .. Len(F) : F[i].kind = "delta" => i \in 1 .. Len(E)
  BY <1>2, <1>8 DEF Events
<1>10. Types'
  BY <1>1, <1>4 DEF Types
<1>11. Told(reader, All(reader))'
  BY <1>1, <1>5, <1>7 DEF Told, F
<1>12. Progress(reader, All(reader))'
  BY <1>1, <1>2, <1>5, <1>8, <1>9 DEF Progress, F
<1>13. Closing(reader, All(reader))'
  <2>1. (Finished' <=> Finished) /\ (Finishing(reader)' <=> Finishing(reader))
    BY <1>1 DEF Finishing, Finished
  <2>2. All(reader)' = F
    BY <1>5 DEF F
  <2> QED BY <1>1, <1>8, <1>9, <2>1, <2>2 DEF Closing
<1>14. Returned'
  BY <1>1 DEF Returned
<1> QED BY <1>10, <1>11, <1>12, <1>13, <1>14 DEF IInv

(* A line that the reader skips, or that it cannot read.                   *)
LEMMA SkippedIInv ==
    ASSUME IInv, NEW line \in Line, line.kind # "chunk", Pump(line), UNCHANGED reader,
           result' \in {"event", "error"}
    PROVE  IInv'
<1> DEFINE E == All(reader)
<1>1. /\ Types /\ Told(reader, E) /\ Progress(reader, E) /\ Closing(reader, E) /\ Returned
      /\ UNCHANGED <<includeUsage, delivered>> /\ sent' = Append(sent, line)
      /\ ~reader.done /\ All(reader)' = E /\ result = "event"
  BY DEF IInv, Pump, All
<1>2. Types'
  <2>1. sent' \in Seq(Line)
    BY <1>1, ReadMore DEF Types
  <2> QED BY <1>1, <2>1 DEF Types
<1>3. Told(reader, All(reader))'
  <2>1. Sound(reader, E, ContentEnds', SentText', ArgsSent', <<Len(sent') + 1, 0>>)
    BY <1>1, OtherTold DEF Types
  <2> QED BY <1>1, <2>1 DEF Told
<1>4. Progress(reader, All(reader))'
  BY <1>1 DEF Progress
<1>5. Closing(reader, All(reader))'
  <2>1. (Finished' <=> Finished) /\ (Finishing(reader)' <=> Finishing(reader))
    BY <1>1, ReadOther DEF Types, Finishing
  <2>2. \A i \in 1 .. Len(E) : E[i].kind # "delta"
    BY <1>1 DEF Progress, Going
  <2> HIDE DEF E
  <2> QED BY <1>1, <2>1, <2>2 DEF Closing
<1>6. Returned'
  BY <1>1 DEF Returned
<1> QED BY <1>2, <1>3, <1>4, <1>5, <1>6 DEF IInv

(* A line that ends the message, from a reader r that knows the line.      *)
LEMMA OverIInv ==
    ASSUME IInv, NEW line \in Line, Pump(line), UNCHANGED result,
           NEW r, Over(reader', r, ContentEnds', SentText', ArgsSent', <<Len(sent') + 1, 0>>),
           Finishing(r) <=> Finished',
           r.pendingUsage \in BOOLEAN,
           includeUsage /\ ~r.pendingUsage => line.kind = "[DONE]" \/ NoDelta(reader')
    PROVE  IInv'
<1> DEFINE F == All(reader)'
<1>1. /\ Types /\ Returned /\ result = "event"
      /\ UNCHANGED <<includeUsage, delivered, result>> /\ sent' = Append(sent, line)
  BY DEF IInv, Pump
<1>2. sent' \in Seq(Line) /\ sent' # <<>> /\ Last(sent') = line
  <2>1. sent' \in Seq(Line) /\ Len(sent) \in Nat /\ Len(sent') = Len(sent) + 1 /\ sent'[Len(sent) + 1] = line
    BY <1>1, ReadMore DEF Types
  <2> QED BY <2>1 DEF Last
<1>3. F = All(reader')
  BY <1>1 DEF All
<1>4. /\ reader' \in Reader /\ reader'.done /\ SameBlocks(reader', r)
      /\ Sound(reader', F, ContentEnds', SentText', ArgsSent', <<Len(sent') + 1, 0>>)
      /\ F # <<>> /\ F[Len(F)].kind \in {"stop", "error"}
      /\ \A i \in 1 .. Len(F) :
           F[i].kind = "delta" => Finishing(r) /\ F[i].usage = r.pendingUsage
      /\ NoDelta(reader') <=> \A i \in 1 .. Len(F) : F[i].kind # "delta"
  BY <1>3 DEF Over, NoDelta
<1>5. Types'
  BY <1>1, <1>2, <1>4 DEF Types
<1>6. Told(reader, All(reader))'
  BY <1>4 DEF Told
<1>7. Progress(reader, All(reader))'
  BY <1>4 DEF Progress
<1>8. Closing(reader, All(reader))'
  <2>1. Finishing(reader)' <=> Finishing(r)
    BY <1>4 DEF SameBlocks, Finishing
  <2> HIDE DEF F
  <2>2. \A i \in 1 .. Len(F) : F[i].kind = "delta" =>
           Finishing(r) /\ (includeUsage /\ ~F[i].usage => Last(sent').kind = "[DONE]")
    BY <1>2, <1>4
  <2> QED BY <1>1, <1>2, <1>4, <2>1, <2>2 DEF Closing, F
<1>9. Returned'
  BY <1>1 DEF Returned
<1> QED BY <1>5, <1>6, <1>7, <1>8, <1>9 DEF IInv

(* A reader before the end of the message.                                 *)
LEMMA BeforeEnd ==
    ASSUME IInv, ~reader.done
    PROVE  /\ Types /\ reader \in Reader /\ delivered \in Events /\ sent \in Seq(Line)
           /\ GoingOn(reader) /\ Told(reader, All(reader))
           /\ Finishing(reader) => All(reader) # <<>>
           /\ Finishing(reader) <=> Finished
           /\ reader.started => All(reader) # <<>>
           /\ ~reader.started => reader = NewReader /\ delivered = <<>>
<1>1. ~Finishing(NewReader)
  BY DEF Finishing, NewReader
<1> QED BY <1>1 DEF IInv, Types, Progress, Closing, GoingOn

LEMMA ReadEndIInv == IInv /\ (ReadDone \/ ReadEOF) => IInv'
<1> SUFFICES ASSUME IInv, ReadDone \/ ReadEOF
             PROVE  IInv'
  OBVIOUS
<1> DEFINE next == <<Len(sent') + 1, 0>>
<1>1. ~reader.done
  BY DEF ReadDone, ReadEOF, Pump
<1>2. PICK line \in Line : /\ Pump(line) /\ line.kind \in {"[DONE]", "EOF"}
                           /\ line.kind = "[DONE]" <=> ReadDone
  <2>1. [kind |-> "[DONE]"] \in Line /\ [kind |-> "EOF"] \in Line
    BY DEF Line
  <2>2. ReadDone => Pump([kind |-> "[DONE]"])
    BY DEF ReadDone
  <2>3. ReadEOF => Pump([kind |-> "EOF"])
    BY DEF ReadEOF
  <2>4. CASE ReadDone
    BY <2>1, <2>2, <2>4
  <2>5. CASE ~ReadDone
    BY <2>1, <2>3, <2>5
  <2> QED BY <2>4, <2>5
<1>3. sent' = Append(sent, line) /\ line.kind # "chunk" /\ UNCHANGED result
  BY <1>2 DEF Pump, ReadDone, ReadEOF
<1>4. Sound(reader, All(reader), ContentEnds', SentText', ArgsSent', next)
  BY <1>1, <1>3, BeforeEnd, OtherTold
<1>5. Finishing(reader) <=> Finished'
  BY <1>1, <1>3, BeforeEnd, ReadOther
<1>8. reader.pendingUsage \in BOOLEAN
  BY <1>1, BeforeEnd DEF Reader
<1>6. CASE ReadDone
  <2>1. Over(Finish(reader), reader, ContentEnds', SentText', ArgsSent', next)
    BY <1>1, <1>4, BeforeEnd, QuietType, FinishSound
  <2>2. reader' = Finish(reader)
    BY <1>6 DEF ReadDone
  <2>3. Over(reader', reader, ContentEnds', SentText', ArgsSent', next)
    BY <2>1, <2>2
  <2> QED BY <1>2, <1>3, <1>5, <1>6, <1>8, <2>3, OverIInv
<1>7. CASE ~ReadDone
  <2> DEFINE o == Enqueue([reader EXCEPT !.done = TRUE], <<[kind |-> "error"]>>)
  <2>1. Over(o, reader, ContentEnds', SentText', ArgsSent', next) /\ NoDelta(o)
    BY <1>1, <1>4, BeforeEnd, QuietType, CutOffSound
  <2>2. reader' = o
    BY <1>7 DEF ReadEOF
  <2> HIDE DEF o
  <2>3. Over(reader', reader, ContentEnds', SentText', ArgsSent', next) /\ NoDelta(reader')
    BY <2>1, <2>2
  <2> QED BY <1>1, <1>2, <1>3, <1>5, <1>8, <2>3, OverIInv
<1> QED BY <1>6, <1>7

LEMMA ReadChunkIInv == IInv /\ ReadChunk => IInv'
<1> SUFFICES ASSUME IInv, NEW c \in Chunk, Pump(c), reader' = Consume(reader, c, Len(sent) + 1),
                    UNCHANGED result
             PROVE  IInv'
  BY DEF ReadChunk
<1> DEFINE line == Len(sent) + 1
           r    == Begin(reader)
           used == Used(reader, c, line)
           next == <<Len(sent') + 1, 0>>
<1>1. ~reader.done /\ sent' = Append(sent, c) /\ c \in Line /\ c.kind = "chunk"
      /\ UNCHANGED <<includeUsage, delivered>> /\ result = "event"
  BY LineKinds DEF Pump, Line
<1>2. /\ Types /\ reader \in Reader /\ delivered \in Events /\ sent \in Seq(Line)
      /\ GoingOn(reader) /\ Told(reader, All(reader))
      /\ Finishing(reader) <=> Finished
      /\ reader.started => All(reader) # <<>>
      /\ ~reader.started => reader = NewReader /\ delivered = <<>>
  BY <1>1, BeforeEnd
<1>3. /\ SentText' = WithLine(SentText, c, line)
      /\ ArgsSent' = WithPieces(ArgsSent, c.tools, Len(c.tools), line)
      /\ ContentEnds' => ContentEnds /\ (Finished => ~Content(c))
      /\ Finished' <=> Finished \/ c.finish # "none"
  BY <1>1, <1>2, ReadAChunk
<1>4. Len(sent) \in Nat /\ line \in Nat /\ next = <<line + 1, 0>> /\ sent' \in Seq(Line)
  BY <1>1, <1>2, ReadMore
<1>5. ArgsSent \in [Tools -> SUBSET Tokens]
  <2> SUFFICES ASSUME NEW t \in Tools
               PROVE  SentArgs(t) \subseteq Tokens
    BY DEF ArgsSent
  <2>1. ASSUME NEW i \in DOMAIN sent, sent[i].kind = "chunk"
        PROVE  \A m \in DOMAIN sent[i].tools : m \in Nat
    <3>1. sent[i] \in Line
      BY <1>2
    <3>2. sent[i].tools \in Seq([tool : Tools, args : BOOLEAN])
      BY <2>1, <3>1, LineKinds
    <3> QED BY <3>2, LenProperties
  <2>2. \A i \in DOMAIN sent : i \in Nat
    BY <1>2
  <2> QED BY <2>1, <2>2 DEF SentArgs, Tokens
<1>6. /\ Reading(r, ContentEnds', SentText, ArgsSent, <<line, 0>>)
      /\ r = Begin(r) /\ r.pendingFinish = reader.pendingFinish
      /\ used = Used(r, c, line)
  <2>1. CASE reader.started
    <3>1. r = reader
      BY <2>1 DEF Begin
    <3>2. AllFit(All(reader), ContentEnds') /\ Blocks(reader, All(reader), ContentEnds')
      BY <1>2, <1>3, QuietType, Weaken DEF Told, Sound
    <3>3. Fragments(reader, All(reader), SentText, ArgsSent, <<line, 0>>)
      BY <1>2 DEF Told, Sound
    <3> QED BY <1>1, <1>2, <2>1, <3>1, <3>2, <3>3 DEF Reading, GoingOn
  <2>2. CASE ~reader.started
    <3>1. reader = NewReader /\ delivered = <<>>
      BY <1>2, <2>2
    <3>2. Reading(r, ContentEnds', {}, NoArgs, <<line, 0>>) /\ Kept(r, NewReader)
      BY <3>1, QuietType, BeginReads
    <3>3. SentText = {} /\ ArgsSent = NoArgs
      <4>1. All(reader) = <<>> /\ DOMAIN reader.toolBlocks = {} 
        BY <3>1 DEF All, NewReader
      <4>2. /\ Pieces(All(reader), 0) = SentText
            /\ \A t \in Tools \ DOMAIN reader.toolBlocks : ArgsSent[t] = {}
        BY <1>2 DEF Told, Sound, Fragments
      <4>3. Pieces(<<>>, 0) = {}
        BY DEF Pieces
      <4> QED BY <4>1, <4>2, <4>3 DEF ArgsSent, NoArgs
    <3>4. r.started
      BY <3>2 DEF Reading
    <3>5. Begin(r) = r
      BY <3>4 DEF Begin
    <3> HIDE DEF r
    <3>6. used = Used(r, c, line)
      BY <3>5 DEF Used, r
    <3> QED BY <3>1, <3>2, <3>3, <3>5, <3>6 DEF Kept
  <2> QED BY <2>1, <2>2
<1>7. ContentEnds' => ~Finishing(r) \/ ~Content(c)
  BY <1>2, <1>3, <1>6 DEF Finishing
<1> HIDE DEF r, used, line, next
<1>8. /\ Reading(used, ContentEnds', SentText', ArgsSent', next)
      /\ used.pendingFinish = IF c.finish # "none" THEN c.finish ELSE reader.pendingFinish
  BY <1>2, <1>3, <1>4, <1>5, <1>6, <1>7, QuietType, UsedReads
<1>9. Finishing(used) <=> Finished'
  BY <1>2, <1>3, <1>8 DEF Finishing
<1>10. /\ used \in Reader /\ GoingOn(used) /\ All(used) # <<>> /\ used.started /\ used.pendingUsage \in BOOLEAN
       /\ Sound(used, All(used), ContentEnds', SentText', ArgsSent', next)
  BY <1>8 DEF Reading, GoingOn, Sound, Reader
<1>11. reader' = IF Complete(used) THEN Finish(used) ELSE used
  BY DEF Consume, used, Used, line
<1>12. CASE Complete(used)
  <2>1. Over(reader', used, ContentEnds', SentText', ArgsSent', next)
    BY <1>2, <1>10, <1>11, <1>12, QuietType, FinishSound
  <2>2. includeUsage => used.pendingUsage
    BY <1>12 DEF Complete
  <2> QED BY <1>1, <1>9, <1>10, <2>1, <2>2, OverIInv DEF next
<1>13. CASE ~Complete(used)
  <2>1. reader' = used /\ All(reader)' = All(used)
    BY <1>1, <1>11, <1>13 DEF All
  <2>2. Types'
    BY <1>1, <1>2, <1>4, <1>10, <2>1 DEF Types
  <2>3. Told(reader, All(reader))'
    BY <1>10, <2>1 DEF Told, next
  <2>4. Progress(reader, All(reader))'
    BY <1>10, <2>1 DEF Progress, GoingOn
  <2>5. Closing(reader, All(reader))'
    <3>1. Finishing(reader)' <=> Finishing(used)
      BY <2>1 DEF Finishing
    <3>2. ~includeUsage => ~Finishing(used)
      BY <1>13 DEF Complete
    <3>3. \A i \in 1 .. Len(All(used)) : All(used)[i].kind # "delta"
      BY <1>10 DEF GoingOn, Going
    <3> QED BY <1>1, <1>9, <2>1, <3>1, <3>2, <3>3 DEF Closing
  <2>6. Returned'
    BY <1>1, <1>2, <1>10, <2>1 DEF Returned, IInv, GoingOn
  <2> QED BY <2>2, <2>3, <2>4, <2>5, <2>6 DEF IInv
<1> QED BY <1>12, <1>13

LEMMA NextIInv == IInv /\ [Next]_vars => IInv'
<1> SUFFICES ASSUME IInv, [Next]_vars
             PROVE  IInv'
  OBVIOUS
<1>1. CASE Deliver
  BY <1>1, DeliverIInv
<1>2. CASE DeliverStopWhenDone
  BY <1>2, DeliverStopIInv
<1>3. CASE ReadChunk
  BY <1>3, ReadChunkIInv
<1>4. CASE ReadIgnored
  <2> DEFINE line == [kind |-> "ignored"]
  <2>1. Pump(line) /\ UNCHANGED <<reader, result>> /\ result = "event"
    BY <1>4 DEF ReadIgnored, Pump
  <2>2. line \in Line /\ line.kind # "chunk"
    BY DEF Line
  <2> HIDE DEF line
  <2> QED BY <2>1, <2>2, SkippedIInv
<1>5. CASE ReadDone \/ ReadEOF
  BY <1>5, ReadEndIInv
<1>6. CASE ReadFails
  <2> DEFINE line == [kind |-> "unreadable"]
  <2>1. Pump(line) /\ UNCHANGED reader /\ result' = "error"
    BY <1>6 DEF ReadFails
  <2>2. line \in Line /\ line.kind # "chunk"
    BY DEF Line
  <2> HIDE DEF line
  <2> QED BY <2>1, <2>2, SkippedIInv
<1>7. CASE UNCHANGED vars
  <2>1. UNCHANGED <<includeUsage, reader, result, sent, delivered>>
    BY <1>7 DEF vars
  <2>2. /\ Types' /\ Returned' /\ All(reader)' = All(reader)
    BY <2>1 DEF IInv, Types, Returned, All
  <2>3. Told(reader, All(reader))'
    <3>1. Sound(reader, All(reader), ContentEnds', SentText', ArgsSent', <<Len(sent') + 1, 0>>)
      BY <2>1, SameTold DEF IInv
    <3> QED BY <2>1, <2>2, <3>1 DEF Told
  <2>4. Progress(reader, All(reader))' /\ Closing(reader, All(reader))'
    BY <2>1, <2>2 DEF IInv, Progress, Closing, Finishing, Finished
  <2> QED BY <2>2, <2>3, <2>4 DEF IInv
<1> QED BY <1>1, <1>2, <1>3, <1>4, <1>5, <1>6, <1>7 DEF Next, Ended

(* What is known of the reader, of what it returned and of what is on the  *)
(* wire holds in every state of any stream.                                *)
LEMMA SpecIInv == Spec => []IInv
  BY InitIInv, NextIInv, PTL DEF Spec

-----------------------------------------------------------------------------
(* What has been delivered.                                                *)

LEMMA Handed ==
    ASSUME Types
    PROVE  /\ delivered \in Events /\ Len(delivered) \in Nat /\ DOMAIN delivered = 1 .. Len(delivered)
           /\ Len(All(reader)) \in Nat /\ Len(delivered) <= Len(All(reader))
           /\ \A n \in 1 .. Len(All(reader)) : All(reader)[n] \in Event
           /\ \A n \in 1 .. Len(delivered) : n \in 1 .. Len(All(reader)) /\ All(reader)[n] = delivered[n]
<1> DEFINE q == reader.queue
           E == All(reader)
<1>1. delivered \in Seq(Event) /\ q \in Seq(Event)
  BY DEF Types, Events, Reader
<1>2. E = delivered \o q
  BY DEF All
<1>3. /\ Len(delivered) \in Nat /\ DOMAIN delivered = 1 .. Len(delivered) /\ Len(q) \in Nat
  BY <1>1, LenProperties
<1> HIDE DEF q, E
<1>4. /\ E \in Seq(Event) /\ Len(E) = Len(delivered) + Len(q)
      /\ \A i \in 1 .. (Len(delivered) + Len(q)) :
           E[i] = IF i <= Len(delivered) THEN delivered[i] ELSE q[i - Len(delivered)]
  BY <1>1, <1>2, ConcatProperties
<1>5. \A n \in 1 .. Len(E) : E[n] \in Event
  BY <1>4
<1>6. \A n \in 1 .. Len(delivered) : n \in 1 .. Len(E) /\ E[n] = delivered[n]
  BY <1>3, <1>4
<1> QED BY <1>1, <1>3, <1>4, <1>5, <1>6 DEF E, Events

LEMMA OnTheWire ==
    ASSUME NEW e \in Event
    PROVE  /\ \A c \in ToSet(Wire(e)) : c.kind = "finish" => e.kind = "delta"
           /\ \A x : x \in {c.token : c \in {w \in ToSet(Wire(e)) : w.kind = "text"}}
                       <=> e.kind = "blockDelta" /\ e.index = 0 /\ x = e.token
           /\ \A idx \in Nat \ {0} : \A x :
                x \in {c.token : c \in {w \in ToSet(Wire(e)) : w.kind = "args" /\ w.index = idx}}
                       <=> e.kind = "blockDelta" /\ e.index = idx /\ x = e.token
<1>1. CASE e.kind = "start"
  <2>1. Wire(e) = <<[kind |-> "role"]>>
    BY <1>1 DEF Wire
  <2> QED BY <1>1, <2>1 DEF ToSet
<1>2. CASE e.kind = "blockStart"
  <2>1. Wire(e) = IF e.index = 0 THEN <<>> ELSE <<[kind |-> "tool", index |-> e.index]>>
    BY <1>2 DEF Wire
  <2> QED BY <1>2, <2>1 DEF ToSet
<1>3. CASE e.kind = "blockDelta"
  <2>1. CASE e.index = 0
    <3>1. Wire(e) = <<[kind |-> "text", token |-> e.token]>>
      BY <1>3, <2>1 DEF Wire
    <3> QED BY <1>3, <2>1, <3>1 DEF ToSet
  <2>2. CASE e.index # 0
    <3>1. Wire(e) = <<[kind |-> "args", index |-> e.index, token |-> e.token]>>
      BY <1>3, <2>2 DEF Wire
    <3> QED BY <1>3, <2>2, <3>1 DEF ToSet
  <2> QED BY <2>1, <2>2
<1>4. CASE e.kind = "blockStop"
  <2>1. Wire(e) = <<>>
    BY <1>4 DEF Wire
  <2> QED BY <1>4, <2>1 DEF ToSet
<1>5. CASE e.kind = "delta"
  <2>1. \A c \in ToSet(Wire(e)) : c.kind \in {"panic", "finish", "usage"}
    <3>1. CASE e.reason = "error"
      BY <1>5, <3>1 DEF Wire, ToSet
    <3>2. CASE e.reason # "error" /\ e.usage
      BY <1>5, <3>2 DEF Wire, ToSet
    <3>3. CASE e.reason # "error" /\ ~e.usage
      BY <1>5, <3>3 DEF Wire, ToSet
    <3> QED BY <3>1, <3>2, <3>3
  <2> QED BY <1>5, <2>1
<1>6. CASE e.kind = "stop"
  <2>1. Wire(e) = <<[kind |-> "[DONE]"]>>
    BY <1>6 DEF Wire
  <2> QED BY <1>6, <2>1 DEF ToSet
<1>7. CASE e.kind = "error"
  <2>1. \A c \in ToSet(Wire(e)) : c.kind \in {"error", "[DONE]"}
    BY <1>7 DEF Wire, ToSet
  <2> QED BY <1>7, <2>1
<1> QED BY <1>1, <1>2, <1>3, <1>4, <1>5, <1>6, <1>7, EventKinds DEF Going

(* A finish reason reaches the client only if the upstream gave one.       *)
THEOREM NoFakedFinish == Spec => []NeverFakesFinish
<1>1. IInv => NeverFakesFinish
  <2> SUFFICES ASSUME IInv, NEW n \in DOMAIN delivered, NEW c \in OnWire(n), c.kind = "finish"
               PROVE  Finished
    BY DEF NeverFakesFinish, Finished
  <2>1. /\ n \in 1 .. Len(All(reader)) /\ All(reader)[n] = delivered[n] /\ delivered[n] \in Event
    BY Handed DEF IInv
  <2>2. delivered[n].kind = "delta"
    BY <2>1, OnTheWire DEF OnWire
  <2> QED BY <2>1, <2>2 DEF IInv, Closing
<1> QED BY <1>1, SpecIInv, PTL

(* The usage chunk is waited for when it was asked for, and only then.     *)
THEOREM UsageIsAwaited == Spec => UsageAwaitedIfAsked
<1>1. IInv => UsageAwaited
  <2> SUFFICES ASSUME IInv, includeUsage, NEW n \in DOMAIN delivered,
                      delivered[n].kind = "delta", ~delivered[n].usage
               PROVE  Last(sent).kind = "[DONE]"
    BY DEF UsageAwaited
  <2>1. n \in 1 .. Len(All(reader)) /\ All(reader)[n] = delivered[n]
    BY Handed DEF IInv
  <2> QED BY <2>1 DEF IInv, Closing
<1>2. IInv /\ [Next]_vars => [sent' # sent => includeUsage \/ ~Finishing(reader)]_vars
  <2> SUFFICES ASSUME IInv, Next, sent' # sent
               PROVE  includeUsage \/ ~Finishing(reader)
    BY DEF vars
  <2>1. ~reader.done
    BY DEF Next, Deliver, DeliverStopWhenDone, ReadChunk, ReadIgnored, ReadDone, ReadEOF, ReadFails,
           Ended, vars, Pump
  <2> QED BY <2>1 DEF IInv, Closing
<1> QED BY <1>1, <1>2, SpecIInv, PTL DEF Spec, UsageAwaitedIfAsked, NoWaitForUsage

(* The fragments that the client has got of a block are those of the       *)
(* events delivered, in their order, and all of them when the message is.  *)
Got(n, idx) == IF idx = 0 THEN TextAt(n) ELSE ArgsAt(n, idx)

LEMMA GotIs ==
    ASSUME Types, NEW n \in DOMAIN delivered, NEW idx \in Nat
    PROVE  \A x : x \in Got(n, idx) <=>
              /\ All(reader)[n].kind = "blockDelta"
              /\ All(reader)[n].index = idx
              /\ x = All(reader)[n].token
<1>1. delivered[n] \in Event /\ All(reader)[n] = delivered[n]
  BY Handed
<1>2. CASE idx = 0
  BY <1>1, <1>2, OnTheWire DEF Got, TextAt, OnWire
<1>3. CASE idx # 0
  BY <1>1, <1>3, OnTheWire DEF Got, ArgsAt, OnWire
<1> QED BY <1>2, <1>3

LEMMA GotFaithful ==
    ASSUME IInv, NEW idx \in Nat
    PROVE  Faithful([n \in DOMAIN delivered |-> Got(n, idx)], Pieces(All(reader), idx),
                    \E n \in DOMAIN delivered : delivered[n].kind = "delta")
<1> DEFINE E == All(reader)
           d == Len(delivered)
           got == [n \in DOMAIN delivered |-> Got(n, idx)]
           meant == Pieces(E, idx)
           whole == \E n \in DOMAIN delivered : delivered[n].kind = "delta"
<1>1. /\ d \in Nat /\ DOMAIN delivered = 1 .. d /\ Len(E) \in Nat /\ d <= Len(E)
      /\ \A n \in 1 .. Len(E) : E[n] \in Event
      /\ \A n \in 1 .. d : n \in 1 .. Len(E) /\ E[n] = delivered[n]
  BY Handed DEF IInv
<1>2. \A n \in 1 .. Len(E) : Fits(E, n, ContentEnds)
  BY DEF IInv, Told, Sound, AllFit
<1>3. DOMAIN got = 1 .. d
  BY <1>1
<1>4. \A n \in 1 .. d : \A x : x \in got[n] <=>
         E[n].kind = "blockDelta" /\ E[n].index = idx /\ x = E[n].token
  BY <1>1, GotIs DEF IInv
<1>5. \A x : x \in meant <=>
         \E n \in 1 .. Len(E) : E[n].kind = "blockDelta" /\ E[n].index = idx /\ x = E[n].token
  BY DEF Pieces
<1>6. \A n \in 1 .. Len(E) : E[n].kind = "blockDelta" =>
         /\ E[n].token \in Tokens
         /\ \A i \in 1 .. (n - 1) : /\ E[i].kind \in Going
                                    /\ E[i].kind = "blockDelta" => Precedes(E[i].token, E[n].token)
  BY <1>1, <1>2, EventKinds DEF Fits, Going, Tokens
<1>7. whole <=> \E n \in 1 .. d : E[n].kind = "delta"
  BY <1>1
<1> HIDE DEF E, d, got, meant, whole
<1>8. \A n \in DOMAIN got : got[n] \subseteq meant
  BY <1>1, <1>3, <1>4, <1>5
<1>9. ASSUME NEW n \in DOMAIN got, NEW m \in 1 .. (n - 1), NEW x \in got[m], NEW y \in got[n]
      PROVE  Precedes(x, y)
  <2>1. n \in 1 .. d /\ m \in 1 .. d /\ n \in 1 .. Len(E) /\ m \in 1 .. Len(E)
    BY <1>1, <1>3
  <2>2. E[n].kind = "blockDelta" /\ y = E[n].token /\ E[m].kind = "blockDelta" /\ x = E[m].token
    BY <1>4, <2>1
  <2> QED BY <1>6, <2>1, <2>2
<1>10. ASSUME NEW x \in meant,
              whole \/ (\E n \in DOMAIN got : \E y \in got[n] : Precedes(x, y))
       PROVE  \E n \in DOMAIN got : x \in got[n]
  <2>1. PICK i \in 1 .. Len(E) : E[i].kind = "blockDelta" /\ E[i].index = idx /\ x = E[i].token
    BY <1>5
  <2>2. CASE i \in 1 .. d
    BY <1>3, <1>4, <2>1, <2>2
  <2>3. CASE i \notin 1 .. d
    <3>1. \A n \in 1 .. d : n \in 1 .. (i - 1)
      BY <1>1, <2>3
    <3>2. ~whole
      BY <1>6, <1>7, <2>1, <3>1 DEF Going
    <3>3. PICK n \in 1 .. d : \E y \in got[n] : Precedes(x, y)
      BY <1>3, <1>10, <3>2
    <3>4. PICK y \in got[n] : Precedes(x, y)
      BY <3>3
    <3>5. E[n].kind = "blockDelta" /\ y = E[n].token /\ n \in 1 .. Len(E)
      BY <1>1, <1>4, <3>4
    <3>6. x \in Tokens /\ y \in Tokens /\ Precedes(y, x)
      BY <1>6, <2>1, <3>1, <3>5
    <3> QED BY <3>4, <3>6, Order
  <2> QED BY <2>2, <2>3
<1>11. Faithful(got, meant, whole)
  BY <1>8, <1>9, <1>10 DEF Faithful
<1> QED BY <1>11 DEF got, meant, whole, E

LEMMA ArrivesInv == IInv => ContentArrives
<1> SUFFICES ASSUME IInv
             PROVE  ContentArrives
  OBVIOUS
<1> DEFINE E == All(reader)
           D == DOMAIN reader.toolBlocks
<1>1. /\ Types /\ reader \in Reader
      /\ AllFit(E, ContentEnds) /\ Blocks(reader, E, ContentEnds)
      /\ Fragments(reader, E, SentText, ArgsSent, <<Len(sent) + 1, 0>>)
  BY DEF IInv, Told, Sound, Types
<1>2. IsFiniteSet(D) /\ Values(reader.toolBlocks) = 1 .. Cardinality(D) /\ Cardinality(D) \in Nat
  BY <1>1, FS_CardinalityType DEF Blocks
<1>3. TypeOK
  <2>1. \A i \in DOMAIN reader.blockOrder : reader.blockOrder[i] \in 0 .. Cardinality(D)
    <3>1. Values(reader.blockOrder) \subseteq {0} \cup (1 .. Cardinality(D))
      BY <1>1, <1>2 DEF Blocks
    <3> QED BY <1>2, <3>1 DEF Values
  <2> QED BY <1>1, <1>2, <2>1 DEF TypeOK, Types, Values
<1>4. BlocksWellFormed
  <2> SUFFICES ASSUME NEW n \in DOMAIN delivered
               PROVE  LET before == BlockAt(n - 1)
                          e      == delivered[n]
                      IN  /\ e.kind = "blockStart" => e.index \notin before.opened
                          /\ e.kind = "blockStop" => e.index \in before.open
                          /\ e.kind = "blockDelta" => e.index \in before.opened
                          /\ ContentEnds /\ e.kind = "blockDelta" => e.index \in before.open
                          /\ ContentEnds /\ e.kind = "delta" => before.open = {}
    BY DEF BlocksWellFormed
  <2>1. /\ n \in 1 .. Len(E) /\ delivered[n] = E[n]
        /\ \A i \in 1 .. (n - 1) : delivered[i] = E[i]
    BY <1>1, Handed
  <2>2. Fits(E, n, ContentEnds)
    BY <1>1, <2>1 DEF AllFit
  <2>3. /\ BlockAt(n - 1).opened = Starts(E, n - 1)
        /\ BlockAt(n - 1).open = Starts(E, n - 1) \ Stops(E, n - 1)
    <3> HIDE DEF E
    <3>1. {delivered[i].index : i \in {j \in 1 .. (n - 1) : delivered[j].kind = "blockStart"}} = Starts(E, n - 1)
      BY <2>1 DEF Starts
    <3>2. {delivered[i].index : i \in {j \in 1 .. (n - 1) : delivered[j].kind = "blockStop"}} = Stops(E, n - 1)
      BY <2>1 DEF Stops
    <3> QED BY <3>1, <3>2 DEF BlockAt
  <2> QED BY <2>1, <2>2, <2>3 DEF Fits
<1>5. ContentPreserved
  <2> DEFINE whole == \E n \in DOMAIN delivered : delivered[n].kind = "delta"
  <2>1. Faithful([n \in DOMAIN delivered |-> TextAt(n)], SentText, whole)
    <3>1. Faithful([n \in DOMAIN delivered |-> Got(n, 0)], Pieces(E, 0), whole)
      BY GotFaithful
    <3>2. [n \in DOMAIN delivered |-> Got(n, 0)] = [n \in DOMAIN delivered |-> TextAt(n)]
      BY DEF Got
    <3>3. Pieces(E, 0) = SentText
      BY <1>1 DEF Fragments
    <3> HIDE DEF whole, E
    <3> QED BY <3>1, <3>2, <3>3
  <2>2. ASSUME NEW t \in D
        PROVE  Faithful([n \in DOMAIN delivered |-> ArgsAt(n, reader.toolBlocks[t])], SentArgs(t), whole)
    <3> DEFINE idx == reader.toolBlocks[t]
    <3>1. idx \in Nat /\ idx # 0 /\ t \in Tools
      BY <1>1, <1>2 DEF Values, Reader
    <3> HIDE DEF idx
    <3>2. Faithful([n \in DOMAIN delivered |-> Got(n, idx)], Pieces(E, idx), whole)
      BY <3>1, GotFaithful
    <3>3. [n \in DOMAIN delivered |-> Got(n, idx)] = [n \in DOMAIN delivered |-> ArgsAt(n, idx)]
      BY <3>1 DEF Got
    <3>4. Pieces(E, idx) = SentArgs(t)
      BY <1>1, <3>1 DEF Fragments, ArgsSent, idx
    <3> HIDE DEF whole, E
    <3>5. Faithful([n \in DOMAIN delivered |-> ArgsAt(n, idx)], SentArgs(t), whole)
      BY <3>2, <3>3, <3>4
    <3> QED BY <3>5 DEF idx
  <2>3. \A t \in Tools \ D : SentArgs(t) = {}
    BY <1>1 DEF Fragments, ArgsSent
  <2> HIDE DEF whole
  <2> QED BY <2>1, <2>2, <2>3 DEF ContentPreserved, whole
<1> QED BY <1>3, <1>4, <1>5 DEF ContentArrives

(* The content of the upstream arrives, block by block, whole and in       *)
(* order, whatever the interleaving of tool calls.                         *)
THEOREM ContentDoesArrive == Spec => []ContentArrives
  BY ArrivesInv, SpecIInv, PTL

-----------------------------------------------------------------------------
(* The contract of the reader.                                             *)

LEMMA InitContract == Init => Contract!StreamInit
  BY DEF Init, Contract!StreamInit, Stage

(* One more event is delivered.                                            *)
LEMMA MoreContract ==
    ASSUME Types, NEW e \in Event, result = "event", delivered' = Append(delivered, e), result' # "error",
           NEW E \in Events, Len(delivered) < Len(E), \A i \in 1 .. Len(delivered) : E[i] = delivered[i],
           E[Len(delivered) + 1] = e, NEW quiet \in BOOLEAN, AllFit(E, quiet),
           \A i \in 1 .. Len(delivered) : delivered[i].kind # "stop"
    PROVE  Contract!StreamNext
<1> DEFINE k == Len(delivered)
           to == Class(e)
<1>1. delivered \in Seq(Event) /\ k \in Nat /\ Len(E) \in Nat
  BY DEF Types, Events
<1>2. /\ delivered' \in Seq(Event) /\ delivered' # <<>> /\ Len(delivered') = k + 1 /\ delivered'[k + 1] = e
  BY <1>1
<1>3. Last(delivered') = e
  BY <1>2 DEF Last
<1>4. Fits(E, k + 1, quiet) /\ E[k + 1] = e /\ (k + 1) - 1 = k
  BY <1>1 DEF AllFit
<1>5. delivered # <<>> <=> k > 0
  BY <1>1
<1>6. k > 0 => Last(delivered) = E[k] /\ k \in 1 .. k
  BY <1>1 DEF Last
<1>7. Stage' = CASE e.kind = "stop"  -> "stopped"
                 [] e.kind = "error" -> "errored"
                 [] e.kind = "delta" -> "closing"
                 [] OTHER -> "open"
  BY <1>2, <1>3 DEF Stage
<1>8. (IF result = "error" \/ delivered = <<>> THEN "nil" ELSE Class(Last(delivered)))' = Class(e)
  BY <1>2, <1>3
<1>9. k = 0 => Stage = "fresh"
  BY <1>5 DEF Stage
<1>10. k > 0 /\ E[k].kind \in Going => Stage = "open"
  BY <1>5, <1>6 DEF Stage, Going
<1>11. k > 0 /\ E[k].kind \in {"delta", "error"} => Stage \in {"closing", "errored"}
  BY <1>5, <1>6 DEF Stage
<1>12. /\ e.kind = "start" => k = 0
       /\ e.kind \in {"blockStart", "blockDelta", "blockStop", "delta"} => k > 0
       /\ e.kind \in Going \cup {"delta", "error"} => \A i \in 1 .. k : E[i].kind \in Going
       /\ e.kind = "stop" => k > 0 /\ E[k].kind \in {"delta", "error"}
  BY <1>1, <1>4 DEF Fits
<1> HIDE DEF k
<1>13. CASE e.kind = "start"
  <2>1. Contract!Start
    BY <1>7, <1>8, <1>9, <1>12, <1>13 DEF Contract!Start, Contract!Return, Class
  <2> QED BY <2>1 DEF Contract!StreamNext, Contract!Continue
<1>14. CASE e.kind \in {"blockStart", "blockDelta", "blockStop"}
  <2>1. Stage = "open"
    BY <1>6, <1>10, <1>12, <1>14 DEF Going
  <2>2. Contract!Block
    BY <1>7, <1>8, <1>14, <2>1 DEF Contract!Block, Contract!Return, Class
  <2> QED BY <2>2 DEF Contract!StreamNext, Contract!Continue
<1>15. CASE e.kind = "delta"
  <2>1. Stage = "open"
    BY <1>6, <1>10, <1>12, <1>15 DEF Going
  <2>2. Contract!Delta
    BY <1>7, <1>8, <1>15, <2>1 DEF Contract!Delta, Contract!Return, Class
  <2> QED BY <2>2 DEF Contract!StreamNext, Contract!Continue
<1>16. CASE e.kind = "error"
  <2>1. Stage \in {"fresh", "open"}
    BY <1>1, <1>6, <1>9, <1>10, <1>12, <1>16 DEF Going, k
  <2>2. Contract!Error
    BY <1>7, <1>8, <1>16, <2>1 DEF Contract!Error, Contract!Return, Class
  <2> QED BY <2>2 DEF Contract!StreamNext, Contract!Continue
<1>17. CASE e.kind = "stop"
  <2>1. Stage \in {"closing", "errored"}
    BY <1>11, <1>12, <1>17
  <2>2. Contract!Stop
    BY <1>7, <1>8, <1>17, <2>1 DEF Contract!Stop, Contract!Return, Class
  <2> QED BY <2>2 DEF Contract!StreamNext
<1> QED BY <1>13, <1>14, <1>15, <1>16, <1>17, EventKinds DEF Going

LEMMA NextContract ==
    ASSUME IInv, [Next]_vars
    PROVE  [Contract!StreamNext]_(Contract!streamVars)
<1> DEFINE E == All(reader)
<1>1. /\ Types /\ AllFit(E, ContentEnds) /\ E \in Events
      /\ Len(delivered) \in Nat /\ Len(delivered) <= Len(E) /\ Len(E) \in Nat
      /\ \A i \in 1 .. Len(delivered) : E[i] = delivered[i]
      /\ result = "event" => \A i \in 1 .. Len(delivered) : delivered[i].kind # "stop"
  BY Handed, AllEvents DEF IInv, Told, Sound, Types, Returned
<1>2. CASE Deliver
  <2> DEFINE h == Head(reader.queue)
  <2>1. /\ result = "event" /\ delivered' = Append(delivered, h) /\ result' # "error"
    BY <1>2 DEF Deliver
  <2>2. /\ h \in Event /\ Len(delivered') = Len(delivered) + 1 /\ delivered'[Len(delivered')] = h
        /\ All(reader)' = E /\ delivered' \in Events
    BY <1>1, <1>2, HandOut
  <2>3. Len(delivered) < Len(E) /\ E[Len(delivered) + 1] = h
    <3>1. E = delivered' \o reader'.queue /\ delivered' \in Seq(Event) /\ reader'.queue \in Seq(Event)
      <4>1. reader' \in Reader
        BY <1>1, <1>2, HandOut
      <4> QED BY <2>2, <4>1 DEF All, Reader, Events
    <3>2. /\ Len(E) = Len(delivered') + Len(reader'.queue) /\ Len(reader'.queue) \in Nat
          /\ \A i \in 1 .. (Len(delivered') + Len(reader'.queue)) :
               E[i] = IF i <= Len(delivered') THEN delivered'[i] ELSE reader'.queue[i - Len(delivered')]
      <4> HIDE DEF E
      <4> QED BY <3>1, ConcatProperties, LenProperties
    <3> DEFINE L == Len(delivered')
               M == Len(reader'.queue)
    <3>3. /\ L = Len(delivered) + 1 /\ Len(delivered) \in Nat /\ M \in Nat /\ Len(E) = L + M
          /\ delivered'[L] = h
          /\ \A i \in 1 .. (L + M) :
               E[i] = IF i <= L THEN delivered'[i] ELSE reader'.queue[i - L]
      BY <1>1, <2>2, <3>2
    <3> HIDE DEF E, h, L, M
    <3>4. L \in 1 .. (L + M) /\ L <= L /\ Len(delivered) < Len(E)
      BY <3>3
    <3>5. E[L] = h
      BY <3>3, <3>4
    <3> QED BY <3>3, <3>4, <3>5
  <2> HIDE DEF h, E
  <2> QED BY <1>1, <2>1, <2>2, <2>3, QuietType, MoreContract
<1>3. CASE DeliverStopWhenDone
  <2> DEFINE s == [kind |-> "stop"]
             F == Then(delivered, s)
  <2>1. /\ result = "event" /\ delivered' = Append(delivered, s) /\ result' # "error"
        /\ reader.queue = <<>> /\ reader.done
    BY <1>3 DEF DeliverStopWhenDone
  <2>2. s \in Event /\ s.kind = "stop" /\ delivered \in Seq(Event)
    BY <1>1 DEF Event, Types, Events
  <2>3. E = delivered
    BY <2>1, <2>2, ConcatEmptySeq DEF All
  <2> HIDE DEF s
  <2>4. MayEnd(reader, delivered, s) /\ SameBlocks(reader, reader)
    <3>1. delivered # <<>> /\ Len(delivered) \in 1 .. Len(delivered)
      BY <1>1, <2>1, <2>2, <2>3 DEF IInv, Progress
    <3>2. delivered[Len(delivered)].kind \in {"delta", "error"}
      BY <1>1, <2>1, <2>3, <3>1 DEF IInv, Progress
    <3> QED BY <2>2, <3>1, <3>2 DEF MayEnd, SameBlocks
  <2>5. Sound(reader, delivered, ContentEnds, SentText, ArgsSent, <<Len(sent) + 1, 0>>)
    BY <2>3 DEF IInv, Told
  <2>6. Grown(F, delivered, s) /\ AllFit(F, ContentEnds)
    BY <2>2, <2>4, <2>5, QuietType, EndSound DEF Events, Sound
  <2> HIDE DEF F
  <2>7. F \in Events /\ Len(F) = Len(delivered) + 1 /\ F[Len(F)] = s
        /\ \A i \in 1 .. Len(delivered) : F[i] = delivered[i]
    BY <2>6 DEF Grown
  <2> QED BY <1>1, <2>1, <2>2, <2>6, <2>7, QuietType, MoreContract
<1>4. CASE ReadFails
  <2>1. result = "event" /\ result' = "error" /\ UNCHANGED delivered /\ ~reader.done
    BY <1>4 DEF ReadFails, Pump
  <2>2. Stage' = "failed"
    BY <2>1 DEF Stage
  <2>3. Stage \in {"fresh", "open"}
    <3>1. CASE delivered = <<>>
      BY <2>1, <3>1 DEF Stage
    <3>2. CASE delivered # <<>>
      <4>1. Len(delivered) \in 1 .. Len(delivered)
        BY <1>1, <3>2 DEF Types, Events
      <4>2. delivered[Len(delivered)].kind \in Going
        BY <1>1, <2>1, <4>1 DEF IInv, Progress
      <4> QED BY <2>1, <3>2, <4>2 DEF Stage, Last, Going
    <3> QED BY <3>1, <3>2
  <2>4. Contract!Fail
    BY <2>1, <2>2, <2>3 DEF Contract!Fail, Contract!Return
  <2> QED BY <2>4 DEF Contract!StreamNext
<1>5. CASE ReadChunk \/ ReadIgnored \/ ReadDone \/ ReadEOF
  <2>1. UNCHANGED <<delivered, result>>
    BY <1>5 DEF ReadChunk, ReadIgnored, ReadDone, ReadEOF, Pump
  <2> QED BY <2>1 DEF Contract!streamVars, Stage
<1>6. CASE UNCHANGED vars
  BY <1>6 DEF vars, Contract!streamVars, Stage
<1> QED BY <1>2, <1>3, <1>4, <1>5, <1>6 DEF Next, Ended

(* The reader implements EventStream: one start, one end, blocks between,  *)
(* and no call answered after the end.                                     *)
THEOREM ReaderKeepsContract == Spec => StreamContract
  BY InitContract, NextContract, SpecIInv, PTL DEF Spec, StreamContract, Contract!StreamSpec

=============================================================================
