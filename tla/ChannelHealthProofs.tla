-------------------------- MODULE ChannelHealthProofs --------------------------
(***************************************************************************)
(* The backoff of the health checker, for any number of channels and any   *)
(* bound on the failures that are counted.                                 *)
(*                                                                         *)
(* The argument: as long as nobody else has recorded an outcome and none   *)
(* was lost, the row of a listed channel has the failures it was listed    *)
(* with; after the probe, those that the checker computes from them        *)
(* (ListedInv).                                                            *)
(***************************************************************************)
EXTENDS ChannelHealth, FiniteSetTheorems, SequenceTheorems, TLAPS

(* The intervals that the table may hold.                                  *)
Intervals == (Floor .. Ceil) \cup {nextProbeInterval(n) : n \in 0 .. MaxFailures}

ChannelRow == [status   : {"active", "disabled"},
               failures : 0 .. MaxFailures,
               limited  : 0 .. RampWindow,
               interval : Intervals,
               age      : 0 .. MaxAge]

TypeInv ==
    /\ channels \in [Channels -> ChannelRow]
    /\ due \in Seq(DueChannel)
    /\ pc \in {"down", "select", "load", "probe", "touch"}
    /\ pc \in {"down", "select"} <=> due = <<>>
    /\ ok \in BOOLEAN
    /\ \A i, j \in DOMAIN due : due[i].id = due[j].id => i = j

(* The failures of an undisturbed row are known: as listed, or, when its   *)
(* probe has been recorded, as the checker reckons.                        *)
Known(i) ==
    IF pc = "touch" /\ i = 1 THEN Failures(due[i]) ELSE due[i].failures

ListedInv ==
    \A i \in DOMAIN due :
        due[i].id \notin disturbed => channels[due[i].id].failures = Known(i)

IInv == TypeInv /\ ListedInv

-----------------------------------------------------------------------------
(* What the statements do to a row.                                        *)

LEMMA Bounds ==
    /\ MaxFailures \in Nat /\ MaxAge \in Nat /\ RampWindow \in Nat
    /\ \A n \in 0 .. MaxFailures : UpTo(n + 1, MaxFailures) \in 0 .. MaxFailures
    /\ \A n \in 0 .. MaxAge : UpTo(n + 1, MaxAge) \in 0 .. MaxAge /\ UpTo(n + 1, MaxAge) >= n
  BY HealthAssumption, RampAssumption DEF UpTo, MaxAge

LEMMA Rows ==
    ASSUME NEW row \in ChannelRow
    PROVE  /\ AfterSuccess(row) \in ChannelRow
           /\ AfterSuccess(row).failures = 0 /\ AfterSuccess(row).age = row.age
           /\ \A limited \in BOOLEAN :
                /\ AfterFailure(row, limited) \in ChannelRow
                /\ AfterFailure(row, limited).failures = UpTo(row.failures + 1, MaxFailures)
                /\ AfterFailure(row, limited).age = row.age
           /\ \A next \in Intervals :
                /\ AfterTouch(row, next) \in ChannelRow
                /\ AfterTouch(row, next).failures = row.failures
                /\ AfterTouch(row, next).interval = next
<1>1. AfterSuccess(row) \in ChannelRow
      /\ AfterSuccess(row).failures = 0 /\ AfterSuccess(row).age = row.age
  BY Bounds DEF AfterSuccess, ChannelRow
<1>2. ASSUME NEW limited \in BOOLEAN
      PROVE  /\ AfterFailure(row, limited) \in ChannelRow
             /\ AfterFailure(row, limited).failures = UpTo(row.failures + 1, MaxFailures)
             /\ AfterFailure(row, limited).age = row.age
  <2>1. row.failures \in 0 .. MaxFailures /\ row.limited \in 0 .. RampWindow
    BY DEF ChannelRow
  <2>2. PICK n \in 0 .. MaxFailures : n = UpTo(row.failures + 1, MaxFailures)
    BY <2>1, Bounds
  <2>3. PICK l \in 0 .. RampWindow : l = IF limited THEN RampWindow ELSE row.limited
    BY <2>1, Bounds
  <2>4. AfterFailure(row, limited) = [row EXCEPT !.failures = n, !.limited = l]
    BY <2>2, <2>3 DEF AfterFailure, ChannelRow
  <2> QED BY <2>2, <2>4 DEF ChannelRow
<1>3. ASSUME NEW next \in Intervals
      PROVE  /\ AfterTouch(row, next) \in ChannelRow
             /\ AfterTouch(row, next).failures = row.failures
             /\ AfterTouch(row, next).interval = next
  <2>1. PICK age \in 0 .. MaxAge : age = 0
    BY Bounds
  <2>2. AfterTouch(row, next) = [row EXCEPT !.age = age, !.interval = next]
    BY <2>1 DEF AfterTouch
  <2> QED BY <2>2 DEF ChannelRow
<1> QED BY <1>1, <1>2, <1>3

(* The failures that the checker reckons with are a count.                 *)
LEMMA Counted ==
    ASSUME TypeInv, NEW i \in DOMAIN due
    PROVE  /\ due[i] \in DueChannel /\ due[i].id \in Channels /\ due[i].failures \in 0 .. MaxFailures
           /\ Failures(due[i]) \in 0 .. MaxFailures
           /\ nextProbeInterval(Failures(due[i])) \in Intervals
<1>1. due[i] \in DueChannel
  BY DEF TypeInv
<1>2. due[i].id \in Channels /\ due[i].failures \in 0 .. MaxFailures
  BY <1>1 DEF DueChannel
<1>3. Failures(due[i]) \in 0 .. MaxFailures
  BY <1>2, Bounds DEF Failures
<1> QED BY <1>1, <1>2, <1>3 DEF Intervals

-----------------------------------------------------------------------------
(* Steps of requests, of operators and of the clock.                       *)

(* One row is written, or none, and the sweep goes on as it was.           *)
LEMMA RowWritten ==
    ASSUME IInv, NEW c \in Channels, NEW row \in ChannelRow,
           channels' = [channels EXCEPT ![c] = row], UNCHANGED <<due, pc, ok>>,
           \/ UNCHANGED disturbed /\ row.failures = channels[c].failures
           \/ disturbed' = disturbed \cup ({c} \cap Listed)
    PROVE  IInv'
<1>1. TypeInv'
  BY DEF IInv, TypeInv
<1>2. ASSUME NEW i \in DOMAIN due, due[i].id \notin disturbed'
      PROVE  channels'[due[i].id].failures = Known(i)'
  <2>1. due[i].id \in Channels /\ due[i].id \in Listed
    BY Counted DEF IInv, Listed
  <2>2. due[i].id \notin disturbed /\ channels[due[i].id].failures = Known(i)
    BY <1>2 DEF IInv, ListedInv
  <2>3. Known(i)' = Known(i)
    BY DEF Known, Failures
  <2> QED BY <1>2, <2>1, <2>2, <2>3 DEF IInv, TypeInv
<1> QED BY <1>1, <1>2 DEF IInv, ListedInv

LEMMA DataPlaneInv ==
    ASSUME IInv, NEW c \in Channels, RecordSuccess(c) \/ RecordFailure(c)
    PROVE  IInv'
<1>1. channels[c] \in ChannelRow
  BY DEF IInv, TypeInv
<1>2. CASE RecordSuccess(c)
  BY <1>1, <1>2, Rows, RowWritten DEF RecordSuccess
<1>3. CASE RecordFailure(c)
  <2>1. PICK limited \in BOOLEAN : channels' = [channels EXCEPT ![c] = AfterFailure(channels[c], limited)]
    BY <1>3 DEF RecordFailure
  <2>2. AfterFailure(channels[c], limited) \in ChannelRow
    BY <1>1, Rows
  <2> QED BY <1>3, <2>1, <2>2, RowWritten DEF RecordFailure
<1> QED BY <1>2, <1>3

LEMMA SetStatusInv ==
    ASSUME IInv, NEW c \in Channels, SetStatus(c)
    PROVE  IInv'
<1>1. PICK s \in {"active", "disabled"} : channels' = [channels EXCEPT ![c].status = s]
  BY DEF SetStatus
<1>2. PICK row : row = [channels[c] EXCEPT !.status = s]
  OBVIOUS
<1>3. channels[c] \in ChannelRow
  BY DEF IInv, TypeInv
<1>4. row \in ChannelRow /\ row.failures = channels[c].failures
  BY <1>2, <1>3 DEF ChannelRow
<1>5. channels' = [channels EXCEPT ![c] = row]
  BY <1>1, <1>2 DEF IInv, TypeInv
<1> QED BY <1>4, <1>5, RowWritten DEF SetStatus

LEMMA UpsertChannelModelInv ==
    ASSUME IInv, NEW c \in Channels, UpsertChannelModel(c)
    PROVE  IInv'
<1>1. UNCHANGED <<channels, due, pc, ok, disturbed>>
  BY DEF UpsertChannelModel
<1> QED BY <1>1 DEF IInv, TypeInv, ListedInv, Known, Failures

LEMMA TickInv ==
    ASSUME IInv, Tick
    PROVE  IInv' /\ \A c \in Channels : channels'[c].age >= channels[c].age
<1>1. ASSUME NEW c \in Channels
      PROVE  /\ channels'[c] \in ChannelRow /\ channels'[c].failures = channels[c].failures
             /\ channels'[c].age >= channels[c].age
  <2>1. PICK row : row = channels[c] /\ row \in ChannelRow
    BY DEF IInv, TypeInv
  <2>2. PICK age, limited : /\ age = UpTo(row.age + 1, MaxAge)
                            /\ limited = IF row.limited = 0 THEN 0 ELSE row.limited - 1
    OBVIOUS
  <2>3. /\ row.age \in 0 .. MaxAge /\ row.limited \in 0 .. RampWindow
        /\ age \in 0 .. MaxAge /\ age >= row.age /\ limited \in 0 .. RampWindow
    BY <2>1, <2>2, Bounds DEF ChannelRow
  <2>4. channels'[c] = [row EXCEPT !.age = age, !.limited = limited]
    BY <2>1, <2>2 DEF Tick, IInv, TypeInv, ChannelRow
  <2> QED BY <2>1, <2>3, <2>4 DEF ChannelRow
<1>2. channels' \in [Channels -> ChannelRow]
  BY <1>1 DEF Tick
<1>3. UNCHANGED <<due, pc, ok, disturbed>>
  BY DEF Tick
<1>4. TypeInv'
  BY <1>2, <1>3 DEF IInv, TypeInv
<1>5. \A i \in DOMAIN due : due[i].id \in Channels
  BY Counted DEF IInv
<1>6. ListedInv'
  BY <1>1, <1>3, <1>5 DEF IInv, ListedInv, Known, Failures
<1> QED BY <1>1, <1>4, <1>6 DEF IInv

-----------------------------------------------------------------------------
(* Steps of the checker.                                                   *)

LEMMA ListDueInv ==
    ASSUME IInv, ListDue
    PROVE  IInv'
<1> DEFINE S == {c \in Channels : IsDue(channels[c])}
<1>1. PICK s \in SetToSeqs(S) :
           due' = [i \in DOMAIN s |-> [id |-> s[i], failures |-> channels[s[i]].failures]]
  BY DEF ListDue
<1>2. IsFiniteSet(S) /\ Cardinality(S) \in Nat
  BY HealthAssumption, FS_Subset, FS_CardinalityType
<1>3. PICK n \in Nat : n = Cardinality(S)
  BY <1>2
<1>4. s \in [1 .. n -> Channels] /\ \A i, j \in 1 .. n : i # j => s[i] # s[j]
  BY <1>1, <1>3 DEF SetToSeqs
<1>5. \A i \in 1 .. n : [id |-> s[i], failures |-> channels[s[i]].failures] \in DueChannel
  BY <1>4 DEF IInv, TypeInv, ChannelRow, DueChannel
<1>6. /\ due' \in [1 .. n -> DueChannel]
      /\ \A i \in 1 .. n : due'[i].id = s[i] /\ due'[i].failures = channels[s[i]].failures
  BY <1>1, <1>4, <1>5
<1>7. due' \in Seq(DueChannel) /\ DOMAIN due' = 1 .. n
  BY <1>6
<1>8. due' # <<>> /\ pc' = "load" /\ UNCHANGED <<channels, ok>>
  BY DEF ListDue
<1>9. TypeInv'
  BY <1>4, <1>6, <1>7, <1>8 DEF IInv, TypeInv
<1>10. ListedInv'
  BY <1>6, <1>7, <1>8 DEF ListedInv, Known
<1> QED BY <1>9, <1>10 DEF IInv

(* The rest of a sweep, after the row of its first channel was written.    *)
LEMMA NextChannelInv ==
    ASSUME IInv, due # <<>>, NextChannel, NEW row \in ChannelRow,
           channels' = [channels EXCEPT ![Head(due).id] = row]
    PROVE  IInv'
<1>1. PICK n \in Nat \ {0} : /\ n = Len(due) /\ DOMAIN due = 1 .. n
                             /\ due \in [1 .. n -> DueChannel]
  BY DEF IInv, TypeInv
<1>2. /\ due' \in Seq(DueChannel) /\ Len(due') = n - 1 /\ DOMAIN due' = 1 .. (n - 1)
      /\ \A i \in 1 .. (n - 1) : due'[i] = due[i + 1]
      /\ Head(due) = due[1]
  BY <1>1 DEF NextChannel, IInv, TypeInv
<1>3. /\ pc' = (IF n = 1 THEN "select" ELSE "load") /\ ok' = FALSE
      /\ disturbed' = disturbed \ {due[1].id}
  BY <1>1, <1>2 DEF NextChannel
<1>4. due' = <<>> <=> n = 1
  BY <1>1, <1>2
<1>5. \A i \in 1 .. (n - 1) : i + 1 \in 1 .. n
  BY <1>1
<1>6. \A i, j \in 1 .. (n - 1) : due'[i].id = due'[j].id => i = j
  <2> SUFFICES ASSUME NEW i \in 1 .. (n - 1), NEW j \in 1 .. (n - 1), due'[i].id = due'[j].id
               PROVE  i = j
    OBVIOUS
  <2>1. due[i + 1].id = due[j + 1].id
    BY <1>2
  <2>2. i + 1 = j + 1
    BY <1>1, <1>5, <2>1 DEF IInv, TypeInv
  <2> QED BY <1>1, <2>2
<1>7. channels' \in [Channels -> ChannelRow]
  BY DEF IInv, TypeInv
<1>8. TypeInv'
  BY <1>2, <1>3, <1>4, <1>6, <1>7 DEF TypeInv
<1>9. ASSUME NEW i \in 1 .. (n - 1), due'[i].id \notin disturbed'
      PROVE  channels'[due'[i].id].failures = due'[i].failures
  <2>1. PICK k \in 2 .. n : k = i + 1 /\ k \in DOMAIN due /\ due'[i] = due[k]
    BY <1>1, <1>2, <1>5
  <2>2. due[k].id # due[1].id
    BY <1>1, <2>1 DEF IInv, TypeInv
  <2>3. due[k].id \in Channels /\ due[k].id \notin disturbed
    BY <1>3, <1>9, <2>1, <2>2, Counted DEF IInv
  <2>4. channels[due[k].id].failures = due[k].failures
    BY <2>1, <2>3 DEF IInv, ListedInv, Known
  <2>5. channels'[due[k].id] = channels[due[k].id]
    BY <1>2, <2>2, <2>3 DEF IInv, TypeInv
  <2> QED BY <2>1, <2>4, <2>5
<1>10. ListedInv'
  <2>1. pc' # "touch"
    BY <1>3
  <2> QED BY <1>2, <1>9, <2>1 DEF ListedInv, Known
<1> QED BY <1>8, <1>10 DEF IInv

LEMMA AtHead ==
    ASSUME IInv, due # <<>>
    PROVE  /\ 1 \in DOMAIN due /\ Head(due) = due[1] /\ due[1].id \in Channels
           /\ channels[due[1].id] \in ChannelRow
           /\ channels = [channels EXCEPT ![Head(due).id] = channels[Head(due).id]]
<1>1. 1 \in DOMAIN due /\ Head(due) = due[1]
  BY DEF IInv, TypeInv
<1> QED BY <1>1, Counted DEF IInv, TypeInv

LEMMA AutoProbeInv ==
    ASSUME IInv, AutoProbe
    PROVE  IInv'
<1>1. /\ pc = "probe" /\ pc' = "touch" /\ UNCHANGED due /\ due # <<>>
  BY DEF AutoProbe, IInv, TypeInv
<1>2. PICK c \in Channels : c = due[1].id /\ c = Head(due).id /\ channels[c] \in ChannelRow
  BY <1>1, AtHead
<1>3. ok' \in BOOLEAN
  BY DEF AutoProbe, OverallOK
<1>4. /\ 1 \in DOMAIN due /\ due[1].failures \in 0 .. MaxFailures
      /\ c \notin disturbed => channels[c].failures = due[1].failures
      /\ \A i \in DOMAIN due : i # 1 => due[i].id # c /\ due[i].id \in Channels
      /\ \A i \in DOMAIN due : i # 1 /\ due[i].id \notin disturbed =>
            channels[due[i].id].failures = due[i].failures
  BY <1>1, <1>2, AtHead, Counted DEF IInv, TypeInv, ListedInv, Known
<1>5. CASE channels' = channels /\ disturbed' = disturbed \cup {c}
  <2>1. TypeInv'
    BY <1>1, <1>3, <1>5 DEF IInv, TypeInv
  <2>2. ListedInv'
    BY <1>1, <1>2, <1>4, <1>5 DEF ListedInv, Known
  <2> QED BY <2>1, <2>2 DEF IInv
<1>6. CASE /\ channels' = [channels EXCEPT ![c] =
                             IF ok' THEN AfterSuccess(@) ELSE AfterFailure(@, FALSE)]
           /\ UNCHANGED disturbed
  <2>1. PICK row \in ChannelRow :
             /\ channels' = [channels EXCEPT ![c] = row]
             /\ row.failures = IF ok' THEN 0 ELSE UpTo(channels[c].failures + 1, MaxFailures)
    BY <1>2, <1>3, <1>6, Rows
  <2>2. TypeInv'
    BY <1>1, <1>3, <2>1 DEF IInv, TypeInv
  <2>3. \A i \in DOMAIN due : channels'[due[i].id] = IF i = 1 THEN row ELSE channels[due[i].id]
    BY <1>2, <1>4, <2>1 DEF IInv, TypeInv
  <2>4. c \notin disturbed => row.failures = Failures(due[1])'
    BY <1>1, <1>4, <2>1 DEF Failures
  <2>5. ListedInv'
    <3> SUFFICES ASSUME NEW i \in DOMAIN due, due[i].id \notin disturbed
                 PROVE  channels'[due[i].id].failures = Known(i)'
      BY <1>1, <1>6 DEF ListedInv
    <3>1. CASE i = 1
      BY <1>1, <1>2, <2>3, <2>4, <3>1 DEF Known
    <3>2. CASE i # 1
      BY <1>1, <1>4, <2>3, <3>2 DEF Known
    <3> QED BY <3>1, <3>2
  <2> QED BY <2>2, <2>5 DEF IInv
<1> QED BY <1>2, <1>5, <1>6 DEF AutoProbe

LEMMA CheckInv ==
    ASSUME IInv, Check
    PROVE  IInv'
<1>1. due # <<>>
  BY DEF Check, SkipChannel, LoadChannel, AutoProbe, TouchProbe, TouchProbeFails, IInv, TypeInv
<1>2. CASE SkipChannel \/ TouchProbeFails
  BY <1>1, <1>2, AtHead, NextChannelInv DEF SkipChannel, TouchProbeFails
<1>3. CASE LoadChannel
  <2>1. pc = "load" /\ pc' = "probe" /\ UNCHANGED <<channels, due, ok, disturbed>>
    BY <1>3 DEF LoadChannel
  <2> QED BY <1>1, <2>1 DEF IInv, TypeInv, ListedInv, Known
<1>4. CASE TouchProbe
  <2>1. PICK next \in Intervals : next = nextProbeInterval(Failures(Head(due)))
    BY <1>1, AtHead, Counted DEF IInv
  <2>2. PICK row \in ChannelRow : row = AfterTouch(channels[Head(due).id], next)
    BY <1>1, AtHead, Rows
  <2>3. channels' = [channels EXCEPT ![Head(due).id] = row]
    BY <1>4, <2>1, <2>2 DEF TouchProbe
  <2> QED BY <1>1, <1>4, <2>3, NextChannelInv DEF TouchProbe
<1> QED BY <1>2, <1>3, <1>4, AutoProbeInv DEF Check

LEMMA NothingListed == <<>> \in Seq(DueChannel) /\ DOMAIN <<>> = {}
  OBVIOUS

LEMMA ExitInv ==
    ASSUME IInv, Exit \/ Start
    PROVE  IInv'
<1>1. due' = <<>> /\ pc' \in {"down", "select"} /\ ok' \in BOOLEAN /\ UNCHANGED channels
  BY DEF Exit, Start, IInv, TypeInv
<1> QED BY <1>1, NothingListed DEF IInv, TypeInv, ListedInv

-----------------------------------------------------------------------------
LEMMA InitInv == Init => IInv
<1> SUFFICES ASSUME Init PROVE IInv
  OBVIOUS
<1>1. NewRow \in ChannelRow
  <2>1. Floor \in Intervals
    BY HealthAssumption DEF Intervals, Floor
  <2> QED BY <2>1, Bounds DEF NewRow, ChannelRow
<1>2. channels \in [Channels -> ChannelRow]
  BY <1>1 DEF Init
<1> QED BY <1>2, NothingListed DEF Init, IInv, TypeInv, ListedInv

LEMMA NextInv == IInv /\ [Next]_vars => IInv'
<1> SUFFICES ASSUME IInv, [Next]_vars PROVE IInv'
  OBVIOUS
<1>1. CASE UNCHANGED vars
  BY <1>1 DEF vars, IInv, TypeInv, ListedInv, Known, Failures
<1> QED BY <1>1, TickInv, DataPlaneInv, SetStatusInv, UpsertChannelModelInv, ListDueInv,
           CheckInv, ExitInv DEF Next, DataPlane

(* Only the checker makes a row younger, and it writes the interval.       *)
LEMMA StepBacksOff ==
    ASSUME IInv, [Next]_vars, pc = "touch", NEW c \in Channels \ disturbed,
           c = Head(due).id, channels'[c].age < channels[c].age
    PROVE  channels'[c].interval = nextProbeInterval(channels[c].failures)
<1>1. /\ due # <<>> /\ channels[c] \in ChannelRow
      /\ channels[c].failures = Failures(Head(due))
  <2>1. due # <<>>
    BY DEF IInv, TypeInv
  <2> QED BY <2>1, AtHead DEF IInv, ListedInv, Known
<1>2. channels[c].age \in Nat /\ channels \in [Channels -> ChannelRow]
  BY <1>1, Bounds DEF ChannelRow, IInv, TypeInv
<1>3. channels'[c].age # channels[c].age
  BY <1>2
<1>4. CASE TouchProbe
  <2>1. PICK next \in Intervals : next = nextProbeInterval(Failures(Head(due)))
    BY <1>1, AtHead, Counted DEF IInv
  <2>2. channels' = [channels EXCEPT ![c] = AfterTouch(channels[c], next)]
    BY <1>4, <2>1 DEF TouchProbe
  <2> QED BY <1>1, <1>2, <2>1, <2>2, Rows
<1>5. ~Tick
  <2> SUFFICES ASSUME Tick PROVE FALSE
    OBVIOUS
  <2>1. channels'[c] \in ChannelRow /\ channels'[c].age >= channels[c].age
    BY TickInv DEF IInv, TypeInv
  <2>2. channels'[c].age \in Nat
    BY <2>1, Bounds DEF ChannelRow
  <2> QED BY <1>2, <2>1, <2>2
<1>6. ASSUME NEW d \in Channels, RecordSuccess(d) \/ RecordFailure(d) PROVE FALSE
  <2>1. channels[d] \in ChannelRow
    BY DEF IInv, TypeInv
  <2>2. PICK row \in ChannelRow : channels' = [channels EXCEPT ![d] = row] /\ row.age = channels[d].age
    <3>1. CASE RecordSuccess(d)
      BY <2>1, <3>1, Rows DEF RecordSuccess
    <3>2. CASE RecordFailure(d)
      <4>1. PICK limited \in BOOLEAN :
                 channels' = [channels EXCEPT ![d] = AfterFailure(channels[d], limited)]
        BY <3>2 DEF RecordFailure
      <4> QED BY <2>1, <4>1, Rows
    <3> QED BY <1>6, <3>1, <3>2
  <2> QED BY <1>2, <1>3, <2>2
<1>7. ASSUME NEW d \in Channels, SetStatus(d) PROVE FALSE
  <2>1. PICK s \in {"active", "disabled"} : channels' = [channels EXCEPT ![d].status = s]
    BY <1>7 DEF SetStatus
  <2>2. PICK row : row = [channels[d] EXCEPT !.status = s]
    OBVIOUS
  <2>3. channels' = [channels EXCEPT ![d] = row] /\ row.age = channels[d].age
    BY <1>2, <2>1, <2>2 DEF ChannelRow
  <2> QED BY <1>2, <1>3, <2>3
<1>8. ~ UNCHANGED channels
  BY <1>3
<1> QED
  BY <1>4, <1>5, <1>6, <1>7, <1>8
  DEF Next, DataPlane, Check, UpsertChannelModel, ListDue, SkipChannel, LoadChannel, AutoProbe,
      TouchProbeFails, Exit, Start, vars

(* The interval that a probe leaves follows the failures in the row, for   *)
(* any number of channels, unless an outcome was recorded by a request or  *)
(* lost since the row was listed (healthcheck.go:33-37, 107).              *)
THEOREM BackoffProved == Spec => BackoffMatchesRow
<1>1. IInv /\ [Next]_vars =>
        [\A c \in Channels \ disturbed :
           (pc = "touch" /\ c = Head(due).id /\ channels'[c].age < channels[c].age) =>
              channels'[c].interval = nextProbeInterval(channels[c].failures)]_vars
  BY StepBacksOff
<1> QED BY <1>1, InitInv, NextInv, PTL DEF Spec, BackoffMatchesRow

-----------------------------------------------------------------------------
(* Sorting.                                                                *)

(* What a comparison function of the code is, on positions.                *)
StrictWeak(before, D) ==
    /\ \A i \in D : <<i, i>> \notin before
    /\ \A i, j, k \in D : <<i, j>> \in before /\ <<j, k>> \in before => <<i, k>> \in before
    /\ \A i, j, k \in D : <<i, j>> \notin before /\ <<j, k>> \notin before => <<i, k>> \notin before

LEMMA ComesFirst ==
    ASSUME NEW n \in Nat, NEW before, StrictWeak(before, 1 .. n)
    PROVE  /\ \A i \in 1 .. n : ~ComesBefore(before, i, i)
           /\ \A i, j \in 1 .. n : i # j => ComesBefore(before, i, j) \/ ComesBefore(before, j, i)
           /\ \A i, j, k \in 1 .. n : ComesBefore(before, i, j) /\ ComesBefore(before, j, k) =>
                ComesBefore(before, i, k)
  BY DEF StrictWeak, ComesBefore

Earlier(before, D, j) == {i \in D : ComesBefore(before, i, j)}

LEMMA EarlierCounted ==
    ASSUME NEW n \in Nat, NEW before, StrictWeak(before, 1 .. n), NEW j \in 1 .. n
    PROVE  /\ IsFiniteSet(Earlier(before, 1 .. n, j))
           /\ 1 + Cardinality(Earlier(before, 1 .. n, j)) \in 1 .. n
           /\ \A i \in 1 .. n : ComesBefore(before, i, j) =>
                Cardinality(Earlier(before, 1 .. n, i)) < Cardinality(Earlier(before, 1 .. n, j))
<1>1. IsFiniteSet(1 .. n) /\ Cardinality(1 .. n) = n
  BY FS_Interval
<1>2. ASSUME NEW i \in 1 .. n
      PROVE  /\ IsFiniteSet(Earlier(before, 1 .. n, i)) /\ i \notin Earlier(before, 1 .. n, i)
             /\ Cardinality(Earlier(before, 1 .. n, i)) \in Nat
             /\ Earlier(before, 1 .. n, i) \subseteq 1 .. n
  <2>1. Earlier(before, 1 .. n, i) \in SUBSET (1 .. n) /\ i \notin Earlier(before, 1 .. n, i)
    BY ComesFirst DEF Earlier
  <2>2. IsFiniteSet(Earlier(before, 1 .. n, i))
    BY <1>1, <2>1, FS_Subset
  <2> QED BY <2>1, <2>2, FS_CardinalityType
<1>3. ASSUME NEW S, NEW T, T \subseteq 1 .. n, S \subseteq T, NEW x \in T, x \notin S
      PROVE  Cardinality(S) < Cardinality(T)
  <2>1. IsFiniteSet(T) /\ IsFiniteSet(S)
    BY <1>1, <1>3, FS_Subset
  <2>2. Cardinality(S) <= Cardinality(T) /\ (Cardinality(T) = Cardinality(S) => T = S)
    BY <1>3, <2>1, FS_Subset
  <2>3. Cardinality(S) \in Nat /\ Cardinality(T) \in Nat
    BY <2>1, FS_CardinalityType
  <2> QED BY <1>3, <2>2, <2>3
<1>4. Cardinality(Earlier(before, 1 .. n, j)) < Cardinality(1 .. n)
  BY <1>2, <1>3
<1>5. ASSUME NEW i \in 1 .. n, ComesBefore(before, i, j)
      PROVE  Cardinality(Earlier(before, 1 .. n, i)) < Cardinality(Earlier(before, 1 .. n, j))
  <2>1. Earlier(before, 1 .. n, i) \subseteq Earlier(before, 1 .. n, j) /\ i \in Earlier(before, 1 .. n, j)
    BY <1>5, ComesFirst DEF Earlier
  <2> QED BY <1>2, <1>3, <2>1
<1> QED BY <1>1, <1>2, <1>4, <1>5

(* A sorted sequence: the elements of raw in an order that the comparison  *)
(* agrees with and that leaves none out.                                   *)
Sorts(order, before, n) ==
    /\ order \in [1 .. n -> 1 .. n]
    /\ \A j \in 1 .. n : \E k \in 1 .. n : order[k] = j
    /\ \A k, l \in 1 .. n : k < l => ComesBefore(before, order[k], order[l])

Arranged(raw, order, n) == [k \in 1 .. n |-> raw[order[k]]]

LEMMA SortIsOrder ==
    ASSUME NEW n \in Nat, NEW raw, DOMAIN raw = 1 .. n, NEW before, StrictWeak(before, 1 .. n)
    PROVE  \E order : Sorts(order, before, n) /\ StableSort(raw, before) = Arranged(raw, order, n)
<1> DEFINE place == [j \in 1 .. n |-> 1 + Cardinality(Earlier(before, 1 .. n, j))]
           order == [k \in 1 .. n |-> CHOOSE j \in 1 .. n : place[j] = k]
<1>1. place \in [1 .. n -> 1 .. n]
  BY EarlierCounted
<1>2. \A i, j \in 1 .. n : ComesBefore(before, i, j) => place[i] < place[j]
  <2> SUFFICES ASSUME NEW i \in 1 .. n, NEW j \in 1 .. n, ComesBefore(before, i, j)
               PROVE  place[i] < place[j]
    OBVIOUS
  <2>1. PICK a \in Nat, b \in Nat : /\ a = Cardinality(Earlier(before, 1 .. n, i))
                                    /\ b = Cardinality(Earlier(before, 1 .. n, j)) /\ a < b
    BY EarlierCounted, FS_CardinalityType
  <2> QED BY <2>1
<1>3. StableSort(raw, before) = Arranged(raw, order, n)
  <2>1. StableSort(raw, before) = [k \in 1 .. n |-> raw[order[k]]]
    BY DEF StableSort, Earlier
  <2> QED BY <2>1 DEF Arranged
<1>4. order = [k \in 1 .. n |-> CHOOSE j \in 1 .. n : place[j] = k]
  OBVIOUS
<1> HIDE DEF place, order
<1>5. \A i, j \in 1 .. n : place[i] = place[j] => i = j
  <2> SUFFICES ASSUME NEW i \in 1 .. n, NEW j \in 1 .. n, place[i] = place[j], i # j PROVE FALSE
    OBVIOUS
  <2>1. ComesBefore(before, i, j) \/ ComesBefore(before, j, i)
    BY ComesFirst
  <2>2. place[i] < place[j] \/ place[j] < place[i]
    BY <1>2, <2>1
  <2> QED BY <1>1, <2>2
<1>6. \A k \in 1 .. n : \E j \in 1 .. n : place[j] = k
  <2>1. place \in Injection(1 .. n, 1 .. n)
    BY <1>1, <1>5 DEF Injection, IsInjective
  <2>2. IsFiniteSet(1 .. n)
    BY FS_Interval
  <2>3. place \in Surjection(1 .. n, 1 .. n)
    BY <2>1, <2>2, FS_Injection
  <2> QED BY <2>3 DEF Surjection
<1>7. \A k \in 1 .. n : order[k] \in 1 .. n /\ place[order[k]] = k
  BY <1>4, <1>6
<1>8. order \in [1 .. n -> 1 .. n]
  BY <1>4, <1>7
<1>9. \A j \in 1 .. n : order[place[j]] = j
  BY <1>1, <1>5, <1>7
<1>10. ASSUME NEW k \in 1 .. n, NEW l \in 1 .. n, k < l
       PROVE  ComesBefore(before, order[k], order[l])
  <2>1. order[k] # order[l]
    BY <1>7, <1>10
  <2>2. ~ComesBefore(before, order[l], order[k])
    <3> SUFFICES ASSUME ComesBefore(before, order[l], order[k]) PROVE FALSE
      OBVIOUS
    <3>1. place[order[l]] < place[order[k]]
      BY <1>2, <1>7
    <3> QED BY <1>7, <1>10, <3>1
  <2> QED BY <1>7, <2>1, <2>2, ComesFirst
<1>11. Sorts(order, before, n)
  BY <1>1, <1>8, <1>9, <1>10 DEF Sorts
<1> QED BY <1>3, <1>11

(* What is compared as less than everything else is sorted to the front.   *)
LEMMA LeastIsFirst ==
    ASSUME NEW n \in Nat, NEW before, StrictWeak(before, 1 .. n), NEW order, Sorts(order, before, n),
           NEW j \in 1 .. n, \A i \in 1 .. n : i # j => <<j, i>> \in before
    PROVE  order[1] = j
<1>1. PICK k \in 1 .. n : order[k] = j
  BY DEF Sorts
<1>2. 1 \in 1 .. n /\ order[1] \in 1 .. n
  BY DEF Sorts
<1>3. CASE k # 1
  <2>1. ComesBefore(before, order[1], j)
    BY <1>1, <1>2, <1>3 DEF Sorts
  <2>2. order[1] # j
    BY <1>2, <2>1, ComesFirst
  <2>3. <<j, order[1]>> \in before
    BY <1>2, <2>2
  <2>4. <<order[1], j>> \in before
    BY <2>1, <2>3 DEF ComesBefore
  <2> QED BY <1>2, <2>3, <2>4 DEF StrictWeak
<1> QED BY <1>1, <1>3

-----------------------------------------------------------------------------
(* Ranking.                                                                *)

Vector == [reliability : Int, speed : Int, intelligence : Int]

(* A candidate as the router reads it.                                     *)
Candidate == [channel : Channels, priority : Int, weight : Int, limited : 0 .. RampWindow,
              speed : 0 .. 100, failures : 0 .. MaxFailures]

Draw == [Channels -> 0 .. 100]

LEMMA Products ==
    ASSUME NEW a \in Int, NEW b \in Int
    PROVE  a * b \in Int
  OBVIOUS

LEMMA FactorBounds ==
    ASSUME NEW l \in 0 .. RampWindow
    PROVE  /\ RateLimitFactor(l) \in Nat /\ RateLimitFactor(l) <= 10 * RampWindow
           /\ RateLimitFactor(0) = 10 * RampWindow
<1>1. RampWindow \in Nat \ {0}
  BY RampAssumption
<1> QED BY <1>1 DEF RateLimitFactor

LEMMA Scores ==
    ASSUME NEW c \in Candidate, NEW w \in Vector, NEW sample \in Draw
    PROVE  /\ BaseScore(c, w, sample) = w.reliability * sample[c.channel] + w.speed * c.speed
                                        + w.intelligence * 50
           /\ BaseScore(c, w, sample) \in Int
           /\ ScoreChannel(c, w, sample) \in Int
<1>1. PICK r \in Int, s \in Int, i \in Int : r = w.reliability /\ s = w.speed /\ i = w.intelligence
  BY DEF Vector
<1>2. PICK x \in Int, y \in Int : x = sample[c.channel] /\ y = c.speed
  BY DEF Candidate, Draw
<1>3. BaseScore(c, w, sample) = r * x + s * y + i * 50
  BY <1>1, <1>2 DEF BaseScore, Reliability, intelligenceBaseline
<1>4. r * x + s * y + i * 50 \in Int
  OBVIOUS
<1>5. RateLimitFactor(c.limited) \in Int
  BY FactorBounds DEF Candidate
<1> QED BY <1>1, <1>2, <1>3, <1>4, <1>5, Products DEF ScoreChannel

(* What the router gets, without the health it carries.                    *)
Ranked(ranked, raw, n) ==
    \E order \in [1 .. n -> 1 .. n] :
        /\ \A j \in 1 .. n : \E k \in 1 .. n : order[k] = j
        /\ ranked = Arranged(raw, order, n)

LEMMA ByPriority ==
    ASSUME NEW n \in Nat, NEW raw \in [1 .. n -> Candidate]
    PROVE  Ranked(rankByPriority(raw), raw, n)
<1> DEFINE before == {p \in Positions(raw) :
                LET x == raw[p[1]]
                    y == raw[p[2]]
                IN  x.priority > y.priority \/ (x.priority = y.priority /\ x.weight > y.weight)}
<1>1. PICK priority \in [1 .. n -> Int], weight \in [1 .. n -> Int] :
         \A i \in 1 .. n : priority[i] = raw[i].priority /\ weight[i] = raw[i].weight
  <2>1. [i \in 1 .. n |-> raw[i].priority] \in [1 .. n -> Int]
        /\ [i \in 1 .. n |-> raw[i].weight] \in [1 .. n -> Int]
    BY DEF Candidate
  <2> QED BY <2>1
<1>2. \A i, j \in 1 .. n : <<i, j>> \in before <=>
        (\/ priority[i] > priority[j]
         \/ priority[i] = priority[j] /\ weight[i] > weight[j])
  BY <1>1 DEF Positions
<1>3. rankByPriority(raw) = StableSort(raw, before)
  BY DEF rankByPriority
<1> HIDE DEF before
<1>4. StrictWeak(before, 1 .. n)
  <2>1. \A i \in 1 .. n : priority[i] \in Int /\ weight[i] \in Int
    BY <1>1
  <2>2. \A i \in 1 .. n : <<i, i>> \notin before
    <3> SUFFICES ASSUME NEW i \in 1 .. n PROVE <<i, i>> \notin before
      OBVIOUS
    <3>1. ~(priority[i] > priority[i]) /\ ~(weight[i] > weight[i])
      BY <2>1
    <3> QED BY <1>2, <3>1
  <2>3. \A i, j, k \in 1 .. n : <<i, j>> \in before /\ <<j, k>> \in before => <<i, k>> \in before
    <3> SUFFICES ASSUME NEW i \in 1 .. n, NEW j \in 1 .. n, NEW k \in 1 .. n,
                        <<i, j>> \in before, <<j, k>> \in before
                 PROVE  <<i, k>> \in before
      OBVIOUS
    <3> QED BY <1>2, <2>1
  <2>4. \A i, j, k \in 1 .. n : <<i, j>> \notin before /\ <<j, k>> \notin before =>
            <<i, k>> \notin before
    <3> SUFFICES ASSUME NEW i \in 1 .. n, NEW j \in 1 .. n, NEW k \in 1 .. n,
                        <<i, j>> \notin before, <<j, k>> \notin before
                 PROVE  <<i, k>> \notin before
      OBVIOUS
    <3> QED BY <1>2, <2>1
  <2> QED BY <2>2, <2>3, <2>4 DEF StrictWeak
<1>5. DOMAIN raw = 1 .. n
  OBVIOUS
<1>6. PICK order : Sorts(order, before, n) /\ StableSort(raw, before) = Arranged(raw, order, n)
  BY <1>4, <1>5, SortIsOrder
<1>7. order \in [1 .. n -> 1 .. n] /\ \A j \in 1 .. n : \E k \in 1 .. n : order[k] = j
  BY <1>6 DEF Sorts
<1> QED BY <1>3, <1>6, <1>7 DEF Ranked

(* The candidate at j has the highest score.                               *)
Outdoes(j, n, raw, w, sample) ==
    \A i \in 1 .. n : i # j => ScoreChannel(raw[j], w, sample) > ScoreChannel(raw[i], w, sample)

LEMMA ByScore ==
    ASSUME NEW n \in Nat, NEW raw \in [1 .. n -> Candidate], NEW w \in Vector, NEW sample \in Draw
    PROVE  /\ Ranked(rankByScore(raw, w, sample), raw, n)
           /\ \A j \in 1 .. n :
                Outdoes(j, n, raw, w, sample) => rankByScore(raw, w, sample)[1] = raw[j]
<1>1. PICK score \in [1 .. n -> Int] : /\ score = [i \in 1 .. n |-> ScoreChannel(raw[i], w, sample)]
                                       /\ score = [i \in DOMAIN raw |-> ScoreChannel(raw[i], w, sample)]
  BY Scores
<1>2. PICK before : before = {p \in Positions(raw) : score[p[1]] > score[p[2]]}
  OBVIOUS
<1>3. rankByScore(raw, w, sample) = StableSort(raw, before)
  BY <1>1, <1>2 DEF rankByScore
<1>4. \A i, j \in 1 .. n : <<i, j>> \in before <=> score[i] > score[j]
  BY <1>2 DEF Positions
<1>5. StrictWeak(before, 1 .. n)
  <2>1. \A i \in 1 .. n : score[i] \in Int
    OBVIOUS
  <2> QED BY <1>4, <2>1 DEF StrictWeak
<1>6. DOMAIN raw = 1 .. n
  OBVIOUS
<1>7. PICK order : Sorts(order, before, n) /\ StableSort(raw, before) = Arranged(raw, order, n)
  BY <1>5, <1>6, SortIsOrder
<1>8. ASSUME NEW j \in 1 .. n, Outdoes(j, n, raw, w, sample)
      PROVE  rankByScore(raw, w, sample)[1] = raw[j]
  <2>1. \A i \in 1 .. n : i # j => <<j, i>> \in before
    BY <1>1, <1>4, <1>8 DEF Outdoes
  <2>2. order[1] = j
    BY <1>5, <1>7, <2>1, LeastIsFirst
  <2> QED BY <1>3, <1>7, <2>2 DEF Arranged
<1>9. order \in [1 .. n -> 1 .. n] /\ \A j \in 1 .. n : \E k \in 1 .. n : order[k] = j
  BY <1>7 DEF Sorts
<1> QED BY <1>3, <1>7, <1>8, <1>9 DEF Ranked

Policy == [strategy : Strategies, weights : {<<>>} \cup {<<w>> : w \in Vector}, depth : Int]

LEMMA WeightsTyped ==
    ASSUME NEW policy \in Policy
    PROVE  ResolveWeights(policy) \in Vector
<1>1. \A w \in Vector : <<w>>[1] = w /\ <<w>> # <<>>
  OBVIOUS
<1>2. /\ presetWeights.balanced \in Vector /\ presetWeights.smartest \in Vector
      /\ presetWeights.fastest \in Vector /\ presetWeights.reliable \in Vector
  BY DEF presetWeights, Vector
<1>3. DOMAIN presetWeights = {"balanced", "smartest", "fastest", "reliable"}
  BY DEF presetWeights
<1>4. policy.weights # <<>> => policy.weights[1] \in Vector
  BY <1>1 DEF Policy
<1>5. \A s \in DOMAIN presetWeights : presetWeights[s] \in Vector
  BY <1>2, <1>3
<1> QED BY <1>2, <1>4, <1>5 DEF ResolveWeights

(* A ranking is cut to the depth, and otherwise leaves nobody out.         *)
LEMMA RankIsPrefix ==
    ASSUME NEW n \in Nat, NEW raw \in [1 .. n -> Candidate], NEW policy \in Policy,
           NEW sample \in Draw
    PROVE  \E ranked :
              /\ Ranked(ranked, raw, n)
              /\ Rank(raw, policy, sample) = SubSeq(ranked, 1, Depth(policy, n))
              /\ Depth(policy, n) \in 0 .. n
              /\ n # 0 => Depth(policy, n) >= 1
              /\ policy.depth <= 0 \/ policy.depth >= n => Depth(policy, n) = n
              /\ policy.strategy # "priority" =>
                    ranked = rankByScore(raw, ResolveWeights(policy), sample)
<1>1. Len(raw) = n
  OBVIOUS
<1>2. PICK d \in Int : d = policy.depth
  BY DEF Policy
<1>3. /\ Depth(policy, n) \in 0 .. n
      /\ n # 0 => Depth(policy, n) >= 1
      /\ policy.depth <= 0 \/ policy.depth >= n => Depth(policy, n) = n
  BY <1>2 DEF Depth
<1>4. PICK ranked : ranked = IF policy.strategy = "priority" THEN rankByPriority(raw)
                             ELSE rankByScore(raw, ResolveWeights(policy), sample)
  OBVIOUS
<1>5. Ranked(ranked, raw, n)
  BY <1>4, ByPriority, ByScore, WeightsTyped
<1>6. Rank(raw, policy, sample) = SubSeq(ranked, 1, Depth(policy, n))
  BY <1>1, <1>4 DEF Rank
<1> QED BY <1>3, <1>4, <1>5, <1>6

Shown(ranked) == {ranked[i].channel : i \in DOMAIN ranked}

LEMMA RankHidesNone ==
    ASSUME NEW n \in Nat, NEW raw \in [1 .. n -> Candidate], NEW policy \in Policy,
           NEW sample \in Draw
    PROVE  /\ n # 0 => Rank(raw, policy, sample) # <<>>
           /\ policy.depth <= 0 \/ policy.depth >= n =>
                Shown(Rank(raw, policy, sample)) = Shown(raw)
<1>1. PICK ranked : /\ Ranked(ranked, raw, n)
                    /\ Rank(raw, policy, sample) = SubSeq(ranked, 1, Depth(policy, n))
                    /\ Depth(policy, n) \in 0 .. n
                    /\ n # 0 => Depth(policy, n) >= 1
                    /\ policy.depth <= 0 \/ policy.depth >= n => Depth(policy, n) = n
  BY RankIsPrefix
<1>2. PICK order \in [1 .. n -> 1 .. n] :
         /\ \A j \in 1 .. n : \E k \in 1 .. n : order[k] = j
         /\ ranked = Arranged(raw, order, n)
  BY <1>1 DEF Ranked
<1>3. \A k \in 1 .. n : order[k] \in 1 .. n /\ raw[order[k]] \in Candidate
  OBVIOUS
<1>4. /\ DOMAIN ranked = 1 .. n /\ ranked \in [1 .. n -> Candidate]
      /\ \A k \in 1 .. n : ranked[k] = raw[order[k]]
  BY <1>2, <1>3 DEF Arranged
<1>5. PICK d \in 0 .. n : d = Depth(policy, n)
  BY <1>1
<1>6. ranked \in Seq(Candidate) /\ Len(ranked) = n
  BY <1>4
<1>7. PICK cut \in Seq(Candidate) :
         /\ cut = SubSeq(ranked, 1, d) /\ Len(cut) = d
         /\ \A i \in 1 .. d : cut[i] = ranked[i]
  <2>1. \A i \in 1 .. d : ranked[i] \in Candidate /\ 1 + i - 1 = i
    BY <1>4
  <2>2. /\ SubSeq(ranked, 1, d) \in Seq(Candidate)
        /\ Len(SubSeq(ranked, 1, d)) = IF 1 <= d THEN d - 1 + 1 ELSE 0
        /\ \A i \in 1 .. d - 1 + 1 : SubSeq(ranked, 1, d)[i] = ranked[1 + i - 1]
    BY <2>1, SubSeqProperties
  <2>3. PICK cut \in Seq(Candidate) :
           /\ cut = SubSeq(ranked, 1, d) /\ Len(cut) = IF 1 <= d THEN d - 1 + 1 ELSE 0
           /\ \A i \in 1 .. d - 1 + 1 : cut[i] = ranked[1 + i - 1]
    BY <2>2
  <2>4. Len(cut) = d /\ \A i \in 1 .. d : cut[i] = ranked[i]
    BY <2>1, <2>3
  <2> QED BY <2>3, <2>4
<1>8. Rank(raw, policy, sample) = cut
  BY <1>1, <1>5, <1>7
<1>9. n # 0 => cut # <<>>
  <2> SUFFICES ASSUME n # 0, cut = <<>> PROVE FALSE
    OBVIOUS
  <2>1. Len(cut) = 0
    OBVIOUS
  <2> QED BY <1>1, <1>5, <1>7, <2>1
<1>10. ASSUME d = n
       PROVE  Shown(cut) = Shown(raw)
  <2>1. DOMAIN cut = 1 .. n /\ \A i \in 1 .. n : cut[i] = raw[order[i]]
    BY <1>4, <1>7, <1>10
  <2>2. \A x : (\E i \in 1 .. n : x = cut[i].channel) <=> (\E j \in 1 .. n : x = raw[j].channel)
    <3> TAKE x
    <3>1. ASSUME NEW i \in 1 .. n, x = cut[i].channel PROVE \E j \in 1 .. n : x = raw[j].channel
      BY <1>3, <2>1, <3>1
    <3>2. ASSUME NEW j \in 1 .. n, x = raw[j].channel PROVE \E i \in 1 .. n : x = cut[i].channel
      <4>1. PICK k \in 1 .. n : order[k] = j
        BY <1>2
      <4> QED BY <2>1, <3>2, <4>1
    <3> QED BY <3>1, <3>2
  <2>3. DOMAIN raw = 1 .. n
    OBVIOUS
  <2>4. \A x : x \in Shown(cut) <=> \E i \in 1 .. n : x = cut[i].channel
    BY <2>1 DEF Shown
  <2>5. \A x : x \in Shown(raw) <=> \E j \in 1 .. n : x = raw[j].channel
    BY <2>3 DEF Shown
  <2> QED BY <2>2, <2>4, <2>5
<1> QED BY <1>1, <1>5, <1>8, <1>9, <1>10

-----------------------------------------------------------------------------
(* The router over the table.                                              *)

InService == {c \in Channels : IsCandidate(c)}

LEMMA Listing ==
    ASSUME NEW S, IsFiniteSet(S), NEW s \in SetToSeqs(S), NEW n \in Nat, n = Cardinality(S)
    PROVE  /\ s \in [1 .. n -> S] /\ \A i, j \in 1 .. n : i # j => s[i] # s[j]
           /\ \A x \in S : \E i \in 1 .. n : s[i] = x
<1>1. s \in [1 .. n -> S] /\ \A i, j \in 1 .. n : i # j => s[i] # s[j]
  BY DEF SetToSeqs
<1>2. IsFiniteSet(1 .. n) /\ Cardinality(1 .. n) = n
  BY FS_Interval
<1>3. s \in Injection(1 .. n, S)
  BY <1>1 DEF Injection, IsInjective
<1>4. s \in Surjection(1 .. n, S)
  BY <1>2, <1>3, FS_Injection
<1> QED BY <1>1, <1>4 DEF Surjection

(* What the router is given: every channel in service, once.               *)
Offered(raw, n, speed) ==
    /\ n = Cardinality(InService) /\ raw \in [1 .. n -> Candidate]
    /\ \A i, j \in 1 .. n : i # j => raw[i].channel # raw[j].channel
    /\ \A i \in 1 .. n : /\ raw[i].channel \in InService
                         /\ raw[i].speed = speed[raw[i].channel]
                         /\ raw[i].limited = channels[raw[i].channel].limited
    /\ \A c \in InService : \E i \in 1 .. n : raw[i].channel = c

Entry(c, limited, speed, failures) ==
    [channel |-> c, priority |-> 0, weight |-> 100, limited |-> limited, speed |-> speed,
     failures |-> failures]

LEMMA Entries ==
    ASSUME NEW c, NEW l, NEW v, NEW f
    PROVE  /\ Entry(c, l, v, f).channel = c /\ Entry(c, l, v, f).limited = l
           /\ Entry(c, l, v, f).speed = v
           /\ (c \in Channels /\ l \in 0 .. RampWindow /\ v \in 0 .. 100 /\ f \in 0 .. MaxFailures) =>
                Entry(c, l, v, f) \in Candidate
  BY DEF Entry, Candidate

LEMMA CandidatesOffered ==
    ASSUME TypeInv, NEW readable, NEW speed \in [Channels -> 0 .. 100],
           NEW raw \in Candidates(readable, speed)
    PROVE  \E n \in Nat : Offered(raw, n, speed)
<1>1. IsFiniteSet(InService)
  BY HealthAssumption, FS_Subset DEF InService
<1>2. PICK n \in Nat : n = Cardinality(InService)
  BY <1>1, FS_CardinalityType
<1>3. PICK s \in SetToSeqs(InService) :
         raw = [i \in DOMAIN s |-> Entry(s[i], channels[s[i]].limited, speed[s[i]],
                                         channels[s[i]].failures)]
  BY DEF Candidates, InService, Entry
<1>4. /\ s \in [1 .. n -> InService] /\ \A i, j \in 1 .. n : i # j => s[i] # s[j]
      /\ \A x \in InService : \E i \in 1 .. n : s[i] = x
  BY <1>1, <1>2, Listing
<1>5. \A i \in 1 .. n : s[i] \in InService /\ s[i] \in Channels
  BY <1>4 DEF InService
<1>6. \A i \in 1 .. n :
         /\ raw[i] = Entry(s[i], channels[s[i]].limited, speed[s[i]], channels[s[i]].failures)
         /\ channels[s[i]].limited \in 0 .. RampWindow
         /\ channels[s[i]].failures \in 0 .. MaxFailures
         /\ speed[s[i]] \in 0 .. 100
  BY <1>3, <1>4, <1>5 DEF TypeInv, ChannelRow
<1>7. \A i \in 1 .. n : /\ raw[i] \in Candidate
                        /\ raw[i].channel = s[i] /\ raw[i].speed = speed[s[i]]
                        /\ raw[i].limited = channels[s[i]].limited
  BY <1>5, <1>6, Entries
<1>8. raw \in [1 .. n -> Candidate]
  BY <1>3, <1>4, <1>7
<1> QED BY <1>2, <1>4, <1>5, <1>7, <1>8 DEF Offered

LEMMA Speeds ==
    /\ speedFactor(<<>>) = 50
    /\ speedFactor(<<slowMs>>) = 0
    /\ speedFactor(<<fastMs>>) = 100
<1>1. \A x : <<x>> # <<>> /\ <<x>>[1] = x
  OBVIOUS
<1> QED BY <1>1 DEF speedFactor, slowMs, fastMs

LEMMA TablesResolve ==
    ASSUME NEW policies \in PolicyTables
    PROVE  ResolvePolicy(policies) \in Policy
<1>1. \A s \in {"balanced", "priority", "reliable"}, d \in Int : Preset(s, d) \in Policy
  BY DEF Preset, Policy, Strategies
<1>2. /\ DOMAIN policies \subseteq {"model", "workspace", "global"}
      /\ \A s \in DOMAIN policies : policies[s] \in Policy
  BY <1>1 DEF PolicyTables
<1>3. CASE DOMAIN policies = {}
  <2>1. ResolvePolicy(policies) = Preset("balanced", 3)
    BY <1>3 DEF ResolvePolicy, Preset
  <2> QED BY <1>1, <2>1
<1>4. CASE DOMAIN policies # {}
  <2>1. Precedence["model"] = 1 /\ Precedence["workspace"] = 2 /\ Precedence["global"] = 3
    BY DEF Precedence
  <2>2. \E s \in DOMAIN policies : \A t \in DOMAIN policies : Precedence[s] <= Precedence[t]
    <3>1. CASE "model" \in DOMAIN policies
      BY <1>2, <2>1, <3>1
    <3>2. CASE "model" \notin DOMAIN policies /\ "workspace" \in DOMAIN policies
      BY <1>2, <2>1, <3>2
    <3>3. CASE DOMAIN policies = {"global"}
      BY <2>1, <3>3
    <3> QED BY <1>2, <1>4, <3>1, <3>2, <3>3
  <2>3. PICK s \in DOMAIN policies : ResolvePolicy(policies) = policies[s]
    BY <1>4, <2>2 DEF ResolvePolicy
  <2> QED BY <1>2, <2>3
<1> QED BY <1>3, <1>4

(* NoneHidden, for any speeds, sample and channels in service.             *)
AllShown(readable, speed, sample, active) ==
    \A raw \in Candidates(readable, speed), policies \in PolicyTables :
        LET policy == ResolvePolicy(policies)
            ranked == Rank(raw, policy, sample)
        IN  /\ active # {} => ranked # <<>>
            /\ policy.depth <= 0 \/ policy.depth >= Cardinality(active) =>
                  {ranked[i].channel : i \in DOMAIN ranked} = active

LEMMA AllAreShown ==
    ASSUME TypeInv, NEW readable, NEW speed \in [Channels -> 0 .. 100], NEW sample \in Draw
    PROVE  AllShown(readable, speed, sample, InService)
<1> SUFFICES ASSUME NEW raw \in Candidates(readable, speed), NEW policies \in PolicyTables,
                    NEW policy, policy = ResolvePolicy(policies),
                    NEW ranked, ranked = Rank(raw, policy, sample)
             PROVE  /\ InService # {} => ranked # <<>>
                    /\ policy.depth <= 0 \/ policy.depth >= Cardinality(InService) =>
                          {ranked[i].channel : i \in DOMAIN ranked} = InService
  BY DEF AllShown
<1>1. PICK n \in Nat : Offered(raw, n, speed)
  BY CandidatesOffered
<1>2. /\ raw \in [1 .. n -> Candidate] /\ n = Cardinality(InService)
      /\ Shown(raw) = InService
  <2>1. DOMAIN raw = 1 .. n /\ raw \in [1 .. n -> Candidate]
    BY <1>1 DEF Offered
  <2> QED BY <1>1, <2>1 DEF Offered, Shown
<1>3. InService # {} => n # 0
  BY <1>1 DEF Offered
<1>4. policy \in Policy
  BY TablesResolve
<1>5. /\ n # 0 => ranked # <<>>
      /\ policy.depth <= 0 \/ policy.depth >= n => Shown(ranked) = Shown(raw)
  BY <1>2, <1>4, RankHidesNone
<1> QED BY <1>2, <1>3, <1>5 DEF Shown

(* There is a list unless a credential in service cannot be read.          *)
LEMMA ListedIfReadable ==
    ASSUME NEW readable, NEW speed
    PROVE  Candidates(readable, speed) # {} <=> InService \subseteq readable
<1>1. IsFiniteSet(InService)
  BY HealthAssumption, FS_Subset DEF InService
<1>2. PICK n \in Nat : n = Cardinality(InService)
  BY <1>1, FS_CardinalityType
<1>3. \A s \in SetToSeqs(InService) : Range(s) = InService
  <2> SUFFICES ASSUME NEW s \in SetToSeqs(InService) PROVE Range(s) = InService
    OBVIOUS
  <2>1. /\ s \in [1 .. n -> InService] /\ \A x \in InService : \E i \in 1 .. n : s[i] = x
    BY <1>1, <1>2, Listing
  <2> QED BY <2>1 DEF Range
<1>4. SetToSeqs(InService) # {}
  <2>1. PICK f : f \in Bijection(1 .. n, InService)
    BY <1>1, <1>2, FS_CountingElements, FS_NatBijection DEF ExistsBijection
  <2>2. f \in [1 .. n -> InService] /\ \A i, j \in 1 .. n : f[i] = f[j] => i = j
    BY <2>1 DEF Bijection, Injection, IsInjective
  <2>3. f \in SetToSeqs(InService)
    BY <1>2, <2>2 DEF SetToSeqs
  <2> QED BY <2>3
<1>5. Candidates(readable, speed) # {} <=>
         \E s \in SetToSeqs(InService) : Range(s) \subseteq readable
  BY DEF Candidates, InService
<1> QED BY <1>3, <1>4, <1>5

LEMMA NoneIsHidden == TypeInv => NoneHidden
<1> SUFFICES ASSUME TypeInv PROVE NoneHidden
  OBVIOUS
<1>1. InService = {c \in Channels : channels[c].status = "active" /\ links[c] # "none"}
  BY DEF InService, IsCandidate
<1>2. /\ [c \in Channels |-> speedFactor(<<>>)] \in [Channels -> 0 .. 100]
      /\ [c \in Channels |-> 0] \in Draw
  BY Speeds DEF Draw
<1> DEFINE speed == [c \in Channels |-> speedFactor(<<>>)]
           sample == [c \in Channels |-> 0]
           active == {c \in Channels : channels[c].status = "active" /\ links[c] # "none"}
<1>3. NoneHidden <=>
         \A readable \in SUBSET Channels :
            /\ Candidates(readable, speed) # {} <=> active \subseteq readable
            /\ AllShown(readable, speed, sample, active)
  BY DEF NoneHidden, AllShown
<1> HIDE DEF speed, sample, active
<1>4. \A readable : AllShown(readable, speed, sample, InService)
  BY <1>2, AllAreShown DEF speed, sample
<1>5. InService = active
  BY <1>1 DEF active
<1> QED BY <1>3, <1>4, <1>5, ListedIfReadable

LEMMA Outscores ==
    ASSUME NEW a \in Int, NEW b \in Int, a > b, b >= 0,
           NEW f \in Nat, NEW g \in Nat \ {0}, f <= g
    PROVE  a * g > b * f
<1>1. PICK k \in Nat, d \in Nat : g = f + k /\ a = b + 1 + d
  <2>1. g - f \in Nat /\ a - b - 1 \in Nat
    OBVIOUS
  <2> QED BY <2>1
<1>2. a * g = b * g + g + d * g
  BY <1>1
<1>3. b * g = b * f + b * k
  BY <1>1
<1>4. b * k >= 0 /\ d * g >= 0
  OBVIOUS
<1> QED BY <1>2, <1>3, <1>4

(* The weights that a policy of one attempt may come with.                 *)
LEMMA AskedWeights ==
    ASSUME NEW policy \in Policies, policy.strategy # "priority"
    PROVE  /\ policy \in Policy /\ policy.depth = 1
           /\ ResolveWeights(policy).speed >= 0 /\ ResolveWeights(policy).intelligence >= 0
<1>1. CASE \E s \in Strategies : policy = Preset(s, 1)
  <2>1. PICK s \in Strategies : policy = Preset(s, 1)
    BY <1>1
  <2>2. policy.strategy = s /\ policy.weights = <<>> /\ policy.depth = 1 /\ policy \in Policy
    BY <2>1 DEF Preset, Policy, Strategies
  <2>3. s # "custom"
    BY <2>2 DEF Policies, StorablePolicy
  <2>4. s \in {"balanced", "smartest", "fastest", "reliable"}
    BY <2>2, <2>3 DEF Strategies
  <2>5. ResolveWeights(policy) = presetWeights[s]
    BY <2>2, <2>4 DEF ResolveWeights, presetWeights
  <2>6. presetWeights[s].speed >= 0 /\ presetWeights[s].intelligence >= 0
    BY <2>4 DEF presetWeights
  <2> QED BY <2>2, <2>5, <2>6
<1>2. CASE \E w \in Vectors : policy = [strategy |-> "custom", weights |-> <<w>>, depth |-> 1]
  <2>1. PICK w \in Vectors : policy = [strategy |-> "custom", weights |-> <<w>>, depth |-> 1]
    BY <1>2
  <2>2. w \in Vector /\ <<w>> # <<>> /\ <<w>>[1] = w
    BY VectorsAssumption DEF Vector
  <2>3. /\ policy.strategy = "custom" /\ policy.weights = <<w>> /\ policy.depth = 1
        /\ policy \in Policy
    BY <2>1, <2>2 DEF Policy, Strategies
  <2>4. ResolveWeights(policy) = w /\ ValidCustomWeights(w)
    BY <2>2, <2>3 DEF ResolveWeights, Policies, StorablePolicy
  <2> QED BY <2>3, <2>4 DEF ValidCustomWeights
<1> QED BY <1>1, <1>2 DEF Policies

(* NeverStarved, for one channel and policy.                               *)
OnceFirst(c, speed, policy) ==
    \E sample \in Samples :
        \A readable \in SUBSET Channels : \A raw \in Candidates(readable, speed) :
            Rank(raw, policy, sample)[1].channel = c

LEMMA NobodyStarves == TypeInv => NeverStarved
<1> SUFFICES ASSUME TypeInv, NEW c \in Channels, IsCandidate(c), channels[c].limited = 0,
                    NEW policy \in Policies, policy.strategy # "priority",
                    ResolveWeights(policy).reliability > ResolveWeights(policy).speed
             PROVE  OnceFirst(c, [d \in Channels |->
                                    speedFactor(<<IF d = c THEN slowMs ELSE fastMs>>)], policy)
  BY Zenon DEF NeverStarved, OnceFirst
<1> SUFFICES ASSUME NEW speed,
                    speed = [d \in Channels |-> speedFactor(<<IF d = c THEN slowMs ELSE fastMs>>)]
             PROVE  OnceFirst(c, speed, policy)
  OBVIOUS
<1>1. /\ speed \in [Channels -> 0 .. 100] /\ speed[c] = 0
      /\ \A d \in Channels : d # c => speed[d] = 100
  <2>1. \A d \in Channels : speed[d] = IF d = c THEN 0 ELSE 100
    BY Speeds
  <2> QED BY <2>1
<1>2. PICK sample \in Samples : /\ sample \in Draw /\ sample[c] = 100
                                /\ \A d \in Channels : d # c => sample[d] = 0
  <2>1. PICK sample : sample = [d \in Channels |-> IF d = c THEN 100 ELSE 0]
    OBVIOUS
  <2> QED BY <2>1 DEF Samples, Draw
<1>3. PICK w \in Vector : /\ w = ResolveWeights(policy) /\ w.reliability > w.speed
                          /\ w.speed >= 0 /\ w.intelligence >= 0
  BY AskedWeights, WeightsTyped
<1>4. SUFFICES ASSUME NEW readable, NEW raw \in Candidates(readable, speed)
               PROVE  Rank(raw, policy, sample)[1].channel = c
  BY <1>2 DEF OnceFirst
<1>5. PICK n \in Nat : Offered(raw, n, speed)
  BY <1>1, CandidatesOffered
<1>6. PICK j \in 1 .. n : raw[j].channel = c
  BY <1>5 DEF Offered, InService
<1>7. ASSUME NEW i \in 1 .. n, i # j
      PROVE  ScoreChannel(raw[j], w, sample) > ScoreChannel(raw[i], w, sample)
  <2>1. PICK r \in Int, s \in Int, k \in Int :
           /\ r = w.reliability /\ s = w.speed /\ k = w.intelligence /\ r > s /\ s >= 0 /\ k >= 0
    BY <1>3 DEF Vector
  <2>2. /\ raw[i] \in Candidate /\ raw[j] \in Candidate
        /\ raw[i].channel # c /\ raw[i].channel \in Channels
        /\ raw[i].speed = 100 /\ raw[j].speed = 0 /\ raw[j].limited = 0
    BY <1>1, <1>5, <1>6, <1>7 DEF Offered, InService
  <2>3. BaseScore(raw[j], w, sample) = r * 100 + s * 0 + k * 50
    BY <1>2, <1>6, <2>1, <2>2, Scores
  <2>4. BaseScore(raw[i], w, sample) = r * 0 + s * 100 + k * 50
    BY <1>2, <2>1, <2>2, Scores
  <2>5. PICK a \in Int, b \in Int : /\ a = BaseScore(raw[j], w, sample)
                                    /\ b = BaseScore(raw[i], w, sample) /\ a > b /\ b >= 0
    BY <2>1, <2>3, <2>4
  <2>6. PICK f \in Nat, g \in Nat \ {0} :
           f = RateLimitFactor(raw[i].limited) /\ g = RateLimitFactor(raw[j].limited) /\ f <= g
    <3>1. raw[i].limited \in 0 .. RampWindow
      BY <2>2 DEF Candidate
    <3> QED BY <2>2, <3>1, FactorBounds, RampAssumption
  <2> QED BY <2>5, <2>6, Outscores DEF ScoreChannel
<1>8. raw \in [1 .. n -> Candidate] /\ Outdoes(j, n, raw, w, sample)
  BY <1>5, <1>7 DEF Offered, Outdoes
<1>9. rankByScore(raw, w, sample)[1] = raw[j]
  BY <1>2, <1>8, ByScore
<1>10. PICK ranked : /\ Rank(raw, policy, sample) = SubSeq(ranked, 1, Depth(policy, n))
                     /\ ranked = rankByScore(raw, w, sample)
  BY <1>2, <1>3, <1>8, AskedWeights, RankIsPrefix
<1>11. Depth(policy, n) = 1
  BY <1>6, AskedWeights DEF Depth
<1>12. SubSeq(ranked, 1, 1)[1] = ranked[1]
  <2>1. \A i \in 1 .. 1 : ranked[i] \in {ranked[1]}
    OBVIOUS
  <2>2. \A i \in 1 .. 1 - 1 + 1 : SubSeq(ranked, 1, 1)[i] = ranked[1 + i - 1]
    BY <2>1, SubSeqProperties
  <2> QED BY <2>2
<1> QED BY <1>6, <1>9, <1>10, <1>11, <1>12

-----------------------------------------------------------------------------
(* The bounds of the table.                                                *)

(* A power of two counts the subsets of an interval.                       *)
LEMMA Powers ==
    ASSUME NEW n \in Nat
    PROVE  2 ^ n \in Nat /\ 2 ^ n >= 1
<1>1. IsFiniteSet(1 .. n) /\ Cardinality(1 .. n) = n
  BY FS_Interval
<1>2. IsFiniteSet(SUBSET (1 .. n)) /\ Cardinality(SUBSET (1 .. n)) = 2 ^ n
  BY <1>1, FS_SUBSET
<1>3. PICK k \in Nat : k = Cardinality(SUBSET (1 .. n)) /\ k = 2 ^ n
  BY <1>2, FS_CardinalityType
<1>4. k # 0
  <2>1. SUBSET (1 .. n) # {}
    OBVIOUS
  <2> QED BY <1>2, <1>3, <2>1, FS_EmptySet
<1> QED BY <1>3, <1>4

(* The interval between probes never leaves its bounds.                    *)
LEMMA IntervalBounds == Intervals \subseteq Floor .. Ceil
<1> SUFFICES ASSUME NEW n \in 0 .. MaxFailures PROVE nextProbeInterval(n) \in Floor .. Ceil
  BY DEF Intervals
<1>1. PICK p \in Nat : p = 2 ^ n /\ p >= 1
  <2>1. n \in Nat
    BY Bounds
  <2> QED BY <2>1, Powers
<1>2. nextProbeInterval(n) = UpTo(p * 1, Ceil)
  BY <1>1 DEF nextProbeInterval, Floor
<1> QED BY <1>1, <1>2, HealthAssumption DEF UpTo, Floor

LinksInv ==
    /\ links \in [Channels -> {"none", "serving", "probe"}]
    /\ disturbed \subseteq Listed

LEMMA NextChannelLinks ==
    ASSUME IInv, LinksInv, due # <<>>, NextChannel
    PROVE  LinksInv'
<1>1. PICK n \in Nat \ {0} : n = Len(due) /\ DOMAIN due = 1 .. n /\ due \in [1 .. n -> DueChannel]
  BY DEF IInv, TypeInv
<1>2. /\ DOMAIN due' = 1 .. (n - 1) /\ Head(due) = due[1]
      /\ \A i \in 1 .. (n - 1) : due'[i] = due[i + 1]
  BY <1>1 DEF NextChannel, IInv, TypeInv
<1>3. ASSUME NEW c \in disturbed' PROVE c \in Listed'
  <2>1. c \in disturbed /\ c # due[1].id
    BY <1>2, <1>3 DEF NextChannel
  <2>2. PICK i \in 1 .. n : c = due[i].id /\ i # 1
    BY <1>1, <2>1 DEF LinksInv, Listed
  <2>3. PICK j \in 1 .. (n - 1) : i = j + 1
    BY <2>2
  <2> QED BY <1>2, <2>2, <2>3 DEF Listed
<1> QED BY <1>3 DEF NextChannel, LinksInv

LEMMA LinksNext == IInv /\ LinksInv /\ [Next]_vars => LinksInv'
<1> SUFFICES ASSUME IInv, LinksInv, [Next]_vars PROVE LinksInv'
  OBVIOUS
<1>1. UNCHANGED due => Listed' = Listed
  BY DEF Listed
<1>2. CASE UNCHANGED vars
  BY <1>1, <1>2 DEF vars, LinksInv
<1>3. CASE Tick
  BY <1>1, <1>3 DEF Tick, LinksInv
<1>4. CASE DataPlane
  BY <1>1, <1>4 DEF DataPlane, RecordSuccess, RecordFailure, LinksInv
<1>5. ASSUME NEW c \in Channels, SetStatus(c) PROVE LinksInv'
  BY <1>1, <1>5 DEF SetStatus, LinksInv
<1>6. ASSUME NEW c \in Channels, UpsertChannelModel(c) PROVE LinksInv'
  BY <1>1, <1>6 DEF UpsertChannelModel, LinksInv
<1>7. CASE ListDue
  <2>1. due = <<>> /\ UNCHANGED <<links, disturbed>>
    BY <1>7 DEF ListDue, IInv, TypeInv
  <2>2. Listed = {}
    BY <2>1 DEF Listed
  <2> QED BY <2>1, <2>2 DEF LinksInv
<1>8. CASE Check
  <2>1. due # <<>>
    BY <1>8 DEF Check, SkipChannel, LoadChannel, AutoProbe, TouchProbe, TouchProbeFails, IInv, TypeInv
  <2>2. CASE NextChannel
    BY <2>1, <2>2, NextChannelLinks
  <2>3. CASE LoadChannel
    BY <1>1, <2>3 DEF LoadChannel, LinksInv
  <2>4. CASE AutoProbe
    <3>1. Head(due).id \in Listed
      BY <2>1, AtHead DEF Listed
    <3>2. /\ UNCHANGED <<links, due>>
          /\ disturbed' = disturbed \/ disturbed' = disturbed \cup {Head(due).id}
      BY <2>4 DEF AutoProbe
    <3> QED BY <1>1, <3>1, <3>2 DEF LinksInv
  <2> QED BY <1>8, <2>2, <2>3, <2>4 DEF Check, SkipChannel, TouchProbe, TouchProbeFails
<1>9. CASE Exit \/ Start
  BY <1>1, <1>9 DEF Exit, Start, LinksInv
<1> QED BY <1>2, <1>3, <1>4, <1>5, <1>6, <1>7, <1>8, <1>9 DEF Next

LEMMA LinksInit == Init => LinksInv
  BY DEF Init, LinksInv

LEMMA Reachable == IInv /\ LinksInv => AlwaysReachable
<1> SUFFICES ASSUME IInv, LinksInv PROVE AlwaysReachable
  OBVIOUS
<1>1. ChannelRow \subseteq Row
  BY IntervalBounds DEF ChannelRow, Row
<1>2. TypeOK
  BY <1>1 DEF IInv, TypeInv, LinksInv, TypeOK
<1> QED BY <1>2, NoneIsHidden, NobodyStarves DEF AlwaysReachable, IInv

(* Bad health hides no channel in service from the router, and takes from  *)
(* none every chance of being tried first, for any number of channels, any *)
(* weights that may be stored and in any state of the table; only a        *)
(* credential that cannot be read does (health.go: ScoreChannel; route.go: *)
(* Router.Rank; routing.go: ListCandidates).                               *)
THEOREM ReachableProved == Spec => []AlwaysReachable
  BY InitInv, NextInv, LinksInit, LinksNext, Reachable, PTL DEF Spec

=============================================================================
