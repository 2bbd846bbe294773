---------------------------- MODULE PricingProofs ----------------------------
(***************************************************************************)
(* What holds of prices for every card, usage and width of an integer, and *)
(* of their publication for any number of admins, models and operations.   *)
(*                                                                         *)
(* Publication: prices are only added and the clock only grows, so what an *)
(* operation has read of them stays true (Grow, PendingStays).  An edit    *)
(* may falsify what it has read of the model, and then the model counts as *)
(* edited.  Every version was checked for the capabilities of some model   *)
(* that uses its key (BookInv), and every published key has a version that *)
(* has begun (ModelInv).                                                   *)
(*                                                                         *)
(* Charges: the recursive functions of Pricing are iterations (Iterates).  *)
(* The references of a unit lead from unit to unit, and a walk as long as  *)
(* there are units has met one twice, so it ends in a card without a cycle *)
(* (ReferenceEnds).  Tiers replace each other in ascending order, so the   *)
(* last that was passed is the highest (TiersReplace).  A sum of five      *)
(* products that an int64 may each hold after their rounding does not wrap *)
(* around 128 bits (LinesAreNear), so one rounding of it is exact, and the *)
(* five roundings of its parts are half a unit away each (ItemsAreClose).  *)
(***************************************************************************)
EXTENDS CatalogAdmin, Charging, WellFoundedInduction, NaturalsInduction,
        FiniteSetTheorems, SequenceTheorems, TLAPS

Pcs == {"idle", "row", "price", "usage", "write", "reread", "record"}

Seen == {None} \cup UNION {Windows[m] : m \in Models}

Op == [pc : Pcs, asked : Asked \cup {None}, row : Row \cup {None},
       price : Version \cup {None}, window : Seen]

TypeInv ==
    /\ book \subseteq Version /\ DOMAIN cards = book
    /\ models \in [Models -> Row \cup {None}]
    /\ stats \in [Models -> Seen] /\ StatsOK(stats)
    /\ audit \in [Models -> Nat]
    /\ clock \in Instants
    /\ op \in [Admins -> Op]
    /\ history \in History

(* The model was read, and the operation will still use what it read.      *)
HasRead(o) == o.pc \in {"price", "usage"} \/ (o.pc = "write" /\ o.asked.kind # "edit")

(* What the operation o knows of the tables.                               *)
Pending(o) ==
    /\ o.price \in book \cup {None}
    /\ o.pc # "idle" => o.asked \in Asked /\ ValidRequest(o.asked)
    /\ HasRead(o) =>
         LET m == o.asked.model IN
         /\ o.row \in Row /\ models[m] # None
         /\ m \in history.users[o.row.metadata.billing]
         /\ m \notin history.edited => models[m].metadata = o.row.metadata
    /\ HasRead(o) /\ o.pc # "price" /\ o.price # None =>
         /\ o.price.from <= clock
         /\ o.price.subject \in {o.row.metadata.billing, o.asked.model}

(* A model that can be called was published under a key with a price.      *)
ModelInv ==
    \A m \in Models :
        /\ models[m] # None => m \in history.users[models[m].metadata.billing]
        /\ ResolveCallable(m) =>
             LET key == history.published[m] IN
             /\ key \in Subjects /\ Started(key, clock) # {}
             /\ m \notin history.edited => key \in {models[m].metadata.billing, m}

(* The card has what Publish asks of a model with the capabilities.        *)
Complete(price, capabilities) ==
    /\ Declared(price.units, "input") /\ Declared(price.units, "output")
    /\ "cache" \in capabilities => Has(price.units, "cache_read")

BookInv ==
    \A v \in book : \E m \in history.users[v.subject] :
        /\ m \in Models /\ models[m] # None
        /\ m \notin history.edited => Complete(cards[v], models[m].metadata.capabilities)

IInv ==
    /\ TypeInv
    /\ \A a \in Admins : Pending(op[a])
    /\ ModelInv /\ BookInv
    /\ ChangesAudited

-----------------------------------------------------------------------------
(* The tables grow.                                                        *)

Grow ==
    /\ book \subseteq book'
    /\ clock <= clock'
    /\ \A s \in Subjects : history.users[s] \subseteq history.users'[s]
    /\ history.edited \subseteq history.edited'
    /\ \A m \in Models : models[m] # None =>
         /\ models'[m] # None
         /\ m \notin history.edited' => models'[m].metadata = models[m].metadata

LEMMA PendingStays ==
    ASSUME TypeInv, TypeInv', Grow, NEW o \in Op, Pending(o)
    PROVE  Pending(o)'
<1>1. clock \in Nat /\ clock' \in Nat
  BY ClockAssumption DEF TypeInv
<1>2. \A v \in Version : v.from \in Nat
  BY ClockAssumption DEF Version
<1>3. HasRead(o) => o.asked \in Asked
  BY DEF Pending, HasRead
<1>4. ASSUME HasRead(o)
      PROVE  /\ o.asked.model \in Models
             /\ o.row \in Row => o.row.metadata.billing \in Subjects
  BY <1>3, <1>4, AskedAssumption DEF Row, Metadata
<1>5. o.price \in Version \cup {None}
  BY DEF Op
<1>6. o.pc # "idle" => o.asked \in Asked /\ ValidRequest(o.asked)
  BY DEF Pending
<1>7. ASSUME HasRead(o)
      PROVE  /\ o.row \in Row /\ models'[o.asked.model] # None
             /\ o.asked.model \in history'.users[o.row.metadata.billing]
             /\ o.asked.model \notin history'.edited =>
                  models'[o.asked.model].metadata = o.row.metadata
  BY <1>4, <1>7 DEF Pending, Grow
<1>8. ASSUME HasRead(o), o.pc # "price", o.price # None
      PROVE  /\ o.price.from <= clock'
             /\ o.price.subject \in {o.row.metadata.billing, o.asked.model}
  BY <1>1, <1>2, <1>5, <1>8 DEF Pending, Grow
<1>9. o.price \in book' \cup {None}
  BY DEF Pending, Grow
<1> QED BY <1>6, <1>7, <1>8, <1>9 DEF Pending, HasRead

LEMMA OthersStay ==
    ASSUME IInv, TypeInv', Grow, NEW a \in Admins, NEW o \in Op,
           op' = [op EXCEPT ![a] = o], Pending(o)'
    PROVE  \A b \in Admins : Pending(op[b])'
<1> TAKE b \in Admins
<1>1. PICK p : p = op'[b]
  OBVIOUS
<1>2. CASE b = a
  <2>1. p = o
    BY <1>1, <1>2 DEF IInv, TypeInv
  <2> QED BY <1>1, <2>1
<1>3. CASE b # a
  <2>1. p = op[b] /\ p \in Op
    BY <1>1, <1>3 DEF IInv, TypeInv
  <2>2. Pending(p)
    BY <2>1 DEF IInv
  <2>3. Pending(p)'
    BY <2>1, <2>2, PendingStays DEF IInv
  <2> QED BY <1>1, <2>3
<1> QED BY <1>2, <1>3

-----------------------------------------------------------------------------
(* The audit: who has still to record a change of m.                       *)

Recording(o, m) == o.pc \in {"reread", "record"} /\ o.asked.model = m

Due(m) == {a \in Admins : Recording(op[a], m)}

LEMMA AuditIsDue ==
    /\ ChangesAudited <=> \A m \in Models : history.changes[m] = audit[m] + history.lost[m] + Cardinality(Due(m))
  BY DEF ChangesAudited, Due, Recording, Target

LEMMA DueIsFinite == \A m \in Models : IsFiniteSet(Due(m)) /\ Cardinality(Due(m)) \in Nat
<1> TAKE m \in Models
<1>1. Due(m) \subseteq Admins
  BY DEF Due
<1> QED BY <1>1, AdminsAssumption, FS_Subset, FS_CardinalityType

LEMMA DueAfter ==
    ASSUME TypeInv, NEW a \in Admins, NEW o, op' = [op EXCEPT ![a] = o], NEW m \in Models
    PROVE  /\ Recording(o, m) <=> Recording(op[a], m) => Due(m)' = Due(m)
           /\ Recording(o, m) /\ ~Recording(op[a], m) =>
                Due(m)' = Due(m) \cup {a} /\ a \notin Due(m)
           /\ ~Recording(o, m) /\ Recording(op[a], m) =>
                Due(m)' = Due(m) \ {a} /\ a \in Due(m)
<1>1. \A b \in Admins : op'[b] = IF b = a THEN o ELSE op[b]
  BY DEF TypeInv
<1> QED BY <1>1 DEF Due, Recording

(* Nothing changed, and nobody has a record more or less to write.         *)
LEMMA AuditStays ==
    ASSUME IInv, NEW a \in Admins, NEW o, op' = [op EXCEPT ![a] = o],
           \A m \in Models : Recording(o, m) <=> Recording(op[a], m),
           UNCHANGED <<audit, history.changes, history.lost>>
    PROVE  ChangesAudited'
<1>1. \A m \in Models : Due(m)' = Due(m)
  BY DueAfter DEF IInv
<1> QED BY <1>1, AuditIsDue DEF IInv, ChangesAudited, Due, Recording, Target

(* A change was made, and its record is to be written.                     *)
LEMMA AuditOwed ==
    ASSUME IInv, NEW a \in Admins, NEW o, op' = [op EXCEPT ![a] = o],
           NEW k \in Models, history'.changes = [history.changes EXCEPT ![k] = @ + 1],
           \A m \in Models : ~Recording(op[a], m) /\ (Recording(o, m) <=> m = k),
           UNCHANGED <<audit, history.lost>>
    PROVE  ChangesAudited'
<1> SUFFICES ASSUME NEW m \in Models
             PROVE  history'.changes[m] = audit'[m] + history'.lost[m] + Cardinality(Due(m)')
  BY DEF ChangesAudited, Due, Recording, Target
<1>1. history.changes[m] = audit[m] + history.lost[m] + Cardinality(Due(m))
  BY AuditIsDue DEF IInv
<1>2. /\ history.changes \in [Models -> Nat] /\ history.lost[m] \in Nat /\ audit[m] \in Nat
      /\ IsFiniteSet(Due(m)) /\ Cardinality(Due(m)) \in Nat
  BY DueIsFinite DEF IInv, TypeInv, History
<1>3. CASE m = k
  <2>1. Due(m)' = Due(m) \cup {a} /\ a \notin Due(m)
    BY <1>3, DueAfter DEF IInv
  <2>2. Cardinality(Due(m)') = Cardinality(Due(m)) + 1
    BY <1>2, <2>1, FS_AddElement
  <2> QED BY <1>1, <1>2, <1>3, <2>2
<1>4. CASE m # k
  <2>1. Due(m)' = Due(m)
    BY <1>4, DueAfter DEF IInv
  <2> QED BY <1>1, <1>2, <1>4, <2>1
<1> QED BY <1>3, <1>4

(* A record was written, or a failure took its place.                      *)
LEMMA AuditPaid ==
    ASSUME IInv, NEW a \in Admins, NEW o, op' = [op EXCEPT ![a] = o], NEW k \in Models,
           \/ audit' = [audit EXCEPT ![k] = @ + 1] /\ UNCHANGED history.lost
           \/ history'.lost = [history.lost EXCEPT ![k] = @ + 1] /\ UNCHANGED audit,
           \A m \in Models : ~Recording(o, m) /\ (Recording(op[a], m) <=> m = k),
           UNCHANGED history.changes
    PROVE  ChangesAudited'
<1> SUFFICES ASSUME NEW m \in Models
             PROVE  history'.changes[m] = audit'[m] + history'.lost[m] + Cardinality(Due(m)')
  BY DEF ChangesAudited, Due, Recording, Target
<1>1. history.changes[m] = audit[m] + history.lost[m] + Cardinality(Due(m))
  BY AuditIsDue DEF IInv
<1>2. /\ audit \in [Models -> Nat] /\ history.lost \in [Models -> Nat]
      /\ IsFiniteSet(Due(m)) /\ Cardinality(Due(m)) \in Nat
  BY DueIsFinite DEF IInv, TypeInv, History
<1>3. CASE m = k
  <2>1. Due(m)' = Due(m) \ {a} /\ a \in Due(m)
    BY <1>3, DueAfter DEF IInv
  <2>2. Cardinality(Due(m)') = Cardinality(Due(m)) - 1
    BY <1>2, <2>1, FS_RemoveElement
  <2> QED BY <1>1, <1>2, <1>3, <2>2
<1>4. CASE m # k
  <2>1. Due(m)' = Due(m)
    BY <1>4, DueAfter DEF IInv
  <2> QED BY <1>1, <1>2, <1>4, <2>1
<1> QED BY <1>3, <1>4

-----------------------------------------------------------------------------
(* Steps that leave models and prices alone.                               *)

LEMMA Quiet ==
    ASSUME IInv, NEW a \in Admins, NEW o \in Op, op' = [op EXCEPT ![a] = o], Pending(o),
           UNCHANGED <<book, models, cards, stats, clock>>,
           audit' \in [Models -> Nat], history' \in History,
           UNCHANGED <<history.published, history.users, history.edited>>,
           ChangesAudited'
    PROVE  IInv'
<1>1. TypeInv'
  BY DEF IInv, TypeInv, StatsOK
<1>2. Grow
  BY <1>1, ClockAssumption DEF Grow, TypeInv
<1>3. Pending(o)'
  BY <1>1, <1>2, PendingStays DEF IInv
<1>4. \A b \in Admins : Pending(op[b])'
  BY <1>1, <1>2, <1>3, OthersStay
<1>5. ModelInv' /\ BookInv'
  BY DEF IInv, ModelInv, BookInv, ResolveCallable, Started
<1> QED BY <1>1, <1>4, <1>5 DEF IInv

LEMMA IdleIsOp == /\ Idle \in Op /\ Pending(Idle) /\ Idle.price = None
                  /\ \A m : ~Recording(Idle, m)
<1>1. None \in Seen
  BY DEF Seen
<1>2. Idle \in Op /\ Idle.pc = "idle" /\ Idle.price = None
  BY <1>1 DEF Idle, Op, Pcs
<1> QED BY <1>2 DEF Pending, HasRead, Recording

LEMMA Same == IInv => audit \in [Models -> Nat] /\ history \in History
  BY DEF IInv, TypeInv

LEMMA StartInv ==
    ASSUME IInv, NEW a \in Admins, NEW r \in Asked, Start(a, r)
    PROVE  IInv'
<1>1. PICK pc \in {"write", "row"} : pc = IF r.kind = "edit" THEN "write" ELSE "row"
  OBVIOUS
<1>2. PICK o : o = [Idle EXCEPT !.pc = pc, !.asked = r]
  OBVIOUS
<1>3. o \in Op /\ o.pc = pc /\ o.asked = r /\ o.price = None
  BY <1>2, IdleIsOp DEF Op, Pcs
<1>4. op' = [op EXCEPT ![a] = o] /\ op[a] = Idle /\ ValidRequest(r)
  BY <1>1, <1>2 DEF Start
<1>5. Pending(o)
  BY <1>1, <1>3, <1>4 DEF Pending, HasRead
<1>6. \A m \in Models : Recording(o, m) <=> Recording(op[a], m)
  BY <1>3, <1>4, IdleIsOp DEF Recording
<1>7. UNCHANGED <<book, models, cards, stats, audit, clock, history>>
  BY DEF Start
<1>8. ChangesAudited'
  BY <1>4, <1>6, <1>7, AuditStays
<1> QED BY <1>3, <1>4, <1>5, <1>7, <1>8, Quiet, Same

(* An operation that is over without having changed anything.              *)
LEMMA ReturnInv ==
    ASSUME IInv, NEW a \in Admins, ModelNotFound(a) \/ Refuse(a)
    PROVE  IInv'
<1>1. /\ op' = [op EXCEPT ![a] = Idle]
      /\ UNCHANGED <<book, models, cards, stats, audit, clock, history>>
      /\ op[a].pc \in {"row", "write"}
  BY DEF ModelNotFound, Refuse, Return, Writing
<1>2. \A m \in Models : Recording(Idle, m) <=> Recording(op[a], m)
  BY <1>1, IdleIsOp DEF Recording
<1>3. ChangesAudited'
  BY <1>1, <1>2, AuditStays
<1> QED BY <1>1, <1>3, IdleIsOp, Quiet, Same

LEMMA ReadRowInv ==
    ASSUME IInv, NEW a \in Admins, ReadRow(a)
    PROVE  IInv'
<1>1. PICK p : p = op[a] /\ p \in Op /\ Pending(p)
  BY DEF IInv, TypeInv
<1>2. PICK pc \in Pcs : pc = "price"
  BY DEF Pcs
<1>3. PICK m \in Models : m = p.asked.model /\ p.asked \in Asked /\ ValidRequest(p.asked)
  BY <1>1, AskedAssumption DEF ReadRow, Pending
<1>4. p.pc = "row" /\ models[m] \in Row
  BY <1>1, <1>3 DEF ReadRow, Target, IInv, TypeInv
<1>5. PICK o : o = [p EXCEPT !.pc = pc, !.row = models[m]]
  OBVIOUS
<1>6. o \in Op /\ o.pc = pc /\ o.asked = p.asked /\ o.row = models[m] /\ o.price = p.price
  BY <1>1, <1>4, <1>5 DEF Op
<1>7. op' = [op EXCEPT ![a] = o]
  BY <1>1, <1>2, <1>3, <1>5 DEF ReadRow, Target, IInv, TypeInv
<1>8. Pending(o)
  <2>1. models[m] # None /\ m \in history.users[models[m].metadata.billing]
    BY <1>3, <1>4, NoneAssumption DEF IInv, ModelInv
  <2>2. o.price \in book \cup {None}
    BY <1>1, <1>6 DEF Pending
  <2> QED BY <1>2, <1>3, <1>4, <1>6, <2>1, <2>2 DEF Pending, HasRead
<1>9. \A k \in Models : Recording(o, k) <=> Recording(op[a], k)
  BY <1>1, <1>2, <1>4, <1>6 DEF Recording
<1>10. UNCHANGED <<book, models, cards, stats, audit, clock, history>>
  BY DEF ReadRow
<1>11. ChangesAudited'
  BY <1>7, <1>9, <1>10, AuditStays
<1> QED BY <1>6, <1>7, <1>8, <1>10, <1>11, Quiet, Same

(* A price in force is one that has begun, of the key or of the model.     *)
LEMMA PriceFound ==
    ASSUME TypeInv, NEW key, NEW m
    PROVE  LET v == CurrentPrice(key, m) IN
           v # None => v \in book /\ v \in Version /\ v.from <= clock /\ v.subject \in {key, m}
  BY DEF CurrentPrice, InForce, Started, TypeInv

LEMMA ReadPriceInv ==
    ASSUME IInv, NEW a \in Admins, ReadPrice(a)
    PROVE  IInv'
<1>1. PICK p : p = op[a] /\ p \in Op /\ Pending(p) /\ p.pc = "price"
  BY DEF IInv, TypeInv, ReadPrice
<1>2. PICK pc \in Pcs : pc = IF p.asked.kind = "price" THEN "usage" ELSE "write"
  BY DEF Pcs
<1>3. PICK v : v = CurrentPrice(p.row.metadata.billing, p.asked.model)
  OBVIOUS
<1>4. v # None => v \in book /\ v \in Version /\ v.from <= clock
                  /\ v.subject \in {p.row.metadata.billing, p.asked.model}
  BY <1>3, PriceFound DEF IInv
<1>5. PICK o : o = [p EXCEPT !.pc = pc, !.price = v]
  OBVIOUS
<1>6. o \in Op /\ o.pc = pc /\ o.asked = p.asked /\ o.row = p.row /\ o.price = v
  BY <1>1, <1>4, <1>5 DEF Op
<1>7. op' = [op EXCEPT ![a] = o]
  BY <1>1, <1>2, <1>3, <1>5 DEF ReadPrice, Target, IInv, TypeInv
<1>8. Pending(o)
  BY <1>1, <1>2, <1>4, <1>6 DEF Pending, HasRead
<1>9. \A k \in Models : Recording(o, k) <=> Recording(op[a], k)
  BY <1>1, <1>2, <1>6 DEF Recording
<1>10. UNCHANGED <<book, models, cards, stats, audit, clock, history>>
  BY DEF ReadPrice
<1>11. ChangesAudited'
  BY <1>7, <1>9, <1>10, AuditStays
<1> QED BY <1>6, <1>7, <1>8, <1>10, <1>11, Quiet, Same

LEMMA ReadUsageInv ==
    ASSUME IInv, NEW a \in Admins, ReadUsage(a)
    PROVE  IInv'
<1>1. PICK p : p = op[a] /\ p \in Op /\ Pending(p) /\ p.pc = "usage"
  BY DEF IInv, TypeInv, ReadUsage
<1>2. PICK pc \in Pcs : pc = "write"
  BY DEF Pcs
<1>3. p.asked \in Asked /\ p.asked.model \in Models
  BY <1>1, AskedAssumption DEF Pending
<1>4. PICK w \in Seen : w = stats[p.asked.model]
  BY <1>3 DEF IInv, TypeInv
<1>5. PICK o : o = [p EXCEPT !.pc = pc, !.window = w]
  OBVIOUS
<1>6. o \in Op /\ o.pc = pc /\ o.asked = p.asked /\ o.row = p.row /\ o.price = p.price
  BY <1>1, <1>5 DEF Op
<1>7. op' = [op EXCEPT ![a] = o]
  BY <1>1, <1>2, <1>4, <1>5 DEF ReadUsage, Target, IInv, TypeInv
<1>8. Pending(o)
  BY <1>1, <1>2, <1>6 DEF Pending, HasRead
<1>9. \A k \in Models : Recording(o, k) <=> Recording(op[a], k)
  BY <1>1, <1>2, <1>6 DEF Recording
<1>10. UNCHANGED <<book, models, cards, stats, audit, clock, history>>
  BY DEF ReadUsage
<1>11. ChangesAudited'
  BY <1>7, <1>9, <1>10, AuditStays
<1> QED BY <1>6, <1>7, <1>8, <1>10, <1>11, Quiet, Same

(* Moving on, from any place, to one of the two that record.               *)
LEMMA Moved ==
    ASSUME IInv, NEW a \in Admins, NEW pc \in {"reread", "record"}, Goto(a, pc), op[a].pc # "idle",
           book \subseteq book'
    PROVE  \E o \in Op : /\ op' = [op EXCEPT ![a] = o] /\ o.pc = pc /\ o.asked = op[a].asked
                         /\ op[a].asked \in Asked /\ op[a].asked.model \in Models
                         /\ Pending(o) /\ Pending(o)'
                         /\ \A m \in Models : Recording(o, m) <=> m = Target(a)
<1>1. PICK p : p = op[a] /\ p \in Op /\ Pending(p)
  BY DEF IInv, TypeInv
<1>2. PICK o : o = [p EXCEPT !.pc = pc]
  OBVIOUS
<1>3. o \in Op /\ o.pc = pc /\ o.asked = p.asked /\ o.price = p.price
  BY <1>1, <1>2 DEF Op, Pcs
<1>4. op' = [op EXCEPT ![a] = o]
  BY <1>1, <1>2 DEF Goto, IInv, TypeInv
<1>5. p.asked \in Asked /\ ValidRequest(p.asked) /\ p.asked.model \in Models
  BY <1>1, AskedAssumption DEF Pending
<1>6. ~HasRead(o) /\ ValidRequest(o.asked)
  BY <1>3, <1>5 DEF HasRead
<1>7. Pending(o) /\ Pending(o)'
  <2>1. o.price \in book \cup {None} /\ o.price \in book' \cup {None}
    BY <1>1, <1>3 DEF Pending
  <2> QED BY <1>3, <1>5, <1>6, <2>1 DEF Pending, HasRead
<1> QED BY <1>1, <1>3, <1>4, <1>5, <1>7 DEF Recording, Target

LEMMA RereadInv ==
    ASSUME IInv, NEW a \in Admins, Reread(a)
    PROVE  IInv'
<1>1. PICK pc \in {"reread", "record"} : pc = "record"
  OBVIOUS
<1>2. Goto(a, pc) /\ op[a].pc = "reread"
  BY <1>1 DEF Reread
<1>3. UNCHANGED <<book, models, cards, stats, audit, clock, history>>
  BY DEF Reread
<1>4. PICK o \in Op : /\ op' = [op EXCEPT ![a] = o] /\ Pending(o)
                      /\ \A m \in Models : Recording(o, m) <=> m = Target(a)
  BY <1>2, <1>3, Moved
<1>5. \A m \in Models : Recording(o, m) <=> Recording(op[a], m)
  BY <1>2, <1>4 DEF Recording, Target
<1>6. ChangesAudited'
  BY <1>3, <1>4, <1>5, AuditStays
<1> QED BY <1>3, <1>4, <1>6, Quiet, Same

LEMMA RecordInv ==
    ASSUME IInv, NEW a \in Admins, Record(a)
    PROVE  IInv'
<1>1. op[a].asked \in Asked /\ Target(a) \in Models
  BY AskedAssumption DEF Record, IInv, Pending, Target
<1>2. /\ op[a].pc = "record" /\ op' = [op EXCEPT ![a] = Idle]
      /\ audit' = [audit EXCEPT ![Target(a)] = @ + 1]
      /\ UNCHANGED <<book, models, cards, stats, clock, history>>
  BY DEF Record, Return
<1>3. audit' \in [Models -> Nat]
  BY <1>1, <1>2, Same
<1>4. \A m \in Models : ~Recording(Idle, m) /\ (Recording(op[a], m) <=> m = Target(a))
  BY <1>2, IdleIsOp DEF Recording, Target
<1>5. ChangesAudited'
  BY <1>1, <1>2, <1>4, AuditPaid
<1> QED BY <1>2, <1>3, <1>5, IdleIsOp, Quiet, Same

LEMMA FailInv ==
    ASSUME IInv, NEW a \in Admins, Fail(a)
    PROVE  IInv'
<1>1. op' = [op EXCEPT ![a] = Idle] /\ UNCHANGED <<book, models, cards, stats, audit, clock>>
  BY DEF Fail, Return
<1>2. CASE op[a].pc \in {"reread", "record"}
  <2>1. op[a].asked \in Asked /\ Target(a) \in Models
    BY <1>2, AskedAssumption DEF IInv, Pending, Target
  <2>2. history' = [history EXCEPT !.lost[Target(a)] = @ + 1]
    BY <1>2 DEF Fail
  <2>3. /\ history' \in History
        /\ history'.lost = [history.lost EXCEPT ![Target(a)] = @ + 1]
        /\ UNCHANGED <<history.published, history.users, history.edited, history.changes>>
    BY <2>1, <2>2, Same DEF History
  <2>4. \A m \in Models : ~Recording(Idle, m) /\ (Recording(op[a], m) <=> m = Target(a))
    BY <1>2, IdleIsOp DEF Recording, Target
  <2>5. ChangesAudited'
    BY <1>1, <2>1, <2>3, <2>4, AuditPaid
  <2> QED BY <1>1, <2>3, <2>5, IdleIsOp, Quiet, Same
<1>3. CASE op[a].pc \notin {"reread", "record"}
  <2>1. UNCHANGED history
    BY <1>3 DEF Fail
  <2>2. \A m \in Models : Recording(Idle, m) <=> Recording(op[a], m)
    BY <1>3, IdleIsOp DEF Recording
  <2>3. ChangesAudited'
    BY <1>1, <2>1, <2>2, AuditStays
  <2> QED BY <1>1, <2>1, <2>3, IdleIsOp, Quiet, Same
<1> QED BY <1>2, <1>3

-----------------------------------------------------------------------------
(* The statements that change something.                                   *)

(* What is left to show when the tables grow.                              *)
LEMMA Written ==
    ASSUME IInv, TypeInv', Grow, ModelInv', BookInv', NEW a \in Admins, NEW o \in Op,
           op' = [op EXCEPT ![a] = o], Pending(o)',
           NEW k \in Models, history'.changes = [history.changes EXCEPT ![k] = @ + 1],
           \A m \in Models : ~Recording(op[a], m) /\ (Recording(o, m) <=> m = k),
           UNCHANGED <<audit, history.lost>>
    PROVE  IInv'
<1>1. ChangesAudited'
  BY AuditOwed
<1>2. \A b \in Admins : Pending(op[b])'
  BY OthersStay
<1> QED BY <1>1, <1>2 DEF IInv

(* Each write, as far as the next lemmas have it in common.                *)
LEMMA Writes ==
    ASSUME IInv, NEW a \in Admins,
           UpsertModel(a) \/ PublishModel(a) \/ Delist(a) \/ PublishPrice(a)
    PROVE  /\ op[a] \in Op /\ op[a].asked \in Asked /\ Target(a) \in Models
           /\ op[a].pc = "write" /\ Pending(op[a])
           /\ \A m \in Models : ~Recording(op[a], m)
           /\ \E o \in Op : /\ op' = [op EXCEPT ![a] = o] /\ Pending(o)'
                            /\ \A m \in Models : Recording(o, m) <=> m = Target(a)
<1>1. op[a].pc = "write" /\ op[a] \in Op /\ Pending(op[a])
  BY DEF UpsertModel, PublishModel, Delist, PublishPrice, Writing, IInv, TypeInv
<1>2. PICK pc \in {"reread", "record"} : Goto(a, pc)
  BY DEF UpsertModel, PublishModel, Delist, PublishPrice
<1>3. op[a].asked \in Asked /\ Target(a) \in Models
  BY <1>1, AskedAssumption DEF Pending, Target
<1>4. \A m \in Models : ~Recording(op[a], m)
  BY <1>1 DEF Recording
<1>5. book \subseteq book'
  BY DEF UpsertModel, PublishModel, Delist, PublishPrice, Publish
<1> QED BY <1>1, <1>2, <1>3, <1>4, <1>5, Moved

LEMMA DelistInv ==
    ASSUME IInv, NEW a \in Admins, Delist(a)
    PROVE  IInv'
<1>1. PICK k \in Models : k = Target(a)
  BY Writes
<1>2. /\ \A m \in Models : ~Recording(op[a], m)
      /\ \E o \in Op : /\ op' = [op EXCEPT ![a] = o] /\ Pending(o)'
                       /\ \A m \in Models : Recording(o, m) <=> m = k
  BY <1>1, Writes
<1>3. PICK o \in Op : /\ op' = [op EXCEPT ![a] = o] /\ Pending(o)'
                      /\ \A m \in Models : Recording(o, m) <=> m = k
  BY <1>2
<1>4. Pending(op[a]) /\ HasRead(op[a]) /\ models[k] # None
  BY <1>1, Writes DEF Delist, Writing, HasRead, Pending, Target
<1>5. PICK row \in Row : row = [models[k] EXCEPT !.status = "delisted", !.canary = None]
  BY <1>4 DEF IInv, TypeInv, Row, Statuses
<1>6. row.metadata = models[k].metadata /\ row.status = "delisted"
  BY <1>4, <1>5 DEF IInv, TypeInv, Row
<1>7. /\ models' = [models EXCEPT ![k] = row]
      /\ history' = [history EXCEPT !.changes[k] = @ + 1]
      /\ UNCHANGED <<book, cards, stats, audit, clock>>
  BY <1>1, <1>4, <1>5 DEF Delist, SetStatus, Changed, IInv, TypeInv
<1>8. /\ history' \in History /\ history'.changes = [history.changes EXCEPT ![k] = @ + 1]
      /\ UNCHANGED <<history.published, history.users, history.edited, history.lost>>
  BY <1>7, Same DEF History
<1>9. /\ models' \in [Models -> Row \cup {None}] /\ models'[k] = row
      /\ \A m \in Models \ {k} : models'[m] = models[m]
  BY <1>7 DEF IInv, TypeInv
<1>10. row # None
  BY NoneAssumption
<1>11. TypeInv'
  BY <1>3, <1>7, <1>8, <1>9 DEF IInv, TypeInv, StatsOK
<1>12. Grow
  BY <1>6, <1>7, <1>8, <1>9, <1>10, <1>11, ClockAssumption DEF Grow, TypeInv
<1>13. ModelInv'
  <2>1. row.status \notin Callable
    BY <1>6 DEF Callable
  <2> QED BY <1>4, <1>6, <1>7, <1>8, <1>9, <1>10, <2>1
      DEF IInv, ModelInv, ResolveCallable, Started
<1>14. BookInv'
  BY <1>4, <1>6, <1>7, <1>8, <1>9, <1>10 DEF IInv, BookInv
<1>15. \A m \in Models : ~Recording(op[a], m) /\ (Recording(o, m) <=> m = k)
  BY <1>2, <1>3
<1>16. history'.changes = [history.changes EXCEPT ![k] = @ + 1] /\ UNCHANGED <<audit, history.lost>>
  BY <1>7, <1>8
<1>17. op' = [op EXCEPT ![a] = o] /\ Pending(o)'
  BY <1>3
<1> QED BY <1>11, <1>12, <1>13, <1>14, <1>15, <1>16, <1>17, Written

LEMMA PublishModelInv ==
    ASSUME IInv, NEW a \in Admins, PublishModel(a)
    PROVE  IInv'
<1>1. PICK k \in Models, p \in Op : k = Target(a) /\ p = op[a] /\ p.asked \in Asked
                                    /\ Pending(p) /\ p.pc = "write" /\ k = p.asked.model
  BY Writes DEF Target
<1>2. \A m \in Models : ~Recording(op[a], m)
  BY Writes
<1>3. PICK o \in Op : /\ op' = [op EXCEPT ![a] = o] /\ Pending(o)'
                      /\ \A m \in Models : Recording(o, m) <=> m = k
  BY <1>1, Writes
<1>4. /\ HasRead(p) /\ p.asked.kind = "publish" /\ MayPublish(a)
  BY <1>1 DEF PublishModel, Writing, HasRead
<1>5. PICK v \in Version : /\ v = p.price /\ v \in book /\ v.from <= clock
                           /\ v.subject \in {p.row.metadata.billing, k}
  BY <1>1, <1>4 DEF Pending, MayPublish, Op
<1>6. /\ models[k] # None /\ models[k] \in Row
      /\ k \notin history.edited => models[k].metadata = p.row.metadata
      /\ v.subject \in Subjects
  BY <1>1, <1>4 DEF Pending, Version, IInv, TypeInv
<1>7. PICK status \in Statuses, percent \in {None} \cup 1 .. 101 :
           status = p.asked.status /\ percent = p.asked.percent
  BY <1>1, <1>4, AskedAssumption DEF Pending, ValidRequest, Callable, Statuses
<1>8. PICK row : row = [models[k] EXCEPT !.status = status, !.canary = percent]
  OBVIOUS
<1>9. row \in Row /\ row.metadata = models[k].metadata
  BY <1>6, <1>8 DEF Row
<1>10. models' = [models EXCEPT ![k] = row] /\ UNCHANGED <<book, cards, stats, audit, clock>>
  BY <1>1, <1>6, <1>7, <1>8 DEF PublishModel, SetStatus, IInv, TypeInv
<1>11. PICK s \in Subjects : s = v.subject
  BY <1>6
<1>12. PICK ch \in [Models -> Nat], pub \in [Models -> Subjects \cup {None}] :
           ch = [history.changes EXCEPT ![k] = @ + 1] /\ pub = [history.published EXCEPT ![k] = s]
  <2>1. history.changes \in [Models -> Nat] /\ history.published \in [Models -> Subjects \cup {None}]
    BY Same DEF History
  <2>2. [history.changes EXCEPT ![k] = @ + 1] \in [Models -> Nat]
    BY <2>1
  <2>3. [history.published EXCEPT ![k] = s] \in [Models -> Subjects \cup {None}]
    BY <2>1
  <2> QED BY <2>2, <2>3
<1>13. /\ history' \in History /\ history'.changes = ch /\ history'.published = pub
       /\ UNCHANGED <<history.users, history.edited, history.lost>>
  <2>1. op[a].price # None /\ op[a].price.subject = s
    BY <1>1, <1>4, <1>5, <1>11 DEF MayPublish
  <2>2. history' = [history EXCEPT !.changes = ch, !.published = pub]
    BY <1>1, <1>12, <2>1, Same DEF PublishModel, Changed, History
  <2> QED BY <2>2, Same DEF History
<1>14. /\ models' \in [Models -> Row \cup {None}] /\ models'[k] = row /\ row # None
       /\ \A m \in Models \ {k} : models'[m] = models[m]
  BY <1>9, <1>10, NoneAssumption DEF IInv, TypeInv
<1>15. /\ history'.published[k] = s
       /\ \A m \in Models \ {k} : history'.published[m] = history.published[m]
  BY <1>12, <1>13, Same DEF History
<1>16. TypeInv'
  BY <1>3, <1>10, <1>13, <1>14 DEF IInv, TypeInv, StatsOK
<1>17. Grow
  BY <1>9, <1>10, <1>13, <1>14, <1>16, ClockAssumption DEF Grow, TypeInv
<1>18. ModelInv'
  <2> SUFFICES ASSUME NEW m \in Models
               PROVE  /\ models'[m] # None => m \in history'.users[models'[m].metadata.billing]
                      /\ ResolveCallable(m)' =>
                           /\ history'.published[m] \in Subjects
                           /\ Started(history.published[m], clock)' # {}
                           /\ m \notin history'.edited =>
                                history'.published[m] \in {models'[m].metadata.billing, m}
    BY DEF ModelInv
  <2>1. CASE m = k
    <3>1. v \in Started(s, clock)'
      BY <1>5, <1>10, <1>11 DEF Started
    <3>2. m \in history'.users[row.metadata.billing]
      BY <1>6, <1>9, <1>13, <2>1 DEF IInv, ModelInv
    <3>3. m \notin history.edited => s \in {row.metadata.billing, m}
      BY <1>5, <1>6, <1>9, <1>11, <2>1
    <3>4. Started(history.published[m], clock)' = Started(s, clock)'
      BY <1>15, <2>1
    <3> QED BY <1>13, <1>14, <1>15, <2>1, <3>1, <3>2, <3>3, <3>4
  <2>2. CASE m # k
    BY <1>10, <1>13, <1>14, <1>15, <2>2 DEF IInv, ModelInv, ResolveCallable, Started
  <2> QED BY <2>1, <2>2
<1>19. BookInv'
  BY <1>6, <1>9, <1>10, <1>13, <1>14 DEF IInv, BookInv
<1>20. history'.changes = [history.changes EXCEPT ![k] = @ + 1] /\ UNCHANGED <<audit, history.lost>>
  BY <1>10, <1>12, <1>13
<1>21. \A m \in Models : ~Recording(op[a], m) /\ (Recording(o, m) <=> m = k)
  BY <1>2, <1>3
<1>22. op' = [op EXCEPT ![a] = o] /\ Pending(o)'
  BY <1>3
<1> QED BY <1>16, <1>17, <1>18, <1>19, <1>20, <1>21, <1>22, Written

LEMMA UpsertModelInv ==
    ASSUME IInv, NEW a \in Admins, UpsertModel(a)
    PROVE  IInv'
<1>1. PICK k \in Models, p \in Op : k = Target(a) /\ p = op[a] /\ p.asked \in Asked
                                    /\ p.asked.kind = "edit"
  BY Writes DEF UpsertModel, Writing
<1>2. \A m \in Models : ~Recording(op[a], m)
  BY Writes
<1>3. PICK o \in Op : /\ op' = [op EXCEPT ![a] = o] /\ Pending(o)'
                      /\ \A m \in Models : Recording(o, m) <=> m = k
  BY <1>1, Writes
<1>4. PICK metadata \in Metadata : metadata = p.asked.metadata
  BY <1>1, AskedAssumption
<1>5. PICK row : row = EditedRow(models[k], metadata)
  OBVIOUS
<1>6. /\ row \in Row /\ row.metadata = metadata
      /\ models[k] = None => row.status = "draft"
      /\ models[k] # None => row.status = models[k].status
  <2>1. models[k] \in Row \cup {None}
    BY DEF IInv, TypeInv
  <2> QED BY <1>5, <2>1 DEF EditedRow, NewModel, Row, Statuses
<1>7. models' = [models EXCEPT ![k] = row] /\ UNCHANGED <<book, cards, stats, audit, clock>>
  BY <1>1, <1>4, <1>5 DEF UpsertModel
<1>8. PICK ch \in [Models -> Nat], users \in [Subjects -> SUBSET Models], edited \in SUBSET Models :
         /\ ch = [history.changes EXCEPT ![k] = @ + 1]
         /\ users = [s \in Subjects |-> IF s \in {k, metadata.billing}
                                        THEN history.users[s] \cup {k} ELSE history.users[s]]
         /\ edited = IF models[k] \in {None, row} THEN history.edited ELSE history.edited \cup {k}
  <2>1. /\ history.changes \in [Models -> Nat] /\ history.users \in [Subjects -> SUBSET Models]
        /\ history.edited \in SUBSET Models
    BY Same DEF History
  <2>2. [history.changes EXCEPT ![k] = @ + 1] \in [Models -> Nat]
    BY <2>1
  <2>3. [s \in Subjects |-> IF s \in {k, metadata.billing}
                          THEN history.users[s] \cup {k} ELSE history.users[s]]
          \in [Subjects -> SUBSET Models]
    BY <2>1
  <2>4. (IF models[k] \in {None, row} THEN history.edited ELSE history.edited \cup {k})
          \in SUBSET Models
    BY <2>1
  <2> QED BY <2>2, <2>3, <2>4
<1>9. /\ history' \in History /\ history'.changes = ch
      /\ history'.users = users /\ history'.edited = edited
      /\ UNCHANGED <<history.published, history.lost>>
  <2>1. history' = [history EXCEPT !.changes = ch, !.edited = edited, !.users = users]
    BY <1>1, <1>4, <1>5, <1>6, <1>8, Same DEF UpsertModel, Changed, History
  <2> QED BY <2>1, Same DEF History
<1>10. /\ models' \in [Models -> Row \cup {None}] /\ models'[k] = row /\ row # None
       /\ \A m \in Models \ {k} : models'[m] = models[m]
  BY <1>6, <1>7, NoneAssumption DEF IInv, TypeInv
<1>11. /\ \A s \in Subjects : history.users[s] \subseteq users[s]
       /\ metadata.billing \in Subjects /\ k \in users[metadata.billing]
       /\ history.edited \subseteq edited
       /\ models[k] # None /\ k \notin edited => models[k] = row
  BY <1>4, <1>8 DEF Metadata
<1>12. TypeInv'
  BY <1>3, <1>7, <1>9, <1>10 DEF IInv, TypeInv, StatsOK
<1>13. \A m \in Models : models[m] # None =>
          models'[m] # None /\ (m \notin edited => models'[m].metadata = models[m].metadata)
  BY <1>10, <1>11
<1>14. Grow
  BY <1>7, <1>9, <1>11, <1>12, <1>13, ClockAssumption DEF Grow, TypeInv
<1>15. ModelInv'
  <2> SUFFICES ASSUME NEW m \in Models
               PROVE  /\ models'[m] # None => m \in history'.users[models'[m].metadata.billing]
                      /\ ResolveCallable(m)' =>
                           /\ history'.published[m] \in Subjects
                           /\ Started(history.published[m], clock)' # {}
                           /\ m \notin history'.edited =>
                                history'.published[m] \in {models'[m].metadata.billing, m}
    BY DEF ModelInv
  <2>1. models'[m] # None => m \in users[models'[m].metadata.billing]
    <3>1. CASE m = k
      BY <1>6, <1>10, <1>11, <3>1
    <3>2. CASE m # k /\ models[m] # None
      <4>1. m \in history.users[models[m].metadata.billing]
        BY <3>2 DEF IInv, ModelInv
      <4>2. models[m].metadata.billing \in Subjects
        BY <3>2 DEF IInv, TypeInv, Row, Metadata
      <4> QED BY <1>10, <1>11, <3>2, <4>1, <4>2
    <3> QED BY <1>10, <3>1, <3>2
  <2>2. ResolveCallable(m)' =>
           ResolveCallable(m) /\ (m \notin edited => models'[m].metadata = models[m].metadata)
    BY <1>6, <1>10, <1>13 DEF ResolveCallable, Callable
  <2>3. ResolveCallable(m) =>
           /\ history.published[m] \in Subjects
           /\ Started(history.published[m], clock) # {}
           /\ m \notin history.edited =>
                history.published[m] \in {models[m].metadata.billing, m}
    BY DEF IInv, ModelInv
  <2>4. Started(history.published[m], clock)' = Started(history.published[m], clock)
    BY <1>7, <1>9 DEF Started
  <2> QED BY <1>9, <1>11, <2>1, <2>2, <2>3, <2>4
<1>16. BookInv'
  <2>1. \A v \in book : \E m \in history.users[v.subject] :
           /\ m \in Models /\ models[m] # None
           /\ m \notin history.edited => Complete(cards[v], models[m].metadata.capabilities)
    BY DEF IInv, BookInv
  <2>2. \A v \in book : v.subject \in Subjects
    BY DEF IInv, TypeInv, Version
  <2> QED BY <1>7, <1>9, <1>11, <1>13, <2>1, <2>2 DEF BookInv
<1>17. history'.changes = [history.changes EXCEPT ![k] = @ + 1] /\ UNCHANGED <<audit, history.lost>>
  BY <1>7, <1>8, <1>9
<1>18. \A m \in Models : ~Recording(op[a], m) /\ (Recording(o, m) <=> m = k)
  BY <1>2, <1>3
<1>19. op' = [op EXCEPT ![a] = o] /\ Pending(o)'
  BY <1>3
<1> QED BY <1>12, <1>14, <1>15, <1>16, <1>17, <1>18, <1>19, Written

(* A card that passes the checks of PublishPrice is complete.              *)
LEMMA NotBlocked ==
    ASSUME NEW row, NEW asked, NEW window, ~Blocked(row, asked, window)
    PROVE  Complete(asked.card, row.metadata.capabilities)
<1> DEFINE parsed == Parsed(asked.card)
           known == Context(row, asked.note, window.calls)
<1>1. /\ parsed.units = asked.card.units
      /\ known.capabilities = row.metadata.capabilities
  BY DEF Parsed, Context
<1>2. Errors(parsed, known) = {}
  BY DEF Blocked
<1> HIDE DEF parsed, known
<1>3. /\ "input_rate_missing" \notin Errors(parsed, known)
      /\ "output_rate_missing" \notin Errors(parsed, known)
      /\ "cache_rate_missing" \notin Errors(parsed, known)
  BY <1>2
<1>4. Declared(parsed.units, "input")
  BY <1>3 DEF Errors
<1>5. Declared(parsed.units, "output")
  BY <1>3 DEF Errors
<1>6. "cache" \in known.capabilities => Has(parsed.units, "cache_read")
  BY <1>3 DEF Errors
<1> QED BY <1>1, <1>4, <1>5, <1>6 DEF Complete

LEMMA PublishPriceInv ==
    ASSUME IInv, NEW a \in Admins, PublishPrice(a)
    PROVE  IInv'
<1>1. PICK k \in Models, p \in Op : k = Target(a) /\ p = op[a] /\ p.asked \in Asked
                                    /\ Pending(p) /\ k = p.asked.model
                                    /\ p.pc = "write" /\ p.asked.kind = "price"
  BY Writes DEF PublishPrice, Writing, Target
<1>2. \A m \in Models : ~Recording(op[a], m)
  BY Writes
<1>3. PICK o \in Op : /\ op' = [op EXCEPT ![a] = o] /\ Pending(o)'
                      /\ \A m \in Models : Recording(o, m) <=> m = k
  BY <1>1, Writes
<1>4. /\ p.row \in Row /\ models[k] # None /\ k \in history.users[p.row.metadata.billing]
      /\ k \notin history.edited => models[k].metadata = p.row.metadata
  BY <1>1 DEF Pending, HasRead
<1>5. PICK v \in Version : v = NewVersion(a) /\ v.subject = p.row.metadata.billing
  <2>1. p.row.metadata.billing \in Subjects
    BY <1>4 DEF Row, Metadata
  <2>2. clock \in Instants /\ p.asked.from \in Instants \cup {None}
    BY <1>1, AskedAssumption DEF IInv, TypeInv
  <2>3. PICK from \in Instants : from = IF p.asked.from = None THEN clock ELSE p.asked.from
    BY <2>2
  <2>4. NewVersion(a) = [subject |-> p.row.metadata.billing, from |-> from]
    BY <1>1, <2>3 DEF NewVersion
  <2> QED BY <2>1, <2>4 DEF Version
<1>6. /\ v \notin book /\ book' = book \cup {v}
      /\ UNCHANGED <<models, stats, audit, clock>>
      /\ Complete(p.asked.card, p.row.metadata.capabilities)
  BY <1>1, <1>5, NotBlocked DEF PublishPrice, MayPublishPrice, Publish
<1>7. /\ DOMAIN cards' = book' /\ cards'[v] = p.asked.card
      /\ \A w \in book : cards'[w] = cards[w]
  BY <1>1, <1>6 DEF PublishPrice
<1>8. history' = [history EXCEPT !.changes[k] = @ + 1]
  BY <1>1 DEF PublishPrice, Changed
<1>9. /\ history' \in History /\ history'.changes = [history.changes EXCEPT ![k] = @ + 1]
      /\ UNCHANGED <<history.published, history.users, history.edited, history.lost>>
  BY <1>8, Same DEF History
<1>10. TypeInv'
  BY <1>3, <1>6, <1>7, <1>9 DEF IInv, TypeInv, StatsOK
<1>11. Grow
  BY <1>6, <1>9, <1>10, ClockAssumption DEF Grow, TypeInv
<1>12. ModelInv'
  <2>1. \A s \in Subjects : Started(s, clock) \subseteq Started(s, clock)'
    BY <1>6 DEF Started
  <2> SUFFICES ASSUME NEW m \in Models
               PROVE  /\ models'[m] # None => m \in history'.users[models'[m].metadata.billing]
                      /\ ResolveCallable(m)' =>
                           /\ history'.published[m] \in Subjects
                           /\ Started(history.published[m], clock)' # {}
                           /\ m \notin history'.edited =>
                                history'.published[m] \in {models'[m].metadata.billing, m}
    BY DEF ModelInv
  <2>2. ResolveCallable(m)' <=> ResolveCallable(m)
    BY <1>6 DEF ResolveCallable
  <2>3. PICK s : s = history.published[m]
    OBVIOUS
  <2>4. Started(history.published[m], clock)' = Started(s, clock)'
    BY <1>9, <2>3
  <2> QED BY <1>6, <1>9, <2>1, <2>2, <2>3, <2>4 DEF IInv, ModelInv
<1>13. BookInv'
  <2> SUFFICES ASSUME NEW w \in book'
               PROVE  \E m \in history'.users[w.subject] :
                         /\ m \in Models /\ models'[m] # None
                         /\ m \notin history'.edited =>
                              Complete(cards'[w], models'[m].metadata.capabilities)
    BY DEF BookInv
  <2>1. CASE w = v
    BY <1>4, <1>5, <1>6, <1>7, <1>9, <2>1
  <2>2. CASE w \in book
    BY <1>6, <1>7, <1>9, <2>2 DEF IInv, BookInv
  <2> QED BY <1>6, <2>1, <2>2
<1>14. \A m \in Models : ~Recording(op[a], m) /\ (Recording(o, m) <=> m = k)
  BY <1>2, <1>3
<1>15. op' = [op EXCEPT ![a] = o] /\ Pending(o)'
  BY <1>3
<1> QED BY <1>6, <1>9, <1>10, <1>11, <1>12, <1>13, <1>14, <1>15, Written

-----------------------------------------------------------------------------
(* Steps of nobody.                                                        *)

LEMMA OutsideInv ==
    ASSUME IInv, Tick \/ \E m \in Models : UsageAggregated(m)
    PROVE  IInv'
<1>1. UNCHANGED <<book, models, cards, audit, op, history>>
  BY DEF Tick, UsageAggregated
<1>2. clock' \in Instants /\ clock <= clock' /\ clock \in Nat /\ clock' \in Nat
  BY ClockAssumption DEF Tick, UsageAggregated, IInv, TypeInv
<1>3. stats' \in [Models -> Seen] /\ StatsOK(stats)'
  <2>1. CASE Tick
    BY <2>1 DEF Tick, IInv, TypeInv, StatsOK
  <2>2. ASSUME NEW m \in Models, UsageAggregated(m)
        PROVE  stats' \in [Models -> Seen] /\ StatsOK(stats)'
    <3>1. PICK w \in Windows[m] : stats' = [stats EXCEPT ![m] = w]
      BY <2>2 DEF UsageAggregated
    <3>2. w \in Seen
      BY <3>1 DEF Seen
    <3> QED BY <3>1, <3>2 DEF IInv, TypeInv, StatsOK
  <2> QED BY <2>1, <2>2
<1>4. TypeInv'
  BY <1>1, <1>2, <1>3 DEF IInv, TypeInv
<1>5. Grow
  BY <1>1, <1>2 DEF Grow
<1>6. \A b \in Admins : Pending(op[b])'
  <2> TAKE b \in Admins
  <2>1. PICK p \in Op : p = op[b] /\ Pending(p)
    BY DEF IInv, TypeInv
  <2>2. Pending(p)'
    BY <1>4, <1>5, <2>1, PendingStays DEF IInv
  <2> QED BY <1>1, <2>1, <2>2
<1>7. ModelInv'
  <2>1. \A v \in book : v.from \in Nat
    BY ClockAssumption DEF IInv, TypeInv, Version
  <2>2. \A s \in Subjects : Started(s, clock) \subseteq Started(s, clock)'
    BY <1>1, <1>2, <2>1 DEF Started
  <2> SUFFICES ASSUME NEW m \in Models
               PROVE  /\ models'[m] # None => m \in history'.users[models'[m].metadata.billing]
                      /\ ResolveCallable(m)' =>
                           /\ history'.published[m] \in Subjects
                           /\ Started(history.published[m], clock)' # {}
                           /\ m \notin history'.edited =>
                                history'.published[m] \in {models'[m].metadata.billing, m}
    BY DEF ModelInv
  <2>3. ResolveCallable(m)' <=> ResolveCallable(m)
    BY <1>1 DEF ResolveCallable
  <2>4. PICK s : s = history.published[m]
    OBVIOUS
  <2>5. Started(history.published[m], clock)' = Started(s, clock)'
    BY <1>1, <2>4
  <2> QED BY <1>1, <2>2, <2>3, <2>4, <2>5 DEF IInv, ModelInv
<1>8. BookInv'
  BY <1>1 DEF IInv, BookInv
<1>9. ChangesAudited'
  BY <1>1 DEF IInv, ChangesAudited, Target
<1> QED BY <1>4, <1>6, <1>7, <1>8, <1>9 DEF IInv

-----------------------------------------------------------------------------
LEMMA InitInv == Init => IInv
<1> SUFFICES ASSUME Init PROVE IInv
  OBVIOUS
<1>1. \A m \in Drafts : FirstMetadata(m) \in Metadata /\ NewModel(FirstMetadata(m)) \in Row
                        /\ NewModel(FirstMetadata(m)).metadata.billing = FirstKey[m]
                        /\ NewModel(FirstMetadata(m)).status = "draft"
  BY ModelsAreKeys DEF FirstMetadata, Metadata, Hostings, NewModel, Row, Statuses
<1>2. /\ models \in [Models -> Row \cup {None}]
      /\ \A m \in Models : models[m] # None =>
            m \in Drafts /\ models[m].metadata.billing = FirstKey[m] /\ models[m].status = "draft"
  BY <1>1 DEF Init
<1>3. /\ history.users = [s \in Subjects |-> {m \in Drafts : s \in {m, FirstKey[m]}}]
      /\ history \in History
  <2>1. PICK none, users, zero :
           /\ none = [m \in Models |-> None] /\ none \in [Models -> Subjects \cup {None}]
           /\ users = [s \in Subjects |-> {m \in Drafts : s \in {m, FirstKey[m]}}]
           /\ users \in [Subjects -> SUBSET Models]
           /\ zero = [m \in Models |-> 0] /\ zero \in [Models -> Nat]
    <3>1. [m \in Models |-> None] \in [Models -> Subjects \cup {None}]
      OBVIOUS
    <3>2. [s \in Subjects |-> {m \in Drafts : s \in {m, FirstKey[m]}}] \in [Subjects -> SUBSET Models]
      BY ModelsAreKeys
    <3>3. [m \in Models |-> 0] \in [Models -> Nat]
      OBVIOUS
    <3> QED BY <3>1, <3>2, <3>3
  <2>2. history = [published |-> none, users |-> users, edited |-> {},
                   changes |-> zero, lost |-> zero]
    BY <2>1 DEF Init
  <2> QED BY <2>1, <2>2 DEF History
<1>4. \A a \in Admins : op[a] = Idle
  BY DEF Init
<1>5. TypeInv
  <2>1. stats \in [Models -> Seen] /\ StatsOK(stats)
    BY DEF Init, Seen
  <2>2. book \subseteq Version /\ DOMAIN cards = book
    BY DEF Init, BookInit
  <2>3. op \in [Admins -> Op]
    BY IdleIsOp DEF Init
  <2>4. audit \in [Models -> Nat] /\ clock \in Instants
    BY ClockAssumption DEF Init
  <2> QED BY <1>2, <1>3, <2>1, <2>2, <2>3, <2>4 DEF TypeInv
<1>6. \A a \in Admins : Pending(op[a])
  BY <1>4, IdleIsOp
<1>7. ModelInv
  <2>1. \A m \in Models : ~ResolveCallable(m)
    BY <1>2 DEF ResolveCallable, Callable
  <2>2. \A m \in Drafts : FirstKey[m] \in Subjects
    BY ModelsAreKeys
  <2> QED BY <1>2, <1>3, <2>1, <2>2 DEF ModelInv
<1>8. BookInv
  BY DEF Init, BookInit, BookInv
<1>9. ChangesAudited
  <2> SUFFICES ASSUME NEW m \in Models
               PROVE  history.changes[m] = audit[m] + history.lost[m] + Cardinality(Due(m))
    BY AuditIsDue
  <2>1. Due(m) = {}
    BY <1>4, IdleIsOp DEF Due
  <2>2. Cardinality(Due(m)) = 0
    BY <2>1, FS_EmptySet
  <2> QED BY <2>2 DEF Init
<1> QED BY <1>5, <1>6, <1>7, <1>8, <1>9 DEF IInv

LEMMA NextInv == IInv /\ [Next]_vars => IInv'
<1> SUFFICES ASSUME IInv, [Next]_vars PROVE IInv'
  OBVIOUS
<1>1. ASSUME NEW a \in Admins, Statement(a) PROVE IInv'
  BY <1>1, ReadRowInv, ReturnInv, ReadPriceInv, ReadUsageInv, UpsertModelInv, PublishModelInv,
     DelistInv, PublishPriceInv, RereadInv, RecordInv, FailInv DEF Statement
<1>2. ASSUME NEW a \in Admins, NEW r \in Asked, Start(a, r) PROVE IInv'
  BY <1>2, StartInv
<1>3. CASE UNCHANGED vars
  BY <1>3 DEF vars, IInv, TypeInv, Pending, ModelInv, BookInv, ChangesAudited, StatsOK,
              ResolveCallable, Started, Target
<1> QED BY <1>1, <1>2, <1>3, OutsideInv DEF Next

(* Every nonempty set of naturals has a least element. *)
LEMMA Least ==
  ASSUME NEW T, T \subseteq Nat, T # {}
  PROVE  \E x \in T : \A y \in T : x <= y
<1>1. PICK x \in T : \A y \in T : <<y, x>> \notin OpToRel(<, Nat)
  BY NatLessThanWellFounded, WFMin
<1>2. \A y \in T : ~ (y < x)
  BY <1>1 DEF OpToRel
<1> QED
  BY <1>2

(* So does every nonempty set of naturals below m have a greatest. *)
LEMMA Greatest ==
  ASSUME NEW T, T \subseteq Nat, T # {}, NEW m \in Nat, \A x \in T : x <= m
  PROVE  \E x \in T : \A y \in T : y <= x
<1> DEFINE gaps == {m - x : x \in T}
<1>1. gaps \subseteq Nat /\ gaps # {}
  <2>1. \A x \in T : m - x \in Nat
    OBVIOUS
  <2> QED
    BY <2>1
<1>2. PICK g \in gaps : \A h \in gaps : g <= h
  <2> HIDE DEF gaps
  <2> QED BY <1>1, Least
<1>3. PICK x \in T : g = m - x
  OBVIOUS
<1>4. ASSUME NEW y \in T PROVE y <= x
  <2>1. m - y \in gaps
    OBVIOUS
  <2>2. m - x <= m - y
    BY <1>2, <1>3, <2>1
  <2> QED
    BY <2>2
<1> QED
  BY <1>4

(* What the code prices a call with, when some version has begun.          *)
LEMMA SomeInForce ==
    ASSUME TypeInv, NEW s, Started(s, clock) # {}
    PROVE  InForce(s, clock) # {}
<1> DEFINE starts == {v.from : v \in Started(s, clock)}
<1>1. clock \in Nat /\ \A v \in Started(s, clock) : v.from \in Nat /\ v.from <= clock
  BY ClockAssumption DEF TypeInv, Started, Version
<1>2. starts \subseteq Nat /\ starts # {} /\ \A x \in starts : x <= clock
  BY <1>1
<1>3. PICK x \in starts : \A y \in starts : y <= x
  <2> HIDE DEF starts
  <2> QED BY <1>1, <1>2, Greatest
<1>4. PICK v \in Started(s, clock) : x = v.from
  OBVIOUS
<1>5. \A w \in Started(s, clock) : w.from <= v.from
  BY <1>3, <1>4
<1> QED BY <1>4, <1>5 DEF InForce

LEMMA IInvSound == IInv => PublishChecksHold /\ ChangesAudited
<1> SUFFICES ASSUME IInv PROVE PublishChecksHold
  BY DEF IInv
<1>1. TypeOK
  <2>1. \A a \in Admins : op[a] \in Op /\ op[a].price \in book \cup {None}
    BY DEF IInv, TypeInv, Pending
  <2>2. history \in History /\ StatsOK(stats)
    BY DEF IInv, TypeInv
  <2> QED BY <2>1, <2>2 DEF TypeOK, IInv, TypeInv, Op, Pcs, History
<1>2. ASSUME NEW m \in Models, ResolveCallable(m)
      PROVE  /\ history.published[m] \in Subjects
             /\ InForce(history.published[m], clock) # {}
             /\ m \notin history.edited => history.published[m] \in {models[m].metadata.billing, m}
  BY <1>2, SomeInForce DEF IInv, ModelInv
<1>3. PublishedKeyPriced
  BY <1>2, NoneAssumption DEF PublishedKeyPriced
<1>4. CompleteIfUntouched
  <2> SUFFICES ASSUME NEW m \in Models, ResolveCallable(m), m \notin history.edited,
                      NEW key, key = models[m].metadata.billing,
                      history.users[key] = {m}, history.users[m] = {m}
               PROVE  Complete(cards[BilledPrice(m)], models[m].metadata.capabilities)
    BY DEF CompleteIfUntouched, Complete
  <2>1. PICK v : v = BilledPrice(m)
    OBVIOUS
  <2>2. InForce(key, clock) # {} \/ InForce(m, clock) # {}
    BY <1>2
  <2>3. v \in book /\ v.subject \in {key, m}
    BY <2>1, <2>2 DEF BilledPrice, CurrentPrice, InForce, Started
  <2>4. PICK k \in history.users[v.subject] :
           k \notin history.edited => Complete(cards[v], models[k].metadata.capabilities)
    BY <2>3 DEF IInv, BookInv
  <2>5. k = m
    BY <2>3, <2>4
  <2> QED BY <2>1, <2>4, <2>5
<1> QED BY <1>1, <1>3, <1>4 DEF PublishChecksHold

(* What Publish has checked stays true, for any number of admins whose     *)
(* statements interleave and fail (service.go:395-437): a model that can   *)
(* be called was published under a key with a price in force, and its      *)
(* price is complete unless it was edited or shares its key.               *)
THEOREM PublishChecksProved == Spec => []PublishChecksHold
  BY InitInv, NextInv, IInvSound, PTL DEF Spec

(* Every change of the catalogue has its entry in the audit log, is about  *)
(* to get it, or was followed by a failure (service.go: record).           *)
THEOREM AuditProved == Spec => []ChangesAudited
  BY InitInv, NextInv, IInvSound, PTL DEF Spec

(* At most one version is in force: two of one subject that have both      *)
(* begun last begin at the same time, and are one version.                 *)
LEMMA OneInForce ==
    ASSUME TypeInv, NEW s, NEW v \in InForce(s, clock)
    PROVE  InForce(s, clock) = {v}
<1> SUFFICES ASSUME NEW w \in InForce(s, clock) PROVE w = v
  OBVIOUS
<1>1. v \in Version /\ w \in Version /\ v.subject = s /\ w.subject = s
  BY DEF TypeInv, InForce, Started
<1>2. /\ v \in Started(s, clock) /\ \A u \in Started(s, clock) : u.from <= v.from
      /\ w \in Started(s, clock) /\ \A u \in Started(s, clock) : u.from <= w.from
  BY DEF InForce
<1>3. v.from <= w.from /\ w.from <= v.from
  BY <1>2
<1>4. v.from \in Nat /\ w.from \in Nat
  BY <1>1, ClockAssumption DEF Version
<1>5. v.from = w.from
  BY <1>3, <1>4
<1> QED BY <1>1, <1>5 DEF Version

LEMMA ShownIsBilled == TypeInv => ShownPriceIsBilled
<1> SUFFICES ASSUME TypeInv, NEW m \in Models, NEW key, key = models[m].metadata.billing,
                    DisplayPrice(key) # None
             PROVE  /\ DisplayPrice(key) = BilledPrice(m)
                    /\ InForce(key, clock) = {BilledPrice(m)}
  BY DEF ShownPriceIsBilled
<1>1. InForce(key, clock) # {}
  BY DEF DisplayPrice
<1>2. DisplayPrice(key) = BilledPrice(m) /\ BilledPrice(m) \in InForce(key, clock)
  BY <1>1 DEF DisplayPrice, BilledPrice, CurrentPrice
<1> QED BY <1>2, OneInForce

(* A price that a listed model shows is the one its calls are billed by,   *)
(* and the only one in force, whatever admins publish, edit and delist     *)
(* meanwhile (db/queries/catalog.sql: pricing_effective_version;              *)
(* pricing/resolve.go: ResolvePriceVersion).                               *)
THEOREM ShownPriceProved == Spec => []ShownPriceIsBilled
<1>1. IInv => TypeInv
  BY DEF IInv
<1> QED BY <1>1, InitInv, NextInv, ShownIsBilled, PTL DEF Spec

-----------------------------------------------------------------------------
(* Iteration: what the recursive functions of Pricing compute.             *)

(* f begins with start and goes on with one step after the other.          *)
Iterates(f, N, start, step) ==
    /\ DOMAIN f = 0 .. N
    /\ f[0] = start
    /\ \A n \in 1 .. N : f[n] = step[n][f[n - 1]]

(* Some function does, and it stays among the values that step is for.     *)
LEMMA IterationExists ==
    ASSUME NEW N \in Nat, NEW S, NEW start \in S, NEW step \in [1 .. N -> [S -> S]]
    PROVE  \E f \in [0 .. N -> S] : Iterates(f, N, start, step)
<1> DEFINE Reached(m) == \E f \in [0 .. m -> S] : Iterates(f, m, start, step)
           T == {m \in 0 .. N : ~Reached(m)}
<1> SUFFICES ASSUME T # {}
             PROVE  FALSE
  BY N \in 0 .. N
<1>1. T \subseteq Nat
  OBVIOUS
<1>2. PICK n \in T : \A m \in T : <<m, n>> \notin OpToRel(<, Nat)
  BY <1>1, NatLessThanWellFounded, WFMin
<1>3. n \in 0 .. N /\ ~Reached(n) /\ (n > 0 => Reached(n - 1))
  <2>1. n > 0 => n - 1 \in 0 .. N /\ <<n - 1, n>> \in OpToRel(<, Nat)
    BY DEF OpToRel
  <2> HIDE DEF Reached
  <2> QED BY <1>2, <2>1
<1>4. CASE n = 0
  <2>1. Iterates([k \in 0 .. 0 |-> start], 0, start, step)
    BY DEF Iterates
  <2>2. [k \in 0 .. 0 |-> start] \in [0 .. 0 -> S]
    OBVIOUS
  <2> QED BY <1>3, <1>4, <2>1, <2>2
<1>5. CASE n > 0
  <2>1. PICK f \in [0 .. (n - 1) -> S] : Iterates(f, n - 1, start, step)
    BY <1>3, <1>5
  <2> DEFINE g == [k \in 0 .. n |-> IF k = n THEN step[n][f[n - 1]] ELSE f[k]]
  <2>2. n \in 1 .. N /\ n - 1 \in 0 .. (n - 1) /\ step[n] \in [S -> S]
    BY <1>3, <1>5
  <2>3. g \in [0 .. n -> S]
    BY <1>3, <2>2
  <2>4. g[0] = start
    BY <1>3, <1>5, <2>1 DEF Iterates
  <2>5. ASSUME NEW k \in 1 .. n
        PROVE  g[k] = step[k][g[k - 1]]
    <3>1. CASE k = n
      BY <1>3, <1>5, <3>1
    <3>2. CASE k # n
      <4>1. k \in 1 .. (n - 1) /\ k \in 0 .. n /\ k - 1 \in 0 .. n /\ k - 1 # n
        BY <1>3, <3>2
      <4>2. g[k] = f[k] /\ g[k - 1] = f[k - 1]
        BY <3>2, <4>1
      <4>3. f[k] = step[k][f[k - 1]]
        BY <2>1, <4>1 DEF Iterates
      <4> QED BY <4>2, <4>3
    <3> QED BY <3>1, <3>2
  <2>6. Iterates(g, n, start, step)
    BY <2>3, <2>4, <2>5 DEF Iterates
  <2> QED BY <1>3, <2>3, <2>6
<1> QED BY <1>3, <1>4, <1>5

(* A set of numbers that has 0, and with each number the next.             *)
LEMMA Climb ==
    ASSUME NEW N \in Nat, NEW good, 0 \in good, \A n \in 1 .. N : n - 1 \in good => n \in good
    PROVE  \A n \in 0 .. N : n \in good
<1>0. 0 \in good /\ \A n \in 1 .. N : n - 1 \in good => n \in good
  OBVIOUS
<1> DEFINE T == (0 .. N) \ good
<1> SUFFICES ASSUME T # {}
             PROVE  FALSE
  OBVIOUS
<1>1. T \subseteq Nat
  OBVIOUS
<1>2. PICK n \in T : \A m \in T : <<m, n>> \notin OpToRel(<, Nat)
  BY <1>1, NatLessThanWellFounded, WFMin
<1>3. n \in 1 .. N
  <2>1. n \in 0 .. N /\ n \notin good
    BY <1>2
  <2>2. n # 0
    BY <2>1, Zenon
  <2> QED BY <2>1, <2>2
<1>4. n - 1 \notin T
  <2>1. n - 1 \in Nat /\ n \in Nat /\ n - 1 < n
    BY <1>3
  <2>2. <<n - 1, n>> \in OpToRel(<, Nat)
    BY <2>1 DEF OpToRel
  <2> QED BY <1>2, <2>2
<1>5. n - 1 \in good /\ n \notin good
  <2>1. n - 1 \in 0 .. N
    BY <1>3
  <2> QED BY <1>2, <1>4, <2>1, Zenon
<1> QED BY <1>0, <1>3, <1>5

-----------------------------------------------------------------------------
(* Following references.                                                   *)

(* Entries refer to known units only, as ParseRates checks.                *)
Sound(units) == units \in [Units -> Seq(Rate)] /\ KnownReferences(units)

(* Where one reference leads.                                              *)
Hop(units, u) == IF Ends(units, u) THEN u ELSE units[u][1].sameAs

LEMMA FirstEntry ==
    ASSUME NEW units, Sound(units), NEW u \in Units, units[u] # <<>>
    PROVE  /\ 1 \in DOMAIN units[u] /\ units[u][1] \in Rate
           /\ units[u][1].sameAs \in Units \cup {None}
<1>1. units[u] \in Seq(Rate)
  BY DEF Sound
<1>2. 1 \in DOMAIN units[u] /\ units[u][1] \in Rate
  BY <1>1
<1> QED BY <1>2 DEF Sound, KnownReferences

LEMMA HopIsUnit ==
    ASSUME NEW units, Sound(units), NEW u \in Units
    PROVE  Hop(units, u) \in Units
BY FirstEntry DEF Hop, Ends

(* The units that Followed passes.                                         *)
Trace(f, units, u, n) ==
    /\ f \in [0 .. n -> Units]
    /\ f[0] = u /\ \A k \in 1 .. n : f[k] = Hop(units, f[k - 1])
    /\ Followed(units, u, n) = f[n]

LEMMA FollowedIterates ==
    ASSUME NEW units, Sound(units), NEW u \in Units, NEW n \in Nat
    PROVE  \E f : Trace(f, units, u, n)
<1> DEFINE step == [k \in 1 .. n |-> [v \in Units |-> Hop(units, v)]]
           Is(f) == f = [k \in 0 .. n |->
                            IF k = 0 THEN u
                            ELSE IF Ends(units, f[k - 1]) THEN f[k - 1]
                            ELSE units[f[k - 1]][1].sameAs]
           at == CHOOSE f : Is(f)
<1>1. step \in [1 .. n -> [Units -> Units]]
  BY HopIsUnit
<1>2. PICK f \in [0 .. n -> Units] : Iterates(f, n, u, step)
  <2> HIDE DEF step
  <2> QED BY <1>1, IterationExists
<1>3. f[0] = u /\ \A k \in 1 .. n : f[k] = Hop(units, f[k - 1])
  <2>1. f[0] = u /\ \A k \in 1 .. n : f[k] = step[k][f[k - 1]]
    BY <1>2, Zenon DEF Iterates
  <2>2. \A k \in 1 .. n : f[k - 1] \in Units
    OBVIOUS
  <2> QED BY <2>1, <2>2
<1>4. Is(f)
  <2>1. \A k \in 0 .. n : f[k] = IF k = 0 THEN u
                                 ELSE IF Ends(units, f[k - 1]) THEN f[k - 1]
                                 ELSE units[f[k - 1]][1].sameAs
    BY <1>3 DEF Hop
  <2> QED BY <2>1
<1>5. Is(at)
  <2> HIDE DEF Is
  <2> QED BY <1>4
<1>6. at[0] = u /\ \A k \in 1 .. n : at[k] = Hop(units, at[k - 1])
  <2>1. \A k \in 0 .. n : at[k] = IF k = 0 THEN u
                                  ELSE IF Ends(units, at[k - 1]) THEN at[k - 1]
                                  ELSE units[at[k - 1]][1].sameAs
    <3> HIDE DEF at
    <3> QED BY <1>5, Zenon
  <2> HIDE DEF at
  <2> QED BY <2>1 DEF Hop
<1>7. Followed(units, u, n) = at[n]
  BY DEF Followed
<1> HIDE DEF at, Is
<1> DEFINE good == {j \in 0 .. n : at[j] = f[j]}
<1>8. \A k \in 0 .. n : k \in good
  <2>1. 0 \in good
    BY <1>3, <1>6
  <2>2. \A k \in 1 .. n : k - 1 \in good => k \in good
    BY <1>3, <1>6
  <2> HIDE DEF good
  <2> QED BY <2>1, <2>2, Climb
<1>9. Trace(f, units, u, n)
  BY <1>3, <1>7, <1>8 DEF Trace
<1> QED BY <1>9

LEMMA FollowedNone ==
    ASSUME NEW units, Sound(units), NEW u \in Units
    PROVE  Followed(units, u, 0) = u
<1>1. PICK f : Trace(f, units, u, 0)
  BY FollowedIterates
<1> QED BY <1>1 DEF Trace

LEMMA FollowedHops ==
    ASSUME NEW units, Sound(units), NEW u \in Units, NEW n \in Nat
    PROVE  /\ Followed(units, u, n) \in Units
           /\ Followed(units, u, n + 1) = Hop(units, Followed(units, u, n))
<1>1. PICK f : Trace(f, units, u, n)
  BY FollowedIterates
<1>2. PICK g : Trace(g, units, u, n + 1)
  BY FollowedIterates
<1> USE DEF Trace
<1> DEFINE good == {j \in 0 .. n : f[j] = g[j]}
<1>3. 0 \in good
  BY <1>1, <1>2
<1>4. \A k \in 1 .. n : k - 1 \in good => k \in good
  BY <1>1, <1>2
<1>5. n \in good
  <2> HIDE DEF good
  <2> QED BY <1>3, <1>4, Climb, n \in 0 .. n
<1>6. g[n + 1] = Hop(units, g[n])
  BY <1>2
<1> QED BY <1>1, <1>2, <1>5, <1>6

(* Who meets goes on together.                                             *)
LEMMA FollowedMeet ==
    ASSUME NEW units, Sound(units), NEW u \in Units, NEW v \in Units, NEW i \in Nat, NEW j \in Nat,
           Followed(units, u, i) = Followed(units, v, j), NEW n \in Nat
    PROVE  Followed(units, u, i + n) = Followed(units, v, j + n)
<1> DEFINE good == {k \in 0 .. n : Followed(units, u, i + k) = Followed(units, v, j + k)}
<1>1. 0 \in good
  <2>1. i + 0 = i /\ j + 0 = j
    OBVIOUS
  <2> QED BY <2>1
<1>2. ASSUME NEW k \in 1 .. n, k - 1 \in good
      PROVE  k \in good
  <2>1. /\ i + (k - 1) \in Nat /\ (i + (k - 1)) + 1 = i + k
        /\ j + (k - 1) \in Nat /\ (j + (k - 1)) + 1 = j + k
    OBVIOUS
  <2>2. /\ Followed(units, u, i + k) = Hop(units, Followed(units, u, i + (k - 1)))
        /\ Followed(units, v, j + k) = Hop(units, Followed(units, v, j + (k - 1)))
    BY <2>1, FollowedHops
  <2> QED BY <1>2, <2>2
<1>3. n \in good
  <2> HIDE DEF good
  <2> QED BY <1>1, <1>2, Climb, n \in 0 .. n
<1> QED BY <1>3

(* Where a chain ends it stays.                                            *)
LEMMA FollowedStays ==
    ASSUME NEW units, Sound(units), NEW u \in Units, NEW i \in Nat, NEW n \in Nat,
           Ends(units, Followed(units, u, i))
    PROVE  Followed(units, u, i + n) = Followed(units, u, i)
<1> DEFINE good == {k \in 0 .. n : Followed(units, u, i + k) = Followed(units, u, i)}
<1>1. 0 \in good
  <2>1. i + 0 = i
    OBVIOUS
  <2> QED BY <2>1
<1>2. ASSUME NEW k \in 1 .. n, k - 1 \in good
      PROVE  k \in good
  <2>1. i + (k - 1) \in Nat /\ (i + (k - 1)) + 1 = i + k
    OBVIOUS
  <2>2. Followed(units, u, i + k) = Hop(units, Followed(units, u, i + (k - 1)))
    BY <2>1, FollowedHops
  <2> QED BY <1>2, <2>2 DEF Hop
<1>3. n \in good
  <2> HIDE DEF good
  <2> QED BY <1>1, <1>2, Climb, n \in 0 .. n
<1> QED BY <1>3

(* For no time to live, effective is the rate of the eighth unit or of the *)
(* last before it.                                                         *)
LEMMA EffectiveFollows ==
    ASSUME NEW units, Sound(units), NEW u \in Units, units[u] # <<>>,
           NEW last, last = Followed(units, u, 7)
    PROVE  effective(units, u, None) =
             IF Ends(units, last) /\ units[last] # <<>> THEN units[last][1] ELSE None
<1>1. Entry(units[u], None) = units[u][1]
  BY DEF Entry
<1>2. MaxHops - 2 = 6
  BY DEF MaxHops
<1>3. Followed(units, u, 0) = u
  BY FollowedNone
<1>4. CASE units[u][1].sameAs = None
  <2>1. last = u
    <3>1. Ends(units, Followed(units, u, 0))
      BY <1>3, <1>4 DEF Ends
    <3>2. Followed(units, u, 0 + 7) = Followed(units, u, 0)
      BY <3>1, FollowedStays
    <3> QED BY <1>3, <3>2
  <2> QED BY <1>1, <1>4, <2>1 DEF effective, Ends
<1>5. CASE units[u][1].sameAs # None
  <2> DEFINE v == units[u][1].sameAs
  <2>1. v \in Units
    BY <1>5, FirstEntry
  <2>2. Followed(units, u, 0 + 1) = v
    BY <1>3, <1>5, FollowedHops DEF Hop, Ends
  <2>3. Followed(units, v, 0) = v
    BY <2>1, FollowedNone
  <2>4. Followed(units, u, 1 + 6) = Followed(units, v, 0 + 6)
    <3>1. Followed(units, u, 1) = Followed(units, v, 0)
      BY <2>2, <2>3
    <3>2. \A n \in Nat : Followed(units, u, 1 + n) = Followed(units, v, 0 + n)
      <4> HIDE DEF v
      <4> QED BY <2>1, <3>1, FollowedMeet
    <3> QED BY <3>2
  <2>5. last = Followed(units, units[u][1].sameAs, MaxHops - 2)
    BY <1>2, <2>4
  <2> QED BY <1>1, <1>5, <2>5 DEF effective
<1> QED BY <1>4, <1>5

LEMMA UnitsCounted == IsFiniteSet(Units) /\ Cardinality(Units) = 12
<1> DEFINE s1  == {} \cup {"input"}
           s2  == s1 \cup {"output"}
           s3  == s2 \cup {"cache_read"}
           s4  == s3 \cup {"cache_write"}
           s5  == s4 \cup {"reasoning"}
           s6  == s5 \cup {"request_fixed"}
           s7  == s6 \cup {"input_long_context"}
           s8  == s7 \cup {"image_per_unit"}
           s9  == s8 \cup {"audio_per_second"}
           s10 == s9 \cup {"video_per_second"}
           s11 == s10 \cup {"rerank_per_doc"}
           s12 == s11 \cup {"batch_discount"}
           Counted(s, n) == IsFiniteSet(s) /\ Cardinality(s) = n
<1>0. Counted({}, 0)
  BY FS_EmptySet
<1>1. Counted(s1, 1) /\ "output" \notin s1
  BY <1>0, FS_AddElement
<1>2. Counted(s2, 2) /\ "cache_read" \notin s2
  BY <1>1, FS_AddElement
<1>3. Counted(s3, 3) /\ "cache_write" \notin s3
  BY <1>2, FS_AddElement
<1>4. Counted(s4, 4) /\ "reasoning" \notin s4
  BY <1>3, FS_AddElement
<1>5. Counted(s5, 5) /\ "request_fixed" \notin s5
  BY <1>4, FS_AddElement
<1>6. Counted(s6, 6) /\ "input_long_context" \notin s6
  BY <1>5, FS_AddElement
<1>7. Counted(s7, 7) /\ "image_per_unit" \notin s7
  BY <1>6, FS_AddElement
<1>8. Counted(s8, 8) /\ "audio_per_second" \notin s8
  BY <1>7, FS_AddElement
<1>9. Counted(s9, 9) /\ "video_per_second" \notin s9
  BY <1>8, FS_AddElement
<1>10. Counted(s10, 10) /\ "rerank_per_doc" \notin s10
  BY <1>9, FS_AddElement
<1>11. Counted(s11, 11) /\ "batch_discount" \notin s11
  BY <1>10, FS_AddElement
<1>12. Counted(s12, 12)
  BY <1>11, FS_AddElement
<1>13. Units = s12
  BY DEF Units
<1> QED BY <1>12, <1>13

(* A chain that comes back to a unit goes on for ever.                     *)
LEMMA ChainsDoNotReturn ==
    ASSUME NEW units, Sound(units), ~SameAsCycle(units), NEW u \in Units,
           NEW i \in Nat, NEW j \in Nat, i < j,
           Followed(units, u, i) = Followed(units, u, j)
    PROVE  Ends(units, Followed(units, u, i))
<1> DEFINE F(n) == Followed(units, u, n)
<1> SUFFICES ASSUME ~Ends(units, F(i))
             PROVE  FALSE
  OBVIOUS
<1>1. ASSUME NEW n \in Nat, Ends(units, F(n))
      PROVE  \A k \in Nat : F(n + k) = F(n)
  BY <1>1, FollowedStays
<1>2. \A k \in Nat : F(i + k) = F(j + k)
  BY FollowedMeet
<1> DEFINE T == {n \in Nat : Ends(units, F(n))}
<1> HIDE DEF F
<1>3. T = {}
  <2> SUFFICES ASSUME T # {}
               PROVE  FALSE
    OBVIOUS
  <2>1. PICK n \in T : \A m \in T : <<m, n>> \notin OpToRel(<, Nat)
    BY NatLessThanWellFounded, WFMin
  <2>2. CASE n <= i
    <3>1. i - n \in Nat /\ n + (i - n) = i
      BY <2>2
    <3>2. F(n + (i - n)) = F(n)
      BY <1>1, <3>1
    <3> QED BY <2>1, <3>1, <3>2 DEF F
  <2>3. CASE i < n /\ n < j
    <3>1. j - n \in Nat /\ n + (j - n) = j
      BY <2>3
    <3>2. F(n + (j - n)) = F(n)
      BY <1>1, <3>1
    <3> QED BY <2>1, <3>1, <3>2 DEF F
  <2>4. CASE j <= n
    <3>1. /\ n - j \in Nat /\ j + (n - j) = n /\ i + (n - j) \in Nat /\ i + (n - j) < n
      BY <2>4
    <3>2. F(i + (n - j)) = F(n)
      <4>1. F(i + (n - j)) = F(j + (n - j))
        BY <1>2, <3>1
      <4> QED BY <3>1, <4>1
    <3>3. i + (n - j) \in T
      BY <2>1, <3>1, <3>2
    <3>4. <<i + (n - j), n>> \in OpToRel(<, Nat)
      BY <3>1 DEF OpToRel
    <3> QED BY <2>1, <3>3, <3>4
  <2> QED BY <2>2, <2>3, <2>4
<1>4. ~Ends(units, F(12))
  BY <1>3
<1> QED BY <1>4, UnitsCounted DEF SameAsCycle, F

-----------------------------------------------------------------------------
(* References resolve.                                                     *)

LEMMA FollowedAreSources ==
    ASSUME Sound(card.units), NEW u \in Units
    PROVE  /\ SourcesOf(u) \subseteq Units
           /\ \A n \in 0 .. 12 : Followed(card.units, u, n) \in SourcesOf(u)
<1> DEFINE Refers(v, w) == card.units[v] # <<>> /\ card.units[v][1].sameAs = w
           Wider(S) == S \cup {w \in Units : \E v \in S : Refers(v, w)}
           step == [k \in 1 .. 12 |-> [S \in SUBSET Units |-> Wider(S)]]
           Is(f) == f = [n \in 0 .. Cardinality(Units) |->
                            IF n = 0 THEN {u}
                            ELSE LET nearer == f[n - 1]
                                 IN  nearer \cup {w \in Units : \E v \in nearer : Refers(v, w)}]
           within == CHOOSE f : Is(f)
<1>1. step \in [1 .. 12 -> [SUBSET Units -> SUBSET Units]]
  OBVIOUS
<1>2. PICK f \in [0 .. 12 -> SUBSET Units] : Iterates(f, 12, {u}, step)
  <2> HIDE DEF step
  <2> QED BY <1>1, IterationExists
<1>3. Cardinality(Units) = 12
  BY UnitsCounted
<1>4. \A n \in 1 .. 12 : f[n - 1] \in SUBSET Units
  BY <1>2
<1>5. f[0] = {u} /\ \A n \in 1 .. 12 : f[n] = Wider(f[n - 1])
  BY <1>2, <1>4 DEF Iterates
<1>6. Is(f)
  <2>1. \A n \in 0 .. 12 : f[n] = IF n = 0 THEN {u} ELSE Wider(f[n - 1])
    <3> HIDE DEF Wider
    <3>1. \A n \in 0 .. 12 : n = 0 \/ n \in 1 .. 12
      OBVIOUS
    <3> QED BY <1>5, <3>1
  <2> QED BY <1>2, <1>3, <2>1
<1>7. Is(within)
  <2> HIDE DEF Is
  <2> QED BY <1>6
<1>8. within[0] = {u} /\ \A n \in 1 .. 12 : within[n] = Wider(within[n - 1])
  <2>1. \A n \in 0 .. 12 : within[n] = IF n = 0 THEN {u} ELSE Wider(within[n - 1])
    <3> HIDE DEF within
    <3> QED BY <1>3, <1>7, Zenon
  <2> HIDE DEF within, Wider
  <2> QED BY <2>1
<1>9. SourcesOf(u) = within[12]
  BY <1>3 DEF SourcesOf
<1> HIDE DEF within, Is
<1> DEFINE Fits(n) == /\ within[n] \subseteq Units
                      /\ \A k \in 0 .. n : Followed(card.units, u, k) \in within[n]
           good == {n \in 0 .. 12 : Fits(n)}
<1>10. 0 \in good
  BY <1>8, FollowedNone
<1>11. ASSUME NEW n \in 1 .. 12, n - 1 \in good
       PROVE  n \in good
  <2>1. within[n] = Wider(within[n - 1])
    BY <1>8
  <2>2. Fits(n - 1)
    BY <1>11
  <2>3. within[n] \subseteq Units /\ within[n - 1] \subseteq within[n]
    BY <2>1, <2>2
  <2>4. Followed(card.units, u, n) \in within[n]
    <3> DEFINE v == Followed(card.units, u, n - 1)
    <3>1. n - 1 \in Nat /\ (n - 1) + 1 = n
      OBVIOUS
    <3>2. v \in Units /\ Followed(card.units, u, n) = Hop(card.units, v)
      BY <3>1, FollowedHops
    <3>3. v \in within[n - 1]
      BY <2>2
    <3>4. CASE Ends(card.units, v)
      BY <2>3, <3>2, <3>3, <3>4 DEF Hop
    <3>5. CASE ~Ends(card.units, v)
      <4>1. Refers(v, Hop(card.units, v)) /\ Hop(card.units, v) \in Units
        BY <3>2, <3>5, HopIsUnit DEF Hop, Ends
      <4> HIDE DEF v, Refers
      <4> QED BY <2>1, <3>2, <3>3, <4>1
    <3> QED BY <3>4, <3>5
  <2>5. \A k \in 0 .. n : k = n \/ k \in 0 .. (n - 1)
    OBVIOUS
  <2> QED BY <2>2, <2>3, <2>4, <2>5
<1>12. 12 \in good
  <2> HIDE DEF good
  <2> QED BY <1>10, <1>11, Climb, 12 \in 0 .. 12
<1> QED BY <1>9, <1>12

(* In a card without a cycle a reference ends at a rate or at a unit that  *)
(* is not declared, unless more than eight units are on the way.           *)
LEMMA ReferenceEnds ==
    ASSUME Sound(card.units), ~SameAsCycle(card.units), NEW u \in Units, card.units[u] # <<>>
    PROVE  \/ \E v \in SourcesOf(u) :
                \E i \in DOMAIN card.units[v] : effective(card.units, u, None) = card.units[v][i]
           \/ \E v \in SourcesOf(u) : card.units[v] = <<>>
           \/ Cardinality(SourcesOf(u)) > MaxHops
<1> DEFINE F(n) == Followed(card.units, u, n)
           last == F(7)
<1>1. ASSUME NEW n \in 0 .. 8
      PROVE  F(n) \in SourcesOf(u) /\ F(n) \in Units
  <2>1. n \in 0 .. 12
    OBVIOUS
  <2> QED BY <2>1, FollowedAreSources
<1>2. CASE Ends(card.units, last) /\ card.units[last] # <<>>
  <2>1. effective(card.units, u, None) = card.units[last][1]
    BY <1>2, EffectiveFollows
  <2>2. 1 \in DOMAIN card.units[last]
    BY <1>1, <1>2, FirstEntry
  <2>3. last \in SourcesOf(u)
    BY <1>1
  <2> HIDE DEF last
  <2> QED BY <2>1, <2>2, <2>3
<1>3. CASE card.units[last] = <<>>
  BY <1>1, <1>3
<1>4. CASE ~Ends(card.units, last)
  <2>1. ASSUME NEW n \in 0 .. 7
        PROVE  ~Ends(card.units, F(n))
    <3>1. 7 - n \in Nat /\ n + (7 - n) = 7
      OBVIOUS
    <3>2. Ends(card.units, F(n)) => F(n + (7 - n)) = F(n)
      BY <3>1, FollowedStays
    <3> QED BY <1>4, <3>1, <3>2
  <2>2. ASSUME NEW i \in 0 .. 8, NEW j \in 0 .. 8, i < j
        PROVE  F(i) # F(j)
    <3>1. i \in 0 .. 7 /\ i \in Nat /\ j \in Nat
      BY <2>2
    <3> QED BY <2>1, <2>2, <3>1, ChainsDoNotReturn
  <2> DEFINE f == [n \in 0 .. 8 |-> F(n)]
  <2> HIDE DEF F
  <2>3. f \in Injection(0 .. 8, SourcesOf(u))
    <3>1. f \in [0 .. 8 -> SourcesOf(u)]
      BY <1>1
    <3>2. ASSUME NEW i \in 0 .. 8, NEW j \in 0 .. 8, f[i] = f[j]
          PROVE  i = j
      BY <2>2, <3>2
    <3> QED BY <3>1, <3>2 DEF Injection, IsInjective
  <2>4. IsFiniteSet(SourcesOf(u))
    BY FollowedAreSources, UnitsCounted, FS_Subset
  <2>5. Cardinality(0 .. 8) = 9
    <3>1. ASSUME NEW b \in Nat
          PROVE  Cardinality(0 .. b) = b + 1
      BY FS_Interval
    <3>2. Cardinality(0 .. 8) = 8 + 1
      BY <3>1, 8 \in Nat, Zenon
    <3> QED BY <3>2
  <2>6. Cardinality(0 .. 8) <= Cardinality(SourcesOf(u))
    BY <2>3, <2>4, FS_Injection, FS_Interval DEF ExistsInjection
  <2>7. Cardinality(SourcesOf(u)) \in Nat
    BY <2>4, FS_CardinalityType
  <2> QED BY <2>5, <2>6, <2>7 DEF MaxHops
<1> QED BY <1>2, <1>3, <1>4

-----------------------------------------------------------------------------
(* Rates of units.                                                         *)

LEMMA EntryIsListed ==
    ASSUME NEW list \in Seq(Rate), list # <<>>, NEW ttl
    PROVE  \E i \in DOMAIN list : Entry(list, ttl) = list[i]
<1>1. 1 \in DOMAIN list /\ DOMAIN list \subseteq Nat
  OBVIOUS
<1>2. CASE ttl # None /\ \E i \in DOMAIN list : list[i].ttl = ttl
  <2> DEFINE T == {i \in DOMAIN list : list[i].ttl = ttl}
             First(i) == /\ list[i].ttl = ttl
                         /\ \A j \in 1 .. (i - 1) : list[j].ttl # ttl
  <2>1. PICK i \in T : \A m \in T : <<m, i>> \notin OpToRel(<, Nat)
    BY <1>1, <1>2, NatLessThanWellFounded, WFMin
  <2>2. ASSUME NEW j \in 1 .. (i - 1)
        PROVE  list[j].ttl # ttl
    <3>1. j \in DOMAIN list /\ i \in Nat /\ j \in Nat /\ j < i
      <4>1. DOMAIN list = 1 .. Len(list) /\ Len(list) \in Nat
        OBVIOUS
      <4>2. i \in 1 .. Len(list)
        BY <2>1, <4>1
      <4> QED BY <4>1, <4>2
    <3>2. <<j, i>> \in OpToRel(<, Nat)
      BY <3>1 DEF OpToRel
    <3> QED BY <2>1, <3>1, <3>2
  <2>3. First(i) /\ i \in DOMAIN list
    BY <2>1, <2>2
  <2>4. Entry(list, ttl) = list[CHOOSE k \in DOMAIN list : First(k)]
    BY <1>2 DEF Entry
  <2> HIDE DEF First
  <2> QED BY <2>3, <2>4
<1>3. CASE ~(ttl # None /\ \E i \in DOMAIN list : list[i].ttl = ttl)
  BY <1>1, <1>3 DEF Entry
<1> QED BY <1>2, <1>3

LEMMA EffectiveIsRate ==
    ASSUME NEW units, Sound(units), NEW u \in Units, NEW ttl
    PROVE  effective(units, u, ttl) \in Rate \cup {None}
<1>1. CASE units[u] = <<>>
  BY <1>1 DEF effective
<1>2. CASE units[u] # <<>>
  <2> DEFINE first == Entry(units[u], ttl)
             last == Followed(units, first.sameAs, MaxHops - 2)
  <2>1. PICK i \in DOMAIN units[u] : first = units[u][i]
    BY <1>2, EntryIsListed DEF Sound
  <2>2. first \in Rate /\ first.sameAs \in Units \cup {None}
    BY <2>1 DEF Sound, KnownReferences
  <2>3. CASE first.sameAs = None
    BY <1>2, <2>2, <2>3 DEF effective
  <2>4. CASE first.sameAs # None
    <3>1. last \in Units
      BY <2>2, <2>4, FollowedHops, 6 \in Nat DEF MaxHops
    <3>2. units[last] # <<>> => units[last][1] \in Rate
      BY <3>1, FirstEntry
    <3>3. effective(units, u, ttl) =
            IF Ends(units, last) /\ units[last] # <<>> THEN units[last][1] ELSE None
      BY <1>2, <2>4 DEF effective
    <3> HIDE DEF last
    <3> QED BY <3>2, <3>3
  <2> QED BY <2>3, <2>4
<1> QED BY <1>1, <1>2

LEMMA AmountsFit == Amount \subseteq Nat /\ Amount \subseteq Int64 /\ Int64 \subseteq Int
BY WidthAssumption DEF Amount, Int64

LEMMA NanoIsAmount ==
    ASSUME NEW units, Sound(units), NEW u \in Units, NEW ttl
    PROVE  RateNano(units, u, ttl) \in Amount
<1>1. effective(units, u, ttl) \in Rate \cup {None}
  BY EffectiveIsRate
<1>2. 0 \in Amount
  BY WidthAssumption DEF Amount
<1> QED BY <1>1, <1>2 DEF RateNano, Rate

-----------------------------------------------------------------------------
(* Tiers.                                                                  *)

(* Rates as ParseRates leaves them.                                        *)
Ordered(rs) ==
    /\ Sound(rs.units) /\ rs.tiers \in Seq(Tier)
    /\ \A i, j \in DOMAIN rs.tiers : i < j => rs.tiers[i].above <= rs.tiers[j].above

TwoRates == [input : Int64, output : Int64]

BaseRates(rs) == [input  |-> RateNano(rs.units, "input", None),
                  output |-> RateNano(rs.units, "output", None)]

Replaced(r, t, us) ==
    IF us.input <= t.above THEN r
    ELSE [input |-> t.input, output |-> IF t.output > 0 THEN t.output ELSE r.output]

(* What the first n tiers make of the input rate.                          *)
TopOfFirst(rs, us, n, nano) ==
    \/ /\ \A i \in 1 .. n : us.input <= rs.tiers[i].above
       /\ nano = RateNano(rs.units, "input", None)
    \/ \E i \in 1 .. n :
         /\ us.input > rs.tiers[i].above /\ nano = rs.tiers[i].input
         /\ \A j \in 1 .. n : us.input > rs.tiers[j].above => rs.tiers[j].above <= rs.tiers[i].above

LEMMA TopGoesOn ==
    ASSUME NEW rs, Ordered(rs), NEW us \in Usage, NEW n \in 1 .. Len(rs.tiers), NEW r \in TwoRates,
           TopOfFirst(rs, us, n - 1, r.input)
    PROVE  TopOfFirst(rs, us, n, Replaced(r, rs.tiers[n], us).input)
<1>1. /\ DOMAIN rs.tiers = 1 .. Len(rs.tiers) /\ Len(rs.tiers) \in Nat
      /\ \A i \in 1 .. n : i \in DOMAIN rs.tiers /\ rs.tiers[i].above \in Int
      /\ us.input \in Int
  <2>1. rs.tiers \in Seq(Tier)
    BY DEF Ordered
  <2>2. DOMAIN rs.tiers = 1 .. Len(rs.tiers) /\ Len(rs.tiers) \in Nat
    BY <2>1
  <2>3. \A i \in 1 .. n : i \in DOMAIN rs.tiers /\ rs.tiers[i] \in Tier
    BY <2>1, <2>2
  <2>4. us.input \in Int64 /\ \A i \in 1 .. n : rs.tiers[i].above \in Int64
    BY <2>3 DEF Tier, Usage
  <2> QED BY <2>2, <2>3, <2>4, AmountsFit
<1>2. \A i \in 1 .. n : i = n \/ i \in 1 .. (n - 1)
  BY <1>1
<1>3. CASE us.input <= rs.tiers[n].above
  <2>1. Replaced(r, rs.tiers[n], us) = r
    BY <1>3 DEF Replaced
  <2>2. ~(us.input > rs.tiers[n].above)
    BY <1>1, <1>3
  <2>3. CASE \A i \in 1 .. (n - 1) : us.input <= rs.tiers[i].above
    BY <1>1, <1>2, <1>3, <2>1, <2>3 DEF TopOfFirst
  <2>4. CASE \E i \in 1 .. (n - 1) : us.input > rs.tiers[i].above
    <3>1. PICK i \in 1 .. (n - 1) :
             /\ us.input > rs.tiers[i].above /\ r.input = rs.tiers[i].input
             /\ \A j \in 1 .. (n - 1) :
                  us.input > rs.tiers[j].above => rs.tiers[j].above <= rs.tiers[i].above
      <4>1. ~\A i \in 1 .. (n - 1) : us.input <= rs.tiers[i].above
        BY <1>1, <2>4
      <4> QED BY <4>1, Zenon DEF TopOfFirst
    <3>2. i \in 1 .. n
      BY <1>1
    <3> QED BY <1>1, <1>2, <2>1, <2>2, <3>1, <3>2 DEF TopOfFirst
  <2> QED BY <1>1, <2>3, <2>4
<1>4. CASE us.input > rs.tiers[n].above
  <2>1. Replaced(r, rs.tiers[n], us).input = rs.tiers[n].input
    BY <1>1, <1>4 DEF Replaced
  <2>2. n \in 1 .. n
    BY <1>1
  <2>3. ASSUME NEW j \in 1 .. n
        PROVE  rs.tiers[j].above <= rs.tiers[n].above
    <3>1. CASE j = n
      BY <1>1, <3>1
    <3>2. CASE j < n
      BY <1>1, <3>2 DEF Ordered
    <3> QED BY <1>1, <3>1, <3>2
  <2> QED BY <1>4, <2>1, <2>2, <2>3 DEF TopOfFirst
<1> QED BY <1>1, <1>3, <1>4

LEMMA TiersReplace ==
    ASSUME NEW rs, Ordered(rs), NEW us \in Usage
    PROVE  /\ TierRates(rs, us) \in TwoRates
           /\ TopOfFirst(rs, us, Len(rs.tiers), TierRates(rs, us).input)
<1> DEFINE N == Len(rs.tiers)
           step == [n \in 1 .. N |-> [r \in TwoRates |-> Replaced(r, rs.tiers[n], us)]]
           Is(f) == f = [n \in 0 .. N |->
                            IF n = 0 THEN [input  |-> RateNano(rs.units, "input", None),
                                           output |-> RateNano(rs.units, "output", None)]
                            ELSE LET t == rs.tiers[n]
                                 IN  IF us.input <= t.above THEN f[n - 1]
                                     ELSE [input  |-> t.input,
                                           output |-> IF t.output > 0 THEN t.output
                                                      ELSE f[n - 1].output]]
           after == CHOOSE f : Is(f)
<1>1. N \in Nat /\ \A n \in 1 .. N : rs.tiers[n] \in Tier
  BY DEF Ordered
<1>2. BaseRates(rs) \in TwoRates
  <2>1. "input" \in Units /\ "output" \in Units /\ Sound(rs.units)
    BY DEF Units, Ordered
  <2> QED BY <2>1, NanoIsAmount, AmountsFit DEF BaseRates, TwoRates
<1>3. \A n \in 1 .. N, r \in TwoRates : Replaced(r, rs.tiers[n], us) \in TwoRates
  <2> SUFFICES ASSUME NEW n \in 1 .. N, NEW r \in TwoRates
               PROVE  Replaced(r, rs.tiers[n], us) \in TwoRates
    OBVIOUS
  <2>1. rs.tiers[n] \in Tier
    BY <1>1
  <2> QED BY <2>1 DEF Tier, TwoRates, Replaced
<1>4. step \in [1 .. N -> [TwoRates -> TwoRates]]
  <2> HIDE DEF N
  <2> QED BY <1>3
<1>5. PICK f \in [0 .. N -> TwoRates] : Iterates(f, N, BaseRates(rs), step)
  <2> HIDE DEF step, N
  <2> QED BY <1>1, <1>2, <1>4, IterationExists
<1>6. f[0] = BaseRates(rs) /\ \A n \in 1 .. N : f[n] = Replaced(f[n - 1], rs.tiers[n], us)
  <2> HIDE DEF N
  <2>1. \A n \in 1 .. N : f[n - 1] \in TwoRates
    BY <1>1
  <2>2. f[0] = BaseRates(rs) /\ \A n \in 1 .. N : f[n] = step[n][f[n - 1]]
    BY <1>5, Zenon DEF Iterates
  <2> QED BY <2>1, <2>2
<1>7. Is(f)
  <2> HIDE DEF N
  <2>1. \A n \in 0 .. N : f[n] = IF n = 0 THEN BaseRates(rs) ELSE Replaced(f[n - 1], rs.tiers[n], us)
    <3>1. \A n \in 0 .. N : n = 0 \/ n \in 1 .. N
      OBVIOUS
    <3> QED BY <1>6, <3>1
  <2>2. f = [n \in 0 .. N |-> IF n = 0 THEN BaseRates(rs) ELSE Replaced(f[n - 1], rs.tiers[n], us)]
    BY <1>5, <2>1
  <2> QED BY <2>2 DEF BaseRates, Replaced
<1>8. Is(after)
  <2> HIDE DEF Is
  <2> QED BY <1>7
<1>9. \A n \in 0 .. N :
         after[n] = IF n = 0 THEN BaseRates(rs) ELSE Replaced(after[n - 1], rs.tiers[n], us)
  <2> HIDE DEF after, N
  <2> QED BY <1>8, Zenon DEF BaseRates, Replaced
<1>10. TierRates(rs, us) = after[N]
  BY DEF TierRates
<1> HIDE DEF after, Is, step, N
<1> DEFINE Fits(n) == after[n] \in TwoRates /\ TopOfFirst(rs, us, n, after[n].input)
           good == {n \in 0 .. N : Fits(n)}
<1>11. 0 \in good
  <2>1. after[0] = BaseRates(rs) /\ 0 \in 0 .. N
    BY <1>1, <1>9
  <2>2. TopOfFirst(rs, us, 0, BaseRates(rs).input)
    BY DEF TopOfFirst, BaseRates
  <2> QED BY <1>2, <2>1, <2>2
<1>12. ASSUME NEW n \in 1 .. N, n - 1 \in good
       PROVE  n \in good
  <2>1. after[n] = Replaced(after[n - 1], rs.tiers[n], us) /\ n \in 0 .. N
    BY <1>1, <1>9
  <2>2. Fits(n - 1)
    BY <1>12
  <2>3. TopOfFirst(rs, us, n, Replaced(after[n - 1], rs.tiers[n], us).input)
    BY <2>2, TopGoesOn DEF N
  <2> QED BY <1>3, <2>1, <2>2, <2>3
<1>13. N \in good
  <2> HIDE DEF good
  <2> QED BY <1>1, <1>11, <1>12, Climb, N \in 0 .. N
<1> QED BY <1>10, <1>13 DEF N

CardTiers(c) == ToSet(c.tiers) \cup ToSet(LongContextTiers(c.units))

LEMMA LongTiers ==
    ASSUME NEW units, Sound(units)
    PROVE  LongContextTiers(units) \in Seq(Tier)
<1> DEFINE long == units["input_long_context"]
<1>1. "input_long_context" \in Units /\ "output" \in Units
  BY DEF Units
<1>2. long \in Seq(Rate)
  BY <1>1 DEF Sound
<1>3. DOMAIN long = 1 .. Len(long) /\ Len(long) \in Nat /\ \A i \in DOMAIN long : long[i] \in Rate
  BY <1>2
<1>4. RateNano(units, "output", None) \in Amount
  BY <1>1, NanoIsAmount
<1>5. \A i \in DOMAIN long :
         [above |-> long[i].threshold, input |-> long[i].nano,
          output |-> RateNano(units, "output", None)] \in Tier
  BY <1>3, <1>4, AmountsFit DEF Rate, Tier
<1> QED BY <1>3, <1>5 DEF LongContextTiers

LEMMA ParsingsOrdered ==
    ASSUME NEW c, IsCard(c), Parses(c), NEW rs \in Parsings(c)
    PROVE  /\ rs.units = c.units /\ Ordered(rs) /\ ToSet(rs.tiers) = CardTiers(c)
           /\ IsCard(rs)
<1> DEFINE long == LongContextTiers(c.units)
           all == c.tiers \o long
<1>1. Sound(c.units)
  BY DEF IsCard, Parses, Sound
<1>2. /\ rs = [units |-> c.units, tiers |-> rs.tiers] /\ rs.units = c.units
      /\ rs.tiers \in SortTiers(all)
  BY DEF Parsings
<1>3. c.tiers \in Seq(Tier) /\ long \in Seq(Tier) /\ all \in Seq(Tier)
  BY <1>1, LongTiers DEF IsCard
<1>4. DOMAIN all = 1 .. Len(all) /\ Len(all) \in Nat /\ \A i \in DOMAIN all : all[i] \in Tier
  <2> HIDE DEF all
  <2> QED BY <1>3
<1>5. PICK p \in Bijection(DOMAIN all, DOMAIN all) : rs.tiers = [i \in DOMAIN all |-> all[p[i]]]
  <2> HIDE DEF all
  <2> QED BY <1>2 DEF SortTiers
<1>6. /\ \A i \in DOMAIN all : p[i] \in DOMAIN all
      /\ \A j \in DOMAIN all : \E i \in DOMAIN all : p[i] = j
  <2> HIDE DEF all
  <2> QED BY <1>5 DEF Bijection, Injection, Surjection
<1>7. rs.tiers \in Seq(Tier) /\ DOMAIN rs.tiers = DOMAIN all
  <2> HIDE DEF all
  <2> QED BY <1>4, <1>5, <1>6
<1>8. \A i, j \in DOMAIN rs.tiers : i < j => rs.tiers[i].above <= rs.tiers[j].above
  <2> HIDE DEF all
  <2> QED BY <1>2 DEF SortTiers
<1>9. ToSet(rs.tiers) = ToSet(all)
  <2> HIDE DEF all
  <2> QED BY <1>5, <1>6 DEF ToSet
<1>10. ToSet(all) = ToSet(c.tiers) \cup ToSet(long)
  <2>0. /\ Len(all) = Len(c.tiers) + Len(long)
        /\ DOMAIN c.tiers = 1 .. Len(c.tiers) /\ DOMAIN long = 1 .. Len(long)
        /\ Len(c.tiers) \in Nat /\ Len(long) \in Nat
        /\ \A i \in 1 .. (Len(c.tiers) + Len(long)) :
             all[i] = IF i <= Len(c.tiers) THEN c.tiers[i] ELSE long[i - Len(c.tiers)]
    <3> HIDE DEF long
    <3> QED BY <1>3, ConcatProperties
  <2>1. \A i \in DOMAIN c.tiers : i \in DOMAIN all /\ all[i] = c.tiers[i]
    <3> HIDE DEF all, long
    <3> QED BY <1>4, <2>0
  <2>2. ASSUME NEW i \in DOMAIN long
        PROVE  Len(c.tiers) + i \in DOMAIN all /\ all[Len(c.tiers) + i] = long[i]
    <3> DEFINE k == Len(c.tiers) + i
    <3> HIDE DEF all, long
    <3>1. /\ k \in 1 .. (Len(c.tiers) + Len(long)) /\ ~(k <= Len(c.tiers))
          /\ k - Len(c.tiers) = i
      BY <2>0
    <3> HIDE DEF k
    <3>2. k \in DOMAIN all /\ all[k] = long[i]
      BY <1>4, <2>0, <3>1
    <3> QED BY <3>2 DEF k
  <2>3. \A i \in DOMAIN all :
           \/ i \in DOMAIN c.tiers /\ all[i] = c.tiers[i]
           \/ /\ i - Len(c.tiers) \in DOMAIN long
              /\ all[i] = long[i - Len(c.tiers)]
    <3> HIDE DEF all, long
    <3> QED BY <1>4, <2>0
  <2> HIDE DEF all, long
  <2> QED BY <2>1, <2>2, <2>3 DEF ToSet
<1>11. IsCard(rs)
  <2>1. DOMAIN rs = {"units", "tiers"}
    BY <1>2
  <2> QED BY <1>2, <1>7, <2>1 DEF IsCard
<1> QED BY <1>1, <1>2, <1>7, <1>8, <1>9, <1>10, <1>11 DEF Ordered, CardTiers

(* The input rate is that of the highest tier passed, in any order.        *)
OfHighest(c, us, nano) ==
    LET passed == {t \in CardTiers(c) : us.input > t.above}
        top    == {t \in passed : \A s \in passed : s.above <= t.above}
    IN  IF top = {} THEN nano = RateNano(c.units, "input", None)
        ELSE \E t \in top : nano = t.input

LEMMA HighestTierWins ==
    ASSUME NEW c, IsCard(c), Parses(c), NEW rs \in Parsings(c), NEW us \in Usage
    PROVE  OfHighest(c, us, TierRates(rs, us).input)
<1> DEFINE passed == {t \in CardTiers(c) : us.input > t.above}
           top == {t \in passed : \A s \in passed : s.above <= t.above}
           N == Len(rs.tiers)
           nano == TierRates(rs, us).input
<1>1. rs.units = c.units /\ Ordered(rs) /\ ToSet(rs.tiers) = CardTiers(c)
  BY ParsingsOrdered
<1>2. DOMAIN rs.tiers = 1 .. N /\ \A i \in 1 .. N : rs.tiers[i] \in Tier
  <2>1. rs.tiers \in Seq(Tier)
    BY <1>1 DEF Ordered
  <2> QED BY <2>1
<1>3. CardTiers(c) = {rs.tiers[i] : i \in 1 .. N}
  BY <1>1, <1>2 DEF ToSet
<1>4. us.input \in Int /\ \A i \in 1 .. N : rs.tiers[i].above \in Int
  BY <1>2, AmountsFit DEF Usage, Tier
<1>5. TopOfFirst(rs, us, N, nano)
  BY <1>1, TiersReplace
<1> HIDE DEF N, nano
<1>6. CASE /\ \A i \in 1 .. N : us.input <= rs.tiers[i].above
           /\ nano = RateNano(rs.units, "input", None)
  <2>1. passed = {}
    BY <1>3, <1>4, <1>6
  <2> QED BY <1>1, <1>6, <2>1 DEF nano, OfHighest
<1>7. CASE \E i \in 1 .. N :
              /\ us.input > rs.tiers[i].above /\ nano = rs.tiers[i].input
              /\ \A j \in 1 .. N : us.input > rs.tiers[j].above => rs.tiers[j].above <= rs.tiers[i].above
  <2>1. PICK i \in 1 .. N :
              /\ us.input > rs.tiers[i].above /\ nano = rs.tiers[i].input
              /\ \A j \in 1 .. N : us.input > rs.tiers[j].above => rs.tiers[j].above <= rs.tiers[i].above
    BY <1>7
  <2>2. rs.tiers[i] \in top
    BY <1>3, <2>1
  <2> QED BY <2>1, <2>2 DEF nano, OfHighest
<1> QED BY <1>5, <1>6, <1>7 DEF TopOfFirst

-----------------------------------------------------------------------------
(* Sums over the token units.                                              *)

LEMMA TokenUnitsAre ==
    /\ Len(TokenUnits) = 5
    /\ TokenUnits[1] = "input" /\ TokenUnits[2] = "output" /\ TokenUnits[3] = "cache_read"
    /\ TokenUnits[4] = "cache_write" /\ TokenUnits[5] = "reasoning"
    /\ ToSet(TokenUnits) = {"input", "output", "cache_read", "cache_write", "reasoning"}
<1>1. DOMAIN TokenUnits = {1, 2, 3, 4, 5} /\ Len(TokenUnits) = 5
  BY DEF TokenUnits
<1>2. /\ TokenUnits[1] = "input" /\ TokenUnits[2] = "output" /\ TokenUnits[3] = "cache_read"
      /\ TokenUnits[4] = "cache_write" /\ TokenUnits[5] = "reasoning"
  BY DEF TokenUnits
<1>3. ToSet(TokenUnits) = {"input", "output", "cache_read", "cache_write", "reasoning"}
  BY <1>1, <1>2 DEF ToSet
<1> QED BY <1>1, <1>2, <1>3

Part(a, u) == IF u \in DOMAIN a THEN a[u] ELSE 0

LEMMA SumOfFive ==
    ASSUME NEW a, \A u \in DOMAIN a : a[u] \in Int
    PROVE  /\ \A u : Part(a, u) \in Int
           /\ SumOf(a) = Part(a, "input") + Part(a, "output") + Part(a, "cache_read")
                           + Part(a, "cache_write") + Part(a, "reasoning")
<1> DEFINE step == [n \in 1 .. 5 |-> [x \in Int |-> x + Part(a, TokenUnits[n])]]
           Is(f) == f = [n \in 0 .. Len(TokenUnits) |->
                            IF n = 0 THEN 0
                            ELSE f[n - 1] + (IF TokenUnits[n] \in DOMAIN a
                                             THEN a[TokenUnits[n]] ELSE 0)]
           sum == CHOOSE f : Is(f)
<1>1. \A u : Part(a, u) \in Int
  BY DEF Part
<1>2. step \in [1 .. 5 -> [Int -> Int]]
  BY <1>1
<1>3. PICK f \in [0 .. 5 -> Int] : Iterates(f, 5, 0, step)
  <2> HIDE DEF step
  <2>1. 5 \in Nat /\ 0 \in Int
    OBVIOUS
  <2> QED BY <1>2, <2>1, IterationExists, Zenon
<1>4. f[0] = 0 /\ \A n \in 1 .. 5 : f[n] = f[n - 1] + Part(a, TokenUnits[n])
  <2>1. f[0] = 0 /\ \A n \in 1 .. 5 : f[n] = step[n][f[n - 1]]
    BY <1>3, Zenon DEF Iterates
  <2>2. \A n \in 1 .. 5 : f[n - 1] \in Int
    OBVIOUS
  <2> QED BY <2>1, <2>2
<1>5. Is(f)
  <2>1. \A n \in 0 .. 5 : f[n] = IF n = 0 THEN 0 ELSE f[n - 1] + Part(a, TokenUnits[n])
    <3>1. \A n \in 0 .. 5 : n = 0 \/ n \in 1 .. 5
      OBVIOUS
    <3> QED BY <1>4, <3>1
  <2>2. f = [n \in 0 .. 5 |-> IF n = 0 THEN 0 ELSE f[n - 1] + Part(a, TokenUnits[n])]
    BY <1>3, <2>1
  <2> QED BY <2>2, TokenUnitsAre DEF Part
<1>6. Is(sum)
  <2> HIDE DEF Is
  <2> QED BY <1>5
<1>7. \A n \in 0 .. 5 : sum[n] = IF n = 0 THEN 0 ELSE sum[n - 1] + Part(a, TokenUnits[n])
  <2>1. \A n \in 0 .. Len(TokenUnits) :
           sum[n] = IF n = 0 THEN 0 ELSE sum[n - 1] + Part(a, TokenUnits[n])
    <3> HIDE DEF sum
    <3> QED BY <1>6, Zenon DEF Part
  <2> HIDE DEF sum
  <2> QED BY <2>1, TokenUnitsAre
<1>8. SumOf(a) = sum[5]
  BY TokenUnitsAre DEF SumOf
<1> HIDE DEF sum, Is
<1>9. /\ sum[0] = 0 /\ sum[1] = sum[0] + Part(a, "input") /\ sum[2] = sum[1] + Part(a, "output")
      /\ sum[3] = sum[2] + Part(a, "cache_read") /\ sum[4] = sum[3] + Part(a, "cache_write")
      /\ sum[5] = sum[4] + Part(a, "reasoning")
  BY <1>7, TokenUnitsAre
<1> QED BY <1>1, <1>8, <1>9

One(D, u) == IF u \in D THEN 1 ELSE 0

LEMMA CountOneMore ==
    ASSUME NEW D, NEW S, IsFiniteSet(D \cap S), NEW u, u \notin S
    PROVE  /\ IsFiniteSet(D \cap (S \cup {u}))
           /\ Cardinality(D \cap (S \cup {u})) = Cardinality(D \cap S) + One(D, u)
<1>1. CASE u \in D
  <2>1. D \cap (S \cup {u}) = (D \cap S) \cup {u} /\ u \notin D \cap S
    BY <1>1
  <2> QED BY <1>1, <2>1, FS_AddElement DEF One
<1>2. CASE u \notin D
  <2>1. D \cap (S \cup {u}) = D \cap S
    BY <1>2
  <2>2. Cardinality(D \cap S) \in Nat
    BY FS_CardinalityType
  <2>3. One(D, u) = 0
    BY <1>2 DEF One
  <2>4. Cardinality(D \cap S) + 0 = Cardinality(D \cap S)
    BY <2>2
  <2> QED BY <2>1, <2>3, <2>4
<1> QED BY <1>1, <1>2

LEMMA CountOfFive ==
    ASSUME NEW D, D \subseteq ToSet(TokenUnits)
    PROVE  /\ Cardinality(D) \in Nat
           /\ Cardinality(D) = One(D, "input") + One(D, "output") + One(D, "cache_read")
                                  + One(D, "cache_write") + One(D, "reasoning")
<1> DEFINE s1 == {} \cup {"input"}
           s2 == s1 \cup {"output"}
           s3 == s2 \cup {"cache_read"}
           s4 == s3 \cup {"cache_write"}
           s5 == s4 \cup {"reasoning"}
           C(s) == Cardinality(D \cap s)
           Fin(s) == IsFiniteSet(D \cap s)
<1>0. Fin({}) /\ C({}) = 0
  BY FS_EmptySet
<1>1. Fin(s1) /\ C(s1) = C({}) + One(D, "input")
  BY <1>0, CountOneMore
<1>2. Fin(s2) /\ C(s2) = C(s1) + One(D, "output")
  <2>1. "output" \notin s1
    OBVIOUS
  <2> HIDE DEF s1
  <2> QED BY <1>1, <2>1, CountOneMore
<1>3. Fin(s3) /\ C(s3) = C(s2) + One(D, "cache_read")
  <2>1. "cache_read" \notin s2
    OBVIOUS
  <2> HIDE DEF s2
  <2> QED BY <1>2, <2>1, CountOneMore
<1>4. Fin(s4) /\ C(s4) = C(s3) + One(D, "cache_write")
  <2>1. "cache_write" \notin s3
    OBVIOUS
  <2> HIDE DEF s3
  <2> QED BY <1>3, <2>1, CountOneMore
<1>5. Fin(s5) /\ C(s5) = C(s4) + One(D, "reasoning")
  <2>1. "reasoning" \notin s4
    OBVIOUS
  <2> HIDE DEF s4
  <2> QED BY <1>4, <2>1, CountOneMore
<1>6. D \cap s5 = D
  BY TokenUnitsAre
<1>7. Cardinality(D) \in Nat
  <2> HIDE DEF s5
  <2> QED BY <1>5, <1>6, FS_CardinalityType
<1> HIDE DEF s1, s2, s3, s4, s5, Fin
<1>8. C({}) = 0 /\ C(s5) = Cardinality(D)
  BY <1>0, <1>6
<1>9. \A u : One(D, u) \in Nat
  BY DEF One
<1> HIDE DEF C
<1> QED BY <1>1, <1>2, <1>3, <1>4, <1>5, <1>7, <1>8, <1>9

-----------------------------------------------------------------------------
(* Rounding.                                                               *)

Half == Million \div 2

LEMMA HalfIsHalf == Half \in Nat /\ 2 * Half = Million
BY WidthAssumption DEF Half

LEMMA Quotient ==
    ASSUME NEW a \in Nat, NEW d \in Nat \ {0}
    PROVE  a \div d \in Nat /\ d * (a \div d) <= a /\ a < d * (a \div d) + d
OBVIOUS

LEMMA Cancel ==
    ASSUME NEW d \in Nat \ {0}, NEW x \in Int, NEW y \in Int
    PROVE  /\ d * x <= d * y => x <= y
           /\ d * x < d * y => x < y
OBVIOUS

LEMMA Grows ==
    ASSUME NEW d \in Nat, NEW x \in Int, NEW y \in Int, x <= y
    PROVE  d * x <= d * y
OBVIOUS

(* The square of what an int64 may not reach; a 128-bit word holds four.   *)
Square == (IntMax + 1) * (IntMax + 1)

LEMMA WidthsFit ==
    /\ Square \in Nat /\ WideBase = 4 * Square
    /\ 2 * (Million * (IntMax + 1)) <= Square
<1>1. IntMax \in Nat /\ Million \in Nat /\ 2 * Million <= IntMax + 1
  BY WidthAssumption
<1>2. Square \in Nat
  BY <1>1 DEF Square
<1>3. WideBase = 4 * Square
  BY <1>1 DEF WideBase, UnsignedBase, Square
<1>4. (IntMax + 1) * (2 * Million) <= (IntMax + 1) * (IntMax + 1)
  BY <1>1, Grows
<1>5. (IntMax + 1) * (2 * Million) = 2 * (Million * (IntMax + 1))
  BY <1>1
<1> QED BY <1>2, <1>3, <1>4, <1>5 DEF Square

(* amount is the exact amount rounded to the nearest millionth.            *)
Near(amount, exact) ==
    /\ amount \in Amount
    /\ 2 * (Million * amount) <= 2 * exact + Million
    /\ 2 * exact <= 2 * (Million * amount) + Million
    /\ 2 * exact < Square

LEMMA Rounds ==
    ASSUME NEW a \in Nat
    PROVE  /\ Rounded(a) \in Nat
           /\ Million * Rounded(a) <= a + Half /\ a + Half < Million * Rounded(a) + Million
<1>1. a + Half \in Nat /\ Million \in Nat \ {0}
  BY HalfIsHalf, WidthAssumption
<1> QED BY <1>1, Quotient DEF Rounded, Half

LEMMA DivRounds ==
    ASSUME NEW a \in Nat
    PROVE  \/ /\ DivRoundHalfUp(a) = ErrOverflow
              /\ a + Half >= Million * (IntMax + 1)
           \/ /\ DivRoundHalfUp(a) = Rounded(a) /\ Near(Rounded(a), a)
              /\ a + Half >= Million * Rounded(a)
<1> DEFINE q == Rounded(a)
<1>1. /\ q \in Nat /\ Million \in Nat \ {0} /\ IntMax \in Nat /\ Half \in Nat /\ 2 * Half = Million
      /\ Million * q \in Nat /\ Million * (IntMax + 1) \in Nat
      /\ Million * q <= a + Half /\ a + Half < Million * q + Million
  BY Rounds, HalfIsHalf, WidthAssumption
<1>2. CASE a + Half >= WideBase
  <2>1. a + Half >= Million * (IntMax + 1)
    BY <1>1, <1>2, WidthsFit
  <2> QED BY <1>2, <2>1 DEF DivRoundHalfUp, Half
<1>3. CASE q > IntMax
  <2>1. Million * (IntMax + 1) <= Million * q
    BY <1>1, <1>3, Grows
  <2>2. a + Half >= Million * (IntMax + 1)
    BY <1>1, <2>1
  <2> QED BY <1>3, <2>2 DEF DivRoundHalfUp
<1>4. CASE ~(a + Half >= WideBase) /\ ~(q > IntMax)
  <2>1. DivRoundHalfUp(a) = q
    BY <1>4 DEF DivRoundHalfUp, Half
  <2>2. q \in Amount /\ q + 1 <= IntMax + 1
    BY <1>1, <1>4 DEF Amount
  <2>3. Million * (q + 1) <= Million * (IntMax + 1)
    BY <1>1, <2>2, Grows
  <2>4. Million * (q + 1) = Million * q + Million
    BY <1>1
  <2>5. 2 * a < Square
    BY <1>1, <2>3, <2>4, WidthsFit
  <2>6. Near(q, a)
    BY <1>1, <2>2, <2>5 DEF Near
  <2> QED BY <1>1, <2>1, <2>6
<1> QED BY <1>2, <1>3, <1>4

(* Two roundings of one line differ from the rounding of the sum.          *)
LEMMA LineIsNear ==
    ASSUME NEW D, NEW u, NEW p \in [D -> Nat], NEW am \in [D -> Amount],
           u \in D => Near(am[u], p[u])
    PROVE  /\ Part(p, u) \in Nat /\ Part(am, u) \in Nat /\ One(D, u) \in {0, 1}
           /\ 2 * (Million * Part(am, u)) <= 2 * Part(p, u) + Million * One(D, u)
           /\ 2 * Part(p, u) <= 2 * (Million * Part(am, u)) + Million * One(D, u)
           /\ 2 * Part(p, u) <= Square
<1>1. Million \in Nat /\ Square \in Nat
  BY WidthAssumption, WidthsFit
<1>2. CASE u \in D
  <2>1. Part(p, u) = p[u] /\ Part(am, u) = am[u] /\ One(D, u) = 1
    BY <1>2 DEF Part, One
  <2>2. p[u] \in Nat /\ am[u] \in Nat /\ Near(am[u], p[u])
    BY <1>2 DEF Amount
  <2> QED BY <1>1, <2>1, <2>2 DEF Near
<1>3. CASE u \notin D
  <2>1. Part(p, u) = 0 /\ Part(am, u) = 0 /\ One(D, u) = 0
    BY <1>3 DEF Part, One
  <2> QED BY <1>1, <2>1
<1> QED BY <1>2, <1>3

LEMMA LinesAreNear ==
    ASSUME NEW D, D \subseteq ToSet(TokenUnits), NEW p \in [D -> Nat], NEW am \in [D -> Amount],
           \A u \in D : Near(am[u], p[u])
    PROVE  /\ SumOf(p) \in Nat /\ SumOf(am) \in Nat /\ Cardinality(D) \in Nat
           /\ 2 * (Million * SumOf(am)) <= 2 * SumOf(p) + Million * Cardinality(D)
           /\ 2 * SumOf(p) <= 2 * (Million * SumOf(am)) + Million * Cardinality(D)
           /\ SumOf(p) < WideBase
<1> DEFINE P(u) == Part(p, u)
           A(u) == Part(am, u)
           O(u) == One(D, u)
           Fine(u) == /\ P(u) \in Nat /\ A(u) \in Nat /\ O(u) \in Nat
                      /\ 2 * (Million * A(u)) <= 2 * P(u) + Million * O(u)
                      /\ 2 * P(u) <= 2 * (Million * A(u)) + Million * O(u)
                      /\ 2 * P(u) <= Square
<1>1. ASSUME NEW u
      PROVE  Fine(u)
  BY LineIsNear
<1>2. SumOf(p) = P("input") + P("output") + P("cache_read") + P("cache_write") + P("reasoning")
  BY SumOfFive
<1>3. SumOf(am) = A("input") + A("output") + A("cache_read") + A("cache_write") + A("reasoning")
  BY SumOfFive DEF Amount
<1>4. /\ Cardinality(D) = O("input") + O("output") + O("cache_read") + O("cache_write") + O("reasoning")
      /\ Cardinality(D) \in Nat
  BY CountOfFive
<1>5. Million \in Nat /\ Square \in Nat /\ WideBase = 4 * Square /\ Square > 0
  BY WidthAssumption, WidthsFit DEF Square
<1> HIDE DEF P, A, O
<1>6. /\ Fine("input") /\ Fine("output") /\ Fine("cache_read") /\ Fine("cache_write")
      /\ Fine("reasoning")
  BY <1>1
<1> QED BY <1>2, <1>3, <1>4, <1>5, <1>6

-----------------------------------------------------------------------------
(* Charges.                                                                *)

Products(lines) == [u \in DOMAIN lines |-> Product(lines[u])]

LEMMA LinesAreSound ==
    ASSUME NEW rs, Ordered(rs), NEW us \in Usage
    PROVE  LET lines == TokenLines(rs, us)
           IN  /\ DOMAIN lines \subseteq ToSet(TokenUnits)
               /\ \A u \in DOMAIN lines :
                    /\ lines[u].qty \in Int /\ lines[u].nano \in Int
                    /\ u = "input" => lines[u].nano = TierRates(rs, us).input
<1> DEFINE lines == TokenLines(rs, us)
<1>1. DOMAIN lines \subseteq ToSet(TokenUnits)
  BY DEF TokenLines
<1>2. ASSUME NEW u \in DOMAIN lines
      PROVE  /\ lines[u].qty \in Int /\ lines[u].nano \in Int
             /\ u = "input" => lines[u].nano = TierRates(rs, us).input
  <2>1. lines[u] = [qty |-> us[u], nano |-> UnitNano(rs, us, u)]
    BY DEF TokenLines
  <2>2. u \in {"input", "output", "cache_read", "cache_write", "reasoning"}
    BY <1>1, TokenUnitsAre
  <2>3. us[u] \in Int
    BY <2>2, AmountsFit DEF Usage
  <2>4. TierRates(rs, us) \in TwoRates
    BY TiersReplace
  <2>5. UnitNano(rs, us, u) \in Int
    <3>1. CASE u \in {"input", "output"}
      BY <2>4, <3>1, AmountsFit DEF UnitNano, TwoRates
    <3>2. CASE u \notin {"input", "output"}
      <4>1. u \in Units /\ Sound(rs.units)
        BY <2>2 DEF Units, Ordered
      <4> QED BY <3>2, <4>1, NanoIsAmount, AmountsFit DEF UnitNano
    <3> QED BY <3>1, <3>2
  <2>6. u = "input" => UnitNano(rs, us, u) = TierRates(rs, us).input
    BY DEF UnitNano
  <2> QED BY <2>1, <2>3, <2>5, <2>6
<1> QED BY <1>1, <1>2 DEF lines

(* Charge fails for a quantity or a price below zero: what is left has     *)
(* natural products.                                                       *)
Refused(rs, us) ==
    \E u \in DOMAIN TokenLines(rs, us) : Negative(TokenLines(rs, us)[u])

LEMMA ProductsAreNatural ==
    ASSUME NEW rs, Ordered(rs), NEW us \in Usage, ~Refused(rs, us)
    PROVE  Products(TokenLines(rs, us)) \in [DOMAIN TokenLines(rs, us) -> Nat]
<1> DEFINE lines == TokenLines(rs, us)
<1>1. \A u \in DOMAIN lines :
         lines[u].qty \in Int /\ lines[u].nano \in Int /\ ~Negative(lines[u])
  BY LinesAreSound DEF Refused
<1> HIDE DEF lines
<1>2. \A u \in DOMAIN lines : lines[u].qty \in Nat /\ lines[u].nano \in Nat
  BY <1>1 DEF Negative
<1>3. \A u \in DOMAIN lines : Product(lines[u]) \in Nat
  BY <1>2 DEF Product
<1>4. Products(lines) \in [DOMAIN lines -> Nat]
  BY <1>3 DEF Products
<1> QED BY <1>4 DEF lines

LEMMA FeeIsNatural ==
    ASSUME NEW rs, Ordered(rs), NEW us \in Usage
    PROVE  FixedFee(rs, us) \in Nat
<1> DEFINE r == effective(rs.units, "request_fixed", None)
<1>1. r \in Rate \cup {None}
  BY EffectiveIsRate DEF Ordered, Units
<1>2. Requests(us) \in Nat
  <2>1. us.requests \in Int
    BY AmountsFit DEF Usage
  <2> QED BY <2>1 DEF Requests
<1>3. r # None => r.fixed \in Nat
  BY <1>1 DEF Rate, Amount
<1>4. r # None => r.fixed * Requests(us) \in Nat
  BY <1>2, <1>3
<1> QED BY <1>4 DEF FixedFee

LEMMA Remainder ==
    ASSUME NEW a \in Nat, NEW d \in Nat \ {0}
    PROVE  /\ a % d \in Nat /\ a % d <= a
           /\ a < d => a % d = a
<1>1. a % d \in Nat /\ a \div d \in Nat
  OBVIOUS
<1>2. a = d * (a \div d) + (a % d)
  OBVIOUS
<1>3. d * (a \div d) \in Nat
  BY <1>1
<1>4. ASSUME a < d
      PROVE  a % d = a
  BY <1>4
<1> QED BY <1>1, <1>2, <1>3, <1>4

(* What is left of the sum in a word that drops its last carry.            *)
LEMMA WrappedIsLess ==
    ASSUME NEW a \in Nat
    PROVE  /\ Wrapped(a) \in Nat /\ Wrapped(a) <= a
           /\ a < WideBase => Wrapped(a) = a
<1>1. WideBase \in Nat \ {0}
  BY WidthsFit, WidthAssumption DEF Square
<1> QED BY <1>1, Remainder DEF Wrapped

LEMMA TotalIs ==
    ASSUME NEW rs, Ordered(rs), NEW us \in Usage,
           NEW sum, sum = SumOf(Products(TokenLines(rs, us))), sum \in Nat,
           NEW fixed, fixed = FixedFee(rs, us)
    PROVE  \/ /\ Total(rs, us) = ErrOverflow
              /\ sum + Half >= Million * (IntMax + 1 - fixed)
           \/ /\ Total(rs, us) \in Amount /\ Total(rs, us) - fixed = Rounded(Wrapped(sum))
              /\ Near(Rounded(Wrapped(sum)), Wrapped(sum))
<1> DEFINE w == Wrapped(sum)
           tokens == DivRoundHalfUp(w)
<1>1. /\ fixed \in Nat /\ w \in Nat /\ w <= sum /\ Half \in Nat /\ IntMax \in Nat
      /\ Million \in Nat \ {0}
  BY FeeIsNatural, WrappedIsLess, HalfIsHalf, WidthAssumption
<1>2. Total(rs, us) = IF tokens = ErrOverflow \/ fixed > IntMax THEN ErrOverflow
                      ELSE IF tokens + fixed > IntMax THEN ErrOverflow
                      ELSE tokens + fixed
  BY DEF Total, Products
<1>3. \/ tokens = ErrOverflow /\ w + Half >= Million * (IntMax + 1)
      \/ tokens = Rounded(w) /\ Near(Rounded(w), w) /\ w + Half >= Million * Rounded(w)
  BY <1>1, DivRounds
<1>4. CASE tokens = ErrOverflow /\ w + Half >= Million * (IntMax + 1)
  <2>1. Million * (IntMax + 1 - fixed) <= Million * (IntMax + 1)
    BY <1>1, Grows
  <2>2. Million * (IntMax + 1 - fixed) \in Int /\ Million * (IntMax + 1) \in Int
    BY <1>1
  <2> HIDE DEF tokens, w
  <2> QED BY <1>1, <1>2, <1>4, <2>1, <2>2
<1>5. CASE tokens = Rounded(w) /\ Near(Rounded(w), w) /\ w + Half >= Million * Rounded(w)
  <2>1. tokens \in Nat /\ tokens # ErrOverflow /\ Million * tokens \in Nat
    <3>1. tokens \in Nat
      BY <1>1, <1>5, Rounds
    <3> HIDE DEF tokens
    <3> QED BY <1>1, <3>1 DEF ErrOverflow
  <2> HIDE DEF tokens, w
  <2>2. CASE fixed > IntMax
    <3>1. Million * (IntMax + 1 - fixed) <= Million * 0
      BY <1>1, <2>2, Grows
    <3>2. Million * (IntMax + 1 - fixed) \in Int
      BY <1>1
    <3> QED BY <1>1, <1>2, <2>2, <3>1, <3>2
  <2>3. CASE fixed <= IntMax /\ tokens + fixed > IntMax
    <3>1. Million * (IntMax + 1 - fixed) <= Million * tokens
      BY <1>1, <2>1, <2>3, Grows
    <3>2. Million * (IntMax + 1 - fixed) \in Int
      BY <1>1
    <3> QED BY <1>1, <1>2, <1>5, <2>1, <2>3, <3>1, <3>2
  <2>4. CASE fixed <= IntMax /\ tokens + fixed <= IntMax
    <3>1. Total(rs, us) = tokens + fixed
      BY <1>1, <1>2, <2>1, <2>4
    <3>2. Total(rs, us) \in Amount /\ Total(rs, us) - fixed = tokens
      BY <1>1, <2>1, <2>4, <3>1 DEF Amount
    <3> QED BY <1>5, <3>2 DEF w
  <2> QED BY <1>1, <2>1, <2>2, <2>3, <2>4
<1> QED BY <1>3, <1>4, <1>5

LEMMA PartOfSum ==
    ASSUME NEW p, DOMAIN p \subseteq ToSet(TokenUnits), \A u \in DOMAIN p : p[u] \in Nat
    PROVE  /\ SumOf(p) \in Nat
           /\ \A u \in DOMAIN p : p[u] <= SumOf(p)
<1> DEFINE P(u) == Part(p, u)
<1>1. \A u : P(u) \in Nat
  BY DEF Part
<1>2. SumOf(p) = P("input") + P("output") + P("cache_read") + P("cache_write") + P("reasoning")
  BY SumOfFive
<1>3. \A u \in DOMAIN p :
         /\ p[u] = P(u)
         /\ u \in {"input", "output", "cache_read", "cache_write", "reasoning"}
  BY TokenUnitsAre DEF Part
<1> HIDE DEF P
<1>4. P("input") \in Nat /\ P("output") \in Nat /\ P("cache_read") \in Nat
      /\ P("cache_write") \in Nat /\ P("reasoning") \in Nat
  BY <1>1
<1>5. SumOf(p) \in Nat
  BY <1>2, <1>4
<1>6. ASSUME NEW u \in DOMAIN p
      PROVE  p[u] <= SumOf(p)
  BY <1>2, <1>3, <1>4
<1> QED BY <1>5, <1>6

(* What an error means: the exact sum is beyond what the fixed fee leaves  *)
(* of an int64.                                                            *)
TooMuch(rs, us) ==
    SumOf(Products(TokenLines(rs, us))) + Half >= Million * (IntMax + 1 - FixedFee(rs, us))

(* A result without an error: one rounding for the total, and one a line.  *)
Fair(rs, us, r) ==
    LET lines == TokenLines(rs, us)
        sum   == SumOf(Products(lines))
        fixed == FixedFee(rs, us)
    IN  /\ r.total \in Amount /\ r.fixed = fixed
        /\ r.total - fixed = Rounded(sum) /\ Near(r.total - fixed, sum)
        /\ DOMAIN r.lines = DOMAIN lines
        /\ \A u \in DOMAIN lines :
             /\ Near(r.lines[u].amount, Product(lines[u]))
             /\ r.lines[u].nano = lines[u].nano

LEMMA NoErrorIsAmount == ErrOverflow \notin Amount /\ ErrNegative \notin Amount
BY AmountsFit DEF ErrOverflow, ErrNegative

LEMMA ChargeIs ==
    ASSUME NEW rs, Ordered(rs), NEW us \in Usage
    PROVE  \/ Refused(rs, us) /\ Charge(rs, us).total = ErrNegative
           \/ /\ ~Refused(rs, us) /\ SumOf(Products(TokenLines(rs, us))) \in Nat
              /\ \/ Charge(rs, us).total = ErrOverflow /\ TooMuch(rs, us)
                 \/ Fair(rs, us, Charge(rs, us))
<1>0. CASE Refused(rs, us)
  BY <1>0 DEF Refused, Charge, ChargeFails
<1> SUFFICES ASSUME ~Refused(rs, us)
             PROVE  /\ SumOf(Products(TokenLines(rs, us))) \in Nat
                    /\ \/ Charge(rs, us).total = ErrOverflow /\ TooMuch(rs, us)
                       \/ Fair(rs, us, Charge(rs, us))
  BY <1>0
<1> DEFINE lines == TokenLines(rs, us)
           p     == Products(lines)
           sum   == SumOf(p)
           fixed == FixedFee(rs, us)
           total == Total(rs, us)
           fails == \E u \in DOMAIN lines : LineAmount(lines[u]) = ErrOverflow
           r     == Charge(rs, us)
<1>1. /\ DOMAIN lines \subseteq ToSet(TokenUnits)
      /\ p \in [DOMAIN lines -> Nat] /\ DOMAIN p = DOMAIN lines
      /\ \A u \in DOMAIN lines : p[u] = Product(lines[u]) /\ p[u] \in Nat
  <2>1. DOMAIN lines \subseteq ToSet(TokenUnits) /\ p \in [DOMAIN lines -> Nat]
    BY LinesAreSound, ProductsAreNatural
  <2>2. \A u \in DOMAIN lines : p[u] = Product(lines[u])
    BY DEF Products
  <2> HIDE DEF lines, p
  <2> QED BY <2>1, <2>2
<1>2. sum \in Nat /\ \A u \in DOMAIN lines : p[u] <= sum
  <2> HIDE DEF lines, p
  <2> QED BY <1>1, PartOfSum
<1>3. r = IF total = ErrOverflow \/ fails
          THEN [total |-> ErrOverflow, lines |-> <<>>, fixed |-> 0]
          ELSE [total |-> total,
                lines |-> [u \in DOMAIN lines |->
                              [qty |-> lines[u].qty, nano |-> lines[u].nano,
                               amount |-> LineAmount(lines[u])]],
                fixed |-> fixed]
  BY DEF Charge, ChargeFails, Refused
<1>4. \/ total = ErrOverflow /\ TooMuch(rs, us)
      \/ /\ total \in Amount /\ total - fixed = Rounded(Wrapped(sum))
         /\ Near(Rounded(Wrapped(sum)), Wrapped(sum))
  BY <1>2, TotalIs DEF TooMuch
<1>5. fixed \in Nat /\ Half \in Nat /\ IntMax \in Nat /\ Million \in Nat \ {0}
  BY FeeIsNatural, HalfIsHalf, WidthAssumption
<1> HIDE DEF lines, p, r, total
<1>6. CASE total = ErrOverflow
  <2>1. total \notin Amount
    BY <1>6, NoErrorIsAmount
  <2>2. r.total = ErrOverflow
    BY <1>3, <1>6
  <2> QED BY <1>2, <1>4, <2>1, <2>2 DEF r, p, lines
<1>7. CASE fails
  <2>1. r.total = ErrOverflow
    BY <1>3, <1>7
  <2>2. PICK u \in DOMAIN lines : DivRoundHalfUp(p[u]) = ErrOverflow
    BY <1>1, <1>7 DEF LineAmount
  <2>3. p[u] \in Nat /\ p[u] <= sum
    BY <1>1, <1>2
  <2>4. \/ p[u] + Half >= Million * (IntMax + 1)
        \/ DivRoundHalfUp(p[u]) \in Amount
    BY <2>3, DivRounds DEF Near
  <2>5. p[u] + Half >= Million * (IntMax + 1)
    BY <2>2, <2>4, NoErrorIsAmount
  <2>6. /\ Million * (IntMax + 1 - fixed) <= Million * (IntMax + 1)
        /\ Million * (IntMax + 1 - fixed) \in Int /\ Million * (IntMax + 1) \in Int
    <3> HIDE DEF fixed
    <3> QED BY <1>5, Grows
  <2>7. sum + Half >= Million * (IntMax + 1 - fixed)
    <3> HIDE DEF sum, fixed
    <3> QED BY <1>2, <1>5, <2>3, <2>5, <2>6
  <2> QED BY <1>2, <2>1, <2>7 DEF TooMuch, r, p, lines
<1>8. CASE ~(total = ErrOverflow \/ fails)
  <2> DEFINE am == [u \in DOMAIN lines |-> LineAmount(lines[u])]
  <2>1. /\ r.total = total /\ r.fixed = fixed /\ DOMAIN r.lines = DOMAIN lines
        /\ \A u \in DOMAIN lines : r.lines[u].nano = lines[u].nano /\ r.lines[u].amount = am[u]
    <3> HIDE DEF fails
    <3> QED BY <1>3, <1>8
  <2>2. ASSUME NEW u \in DOMAIN lines
        PROVE  Near(am[u], p[u])
    <3>1. am[u] = DivRoundHalfUp(p[u]) /\ am[u] # ErrOverflow /\ p[u] \in Nat
      BY <1>1, <1>8 DEF LineAmount
    <3> HIDE DEF am
    <3> QED BY <3>1, DivRounds
  <2>3. am \in [DOMAIN lines -> Amount]
    <3>1. \A u \in DOMAIN lines : am[u] \in Amount
      BY <2>2 DEF Near
    <3> QED BY <3>1
  <2>4. sum < WideBase
    <3> HIDE DEF am
    <3> QED BY <1>1, <2>2, <2>3, LinesAreNear
  <2>5. Wrapped(sum) = sum
    <3> HIDE DEF sum
    <3> QED BY <1>2, <2>4, WrappedIsLess
  <2>6. total # ErrOverflow /\ total \in Amount /\ total - fixed = Rounded(sum)
        /\ Near(Rounded(sum), sum)
    BY <1>4, <1>8, <2>5
  <2>7. \A u \in DOMAIN lines : Near(r.lines[u].amount, Product(lines[u]))
    BY <1>1, <2>1, <2>2
  <2>8. Fair(rs, us, r)
    BY <2>1, <2>6, <2>7 DEF Fair, lines, p
  <2> QED BY <1>2, <2>1, <2>6, <2>8 DEF r, p, lines
<1> QED BY <1>6, <1>7, <1>8

-----------------------------------------------------------------------------
(* The life of a card: what is known of it at every stage.                 *)

CardInv ==
    /\ card \in Cards
    /\ stage \in {"submitted", "parsed", "refused", "published", "published with warnings", "charged"}
    /\ stage = "submitted" => rates = None
    /\ rates # None \/ stage \notin {"submitted", "refused"} =>
         Parses(card) /\ rates \in Parsings(card)
    /\ IF stage = "charged" THEN usage \in Usages /\ result = Charge(rates, usage)
       ELSE result = None

LEMMA CardInvInductive == CardSpec => []CardInv
<1>1. CardInit => CardInv
  BY DEF CardInit, CardInv
<1>2. CardInv /\ [CardNext]_cardVars => CardInv'
  <2> SUFFICES ASSUME CardInv, [CardNext]_cardVars
               PROVE  CardInv'
    OBVIOUS
  <2> USE DEF CardInv
  <2>1. CASE Parse
    BY <2>1 DEF Parse
  <2>2. CASE ParseFails
    BY <2>2 DEF ParseFails
  <2>3. CASE Accept
    BY <2>3 DEF Accept
  <2>4. CASE HasErrors
    BY <2>4 DEF HasErrors
  <2>5. CASE Call
    BY <2>5 DEF Call, Published
  <2>6. CASE UNCHANGED cardVars
    BY <2>6 DEF cardVars
  <2> QED BY <2>1, <2>2, <2>3, <2>4, <2>5, <2>6 DEF CardNext, Done
<1> QED BY <1>1, <1>2, PTL DEF CardSpec

(* A charge is made by ordered rates, of the card that was submitted.      *)
LEMMA ChargedBy ==
    ASSUME CardInv, stage = "charged"
    PROVE  /\ IsCard(card) /\ Parses(card) /\ rates \in Parsings(card)
           /\ usage \in Usage /\ Ordered(rates) /\ result = Charge(rates, usage)
<1>1. IsCard(card) /\ Parses(card) /\ rates \in Parsings(card)
  BY CardsAssumption DEF CardInv
<1>2. usage \in Usage /\ result = Charge(rates, usage)
  BY UsagesAssumption DEF CardInv
<1> QED BY <1>1, <1>2, ParsingsOrdered

LEMMA ChargesAreTyped == CardInv => CardTypeOK
<1> SUFFICES ASSUME CardInv
             PROVE  CardTypeOK
  OBVIOUS
<1>1. IsCard(card)
  BY CardsAssumption DEF CardInv
<1>2. rates # None => IsCard(rates)
  BY <1>1, ParsingsOrdered DEF CardInv
<1>3. result # None => result.total \in Amount \cup {ErrOverflow, ErrNegative}
  <2> SUFFICES ASSUME result # None
               PROVE  result.total \in Amount \cup {ErrOverflow, ErrNegative}
    OBVIOUS
  <2>1. stage = "charged"
    BY DEF CardInv
  <2>2. Ordered(rates) /\ usage \in Usage /\ result = Charge(rates, usage)
    BY <2>1, ChargedBy
  <2> QED BY <2>2, ChargeIs DEF Fair
<1> QED BY <1>1, <1>2, <1>3 DEF CardTypeOK, CardInv

LEMMA ChargesAreExact == CardInv => ExactCharge
<1> SUFFICES ASSUME CardInv, stage = "charged"
             PROVE  ExactCharge
  BY DEF ExactCharge, Charged
<1> DEFINE sum    == SumOf(Products(TokenLines(rates, usage)))
           tokens == result.total - FixedFee(rates, usage)
<1>1. Ordered(rates) /\ usage \in Usage /\ result = Charge(rates, usage)
  BY ChargedBy
<1>2. \/ Refused(rates, usage) /\ result.total = ErrNegative
      \/ /\ ~Refused(rates, usage) /\ sum \in Nat
         /\ \/ result.total = ErrOverflow /\ TooMuch(rates, usage)
            \/ Fair(rates, usage, result)
  BY <1>1, ChargeIs
<1>3. Exact(TokenLines(rates, usage)) = sum
  BY DEF Exact, Products
<1>4. ASSUME Charged
      PROVE  /\ ~Refused(rates, usage)
             /\ sum - Million * tokens < Half /\ Million * tokens - sum <= Half
  <2>1. ~Refused(rates, usage) /\ sum \in Nat /\ tokens = Rounded(sum)
    BY <1>2, <1>4, NoErrorIsAmount DEF Charged, Fair
  <2>2. /\ Rounded(sum) \in Nat
        /\ Million * Rounded(sum) <= sum + Half /\ sum + Half < Million * Rounded(sum) + Million
    BY <2>1, Rounds
  <2>3. Half \in Nat /\ 2 * Half = Million /\ Million \in Nat
    BY HalfIsHalf, WidthAssumption
  <2>4. Million * tokens \in Nat
    BY <2>1, <2>2, <2>3
  <2> HIDE DEF sum, tokens
  <2> QED BY <2>1, <2>2, <2>3, <2>4
<1>5. ~Charged => Refused(rates, usage) \/ sum + Half >= Million * (IntMax + 1 - FixedFee(rates, usage))
  BY <1>2 DEF Charged, Fair, TooMuch
<1> HIDE DEF sum, tokens
<1> QED BY <1>3, <1>4, <1>5 DEF ExactCharge, Half, Refused, sum, tokens

LEMMA ItemsAreClose == CardInv => LinesAddUp
<1> SUFFICES ASSUME CardInv, Charged
             PROVE  LinesAddUp
  BY DEF LinesAddUp
<1> DEFINE lines  == TokenLines(rates, usage)
           p      == Products(lines)
           am     == [u \in DOMAIN result.lines |-> result.lines[u].amount]
           count  == Cardinality(DOMAIN result.lines)
           fixed  == FixedFee(rates, usage)
           tokens == result.total - fixed
<1>1. Ordered(rates) /\ usage \in Usage /\ result = Charge(rates, usage)
  BY ChargedBy DEF Charged
<1>2. /\ ~Refused(rates, usage) /\ Fair(rates, usage, result) /\ fixed \in Nat
  BY <1>1, ChargeIs, NoErrorIsAmount, FeeIsNatural DEF Charged
<1>3. /\ DOMAIN lines \subseteq ToSet(TokenUnits) /\ p \in [DOMAIN lines -> Nat]
  BY <1>1, <1>2, LinesAreSound, ProductsAreNatural
<1>4. /\ DOMAIN result.lines = DOMAIN lines /\ result.fixed = fixed
      /\ result.total \in Amount /\ Near(tokens, SumOf(p))
      /\ \A u \in DOMAIN lines : Near(am[u], p[u])
  BY <1>2 DEF Fair, Products
<1>5. am \in [DOMAIN lines -> Amount]
  BY <1>4 DEF Near
<1>6. /\ SumOf(p) \in Nat /\ SumOf(am) \in Nat /\ count \in Nat
      /\ 2 * (Million * SumOf(am)) <= 2 * SumOf(p) + Million * count
      /\ 2 * SumOf(p) <= 2 * (Million * SumOf(am)) + Million * count
  <2> HIDE DEF am, p, lines
  <2> QED BY <1>3, <1>4, <1>5, LinesAreNear
<1> HIDE DEF am, p, lines, count, fixed
<1>7. /\ tokens \in Nat /\ Million \in Nat \ {0}
      /\ 2 * (Million * tokens) <= 2 * SumOf(p) + Million
      /\ 2 * SumOf(p) <= 2 * (Million * tokens) + Million
  BY <1>4, WidthAssumption DEF Near, Amount
<1> HIDE DEF tokens
<1>8. /\ 2 * (Million * SumOf(am)) <= 2 * (Million * tokens) + Million + Million * count
      /\ 2 * (Million * tokens) <= 2 * (Million * SumOf(am)) + Million + Million * count
  <2>1. Million * SumOf(am) \in Nat /\ Million * tokens \in Nat /\ Million * count \in Nat
    BY <1>6, <1>7
  <2> QED BY <1>6, <1>7, <2>1
<1>9. 2 * SumOf(am) <= 2 * tokens + (count + 1) /\ 2 * tokens <= 2 * SumOf(am) + (count + 1)
  <2>1. /\ Million * (2 * SumOf(am)) = 2 * (Million * SumOf(am))
        /\ Million * (2 * tokens) = 2 * (Million * tokens)
        /\ Million * (2 * SumOf(am) + (count + 1)) = 2 * (Million * SumOf(am)) + Million + Million * count
        /\ Million * (2 * tokens + (count + 1)) = 2 * (Million * tokens) + Million + Million * count
    BY <1>6, <1>7
  <2>2. /\ 2 * SumOf(am) \in Int /\ 2 * tokens \in Int
        /\ 2 * SumOf(am) + (count + 1) \in Int /\ 2 * tokens + (count + 1) \in Int
    BY <1>6, <1>7
  <2> QED BY <1>7, <1>8, <2>1, <2>2, Cancel
<1>10. /\ 2 * ((SumOf(am) + fixed) - result.total) <= count + 1
       /\ 2 * (result.total - (SumOf(am) + fixed)) <= count + 1
  BY <1>2, <1>4, <1>6, <1>7, <1>9 DEF tokens, Amount
<1>11. /\ 2 * ((SumOf(am) + result.fixed) - result.total) <= count + 1
       /\ 2 * (result.total - (SumOf(am) + result.fixed)) <= count + 1
  BY <1>4, <1>10
<1> QED BY <1>11 DEF LinesAddUp, Items, am, count

(* What is charged is the exact sum rounded once, or an error that the     *)
(* width of int64 justifies, or a quantity or a price below zero; and the  *)
(* items add up to it within half a unit each (calc.go:42-56, 84-86,       *)
(* 142-144).                                                               *)
THEOREM ChargedExactlyProved == CardSpec => []ChargedExactly
<1>1. CardInv => ChargedExactly
  BY ChargesAreTyped, ChargesAreExact, ItemsAreClose DEF ChargedExactly
<1> QED BY <1>1, CardInvInductive, PTL

(* Every same_as of a card that was parsed leads to a rate, to a unit that *)
(* is not declared, or further than it is followed (rates.go:100-103).     *)
THEOREM ReferencesResolveProved == CardSpec => []ReferencesResolve
<1>1. CardInv => ReferencesResolve
  <2> SUFFICES ASSUME CardInv, stage # "submitted", rates # None,
                      NEW u \in Units, card.units[u] # <<>>
               PROVE  \/ \E v \in SourcesOf(u) :
                           \E i \in DOMAIN card.units[v] :
                              effective(rates.units, u, None) = card.units[v][i]
                      \/ \E v \in SourcesOf(u) : card.units[v] = <<>>
                      \/ Cardinality(SourcesOf(u)) > MaxHops
    BY DEF ReferencesResolve
  <2>1. IsCard(card) /\ Parses(card) /\ rates.units = card.units
    BY CardsAssumption, ParsingsOrdered DEF CardInv
  <2>2. Sound(card.units) /\ ~SameAsCycle(card.units)
    BY <2>1 DEF IsCard, Parses, Sound
  <2> QED BY <2>1, <2>2, ReferenceEnds
<1> QED BY <1>1, CardInvInductive, PTL

(* The input price is that of the highest threshold passed, in whatever    *)
(* order the card lists its tiers (calc.go:66-75).                         *)
THEOREM HighestTierProved == CardSpec => []HighestTierApplies
<1>1. CardInv => HighestTierApplies
  <2> SUFFICES ASSUME CardInv, Charged, "input" \in DOMAIN result.lines
               PROVE  LET all    == ToSet(card.tiers) \cup ToSet(LongContextTiers(card.units))
                          passed == {t \in all : usage.input > t.above}
                          top    == {t \in passed : \A s \in passed : s.above <= t.above}
                      IN  IF top = {}
                          THEN result.lines["input"].nano = RateNano(card.units, "input", None)
                          ELSE \E t \in top : result.lines["input"].nano = t.input
    BY DEF HighestTierApplies
  <2>1. /\ IsCard(card) /\ Parses(card) /\ rates \in Parsings(card)
        /\ Ordered(rates) /\ usage \in Usage /\ result = Charge(rates, usage)
    BY ChargedBy DEF Charged
  <2>2. result.lines["input"].nano = TierRates(rates, usage).input
    <3>1. Fair(rates, usage, result)
      BY <2>1, ChargeIs, NoErrorIsAmount DEF Charged
    <3>2. /\ "input" \in DOMAIN TokenLines(rates, usage)
          /\ result.lines["input"].nano = TokenLines(rates, usage)["input"].nano
      BY <3>1 DEF Fair
    <3> QED BY <2>1, <3>2, LinesAreSound
  <2>3. OfHighest(card, usage, result.lines["input"].nano)
    BY <2>1, <2>2, HighestTierWins
  <2> QED BY <2>3 DEF OfHighest, CardTiers
<1> QED BY <1>1, CardInvInductive, PTL

==============================================================================
