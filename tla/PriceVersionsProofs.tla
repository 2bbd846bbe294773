------------------------ MODULE PriceVersionsProofs ------------------------
(***************************************************************************)
(* Theorems about PriceVersions for every set of subjects, publishers and  *)
(* requests and every bound on the clock.                                  *)
(***************************************************************************)
EXTENDS PriceVersions, WellFoundedInduction, TLAPS

(* A transaction holds locks on open rows of its own subject that begin no *)
(* later than its new version, and what it has inserted, uncommitted, has  *)
(* a key that is neither committed nor inserted by another transaction.    *)
TxInv ==
  \A p \in Publishers :
    /\ tx[p].pc = "idle" => tx[p].closing = {}
    /\ \A v \in tx[p].scanned \cup tx[p].closing :
         v.subject = tx[p].subject /\ v.to = Null /\ v.from <= tx[p].from
    /\ tx[p].pc = "inserted" => ~ Taken(p)
    /\ \A q \in Publishers \ {p} :
         tx[p].pc = "inserted" /\ tx[q].pc = "inserted"
           => <<tx[p].subject, tx[p].from>> # <<tx[q].subject, tx[q].from>>

(* The unique index: a subject has one version per effective_from. *)
UniqueVersions ==
  \A v, w \in versions : v.subject = w.subject /\ v.from = w.from => v = w

IInv == TypeOK /\ TxInv /\ UniqueVersions /\ ClosedBySuccessor

-----------------------------------------------------------------------------

(* The clock only takes natural numbers. *)
LEMMA TimeIsNat == Time \subseteq Nat
BY TimeAssumption DEF Time

(* A publisher without a transaction is well typed. *)
LEMMA IdleIsTx == Idle \in Tx
<1>1. (CHOOSE s \in Subjects : TRUE) \in Subjects
  BY SubjectsAssumption
<1>2. 0 \in Time
  BY TimeAssumption DEF Time
<1> QED
  BY <1>1, <1>2 DEF Idle, Tx, TxState

(* Every nonempty set of naturals has a least element. *)
LEMMA NatMinimum ==
  ASSUME NEW T, T \subseteq Nat, T # {}
  PROVE  \E x \in T : \A y \in T : x <= y
<1>1. PICK x \in T : \A y \in T : <<y, x>> \notin OpToRel(<, Nat)
  BY NatLessThanWellFounded, WFMin
<1>2. \A y \in T : ~ (y < x)
  BY <1>1 DEF OpToRel
<1> QED
  BY <1>2

(* So does every nonempty set of naturals below m have a greatest. *)
LEMMA NatMaximum ==
  ASSUME NEW T, T \subseteq Nat, T # {}, NEW m \in Nat, \A x \in T : x <= m
  PROVE  \E x \in T : \A y \in T : y <= x
<1> DEFINE gaps == {m - x : x \in T}
<1>1. gaps \subseteq Nat /\ gaps # {}
  <2>1. \A x \in T : m - x \in Nat
    OBVIOUS
  <2> QED
    BY <2>1
<1>2. PICK g \in gaps : \A h \in gaps : g <= h
  <2> HIDE DEF gaps
  <2> QED BY <1>1, NatMinimum
<1>3. PICK x \in T : g = m - x
  OBVIOUS
<1>4. ASSUME NEW y \in T PROVE y <= x
  <2>1. m - y \in gaps
    OBVIOUS
  <2>2. m - x <= m - y
    BY <1>2, <1>3, <2>1
  <2> QED
    BY <2>2
<1> QED
  BY <1>4

(* What billing can record: no price, or the key of a committed row. *)
LEMMA ResolveType ==
  ASSUME versions \subseteq Row, NEW key \in Keys, NEW at \in Time
  PROVE  ResolveVersion(key, at) \in (Subjects \X Time) \cup {Null}
<1> DEFINE priced == {i \in DOMAIN key : Effective(key[i], at) # {}}
           first  == CHOOSE i \in priced : \A j \in priced : i <= j
           won    == CHOOSE v \in Effective(key[first], at) : TRUE
<1>1. ResolveVersion(key, at) = IF priced = {} THEN Null ELSE VersionId(won)
  BY DEF ResolveVersion
<1>2. ASSUME priced # {}
      PROVE  VersionId(won) \in Subjects \X Time
  <2>1. key \in Seq(Subjects)
    BY KeysAssumption
  <2>2. priced \subseteq Nat
    BY <2>1
  <2>3. first \in priced
    <3> HIDE DEF priced
    <3> QED BY <1>2, <2>2, NatMinimum
  <2>4. Effective(key[first], at) # {}
    BY <2>3
  <2>5. won \in Effective(key[first], at)
    <3> HIDE DEF first
    <3> QED BY <2>4
  <2>6. won \in versions
    <3> HIDE DEF won, first
    <3> QED BY <2>5 DEF Effective
  <2> QED
    <3> HIDE DEF won
    <3> QED BY <2>6 DEF Row, VersionId
<1> QED
  <2> HIDE DEF priced, won
  <2> QED BY <1>1, <1>2

-----------------------------------------------------------------------------
(* The inductive invariant.                                                *)

(* The empty price table satisfies the invariant. *)
LEMMA InitIInv == Init => IInv
<1> SUFFICES ASSUME Init PROVE IInv
  OBVIOUS
<1>1. TypeOK
  <2>1. 0 \in Time
    BY TimeAssumption DEF Time
  <2>2. tx \in [Publishers -> Tx]
    BY IdleIsTx DEF Init
  <2> QED
    BY <2>1, <2>2 DEF Init, TypeOK
<1>2. TxInv
  BY DEF Init, TxInv, Idle
<1>3. UniqueVersions /\ ClosedBySuccessor
  BY DEF Init, UniqueVersions, ClosedBySuccessor
<1> QED
  BY <1>1, <1>2, <1>3 DEF IInv

(* A row is closed by a version of the same subject that begins later, and *)
(* the row keeps its key.                                                  *)
LEMMA CommitVersions ==
  ASSUME IInv, NEW p \in Publishers, Commit(p)
  PROVE  /\ versions' \subseteq Row
         /\ UniqueVersions'
         /\ ClosedBySuccessor'
         /\ \A w \in versions' : VersionId(w) \in {VersionId(v) : v \in versions}
                                \/ VersionId(w) = <<tx[p].subject, tx[p].from>>
<1> DEFINE new == [subject |-> tx[p].subject, from |-> tx[p].from, to |-> Null]
           shut(v) == IF v \in tx[p].closing THEN [v EXCEPT !.to = tx[p].from] ELSE v
<1>1. /\ versions \subseteq Row
      /\ tx[p] \in Tx
      /\ tx[p].pc = "inserted"
      /\ versions' = {shut(v) : v \in versions} \cup {new}
  BY DEF IInv, TypeOK, Commit, ClosedAt
<1>2. new \in Row
  BY <1>1 DEF Row, Tx
<1>3. \A v \in versions : /\ shut(v) \in Row
                           /\ shut(v).subject = v.subject /\ shut(v).from = v.from
  BY <1>1 DEF Row, Tx
<1>4. \A v \in versions : ~ (v.subject = new.subject /\ v.from = new.from)
  BY <1>1 DEF IInv, TxInv, Taken, VersionId
<1>5. versions' \subseteq Row
  BY <1>1, <1>2, <1>3
<1>6. UniqueVersions'
  <2> SUFFICES ASSUME NEW v \in versions', NEW w \in versions',
                      v.subject = w.subject, v.from = w.from
               PROVE  v = w
    BY DEF UniqueVersions
  <2>1. CASE v = new \/ w = new
    <3> HIDE DEF new, shut
    <3> QED BY <1>1, <1>3, <1>4, <2>1
  <2>2. CASE v # new /\ w # new
    <3> HIDE DEF new, shut
    <3>1. PICK a \in versions : v = shut(a)
      BY <1>1, <2>2
    <3>2. PICK b \in versions : w = shut(b)
      BY <1>1, <2>2
    <3>3. a = b
      BY <1>3, <3>1, <3>2 DEF IInv, UniqueVersions
    <3> QED
      BY <3>1, <3>2, <3>3
  <2> QED
    BY <2>1, <2>2
<1>7. ClosedBySuccessor'
  <2> SUFFICES ASSUME NEW v \in versions', v.to # Null
               PROVE  /\ v.from < v.to
                      /\ \E w \in versions' : w.subject = v.subject /\ w.from = v.to
    BY DEF ClosedBySuccessor
  <2>1. v # new
    OBVIOUS
  <2>2. PICK a \in versions : v = shut(a)
    <3> HIDE DEF new, shut
    <3> QED BY <1>1, <2>1
  <2>3. CASE a \in tx[p].closing
    <3>1. a.subject = tx[p].subject /\ a.from <= tx[p].from
      BY <2>3 DEF IInv, TxInv
    <3>2. a.from < tx[p].from
      BY <1>1, <1>4, <3>1, TimeIsNat DEF Row, Tx
    <3>3. v.to = tx[p].from /\ v.from = a.from /\ v.subject = a.subject
      BY <1>1, <2>2, <2>3 DEF Row
    <3>4. new \in versions'
      BY <1>1
    <3> QED
      BY <3>1, <3>2, <3>3, <3>4
  <2>4. CASE a \notin tx[p].closing
    <3>1. v = a
      BY <2>2, <2>4
    <3>2. a.from < a.to /\ \E w \in versions : w.subject = a.subject /\ w.from = a.to
      BY <3>1 DEF IInv, ClosedBySuccessor
    <3>3. PICK w \in versions : w.subject = a.subject /\ w.from = a.to
      BY <3>2
    <3>4. shut(w) \in versions' /\ shut(w).subject = w.subject /\ shut(w).from = w.from
      <4> HIDE DEF new, shut
      <4> QED BY <1>1, <1>3
    <3> HIDE DEF new, shut
    <3> QED
      BY <3>1, <3>2, <3>3, <3>4
  <2> QED
    BY <2>3, <2>4
<1>8. ASSUME NEW w \in versions'
      PROVE  \/ VersionId(w) \in {VersionId(v) : v \in versions}
             \/ VersionId(w) = <<tx[p].subject, tx[p].from>>
  <2>1. CASE w = new
    BY <2>1 DEF VersionId
  <2>2. CASE w # new
    <3>1. PICK a \in versions : w = shut(a)
      <4> HIDE DEF new, shut
      <4> QED BY <1>1, <2>2
    <3>2. VersionId(w) = VersionId(a)
      <4> HIDE DEF shut
      <4> QED BY <1>3, <3>1 DEF VersionId
    <3> QED
      BY <3>2
  <2> QED
    BY <2>1, <2>2
<1> QED
  BY <1>5, <1>6, <1>7, <1>8

(* Every step of publishing, reading or billing keeps the invariant. *)
LEMMA NextIInv == IInv /\ [Next]_vars => IInv'
<1> SUFFICES ASSUME IInv, [Next]_vars PROVE IInv'
  OBVIOUS
<1> USE DEF IInv
<1>1. ASSUME NEW p \in Publishers, NEW s \in Subjects, NEW f \in Explicit \cup {clock},
             Begin(p, s, f)
      PROVE  IInv'
  <2>1. f \in Time
    BY TimeAssumption DEF TypeOK
  <2>2. [pc |-> "scanned", subject |-> s, from |-> f,
         scanned |-> {v \in versions : Matches(v, s, f)}, closing |-> {}] \in Tx
    BY <2>1 DEF TypeOK, Tx, TxState
  <2>3. TypeOK'
    BY <1>1, <2>2 DEF Begin, TypeOK
  <2>4. TxInv'
    BY <1>1 DEF Begin, TypeOK, TxInv, Taken, Matches
  <2> QED
    BY <1>1, <2>3, <2>4 DEF Begin, UniqueVersions, ClosedBySuccessor
<1>2. ASSUME NEW p \in Publishers, Close(p)
      PROVE  IInv'
  <2>1. tx[p] \in Tx
    BY DEF TypeOK
  <2>2. TypeOK'
    BY <1>2, <2>1 DEF Close, TypeOK, Tx, TxState
  <2>3. TxInv'
    BY <1>2, <2>1 DEF Close, TypeOK, TxInv, Taken, Tx
  <2> QED
    BY <1>2, <2>2, <2>3 DEF Close, UniqueVersions, ClosedBySuccessor
<1>3. ASSUME NEW p \in Publishers, NEW v \in tx[p].scanned, Lock(p, v)
      PROVE  IInv'
  <2>1. tx[p] \in Tx /\ v \in Row
    BY DEF TypeOK, Tx
  <2>2. TypeOK'
    BY <1>3, <2>1 DEF Lock, TypeOK, Tx
  <2>3. TxInv'
    BY <1>3, <2>1 DEF Lock, TypeOK, TxInv, Taken, Tx
  <2> QED
    BY <1>3, <2>2, <2>3 DEF Lock, UniqueVersions, ClosedBySuccessor
<1>4. ASSUME NEW p \in Publishers, Insert(p)
      PROVE  IInv'
  <2>1. tx[p] \in Tx
    BY DEF TypeOK
  <2>2. TypeOK'
    BY <1>4, <2>1 DEF Insert, TypeOK, Tx, TxState
  <2>3. TxInv'
    BY <1>4, <2>1 DEF Insert, TypeOK, TxInv, Taken, Tx
  <2> QED
    BY <1>4, <2>2, <2>3 DEF Insert, UniqueVersions, ClosedBySuccessor
<1>5. ASSUME NEW p \in Publishers, Conflict(p) \/ Rollback(p) \/ Deadlock(p)
      PROVE  IInv'
  <2>1. /\ tx' = [tx EXCEPT ![p] = Idle]
        /\ UNCHANGED <<versions, req, clock>>
    BY <1>5 DEF Conflict, Rollback, Deadlock
  <2>2. TypeOK'
    BY <2>1, IdleIsTx DEF TypeOK
  <2>3. TxInv'
    BY <2>1, IdleIsTx DEF TypeOK, TxInv, Taken, Idle
  <2> QED
    BY <2>1, <2>2, <2>3 DEF UniqueVersions, ClosedBySuccessor
<1>6. ASSUME NEW p \in Publishers, Commit(p)
      PROVE  IInv'
  <2>1. /\ versions' \subseteq Row
        /\ UniqueVersions'
        /\ ClosedBySuccessor'
        /\ \A w \in versions' : VersionId(w) \in {VersionId(v) : v \in versions}
                               \/ VersionId(w) = <<tx[p].subject, tx[p].from>>
    BY <1>6, CommitVersions
  <2>2. /\ tx' = [tx EXCEPT ![p] = Idle]
        /\ tx[p].pc = "inserted"
        /\ UNCHANGED <<req, clock>>
    BY <1>6 DEF Commit
  <2>3. TypeOK'
    BY <2>1, <2>2, IdleIsTx DEF TypeOK
  <2>4. TxInv'
    <3> SUFFICES ASSUME NEW q \in Publishers
                 PROVE  /\ tx'[q].pc = "idle" => tx'[q].closing = {}
                        /\ \A v \in tx'[q].scanned \cup tx'[q].closing :
                             /\ v.subject = tx'[q].subject
                             /\ v.to = Null
                             /\ v.from <= tx'[q].from
                        /\ tx'[q].pc = "inserted" =>
                             \A v \in versions' : VersionId(v) # <<tx'[q].subject, tx'[q].from>>
                        /\ \A r \in Publishers \ {q} :
                             tx'[q].pc = "inserted" /\ tx'[r].pc = "inserted"
                               => <<tx'[q].subject, tx'[q].from>> # <<tx'[r].subject, tx'[r].from>>
      BY DEF TxInv, Taken
    <3>1. CASE q = p
      BY <2>2, <3>1 DEF TypeOK, Idle
    <3>2. CASE q # p
      <4>1. tx'[q] = tx[q]
        BY <2>2, <3>2 DEF TypeOK
      <4>2. tx[q].pc = "inserted" => <<tx[p].subject, tx[p].from>> # <<tx[q].subject, tx[q].from>>
        BY <2>2, <3>2 DEF TxInv
      <4>3. tx[q].pc = "inserted" =>
              \A v \in versions' : VersionId(v) # <<tx[q].subject, tx[q].from>>
        BY <2>1, <4>2 DEF TxInv, Taken
      <4>4. \A r \in Publishers \ {q} : tx'[r].pc = "inserted" => r # p /\ tx'[r] = tx[r]
        BY <2>2 DEF TypeOK, Idle
      <4> QED
        BY <4>1, <4>3, <4>4 DEF TxInv
    <3> QED
      BY <3>1, <3>2
  <2> QED
    BY <2>1, <2>3, <2>4
<1>7. ASSUME NEW r \in Requests, Receive(r) \/ Bill(r)
      PROVE  IInv'
  <2>1. req[r].key \in Keys /\ req[r].received \in Time /\ clock \in Time
    BY DEF TypeOK
  <2>2. /\ ResolveVersion(req[r].key, clock) \in (Subjects \X Time) \cup {Null}
        /\ ResolveVersion(req[r].key, req[r].received) \in (Subjects \X Time) \cup {Null}
    BY <2>1, ResolveType DEF TypeOK
  <2>3. TypeOK'
    BY <1>7, <2>1, <2>2 DEF Receive, Bill, BilledAt, TypeOK
  <2>4. UNCHANGED <<versions, tx>>
    BY <1>7 DEF Receive, Bill
  <2> QED
    BY <2>3, <2>4 DEF TxInv, Taken, UniqueVersions, ClosedBySuccessor
<1>8. CASE Tick
  BY <1>8, TimeAssumption
     DEF Tick, Time, TypeOK, TxInv, Taken, UniqueVersions, ClosedBySuccessor
<1>9. CASE UNCHANGED vars
  BY <1>9 DEF vars, TypeOK, TxInv, Taken, UniqueVersions, ClosedBySuccessor
<1> QED
  BY <1>1, <1>2, <1>4, <1>5, <1>6, <1>7, <1>8, <1>9, <1>3 DEF Next

(* The price table and the open transactions always satisfy the invariant. *)
THEOREM Invariance == Spec => []IInv
BY InitIInv, NextIInv, PTL DEF Spec

(* Type correctness: the price table, the open transactions and the bills  *)
(* always have the shape the SQL schema and the handlers give them.        *)
THEOREM TypeCorrect == Spec => []TypeOK
BY Invariance, PTL DEF IInv

(* For any number of admins publishing at once, with any effective_from,   *)
(* a version ends only where a later version of its subject begins.        *)
THEOREM ClosingLeavesNoGap == Spec => []ClosedBySuccessor
BY Invariance, PTL DEF IInv

-----------------------------------------------------------------------------
(* What the reader sees.                                                   *)

(* A version that has begun by `at' makes a latest one exist. *)
LEMMA LatestExists ==
  IInv => \A s \in Subjects, at \in Time :
            (\E v \in versions : v.subject = s /\ v.from <= at) <=> LatestStarted(s, at) # {}
<1> SUFFICES ASSUME IInv, NEW s \in Subjects, NEW at \in Time
             PROVE  (\E v \in versions : v.subject = s /\ v.from <= at)
                      <=> LatestStarted(s, at) # {}
  OBVIOUS
<1> DEFINE started == {v \in versions : v.subject = s /\ v.from <= at}
           starts  == {v.from : v \in started}
<1>1. (\A v \in versions : v.from \in Nat) /\ at \in Nat
  BY TimeIsNat DEF IInv, TypeOK, Row
<1>2. ASSUME started # {}
      PROVE  LatestStarted(s, at) # {}
  <2>1. starts \subseteq Nat /\ starts # {} /\ \A x \in starts : x <= at
    BY <1>1, <1>2
  <2>2. PICK x \in starts : \A y \in starts : y <= x
    <3> HIDE DEF starts
    <3> QED BY <1>1, <2>1, NatMaximum
  <2>3. PICK u \in started : x = u.from
    OBVIOUS
  <2>4. \A w \in started : w.from \in starts
    OBVIOUS
  <2>5. \A w \in started : w.from <= u.from
    <3> HIDE DEF started, starts
    <3> QED BY <2>2, <2>3, <2>4
  <2> QED
    BY <2>5 DEF LatestStarted
<1>3. LatestStarted(s, at) # {} => started # {}
  BY DEF LatestStarted
<1> QED
  BY <1>2, <1>3

(* The version pricing_effective_version answers is the latest that has begun. *)
LEMMA EffectiveIsLatest ==
  IInv => \A s \in Subjects, at \in Time : Effective(s, at) = LatestStarted(s, at)
<1> SUFFICES ASSUME IInv, NEW s \in Subjects, NEW at \in Time
             PROVE  Effective(s, at) = LatestStarted(s, at)
  OBVIOUS
<1>1. /\ \A v \in versions : v.from \in Nat /\ (v.to # Null => v.to \in Nat)
      /\ at \in Nat
  BY TimeIsNat DEF IInv, TypeOK, Row
<1>2. ASSUME NEW v \in versions, v.subject = s, v.from <= at,
             \A w \in versions : w.subject = s /\ w.from <= at => w.from <= v.from
      PROVE  Covers(v, at)
  <2>1. SUFFICES ASSUME v.to # Null, v.to <= at PROVE FALSE
    BY <1>1, <1>2 DEF Covers
  <2>2. PICK w \in versions : w.subject = v.subject /\ w.from = v.to /\ v.from < v.to
    BY <2>1 DEF IInv, ClosedBySuccessor
  <2> QED
    BY <1>1, <1>2, <2>1, <2>2
<1>3. ASSUME NEW v \in Effective(s, at)
      PROVE  v \in LatestStarted(s, at)
  <2>1. /\ v \in versions /\ v.subject = s /\ Covers(v, at)
        /\ \A w \in versions : w.subject = s /\ Covers(w, at) => w.from <= v.from
    BY <1>3 DEF Effective
  <2>2. SUFFICES ASSUME NEW w \in versions, w.subject = s, w.from <= at, v.from < w.from
                 PROVE  FALSE
    BY <1>1, <2>1 DEF LatestStarted, Covers
  <2>3. PICK u \in versions : /\ u.subject = s /\ u.from <= at
                             /\ \A x \in versions :
                                  x.subject = s /\ x.from <= at => x.from <= u.from
    BY <2>2, LatestExists DEF LatestStarted
  <2>4. Covers(u, at)
    BY <1>2, <2>3
  <2>5. u.from <= v.from /\ w.from <= u.from
    BY <2>1, <2>2, <2>3, <2>4
  <2> QED
    BY <1>1, <2>1, <2>2, <2>3, <2>5
<1>4. ASSUME NEW v \in LatestStarted(s, at)
      PROVE  v \in Effective(s, at)
  <2>1. /\ v \in versions /\ v.subject = s /\ v.from <= at
        /\ \A w \in versions : w.subject = s /\ w.from <= at => w.from <= v.from
    BY <1>4 DEF LatestStarted
  <2>2. Covers(v, at)
    BY <1>2, <2>1
  <2> QED
    BY <2>1, <2>2 DEF Effective, Covers
<1> QED
  BY <1>3, <1>4

(* pricing_effective_version always answers the latest version begun: the  *)
(* overlaps that backdated and concurrent publishes leave are invisible.   *)
THEOREM LatestVersionWins == Spec => []LatestStartedWins
<1>1. IInv => LatestStartedWins
  BY EffectiveIsLatest DEF LatestStartedWins
<1> QED
  BY <1>1, Invariance, PTL

(* A key has a price exactly when some layer has a version that has begun, *)
(* and the price it is given has begun.                                    *)
LEMMA PricedWhenStarted ==
  IInv => \A key \in Keys, at \in Time :
            /\ ResolveVersion(key, at) # Null
                 <=> \E i \in DOMAIN key : \E v \in versions : v.subject = key[i] /\ v.from <= at
            /\ ResolveVersion(key, at) # Null
                 => \E v \in versions : ResolveVersion(key, at) = VersionId(v) /\ v.from <= at
<1> SUFFICES ASSUME IInv, NEW key \in Keys, NEW at \in Time
             PROVE  /\ ResolveVersion(key, at) # Null
                         <=> \E i \in DOMAIN key :
                               \E v \in versions : v.subject = key[i] /\ v.from <= at
                    /\ ResolveVersion(key, at) # Null
                         => \E v \in versions :
                              ResolveVersion(key, at) = VersionId(v) /\ v.from <= at
  OBVIOUS
<1> DEFINE priced == {i \in DOMAIN key : Effective(key[i], at) # {}}
           first  == CHOOSE i \in priced : \A j \in priced : i <= j
           won    == CHOOSE v \in Effective(key[first], at) : TRUE
<1>1. ResolveVersion(key, at) = IF priced = {} THEN Null ELSE VersionId(won)
  BY DEF ResolveVersion
<1>2. key \in Seq(Subjects)
  BY KeysAssumption
<1>3. priced # {} <=> \E i \in DOMAIN key : \E v \in versions : v.subject = key[i] /\ v.from <= at
  <2>1. \A i \in DOMAIN key : key[i] \in Subjects
    BY <1>2
  <2>2. \A i \in DOMAIN key :
          Effective(key[i], at) # {} <=> \E v \in versions : v.subject = key[i] /\ v.from <= at
    BY <2>1, EffectiveIsLatest, LatestExists
  <2> QED
    BY <2>2
<1>4. ASSUME priced # {}
      PROVE  won \in versions /\ won.from <= at
  <2>1. priced \subseteq Nat
    BY <1>2
  <2>2. first \in priced
    <3> HIDE DEF priced
    <3> QED BY <1>4, <2>1, NatMinimum
  <2>3. Effective(key[first], at) # {}
    BY <2>2
  <2>4. won \in Effective(key[first], at)
    <3> HIDE DEF first
    <3> QED BY <2>3
  <2> QED
    <3> HIDE DEF won, first
    <3> QED BY <2>4 DEF Effective, Covers
<1>5. ASSUME priced # {}
      PROVE  VersionId(won) # Null
  <2> HIDE DEF won, priced
  <2>1. won \in Row /\ won.from \in Nat
    BY <1>4, <1>5, TimeIsNat DEF IInv, TypeOK, Row
  <2> QED
    BY <2>1, NullAssumption DEF Row, VersionId
<1> QED
  <2> HIDE DEF priced, won
  <2> QED BY <1>1, <1>3, <1>4, <1>5

-----------------------------------------------------------------------------
(* What a step may change.                                                 *)

(* No step removes a version or changes where it begins. *)
LEMMA VersionsKept ==
  IInv /\ [Next]_vars =>
    \A v \in versions : \E w \in versions' : w.subject = v.subject /\ w.from = v.from
<1> SUFFICES ASSUME IInv, [Next]_vars, NEW v \in versions
             PROVE  \E w \in versions' : w.subject = v.subject /\ w.from = v.from
  OBVIOUS
<1>1. ASSUME NEW p \in Publishers, Commit(p)
      PROVE  \E w \in versions' : w.subject = v.subject /\ w.from = v.from
  <2>1. v \in Row
    BY DEF IInv, TypeOK
  <2>2. LET w == IF v \in tx[p].closing THEN [v EXCEPT !.to = tx[p].from] ELSE v
        IN  w \in versions' /\ w.subject = v.subject /\ w.from = v.from
    BY <1>1, <2>1 DEF Commit, ClosedAt, Row
  <2> QED
    BY <2>2
<1>2. CASE UNCHANGED versions
  BY <1>2
<1>3. (\A p \in Publishers : ~ Commit(p)) => UNCHANGED versions
  BY DEF Next, vars, Begin, Lock, Close, Deadlock, Insert, Conflict, Rollback, Receive, Bill, Tick
<1> QED
  BY <1>1, <1>2, <1>3

(* The step form of NeverUnpriced. *)
PricedStaysPriced ==
  \A k \in Keys, at \in Time :
    ResolveVersion(k, at) # Null => ResolveVersion(k, at)' # Null

(* No step takes a price away: it only adds versions that have begun. *)
LEMMA StepKeepsPriced == IInv /\ IInv' /\ [Next]_vars => PricedStaysPriced
<1> DEFINE Started(k, at) ==
             \E i \in DOMAIN k : \E v \in versions : v.subject = k[i] /\ v.from <= at
           Iff == \A k \in Keys, at \in Time : ResolveVersion(k, at) # Null <=> Started(k, at)
<1>1. IInv => Iff
  BY PricedWhenStarted
<1>2. IInv' => Iff'
  BY <1>1, PTL
<1> SUFFICES ASSUME IInv, IInv', [Next]_vars, NEW k \in Keys, NEW at \in Time,
                    ResolveVersion(k, at) # Null
             PROVE  ResolveVersion(k, at)' # Null
  BY DEF PricedStaysPriced
<1>3. Started(k, at)
  BY <1>1
<1>4. Started(k, at)'
  BY <1>3, VersionsKept
<1> QED
  BY <1>2, <1>4

(* No publish, concurrent publish, conflict or rollback leaves an instant  *)
(* that had a price without one.                                           *)
THEOREM PricedForEver == Spec => NeverUnpriced
<1>1. IInv /\ IInv' /\ [Next]_vars => [PricedStaysPriced]_vars
  BY StepKeepsPriced
<1> QED
  BY <1>1, Invariance, PTL DEF Spec, NeverUnpriced, PricedStaysPriced

(* Publishing changes the price of no instant before the effective_from of *)
(* the version it adds, so what was charged for such an instant is what    *)
(* would be charged today.                                                 *)
THEOREM HistoryIsKept == Spec => NoChangeBeforeEffectiveFrom
<1> DEFINE Reach == \A s \in Subjects, at \in Time :
                      EffectiveIds(s, at)' # EffectiveIds(s, at) =>
                        \E w \in versions' : /\ w.subject = s /\ w.from <= at
                                           /\ \A v \in versions : VersionId(v) # VersionId(w)
           Latest == \A s \in Subjects, at \in Time : Effective(s, at) = LatestStarted(s, at)
<1>1. IInv' => Latest'
  <2>1. IInv => Latest
    BY EffectiveIsLatest
  <2> QED
    BY <2>1, PTL
<1>2. IInv /\ IInv' /\ [Next]_vars => Reach
  <2> SUFFICES ASSUME IInv, IInv', [Next]_vars, NEW s \in Subjects, NEW at \in Time,
                      \A w \in versions' : w.subject = s /\ w.from <= at =>
                         \E v \in versions : VersionId(v) = VersionId(w)
               PROVE  EffectiveIds(s, at)' = EffectiveIds(s, at)
    OBVIOUS
  <2>1. /\ Effective(s, at) = LatestStarted(s, at)
        /\ Effective(s, at)' = LatestStarted(s, at)'
    BY <1>1, EffectiveIsLatest
  <2>2. /\ \A v \in versions : \E w \in versions' : w.subject = v.subject /\ w.from = v.from
        /\ \A w \in versions' : w.subject = s /\ w.from <= at =>
              \E v \in versions : v.subject = w.subject /\ v.from = w.from
    BY VersionsKept DEF VersionId
  <2>3. ASSUME NEW v \in LatestStarted(s, at)
        PROVE  VersionId(v) \in {VersionId(w) : w \in LatestStarted(s, at)'}
    <3>1. PICK w \in versions' : w.subject = v.subject /\ w.from = v.from
      BY <2>2, <2>3 DEF LatestStarted
    <3>2. w \in LatestStarted(s, at)'
      BY <2>2, <2>3, <3>1 DEF LatestStarted
    <3> QED
      BY <3>1, <3>2 DEF VersionId
  <2>4. ASSUME NEW w \in LatestStarted(s, at)'
        PROVE  VersionId(w) \in {VersionId(v) : v \in LatestStarted(s, at)}
    <3>1. PICK v \in versions : v.subject = w.subject /\ v.from = w.from
      BY <2>2, <2>4 DEF LatestStarted
    <3>2. v \in LatestStarted(s, at)
      BY <2>2, <2>4, <3>1 DEF LatestStarted
    <3> QED
      BY <3>1, <3>2 DEF VersionId
  <2> QED
    BY <2>1, <2>3, <2>4 DEF EffectiveIds
<1>3. IInv /\ IInv' /\ [Next]_vars => [Reach]_vars
  BY <1>2
<1> QED
  BY <1>3, Invariance, PTL DEF Spec, NoChangeBeforeEffectiveFrom

-----------------------------------------------------------------------------
(* Billing.                                                                *)

(* While a request is open, the price it was accepted at keeps its instant *)
(* of reception priced.                                                    *)
AcceptedStaysPriced ==
  \A r \in Requests :
    req[r].state # "new" /\ req[r].accepted # Null
      => ResolveVersion(req[r].key, req[r].received) # Null

(* A long request is billed under a version that had begun when it was     *)
(* received, and never as free if it had a price then.                     *)
THEOREM BilledAtReception == Spec => []NoRepricingMidRequest
<1> DEFINE BInv == AcceptedStaysPriced /\ NoRepricingMidRequest
<1>1. Init => BInv
  BY DEF Init, AcceptedStaysPriced, NoRepricingMidRequest
<1>2. IInv /\ IInv' /\ BInv /\ [Next]_vars => BInv'
  <2> SUFFICES ASSUME IInv, IInv', BInv, [Next]_vars PROVE BInv'
    OBVIOUS
  <2>1. TypeOK
    BY DEF IInv
  <2>2. \A r \in Requests : req[r].key \in Keys /\ req[r].received \in Time
    BY <2>1 DEF TypeOK
  <2>3. \A k \in Keys, at \in Time : ResolveVersion(k, at) # Null => ResolveVersion(k, at)' # Null
    BY StepKeepsPriced DEF PricedStaysPriced
  <2>4. ASSUME NEW r \in Requests, Receive(r)
        PROVE  BInv'
    <3>1. \A q \in Requests \ {r} : req'[q] = req[q]
      BY <2>1, <2>4 DEF Receive, TypeOK
    <3>2. /\ req'[r].state = "open" /\ req'[r].received = clock
          /\ req'[r].key = req[r].key
          /\ req'[r].accepted = ResolveVersion(req[r].key, clock)
      BY <2>1, <2>4 DEF Receive, TypeOK
    <3>3. clock \in Time
      BY <2>1 DEF TypeOK
    <3>4. AcceptedStaysPriced'
      BY <2>2, <2>3, <3>1, <3>2, <3>3 DEF AcceptedStaysPriced
    <3>5. NoRepricingMidRequest'
      BY <3>1, <3>2 DEF NoRepricingMidRequest
    <3> QED
      BY <3>4, <3>5
  <2>5. ASSUME NEW r \in Requests, Bill(r)
        PROVE  BInv'
    <3>1. \A q \in Requests \ {r} : req'[q] = req[q]
      BY <2>1, <2>5 DEF Bill, TypeOK
    <3>2. /\ req'[r].state = "billed" /\ req[r].state = "open"
          /\ req'[r].received = req[r].received
          /\ req'[r].key = req[r].key /\ req'[r].accepted = req[r].accepted
          /\ req'[r].billed = ResolveVersion(req[r].key, req[r].received)
      BY <2>1, <2>5 DEF Bill, BilledAt, TypeOK
    <3>3. ResolveVersion(req[r].key, req[r].received) # Null =>
            ResolveVersion(req[r].key, req[r].received)[2] <= req[r].received
      BY <2>2, PricedWhenStarted DEF VersionId
    <3>4. AcceptedStaysPriced'
      BY <2>2, <2>3, <3>1, <3>2 DEF AcceptedStaysPriced
    <3>5. NoRepricingMidRequest'
      BY <3>1, <3>2, <3>3 DEF NoRepricingMidRequest, AcceptedStaysPriced
    <3> QED
      BY <3>4, <3>5
  <2>6. CASE UNCHANGED req
    <3>1. NoRepricingMidRequest'
      BY <2>6 DEF NoRepricingMidRequest
    <3>2. AcceptedStaysPriced'
      BY <2>2, <2>3, <2>6 DEF AcceptedStaysPriced
    <3> QED
      BY <3>1, <3>2
  <2>7. (\A r \in Requests : ~ Receive(r) /\ ~ Bill(r)) => UNCHANGED req
    BY DEF Next, vars, Begin, Lock, Close, Deadlock, Insert, Conflict, Commit, Rollback, Tick
  <2> QED
    BY <2>4, <2>5, <2>6, <2>7
<1> QED
  BY <1>1, <1>2, Invariance, PTL DEF Spec

-----------------------------------------------------------------------------
(* The abstract price list.                                                *)

(* Committing a version adds its entry to the book, where it was not, and  *)
(* leaves every other entry alone.                                         *)
LEMMA CommitPublishes ==
  ASSUME IInv, NEW p \in Publishers, Commit(p)
  PROVE  Book!Publish(Entry(tx[p])) /\ Entry(tx[p]) \in Book!Version
<1> DEFINE new == [subject |-> tx[p].subject, from |-> tx[p].from, to |-> Null]
           shut(v) == IF v \in tx[p].closing THEN [v EXCEPT !.to = tx[p].from] ELSE v
<1>1. /\ versions \subseteq Row
      /\ tx[p] \in Tx
      /\ tx[p].pc = "inserted"
      /\ versions' = {shut(v) : v \in versions} \cup {new}
  BY DEF IInv, TypeOK, Commit, ClosedAt
<1>2. \A v \in versions : Entry(shut(v)) = Entry(v)
  BY <1>1 DEF Row, Tx, Entry
<1>3. Entry(new) = Entry(tx[p])
  BY DEF Entry
<1>4. Entry(tx[p]) \notin {Entry(v) : v \in versions}
  BY <1>1 DEF IInv, TxInv, Taken, VersionId, Entry
<1>5. {Entry(v) : v \in versions'} = {Entry(v) : v \in versions} \cup {Entry(tx[p])}
  <2> HIDE DEF new, shut
  <2> QED BY <1>1, <1>2, <1>3
<1>6. Entry(tx[p]) \in Book!Version
  BY <1>1 DEF Tx, Entry, Book!Version
<1> QED
  BY <1>4, <1>5, <1>6 DEF Book!Publish

(* The price list that PublishPrice's transactions produce, for any number *)
(* of them at once, is a PriceBook: locks, closings, conflicts and         *)
(* rollbacks are invisible to it.                                          *)
THEOREM RefinesBook == Spec => ImplementsBook
<1> DEFINE entries == {Entry(v) : v \in versions}
<1>1. Init => Book!BookInit
  BY DEF Init, Book!BookInit
<1>2. IInv /\ [Next]_vars => [Book!BookNext]_entries
  <2> SUFFICES ASSUME IInv, [Next]_vars
               PROVE  Book!BookNext \/ UNCHANGED entries
    OBVIOUS
  <2>1. CASE \E p \in Publishers : Commit(p)
    BY <2>1, CommitPublishes DEF Book!BookNext
  <2>2. CASE UNCHANGED versions
    BY <2>2
  <2>3. (\A p \in Publishers : ~ Commit(p)) => UNCHANGED versions
    BY DEF Next, vars, Begin, Lock, Close, Deadlock, Insert, Conflict, Rollback, Receive, Bill, Tick
  <2> QED
    BY <2>1, <2>2, <2>3
<1> QED
  BY <1>1, <1>2, Invariance, PTL DEF Spec, ImplementsBook, Book!BookSpec
=============================================================================
