---------------------------- MODULE CatalogProofs ----------------------------
(***************************************************************************)
(* What holds of the public catalogue for any models, prices and results,  *)
(* any requests, and whatever administrators do between two statements.    *)
(*                                                                         *)
(* The argument: a request keeps what its statements have read, and a      *)
(* model that nobody has touched since the request began is still as it    *)
(* was then.  So what has been shown of the steady models is compared with *)
(* one listing, that of the moment, and a change of a model, which makes   *)
(* it unsteady, leaves the rest of that listing alone:                     *)
(*                                                                         *)
(*   - of a walk, the steady models with keys up to the cursor have been   *)
(*     seen, once and in order, and no others (WalkInv);                   *)
(*   - of another page, each step of the request has its own clause about  *)
(*     what it has chosen, loaded and shown (PickInv, BenchInv, RankInv),  *)
(*     and the documentation depends on its argument alone (NavInv,        *)
(*     PageInv).                                                           *)
(*                                                                         *)
(* A statement's rows are a bijection from their places (Sorted), since    *)
(* the number of rows before a row tells it from all others; the recursive *)
(* functions of the answers are iterations, whose invariants are proved    *)
(* from step to step (Climb).                                              *)
(***************************************************************************)
EXTENDS Catalog, WellFoundedInduction, NaturalsInduction, FiniteSetTheorems, SequenceTheorems, TLAPS

-----------------------------------------------------------------------------
(* Iterations.                                                             *)

(* f begins with start and goes on with one step after the other.          *)
Iterates(f, N, start, step) ==
    /\ DOMAIN f = 0 .. N
    /\ f[0] = start
    /\ \A n \in 1 .. N : f[n] = step[n][f[n - 1]]

(* Some function does, and it stays among the values that step is for.     *)
LEMMA IterationExists ==
    ASSUME NEW N \in Nat, NEW S, NEW start \in S, NEW step \in [1 .. N -> [S -> S]]
    PROVE  \E f \in [0 .. N -> S] : Iterates(f, N, start, step)
<1> DEFINE Reached(m) == \E f \in [0 .. m -> S] : Iterates(f, m, start, step)
           T == {m \in 0 .. N : ~Reached(m)}
<1> SUFFICES ASSUME T # {}
             PROVE  FALSE
  BY N \in 0 .. N
<1>1. T \subseteq Nat
  OBVIOUS
<1>2. PICK n \in T : \A m \in T : <<m, n>> \notin OpToRel(<, Nat)
  BY <1>1, NatLessThanWellFounded, WFMin
<1>3. n \in 0 .. N /\ ~Reached(n) /\ (n > 0 => Reached(n - 1))
  <2>1. n > 0 => n - 1 \in 0 .. N /\ <<n - 1, n>> \in OpToRel(<, Nat)
    BY DEF OpToRel
  <2> HIDE DEF Reached
  <2> QED BY <1>2, <2>1
<1>4. CASE n = 0
  <2>1. Iterates([k \in 0 .. 0 |-> start], 0, start, step)
    BY DEF Iterates
  <2>2. [k \in 0 .. 0 |-> start] \in [0 .. 0 -> S]
    OBVIOUS
  <2> QED BY <1>3, <1>4, <2>1, <2>2
<1>5. CASE n > 0
  <2>1. PICK f \in [0 .. (n - 1) -> S] : Iterates(f, n - 1, start, step)
    BY <1>3, <1>5
  <2> DEFINE g == [k \in 0 .. n |-> IF k = n THEN step[n][f[n - 1]] ELSE f[k]]
  <2>2. n \in 1 .. N /\ n - 1 \in 0 .. (n - 1) /\ step[n] \in [S -> S]
    BY <1>3, <1>5
  <2>3. g \in [0 .. n -> S]
    BY <1>3, <2>2
  <2>4. g[0] = start
    BY <1>3, <1>5, <2>1 DEF Iterates
  <2>5. ASSUME NEW k \in 1 .. n
        PROVE  g[k] = step[k][g[k - 1]]
    <3>1. CASE k = n
      BY <1>3, <1>5, <3>1
    <3>2. CASE k # n
      <4>1. k \in 1 .. (n - 1) /\ k \in 0 .. n /\ k - 1 \in 0 .. n /\ k - 1 # n
        BY <1>3, <3>2
      <4>2. g[k] = f[k] /\ g[k - 1] = f[k - 1]
        BY <3>2, <4>1
      <4>3. f[k] = step[k][f[k - 1]]
        BY <2>1, <4>1 DEF Iterates
      <4> QED BY <4>2, <4>3
    <3> QED BY <3>1, <3>2
  <2>6. Iterates(g, n, start, step)
    BY <2>3, <2>4, <2>5 DEF Iterates
  <2> QED BY <1>3, <2>3, <2>6
<1> QED BY <1>3, <1>4, <1>5

(* A set of numbers that has 0, and with each number the next.             *)
LEMMA Climb ==
    ASSUME NEW N \in Nat, NEW good, 0 \in good, \A n \in 1 .. N : n - 1 \in good => n \in good
    PROVE  \A n \in 0 .. N : n \in good
<1>0. 0 \in good /\ \A n \in 1 .. N : n - 1 \in good => n \in good
  OBVIOUS
<1> DEFINE T == (0 .. N) \ good
<1> SUFFICES ASSUME T # {}
             PROVE  FALSE
  OBVIOUS
<1>1. T \subseteq Nat
  OBVIOUS
<1>2. PICK n \in T : \A m \in T : <<m, n>> \notin OpToRel(<, Nat)
  BY <1>1, NatLessThanWellFounded, WFMin
<1>3. n \in 1 .. N
  <2>1. n \in 0 .. N /\ n \notin good
    BY <1>2
  <2>2. n # 0
    BY <2>1, Zenon
  <2> QED BY <2>1, <2>2
<1>4. n - 1 \notin T
  <2>1. n - 1 \in Nat /\ n \in Nat /\ n - 1 < n
    BY <1>3
  <2>2. <<n - 1, n>> \in OpToRel(<, Nat)
    BY <2>1 DEF OpToRel
  <2> QED BY <1>2, <2>2
<1>5. n - 1 \in good /\ n \notin good
  <2>1. n - 1 \in 0 .. N
    BY <1>3
  <2> QED BY <1>2, <1>4, <2>1, Zenon
<1> QED BY <1>0, <1>3, <1>5

-----------------------------------------------------------------------------
(* Statements: rows in the order that leaves no ties.                      *)

(* What an ORDER BY that ends with a key of the rows is.                   *)
NoTies(rows, before) ==
    /\ \A x \in rows : <<x, x>> \notin before
    /\ \A x, y \in rows : x # y => <<x, y>> \in before \/ <<y, x>> \in before
    /\ \A x, y, z \in rows : <<x, y>> \in before /\ <<y, z>> \in before => <<x, z>> \in before

Above(rows, before, x) == {y \in rows : <<y, x>> \in before}

(* Rows above a row are fewer than all, and more the further down it is.   *)
LEMMA AboveCounted ==
    ASSUME NEW rows, IsFiniteSet(rows), NEW before, NoTies(rows, before), NEW x \in rows
    PROVE  /\ 1 + Cardinality(Above(rows, before, x)) \in 1 .. Cardinality(rows)
           /\ \A y \in rows : <<y, x>> \in before =>
                Cardinality(Above(rows, before, y)) < Cardinality(Above(rows, before, x))
<1>1. ASSUME NEW y \in rows
      PROVE  /\ IsFiniteSet(Above(rows, before, y)) /\ y \notin Above(rows, before, y)
             /\ Cardinality(Above(rows, before, y)) \in Nat
             /\ Above(rows, before, y) \subseteq rows
  <2>1. Above(rows, before, y) \subseteq rows /\ y \notin Above(rows, before, y)
    BY DEF Above, NoTies
  <2>2. IsFiniteSet(Above(rows, before, y))
    BY <2>1, FS_Subset
  <2> QED BY <2>1, <2>2, FS_CardinalityType
<1>2. ASSUME NEW S, NEW T, T \subseteq rows, S \subseteq T, NEW y \in T, y \notin S
      PROVE  Cardinality(S) < Cardinality(T)
  <2>1. IsFiniteSet(T) /\ IsFiniteSet(S)
    BY <1>2, FS_Subset
  <2>2. Cardinality(S) <= Cardinality(T) /\ (Cardinality(T) = Cardinality(S) => T = S)
    BY <1>2, <2>1, FS_Subset
  <2>3. Cardinality(S) \in Nat /\ Cardinality(T) \in Nat
    BY <2>1, FS_CardinalityType
  <2> QED BY <1>2, <2>2, <2>3
<1>3. Cardinality(Above(rows, before, x)) < Cardinality(rows) /\ Cardinality(rows) \in Nat
  BY <1>1, <1>2, FS_CardinalityType
<1>4. ASSUME NEW y \in rows, <<y, x>> \in before
      PROVE  Cardinality(Above(rows, before, y)) < Cardinality(Above(rows, before, x))
  <2>1. Above(rows, before, y) \subseteq Above(rows, before, x) /\ y \in Above(rows, before, x)
    BY <1>4 DEF Above, NoTies
  <2> QED BY <1>1, <1>2, <2>1
<1> QED BY <1>1, <1>3, <1>4

(* Every row in its place.                                                 *)
InOrder(s, rows, before) ==
    /\ s \in [1 .. Cardinality(rows) -> rows]
    /\ \A x \in rows : \E i \in 1 .. Cardinality(rows) : s[i] = x
    /\ \A i, j \in 1 .. Cardinality(rows) : i < j => <<s[i], s[j]>> \in before

(* A finite table is listed row by row, each at one place, in its order.   *)
LEMMA SortedInOrder ==
    ASSUME NEW rows, IsFiniteSet(rows), NEW before, NoTies(rows, before)
    PROVE  InOrder(Sorted(rows, before), rows, before) /\ Cardinality(rows) \in Nat
<1> DEFINE n == Cardinality(rows)
           place == [x \in rows |-> 1 + Cardinality(Above(rows, before, x))]
           s == [i \in 1 .. n |-> CHOOSE x \in rows : place[x] = i]
<1>0. n \in Nat
  BY FS_CardinalityType
<1>1. place \in [rows -> 1 .. n]
  BY AboveCounted
<1>2. \A x, y \in rows : <<x, y>> \in before => place[x] < place[y]
  <2> SUFFICES ASSUME NEW x \in rows, NEW y \in rows, <<x, y>> \in before
               PROVE  place[x] < place[y]
    OBVIOUS
  <2>1. PICK a \in Nat, b \in Nat : /\ a = Cardinality(Above(rows, before, x))
                                    /\ b = Cardinality(Above(rows, before, y)) /\ a < b
    <3>1. IsFiniteSet(Above(rows, before, x)) /\ IsFiniteSet(Above(rows, before, y))
      BY FS_Subset DEF Above
    <3> QED BY <3>1, AboveCounted, FS_CardinalityType
  <2> QED BY <2>1
<1>3. Sorted(rows, before) = s
  BY DEF Sorted, Above
<1>4. s = [i \in 1 .. n |-> CHOOSE x \in rows : place[x] = i]
  OBVIOUS
<1> HIDE DEF place, s, n
<1>5. \A x, y \in rows : place[x] = place[y] => x = y
  <2> SUFFICES ASSUME NEW x \in rows, NEW y \in rows, place[x] = place[y], x # y PROVE FALSE
    OBVIOUS
  <2>1. <<x, y>> \in before \/ <<y, x>> \in before
    BY DEF NoTies
  <2>2. place[x] < place[y] \/ place[y] < place[x]
    BY <1>2, <2>1
  <2> QED BY <1>1, <2>2
<1>6. \A i \in 1 .. n : \E x \in rows : place[x] = i
  <2>1. place \in Injection(rows, 1 .. n)
    BY <1>1, <1>5 DEF Injection, IsInjective
  <2>2. IsFiniteSet(1 .. n) /\ Cardinality(1 .. n) = n
    BY <1>0, FS_Interval
  <2>3. place \in Surjection(rows, 1 .. n)
    BY <2>1, <2>2, FS_Injection DEF n
  <2> QED BY <2>3 DEF Surjection
<1>7. \A i \in 1 .. n : s[i] \in rows /\ place[s[i]] = i
  BY <1>4, <1>6
<1>8. s \in [1 .. n -> rows]
  BY <1>4, <1>7
<1>9. \A x \in rows : s[place[x]] = x
  BY <1>1, <1>5, <1>7
<1>10. ASSUME NEW i \in 1 .. n, NEW j \in 1 .. n, i < j
       PROVE  <<s[i], s[j]>> \in before
  <2>1. s[i] # s[j]
    BY <1>7, <1>10
  <2>2. <<s[j], s[i]>> \notin before
    <3> SUFFICES ASSUME <<s[j], s[i]>> \in before PROVE FALSE
      OBVIOUS
    <3>1. place[s[j]] < place[s[i]]
      BY <1>2, <1>7
    <3> QED BY <1>0, <1>7, <1>10, <3>1
  <2> QED BY <1>7, <2>1, <2>2 DEF NoTies
<1>11. InOrder(s, rows, before)
  BY <1>1, <1>8, <1>9, <1>10 DEF InOrder, n
<1> QED BY <1>0, <1>3, <1>11 DEF n

(* An order that leaves ties still has every row once, and none before one *)
(* that it puts first.                                                     *)
InSomeOrder(s, rows, before) ==
    /\ Cardinality(rows) \in Nat
    /\ s \in [1 .. Cardinality(rows) -> rows]
    /\ \A i, j \in 1 .. Cardinality(rows) : s[i] = s[j] => i = j
    /\ \A x \in rows : \E i \in 1 .. Cardinality(rows) : s[i] = x
    /\ \A i, j \in 1 .. Cardinality(rows) : i < j => <<s[j], s[i]>> \notin before

(* So does every sorting.                                                  *)
LEMMA SortingInOrder ==
    ASSUME NEW rows, IsFiniteSet(rows), NEW before, NEW s \in Sortings(rows, before)
    PROVE  InSomeOrder(s, rows, before)
<1> DEFINE N == Cardinality(rows)
<1>1. N \in Nat
  BY FS_CardinalityType
<1>2. s \in Bijection(1 .. N, rows) /\ \A i, j \in DOMAIN s : i < j => <<s[j], s[i]>> \notin before
  BY DEF Sortings
<1>3. s \in [1 .. N -> rows] /\ \A i, j \in 1 .. N : s[i] = s[j] => i = j
  BY <1>2 DEF Bijection, Injection, IsInjective
<1>4. \A x \in rows : \E i \in 1 .. N : s[i] = x
  BY <1>2 DEF Bijection, Surjection
<1>5. \A i, j \in 1 .. N : i < j => <<s[j], s[i]>> \notin before
  BY <1>2, <1>3
<1> QED BY <1>1, <1>3, <1>4, <1>5 DEF InSomeOrder

(* The LIMIT of a statement.                                               *)
Shorter(N, n) == IF N < n THEN N ELSE n

Limited(f, s, N, R, n) ==
    /\ f \in [1 .. Shorter(N, n) -> R] /\ f \in Seq(R) /\ Len(f) = Shorter(N, n)
    /\ \A i \in 1 .. Shorter(N, n) : f[i] = s[i]

(* The first n of a sequence are its beginning, or all of it.              *)
LEMMA FirstOf ==
    ASSUME NEW N \in Nat, NEW R, NEW s \in [1 .. N -> R], NEW n \in Nat
    PROVE  Limited(First(s, n), s, N, R, n)
<1> DEFINE k == IF N < n THEN N ELSE n
<1>1. s \in Seq(R) /\ Len(s) = N
  OBVIOUS
<1>2. First(s, n) = SubSeq(s, 1, k)
  BY <1>1 DEF First
<1>3. k \in Nat /\ k <= n /\ k <= N
  OBVIOUS
<1> HIDE DEF k
<1>4. /\ SubSeq(s, 1, k) \in Seq(R) /\ Len(SubSeq(s, 1, k)) = k
      /\ \A i \in 1 .. k : SubSeq(s, 1, k)[i] = s[i]
  BY <1>1, <1>3, SubSeqProperties
<1>5. SubSeq(s, 1, k) \in [1 .. k -> R]
  BY <1>4, LenProperties
<1> QED BY <1>2, <1>3, <1>4, <1>5 DEF k, Limited, Shorter

-----------------------------------------------------------------------------
(* The walk over GET /models.                                              *)

(* What the model's variables hold.                                        *)
CatalogueType ==
    /\ listed \subseteq ModelIds /\ listed \subseteq present /\ present \subseteq ModelIds
    /\ price \in [ModelIds -> Prices]
    /\ changes \in 0 .. MaxChanges
    /\ touched \subseteq ModelIds

ListOrder == [sort : Sorts, direction : Directions]

(* One key for both directions: ascending, with the unknown last.          *)
LEMMA Keys ==
    ASSUME price \in [ModelIds -> Prices], NEW m \in ModelIds, NEW o,
           o.sort \in Sorts, o.direction \in Directions
    PROVE  /\ RawKey(m, o.sort) = None => SortKey(m, o) = Infinity
           /\ RawKey(m, o.sort) # None =>
                /\ RawKey(m, o.sort) \in Nat /\ SortKey(m, o) < Infinity
                /\ SortKey(m, o) = IF o.direction = "asc" THEN RawKey(m, o.sort)
                                   ELSE -RawKey(m, o.sort)
           /\ SortKey(m, o) \in Int /\ Infinity \in Nat
<1>1. RawKey(m, o.sort) # None => RawKey(m, o.sort) \in Nat /\ RawKey(m, o.sort) < Infinity
  <2>1. price[m] \in Prices /\ (price[m] # None => price[m] \in [input : Nat, output : Nat])
    BY PricesAssumption
  <2>2. price[m] # None => price[m].input \in Nat /\ price[m].input < Infinity
    BY <2>1, InfinityAssumption
  <2>3. Facts[m].throughput # None => Facts[m].throughput \in Nat /\ Facts[m].throughput < Infinity
    BY FactsOf, InfinityAssumption
  <2>4. Facts[m].tokens["month"] \in Nat /\ Facts[m].tokens["month"] < Infinity
    BY FactsOf, InfinityAssumption
  <2>5. Facts[m].released \in Nat /\ Facts[m].released < Infinity
    BY FactsOf, InfinityAssumption
  <2> QED BY <2>2, <2>3, <2>4, <2>5 DEF RawKey, Sorts
<1>2. Infinity \in Nat /\ None \notin Int
  BY InfinityAssumption, NothingAssumption
<1>3. CASE o.direction = "asc"
  BY <1>1, <1>2, <1>3 DEF SortKey
<1>4. CASE o.direction = "desc"
  BY <1>1, <1>2, <1>4 DEF SortKey
<1> QED BY <1>3, <1>4 DEF Directions

(* x comes before y.                                                       *)
Sooner(x, y, o) ==
    \/ SortKey(x, o) < SortKey(y, o)
    \/ SortKey(x, o) = SortKey(y, o) /\ x < y

Matching(f) == {m \in listed : Matches(m, f)}

(* The rows that the cursor leaves.                                        *)
Rest(q, cursor) == {m \in Matching(q.filter) : cursor = None \/ After(m, q, cursor)}

(* The same of a function of keys and a set of rows.                       *)
KeyOf(o) == [m \in ModelIds |-> SortKey(m, o)]
Ahead(key, x, y) == key[x] < key[y] \/ (key[x] = key[y] /\ x < y)
Beyond(key, m, cursor) == key[m] > cursor.key \/ (key[m] = cursor.key /\ m > cursor.id)
Left(key, rows, cursor) == {m \in rows : cursor = None \/ Beyond(key, m, cursor)}

(* What a page promises: the next rows, and the cursor of the last when    *)
(* more are left.                                                          *)
IsPage(page, key, rows, o, cursor) ==
    /\ page.models \in Seq(ModelIds)
    /\ \A i, j \in DOMAIN page.models : i < j => Ahead(key, page.models[i], page.models[j])
    /\ ToSet(page.models) \subseteq Left(key, rows, cursor)
    /\ page.next = None => Left(key, rows, cursor) \subseteq ToSet(page.models)
    /\ page.next # None =>
        /\ page.next \in Cursor /\ page.next.sort = o.sort /\ page.next.direction = o.direction
        /\ page.next.key <= Infinity
        /\ page.next.id \in Left(key, rows, cursor) /\ page.next.key = key[page.next.id]
        /\ \A m \in Left(key, rows, cursor) :
            m \in ToSet(page.models) <=> ~Beyond(key, m, page.next)
        /\ \E m \in Left(key, rows, cursor) : Beyond(key, m, page.next)
    /\ page.total = IF Left(key, rows, cursor) = {} THEN 0 ELSE Cardinality(rows)

(* No two rows of a listing tie: the id decides.                           *)
LEMMA RestInOrder ==
    ASSUME CatalogueType, NEW q, q.sort \in Sorts, q.direction \in Directions, NEW cursor
    PROVE  LET rest == Rest(q, cursor)
               before == {p \in rest \X rest : Sooner(p[1], p[2], q)}
           IN  /\ IsFiniteSet(rest) /\ NoTies(rest, before) /\ rest \subseteq ModelIds
               /\ \A x, y \in rest : <<x, y>> \in before <=> Sooner(x, y, q)
<1> DEFINE rest == Rest(q, cursor)
           before == {p \in rest \X rest : Sooner(p[1], p[2], q)}
<1>1. rest \subseteq ModelIds
  BY DEF Rest, Matching, CatalogueType
<1>2. IsFiniteSet(rest)
  BY <1>1, ModelsAreIds, FS_Subset
<1>3. \A x, y \in rest : <<x, y>> \in before <=> Sooner(x, y, q)
  OBVIOUS
<1>4. \A x \in rest : SortKey(x, q) \in Int /\ x \in Nat
  BY <1>1, Keys, ModelsAreIds DEF CatalogueType
<1> HIDE DEF before, rest
<1>5. NoTies(rest, before)
  <2>1. \A x \in rest : ~Sooner(x, x, q)
    BY <1>4 DEF Sooner
  <2>2. \A x, y \in rest : x # y => Sooner(x, y, q) \/ Sooner(y, x, q)
    BY <1>4 DEF Sooner
  <2>3. \A x, y, z \in rest : Sooner(x, y, q) /\ Sooner(y, z, q) => Sooner(x, z, q)
    BY <1>4 DEF Sooner
  <2> QED BY <1>3, <2>1, <2>2, <2>3 DEF NoTies
<1> QED BY <1>1, <1>2, <1>3, <1>5 DEF rest, before

(* A listing: the rows that are left, each in its place, up to the limit.  *)
Listing(s, q, cursor, limit, rest, N) ==
    /\ N \in Nat /\ s \in [1 .. N -> rest]
    /\ \A x \in rest : \E i \in 1 .. N : s[i] = x
    /\ \A i, j \in 1 .. N : i < j => Sooner(s[i], s[j], q)
    /\ ListModels(q, cursor, limit) =
            [ids |-> First(s, limit), total |-> Cardinality(Matching(q.filter))]

(* What the listing answers: the first rows of the rest, and their number. *)
LEMMA ListIs ==
    ASSUME CatalogueType, NEW q, q.sort \in Sorts, q.direction \in Directions, NEW cursor,
           NEW limit \in Nat
    PROVE  \E s : Listing(s, q, cursor, limit, Rest(q, cursor), Cardinality(Rest(q, cursor)))
<1> DEFINE rest == Rest(q, cursor)
           before == {p \in rest \X rest : Sooner(p[1], p[2], q)}
           s == Sorted(rest, before)
<1>1. InOrder(s, rest, before) /\ Cardinality(rest) \in Nat
  BY RestInOrder, SortedInOrder
<1>2. \A x, y \in rest : <<x, y>> \in before <=> Sooner(x, y, q)
  BY RestInOrder
<1>3. ListModels(q, cursor, limit) =
        [ids |-> First(s, limit), total |-> Cardinality(Matching(q.filter))]
  BY DEF ListModels, Rest, Matching, Sooner
<1> HIDE DEF s, before, rest
<1>4. Listing(s, q, cursor, limit, rest, Cardinality(rest))
  BY <1>1, <1>2, <1>3 DEF InOrder, Listing
<1> QED BY <1>4 DEF rest

(* What ListPage answers is a page of the listing.                         *)
LEMMA PageIsPage ==
    ASSUME CatalogueType, NEW q, q.sort \in Sorts, q.direction \in Directions, NEW cursor,
           NEW limit \in Nat \ {0}
    PROVE  IsPage(ListPage(q, cursor, limit), KeyOf(q), Matching(q.filter), q, cursor)
<1> DEFINE rest == Rest(q, cursor)
           N == Cardinality(rest)
           total == Cardinality(Matching(q.filter))
<1>0. limit + 1 \in Nat /\ limit \in Nat /\ rest \subseteq ModelIds /\ IsFiniteSet(rest)
  <2>1. rest \subseteq ModelIds /\ IsFiniteSet(rest)
    BY RestInOrder, Zenon
  <2> QED BY <2>1
<1>b. PICK s : Listing(s, q, cursor, limit + 1, rest, N)
  BY <1>0, ListIs
<1>1. /\ N \in Nat /\ s \in [1 .. N -> rest]
      /\ \A x \in rest : \E i \in 1 .. N : s[i] = x
      /\ \A i, j \in 1 .. N : i < j => Sooner(s[i], s[j], q)
      /\ ListModels(q, cursor, limit + 1) = [ids |-> First(s, limit + 1), total |-> total]
  BY <1>b DEF Listing
<1> DEFINE ids == First(s, limit + 1)
           k == IF N < limit + 1 THEN N ELSE limit + 1
           models == First(ids, limit)
           l == IF k < limit THEN k ELSE limit
           page == ListPage(q, cursor, limit)
<1>2. /\ ids \in [1 .. k -> rest] /\ Len(ids) = k /\ k \in Nat /\ k <= limit + 1 /\ k <= N
      /\ \A i \in 1 .. k : ids[i] = s[i]
  <2> HIDE DEF N, rest, total
  <2>1. Limited(ids, s, N, rest, limit + 1)
    BY <1>0, <1>1, FirstOf
  <2>2. k \in Nat /\ k <= limit + 1 /\ k <= N /\ k = Shorter(N, limit + 1)
    BY <1>0, <1>1 DEF Shorter
  <2> HIDE DEF ids, k
  <2> QED BY <2>1, <2>2 DEF Limited
<1>3. /\ models \in [1 .. l -> rest] /\ models \in Seq(rest) /\ Len(models) = l /\ l \in Nat
      /\ l <= limit /\ l <= k /\ \A i \in 1 .. l : models[i] = ids[i]
  <2>1. l \in Nat /\ l <= limit /\ l <= k /\ l = Shorter(k, limit)
    BY <1>0, <1>2 DEF Shorter
  <2> HIDE DEF ids, k, N, rest, total, l
  <2>2. Limited(models, ids, k, rest, limit)
    BY <1>0, <1>2, FirstOf
  <2> HIDE DEF models
  <2> QED BY <2>1, <2>2 DEF Limited
<1>4. /\ page.models = models
      /\ page.total = IF ids = <<>> THEN 0 ELSE total
      /\ page.next = IF k > limit
                     THEN [key |-> SortKey(models[l], q), id |-> models[l],
                           sort |-> q.sort, direction |-> q.direction]
                     ELSE None
  <2> HIDE DEF ids, k, models, l
  <2>1. Len(models) = l /\ Len(ids) = k
    BY <1>2, <1>3
  <2> QED BY <1>1, <2>1 DEF ListPage, Last, models, ids
<1>5. l = (IF N < limit THEN N ELSE limit) /\ (k > limit <=> N > limit)
  BY <1>0, <1>1
<1>6. \A i \in 1 .. l : models[i] = s[i] /\ i \in 1 .. N
  <2> HIDE DEF models, ids, k, l
  <2> QED BY <1>1, <1>2, <1>3
<1>7. ids = <<>> <=> rest = {}
  <2>1. rest = {} <=> N = 0
    BY <1>0, FS_EmptySet
  <2>2. ids = <<>> <=> k = 0
    BY <1>2, EmptySeq, LenProperties
  <2> QED BY <1>0, <1>1, <2>1, <2>2
<1> HIDE DEF page, models, ids, k, l, N
<1>8. ToSet(models) = {s[i] : i \in 1 .. l}
  BY <1>3, <1>6 DEF ToSet
<1>9. \A i, j \in DOMAIN models : i < j => Sooner(models[i], models[j], q)
  BY <1>1, <1>3, <1>6
<1>10. models \in Seq(ModelIds) /\ ToSet(models) \subseteq rest
  BY <1>0, <1>3, <1>6, <1>8
<1>11. ASSUME k > limit
       PROVE  /\ page.next \in Cursor /\ page.next.sort = q.sort
              /\ page.next.direction = q.direction /\ page.next.key <= Infinity
              /\ page.next.id = s[limit] /\ page.next.key = SortKey(s[limit], q) /\ l = limit
  <2>1. l = limit /\ limit \in 1 .. l /\ limit \in 1 .. N
    BY <1>0, <1>1, <1>5, <1>11
  <2>2. models[l] = s[limit] /\ s[limit] \in ModelIds
    BY <1>0, <1>1, <1>6, <2>1
  <2>3. SortKey(s[limit], q) \in Int /\ SortKey(s[limit], q) <= Infinity
    BY <2>2, Keys DEF CatalogueType
  <2> QED BY <1>4, <1>11, <2>1, <2>2, <2>3 DEF Cursor
<1>12. ASSUME page.next = None
       PROVE  rest \subseteq ToSet(models)
  <2>1. ~(k > limit)
    BY <1>11, <1>12, NothingAssumption
  <2> QED BY <1>0, <1>1, <1>5, <1>8, <2>1
<1>13. ASSUME k > limit
       PROVE  /\ \A m \in rest : m \in ToSet(models) <=> ~After(m, q, page.next)
              /\ \E m \in rest : After(m, q, page.next)
  <2>1. /\ limit \in 1 .. N /\ limit + 1 \in 1 .. N /\ l = limit /\ limit < limit + 1
    BY <1>0, <1>1, <1>5, <1>11, <1>13
  <2>2. \A x \in rest : After(x, q, page.next) <=> Sooner(s[limit], x, q)
    <3>1. s[limit] \in rest
      BY <1>1, <2>1
    <3>2. \A x \in rest : SortKey(x, q) \in Int /\ x \in Nat
      BY <1>0, Keys, ModelsAreIds DEF CatalogueType
    <3>3. page.next.id = s[limit] /\ page.next.key = SortKey(s[limit], q)
      BY <1>11, <1>13
    <3> QED BY <3>1, <3>2, <3>3 DEF After, Sooner
  <2>3. \A i \in 1 .. N : After(s[i], q, page.next) <=> i > limit
    <3>1. \A x, y \in rest : ~(Sooner(x, y, q) /\ Sooner(y, x, q)) /\ ~Sooner(x, x, q)
      <4>1. \A x \in rest : SortKey(x, q) \in Int /\ x \in Nat
        BY <1>0, Keys, ModelsAreIds DEF CatalogueType
      <4> QED BY <4>1 DEF Sooner
    <3> TAKE i \in 1 .. N
    <3>2. CASE i > limit
      BY <1>1, <2>1, <2>2, <3>2
    <3>3. CASE i = limit
      BY <1>1, <2>1, <2>2, <3>1, <3>3
    <3>4. CASE i < limit
      BY <1>1, <2>1, <2>2, <3>1, <3>4
    <3> QED BY <1>0, <1>1, <3>2, <3>3, <3>4
  <2>4. \A m \in rest : m \in ToSet(models) <=> ~After(m, q, page.next)
    <3> SUFFICES ASSUME NEW m \in rest
                 PROVE  m \in ToSet(models) <=> ~After(m, q, page.next)
      OBVIOUS
    <3>1. PICK i \in 1 .. N : s[i] = m
      BY <1>1
    <3>2. \A j \in 1 .. N : s[j] = m => (After(m, q, page.next) <=> j > limit)
      BY <2>3
    <3> QED BY <1>0, <1>1, <1>8, <2>1, <3>1, <3>2
  <2>5. \E m \in rest : After(m, q, page.next)
    <3>1. s[limit + 1] \in rest
      BY <1>1, <2>1
    <3>2. After(s[limit + 1], q, page.next)
      BY <1>0, <2>1, <2>3
    <3> QED BY <3>1, <3>2
  <2> QED BY <2>4, <2>5
<1>14. page.next # None => k > limit
  BY <1>4
<1>15. k > limit => s[limit] \in rest
  BY <1>0, <1>1, <1>5
<1>16. page.total = IF rest = {} THEN 0 ELSE total
  BY <1>4, <1>7
<1>17. /\ \A x, y \in rest : Sooner(x, y, q) <=> Ahead(KeyOf(q), x, y)
       /\ \A x \in rest : After(x, q, page.next) <=> Beyond(KeyOf(q), x, page.next)
       /\ \A x \in rest : SortKey(x, q) = KeyOf(q)[x]
  BY <1>0 DEF Sooner, Ahead, After, Beyond, KeyOf
<1>18. rest = Left(KeyOf(q), Matching(q.filter), cursor)
  BY DEF rest, Rest, Left, Matching, After, Beyond, KeyOf, CatalogueType
<1>19. \A i \in DOMAIN models : models[i] \in rest
  BY <1>10 DEF ToSet
<1>20. \A i, j \in DOMAIN models : i < j => Ahead(KeyOf(q), models[i], models[j])
  BY <1>9, <1>17, <1>19
<1>21. page.next # None => page.next.id \in rest /\ page.next.key = KeyOf(q)[page.next.id]
  BY <1>11, <1>14, <1>15, <1>17
<1> QED BY <1>4, <1>10, <1>11, <1>12, <1>13, <1>14, <1>16, <1>17, <1>18, <1>20, <1>21
        DEF IsPage, page

WalkType == [kind : {"walk"}, filter : Filters, order : ListOrder \cup {None},
             cursor : Cursor \cup {None}, seen : Seq(ModelIds), totals : Seq(Nat),
             state : {"walking", "refused", "finished", "failed"}]

(* What a walk has shown of the steady models: every row that its cursor   *)
(* has passed, and all of them when it has finished.                       *)
Passed(w, key, rows, m) ==
    /\ m \in rows
    /\ w.state = "finished" \/ (w.cursor # None /\ ~Beyond(key, m, w.cursor))

(* The cursor belongs to the order of the first page; while no model has   *)
(* been touched it also leaves a row, so that no page is empty.            *)
WalkOK(w, key, rows, steady, quiet, since) ==
    /\ w \in WalkType
    /\ w.order = None =>
        w.seen = <<>> /\ w.totals = <<>> /\ w.cursor = None /\ w.state # "finished"
    /\ w.order # None /\ w.state # "finished" => w.cursor # None
    /\ w.cursor # None =>
        w.cursor.sort = w.order.sort /\ w.cursor.direction = w.order.direction
        /\ w.cursor.key < Infinity
    /\ ToSet(w.seen) \subseteq since
    /\ \A i \in DOMAIN w.totals : w.totals[i] <= Cardinality(ModelIds)
    /\ \A m \in steady : m \in ToSet(w.seen) <=> Passed(w, key, rows, m)
    /\ \A i, j \in DOMAIN w.seen :
        i < j /\ w.seen[i] \in steady /\ w.seen[j] \in steady => Ahead(key, w.seen[i], w.seen[j])
    /\ quiet =>
        /\ \A i \in DOMAIN w.totals : w.totals[i] = Cardinality(rows)
        /\ w.cursor # None => \E m \in rows : Beyond(key, m, w.cursor)

(* The members of a concatenation.                                         *)
LEMMA ToSetConcat ==
    ASSUME NEW S, NEW s \in Seq(S), NEW t \in Seq(S)
    PROVE  /\ ToSet(s \o t) = ToSet(s) \cup ToSet(t)
           /\ s \o t \in Seq(S)
           /\ \A i \in DOMAIN (s \o t) :
                \/ i \in DOMAIN s /\ (s \o t)[i] = s[i]
                \/ i > Len(s) /\ i - Len(s) \in DOMAIN t /\ (s \o t)[i] = t[i - Len(s)]
<1>1. /\ s \o t \in Seq(S) /\ Len(s \o t) = Len(s) + Len(t) /\ Len(s) \in Nat /\ Len(t) \in Nat
      /\ DOMAIN s = 1 .. Len(s) /\ DOMAIN t = 1 .. Len(t)
      /\ DOMAIN (s \o t) = 1 .. (Len(s) + Len(t))
      /\ \A i \in 1 .. (Len(s) + Len(t)) :
            (s \o t)[i] = IF i <= Len(s) THEN s[i] ELSE t[i - Len(s)]
  BY ConcatProperties, LenProperties
<1> DEFINE u == s \o t
<1> HIDE DEF u
<1>2. \A i \in DOMAIN u :
        \/ i \in DOMAIN s /\ u[i] = s[i]
        \/ i > Len(s) /\ i - Len(s) \in DOMAIN t /\ u[i] = t[i - Len(s)]
  BY <1>1 DEF u
<1>3. \A i \in DOMAIN s : i \in DOMAIN u /\ u[i] = s[i]
  BY <1>1 DEF u
<1>4. \A i \in DOMAIN t : i + Len(s) \in DOMAIN u /\ u[i + Len(s)] = t[i]
  BY <1>1 DEF u
<1>5. ToSet(u) = ToSet(s) \cup ToSet(t)
  BY <1>2, <1>3, <1>4 DEF ToSet
<1> QED BY <1>1, <1>2, <1>5 DEF u

(* A page more.                                                            *)
Served(w, o, page) ==
    [w EXCEPT !.seen = @ \o page.models, !.totals = Append(@, page.total),
              !.order = o, !.cursor = page.next,
              !.state = IF page.next = None THEN "finished" ELSE "walking"]

(* A page served after the cursor goes on with the walk.                   *)
LEMMA ServedOK ==
    ASSUME NEW w, NEW key \in [ModelIds -> Int], NEW rows \in SUBSET ModelIds, NEW steady,
           NEW quiet \in BOOLEAN, NEW since, rows \subseteq since, NEW o \in ListOrder,
           NEW page, IsPage(page, key, rows, o, w.cursor),
           WalkOK(w, key, rows, steady, quiet, since),
           w.order \in {None, o}, w.state \in {"walking", "refused"},
           page.next # None => Encodable(page.next)
    PROVE  WalkOK(Served(w, o, page), key, rows, steady, quiet, since)
<1> DEFINE left == Left(key, rows, w.cursor)
           v == Served(w, o, page)
<1>1. /\ w \in WalkType /\ page.models \in Seq(ModelIds) /\ left \subseteq rows
      /\ page.next \in Cursor \cup {None} /\ w.seen \in Seq(ModelIds) /\ w.totals \in Seq(Nat)
  BY DEF WalkOK, IsPage, Left, WalkType
<1>2. ModelIds \subseteq Nat /\ IsFiniteSet(ModelIds) /\ None \notin ListOrder /\ Infinity \in Nat
      /\ None \notin Cursor
  BY ModelsAreIds, NothingAssumption, InfinityAssumption DEF ListOrder
<1>3. page.total \in Nat /\ page.total <= Cardinality(ModelIds)
  <2>1. IsFiniteSet(rows) /\ Cardinality(rows) <= Cardinality(ModelIds)
    BY <1>2, FS_Subset
  <2>2. Cardinality(rows) \in Nat /\ Cardinality(ModelIds) \in Nat
    BY <1>2, <2>1, FS_CardinalityType
  <2> QED BY <2>1, <2>2 DEF IsPage
<1>4. /\ ToSet(w.seen \o page.models) = ToSet(w.seen) \cup ToSet(page.models)
      /\ w.seen \o page.models \in Seq(ModelIds)
      /\ \A i \in DOMAIN (w.seen \o page.models) :
            \/ i \in DOMAIN w.seen /\ (w.seen \o page.models)[i] = w.seen[i]
            \/ /\ i > Len(w.seen) /\ i - Len(w.seen) \in DOMAIN page.models
               /\ (w.seen \o page.models)[i] = page.models[i - Len(w.seen)]
  BY <1>1, ToSetConcat
<1>5. /\ Append(w.totals, page.total) \in Seq(Nat)
      /\ \A i \in DOMAIN Append(w.totals, page.total) :
            \/ i \in DOMAIN w.totals /\ Append(w.totals, page.total)[i] = w.totals[i]
            \/ Append(w.totals, page.total)[i] = page.total
  BY <1>1, <1>3, AppendProperties, LenProperties
<1>6. /\ v.seen = w.seen \o page.models /\ v.totals = Append(w.totals, page.total)
      /\ v.order = o /\ v.cursor = page.next
      /\ v.state = IF page.next = None THEN "finished" ELSE "walking"
      /\ v \in WalkType
  BY <1>1, <1>4, <1>5 DEF WalkType, Served
<1> HIDE DEF v
<1>7. v.cursor # None =>
        v.cursor.sort = v.order.sort /\ v.cursor.direction = v.order.direction
        /\ v.cursor.key < Infinity
  BY <1>2, <1>6 DEF IsPage, Encodable, Cursor
<1>8. ToSet(v.seen) \subseteq since
  BY <1>1, <1>4, <1>6 DEF WalkOK, IsPage
<1>9. \A i \in DOMAIN v.totals : v.totals[i] <= Cardinality(ModelIds)
  BY <1>3, <1>5, <1>6 DEF WalkOK
<1>10. ASSUME NEW m \in steady
       PROVE  m \in ToSet(v.seen) <=> Passed(v, key, rows, m)
  <2>1. m \in ToSet(w.seen) => m \in rows /\ w.cursor # None /\ ~Beyond(key, m, w.cursor)
    BY DEF WalkOK, Passed
  <2>2. m \in rows /\ m \notin left => m \in ToSet(w.seen)
    BY DEF WalkOK, Passed, Left
  <2>3. CASE page.next = None
    BY <1>1, <1>4, <1>6, <2>1, <2>2, <2>3 DEF Passed, IsPage
  <2>4. CASE page.next # None
    <3>1. m \in left => (m \in ToSet(page.models) <=> ~Beyond(key, m, page.next))
      BY <2>4 DEF IsPage
    <3>2. m \in ToSet(page.models) => m \in left
      BY DEF IsPage
    <3>3. m \in ToSet(w.seen) => ~Beyond(key, m, page.next)
      <4> SUFFICES ASSUME m \in ToSet(w.seen) PROVE ~Beyond(key, m, page.next)
        OBVIOUS
      <4>1. m \in rows /\ w.cursor # None /\ ~Beyond(key, m, w.cursor)
        BY <2>1
      <4>2. page.next.id \in left /\ page.next.key = key[page.next.id]
        BY <2>4 DEF IsPage
      <4>3. Beyond(key, page.next.id, w.cursor) /\ page.next.id \in ModelIds
        BY <1>1, <4>1, <4>2 DEF Left
      <4>4. w.cursor.key \in Int /\ w.cursor.id \in Nat
        BY <1>1, <1>2, <4>1 DEF WalkType, Cursor
      <4>5. key[m] \in Int /\ key[page.next.id] \in Int /\ m \in Nat /\ page.next.id \in Nat
        BY <1>1, <1>2, <4>1, <4>3
      <4> QED BY <4>1, <4>2, <4>3, <4>4, <4>5 DEF Beyond
    <3> QED BY <1>1, <1>4, <1>6, <2>1, <2>2, <2>4, <3>1, <3>2, <3>3 DEF Passed
  <2> QED BY <2>3, <2>4
<1>11. ASSUME NEW i \in DOMAIN v.seen, NEW j \in DOMAIN v.seen, i < j,
              v.seen[i] \in steady, v.seen[j] \in steady
       PROVE  Ahead(key, v.seen[i], v.seen[j])
  <2>1. DOMAIN w.seen = 1 .. Len(w.seen) /\ Len(w.seen) \in Nat /\ i \in Nat /\ j \in Nat
    BY <1>1, <1>4, <1>6, LenProperties
  <2>2. CASE j \in DOMAIN w.seen /\ v.seen[j] = w.seen[j]
    <3>1. i \in DOMAIN w.seen /\ v.seen[i] = w.seen[i]
      BY <1>4, <1>6, <1>11, <2>1, <2>2
    <3> QED BY <1>11, <2>2, <3>1 DEF WalkOK
  <2>3. CASE i \in DOMAIN w.seen /\ v.seen[i] = w.seen[i] /\ v.seen[j] \in ToSet(page.models)
    <3> DEFINE x == w.seen[i]
               y == v.seen[j]
    <3>1. x \in ToSet(w.seen)
      BY <2>3 DEF ToSet
    <3>2. x \in rows /\ w.cursor # None /\ ~Beyond(key, x, w.cursor)
      BY <1>11, <2>3, <3>1 DEF WalkOK, Passed
    <3>3. y \in rows /\ Beyond(key, y, w.cursor)
      BY <1>1, <2>3, <3>2 DEF IsPage, Left
    <3>4. w.cursor.key \in Int /\ w.cursor.id \in Nat
      BY <1>1, <1>2, <3>2 DEF WalkType, Cursor
    <3>5. key[x] \in Int /\ key[y] \in Int /\ x \in Nat /\ y \in Nat
      BY <1>2, <3>2, <3>3
    <3> HIDE DEF x, y
    <3>6. Ahead(key, x, y)
      BY <3>2, <3>3, <3>4, <3>5 DEF Beyond, Ahead
    <3> QED BY <2>3, <3>6 DEF x, y
  <2>4. CASE /\ i > Len(w.seen) /\ i - Len(w.seen) \in DOMAIN page.models
             /\ v.seen[i] = page.models[i - Len(w.seen)]
             /\ j > Len(w.seen) /\ j - Len(w.seen) \in DOMAIN page.models
             /\ v.seen[j] = page.models[j - Len(w.seen)]
    <3>1. i - Len(w.seen) < j - Len(w.seen)
      BY <1>11, <2>1
    <3> QED BY <2>4, <3>1 DEF IsPage
  <2>5. \A k \in DOMAIN page.models : page.models[k] \in ToSet(page.models)
    BY DEF ToSet
  <2> QED BY <1>4, <1>6, <1>11, <2>1, <2>2, <2>3, <2>4, <2>5
<1>12. ASSUME quiet
       PROVE  /\ \A i \in DOMAIN v.totals : v.totals[i] = Cardinality(rows)
              /\ v.cursor # None => \E m \in rows : Beyond(key, m, v.cursor)
  <2>1. page.total = Cardinality(rows)
    <3>1. CASE w.cursor = None
      BY <3>1, FS_EmptySet DEF IsPage, Left
    <3>2. CASE w.cursor # None
      BY <1>12, <3>2 DEF IsPage, Left, WalkOK
    <3> QED BY <3>1, <3>2
  <2>2. page.next # None => \E m \in rows : Beyond(key, m, page.next)
    BY <1>1 DEF IsPage
  <2>3. \A i \in DOMAIN w.totals : w.totals[i] = Cardinality(rows)
    BY <1>12 DEF WalkOK
  <2> QED BY <1>5, <1>6, <2>1, <2>2, <2>3
<1>13. WalkOK(v, key, rows, steady, quiet, since)
  BY <1>2, <1>6, <1>7, <1>8, <1>9, <1>10, <1>11, <1>12 DEF WalkOK
<1> QED BY <1>13 DEF v

(* A walk whose cursor is None shows nothing yet, whatever it would ask.   *)
LEMMA FreshOK ==
    ASSUME NEW w, NEW key, NEW other, NEW rows, NEW steady, NEW quiet, NEW since,
           WalkOK(w, key, rows, steady, quiet, since), w.order = None
    PROVE  WalkOK(w, other, rows, steady, quiet, since)
<1>1. /\ w \in WalkType /\ w.seen = <<>> /\ w.totals = <<>> /\ w.cursor = None
      /\ w.state # "finished"
  BY DEF WalkOK
<1>2. ToSet(w.seen) = {} /\ DOMAIN w.seen = {}
  BY <1>1 DEF ToSet
<1>3. \A m : ~Passed(w, key, rows, m) /\ ~Passed(w, other, rows, m)
  BY <1>1 DEF Passed
<1> QED BY <1>1, <1>2, <1>3 DEF WalkOK

(* What happens to the other models does not matter to the steady ones.    *)
Agree(steady, key, rows, key2, rows2) ==
    \A m \in steady : (m \in rows2 <=> m \in rows) /\ key2[m] = key[m]

(* A change of models that are not steady leaves the walk what it was.     *)
LEMMA ChangedOK ==
    ASSUME NEW w, NEW key, NEW key2, NEW rows, NEW rows2, NEW steady, NEW steady2,
           NEW quiet, NEW since, NEW since2,
           WalkOK(w, key, rows, steady, quiet, since), ModelIds \subseteq Nat,
           steady2 \subseteq steady, since \subseteq since2,
           Agree(steady2, key, rows, key2, rows2)
    PROVE  WalkOK(w, key2, rows2, steady2, FALSE, since2)
<1>1. \A m \in steady2 : Passed(w, key2, rows2, m) <=> Passed(w, key, rows, m)
  BY DEF Passed, Beyond, Agree
<1>2. \A m \in steady2 : m \in ToSet(w.seen) <=> Passed(w, key2, rows2, m)
  BY <1>1 DEF WalkOK
<1>3. \A x, y \in steady2 : Ahead(key, x, y) => Ahead(key2, x, y)
  BY DEF Ahead, Agree
<1>4. \A i, j \in DOMAIN w.seen :
        i < j /\ w.seen[i] \in steady2 /\ w.seen[j] \in steady2 =>
            Ahead(key2, w.seen[i], w.seen[j])
  BY <1>3 DEF WalkOK
<1> QED BY <1>2, <1>4 DEF WalkOK

WalkInv ==
    walk = NoRequest
        \/ WalkOK(walk, KeyOf(walk.order), Matching(walk.filter), Steady, touched = {}, present)

(* A client waits for one answer.                                          *)
Alone == walk = NoRequest \/ visit = NoRequest

(* Visits change nothing in the catalogue, and one that begins is alone.   *)
LEMMA VisitsRead ==
    ASSUME Visits
    PROVE  /\ UNCHANGED <<listed, price, changes, walk>>
           /\ \/ UNCHANGED <<touched, present>> /\ visit # NoRequest /\ visit.kind # "idle"
              \/ Begin /\ ((walk = NoRequest /\ visit = NoRequest) \/ visit # NoRequest)
<1>1. ASSUME NEW k, NEW a, Open(k, a)
      PROVE  /\ UNCHANGED <<listed, price, changes, walk>> /\ Begin
             /\ walk = NoRequest /\ visit = NoRequest
  BY <1>1 DEF Open
<1>2. ASSUME NEW v, Read(v)
      PROVE  UNCHANGED <<listed, price, changes, walk, touched, present>>
  BY <1>2 DEF Read
<1>3. ASSUME NEW k, NEW s, At(k, s), k # "idle"
      PROVE  visit # NoRequest /\ visit.kind # "idle"
  BY <1>3 DEF At, NoRequest
<1> DEFINE Reads == /\ UNCHANGED <<listed, price, changes, walk, touched, present>>
                    /\ visit # NoRequest /\ visit.kind # "idle"
<1>4. GetModel \/ RelatedModelIDs \/ modelDetail => Reads
  BY <1>2, <1>3 DEF GetModel, RelatedModelIDs, modelDetail, AnswerInOrder
<1>5. CatalogCounts \/ FeaturedModelIDs \/ summary => Reads
  BY <1>2, <1>3 DEF CatalogCounts, FeaturedModelIDs, summary, AnswerInOrder
<1>6. BenchmarkResults \/ benchmarkDetail \/ RankModels \/ ranking => Reads
  BY <1>2, <1>3 DEF BenchmarkResults, benchmarkDetail, RankModels, ranking
<1>7. docsNavigation \/ docsPage => Reads
  BY <1>2, <1>3 DEF docsNavigation, docsPage
<1>8. ModelsByIDs => Reads
  <2> SUFFICES ASSUME ModelsByIDs PROVE Reads
    OBVIOUS
  <2>1. visit # NoRequest /\ visit.kind # "idle"
    BY DEF ModelsByIDs, NoRequest
  <2> QED BY <1>2, <2>1 DEF ModelsByIDs
<1>9. CloseVisit => UNCHANGED <<listed, price, changes, walk>> /\ Begin /\ visit # NoRequest
  BY DEF CloseVisit
<1> HIDE DEF Reads
<1>10. \/ Reads
       \/ UNCHANGED <<listed, price, changes, walk>> /\ Begin
            /\ ((walk = NoRequest /\ visit = NoRequest) \/ visit # NoRequest)
  BY <1>1, <1>4, <1>5, <1>6, <1>7, <1>8, <1>9 DEF Visits
<1> QED BY <1>10 DEF Reads

(* The limits are natural numbers.                                         *)
LEMMA Bounds ==
    /\ FeaturedLimit \in Nat /\ RelatedLimit \in Nat /\ RankingCap \in Nat
    /\ ActivityLimit \in Nat /\ MaxChanges \in Nat
BY RequestsAssumption

(* A change of one model keeps the types of the catalogue.                 *)
LEMMA ChangeType ==
    ASSUME CatalogueType, NEW m \in ModelIds, Change(m), listed' \subseteq ModelIds,
           price' \in [ModelIds -> Prices]
    PROVE  CatalogueType'
<1>1. changes' \in 0 .. MaxChanges
  BY Bounds DEF Change, CatalogueType
<1> QED BY <1>1 DEF Change, CatalogueType

(* Every step keeps the types of the catalogue.                            *)
LEMMA TypeStep ==
    ASSUME CatalogueType, [PagesNext]_pagesVars
    PROVE  CatalogueType'
<1>1. CASE Walks
  BY <1>1 DEF Walks, StartWalk, ListRefused, ListModelsEndpoint, StopWalk, Begin, CatalogueType
<1>2. CASE Visits
  BY <1>2, VisitsRead DEF Begin, CatalogueType
<1>3. ASSUME NEW m \in ModelIds, SetModelStatus(m)
      PROVE  CatalogueType'
  BY <1>3, ChangeType DEF SetModelStatus, CatalogueType
<1>4. ASSUME NEW m \in ModelIds, NEW p \in Prices, Reprice(m, p)
      PROVE  CatalogueType'
  BY <1>4, ChangeType DEF Reprice, CatalogueType
<1>5. CASE UNCHANGED pagesVars
  BY <1>5 DEF pagesVars, CatalogueType
<1> QED BY <1>1, <1>2, <1>3, <1>4, <1>5 DEF PagesNext

(* A client never waits for two answers.                                   *)
LEMMA AloneStep ==
    ASSUME Alone, [PagesNext]_pagesVars
    PROVE  Alone'
<1>1. CASE Walks
  <2>1. UNCHANGED visit
    BY <1>1 DEF Walks, StartWalk, ListRefused, ListModelsEndpoint, StopWalk
  <2>2. (walk = NoRequest /\ visit = NoRequest) \/ walk # NoRequest
    <3>1. walk.kind = "walk" => walk # NoRequest
      BY DEF NoRequest
    <3>2. StopWalk \/ Walking => walk # NoRequest
      BY <3>1 DEF StopWalk, Walking
    <3>3. (\E o \in Orders : ListRefused(o)) => Walking
      BY DEF ListRefused
    <3>4. (\E o \in Orders, n \in PageSizes : ListModelsEndpoint(o, n)) => Walking
      BY DEF ListModelsEndpoint
    <3>5. (\E f \in Filters : StartWalk(f)) => walk = NoRequest /\ visit = NoRequest
      BY DEF StartWalk
    <3> QED BY <1>1, <3>2, <3>3, <3>4, <3>5 DEF Walks
  <2> QED BY <2>1, <2>2 DEF Alone
<1>2. CASE Visits
  BY <1>2, VisitsRead DEF Alone
<1>3. CASE \E m \in ModelIds : SetModelStatus(m) \/ \E p \in Prices : Reprice(m, p)
  BY <1>3 DEF SetModelStatus, Reprice, Change, Alone
<1>4. CASE UNCHANGED pagesVars
  BY <1>4 DEF pagesVars, Alone
<1> QED BY <1>1, <1>2, <1>3, <1>4 DEF PagesNext

(* A page that is refused, or fails, leaves the walk where it is.          *)
LEMMA StateOK ==
    ASSUME NEW w, NEW key, NEW rows, NEW steady, NEW quiet, NEW since,
           WalkOK(w, key, rows, steady, quiet, since), w.state # "finished",
           NEW s \in {"walking", "refused", "failed"}
    PROVE  WalkOK([w EXCEPT !.state = s], key, rows, steady, quiet, since)
<1> DEFINE v == [w EXCEPT !.state = s]
<1>1. w \in WalkType
  BY DEF WalkOK
<1>2. /\ v \in WalkType /\ v.order = w.order /\ v.cursor = w.cursor /\ v.seen = w.seen
      /\ v.totals = w.totals /\ v.state = s
  BY <1>1 DEF WalkType
<1> HIDE DEF v
<1>3. \A m : Passed(v, key, rows, m) <=> Passed(w, key, rows, m)
  BY <1>2 DEF Passed
<1>4. WalkOK(v, key, rows, steady, quiet, since)
  BY <1>2, <1>3 DEF WalkOK
<1> QED BY <1>4 DEF v

(* A walk that begins has seen nothing.                                    *)
LEMMA StartStep ==
    ASSUME NEW f \in Filters, StartWalk(f)
    PROVE  WalkInv'
<1>1. /\ walk' = [kind |-> "walk", filter |-> f, order |-> None, cursor |-> None,
                  seen |-> <<>>, totals |-> <<>>, state |-> "walking"]
  BY DEF StartWalk
<1>2. /\ walk' \in WalkType /\ walk'.order = None /\ walk'.cursor = None /\ walk'.seen = <<>>
      /\ walk'.totals = <<>> /\ walk'.state = "walking"
  BY <1>1 DEF WalkType
<1>3. ToSet(walk'.seen) = {} /\ DOMAIN walk'.seen = {} /\ DOMAIN walk'.totals = {}
  BY <1>2 DEF ToSet
<1>4. \A key, rows, m : ~Passed(walk', key, rows, m)
  BY <1>2 DEF Passed
<1>5. \A key, rows, steady, quiet, since : WalkOK(walk', key, rows, steady, quiet, since)
  BY <1>2, <1>3, <1>4 DEF WalkOK
<1> QED BY <1>5 DEF WalkInv

(* While the catalogue stays, so do its keys and the rows that match.      *)
LEMMA SameCatalogue ==
    ASSUME UNCHANGED <<listed, price>>, NEW o, NEW f, walk'.order = o, walk'.filter = f
    PROVE  KeyOf(walk.order)' = KeyOf(o) /\ Matching(walk.filter)' = Matching(f)
BY DEF KeyOf, SortKey, RawKey, Matching, Matches

(* A refused page leaves the walk where it was.                            *)
LEMMA RefusedStep ==
    ASSUME WalkInv, NEW asked, ListRefused(asked)
    PROVE  WalkInv'
<1>1. /\ walk.kind = "walk" /\ walk.state \in {"walking", "refused"}
      /\ walk' = [walk EXCEPT !.state = "refused"]
      /\ UNCHANGED <<listed, price, touched, present>>
  BY DEF ListRefused, Walking
<1>2. WalkOK(walk, KeyOf(walk.order), Matching(walk.filter), Steady, touched = {}, present)
  BY <1>1 DEF WalkInv, NoRequest
<1>3. WalkOK(walk', KeyOf(walk.order), Matching(walk.filter), Steady, touched = {}, present)
  BY <1>1, <1>2, StateOK
<1>4. walk'.order = walk.order /\ walk'.filter = walk.filter
  <2>1. walk \in WalkType
    BY <1>2 DEF WalkOK
  <2> QED BY <1>1, <2>1 DEF WalkType
<1>5. KeyOf(walk.order)' = KeyOf(walk.order) /\ Matching(walk.filter)' = Matching(walk.filter)
  BY <1>1, <1>4, SameCatalogue
<1>6. Steady' = Steady
  BY <1>1 DEF Steady
<1> QED BY <1>1, <1>3, <1>5, <1>6 DEF WalkInv

(* A page that is served, or cannot be, keeps the invariant of the walk.   *)
LEMMA ServedStep ==
    ASSUME CatalogueType, WalkInv, NEW asked, NEW limit \in PageSizes,
           ListModelsEndpoint(asked, limit)
    PROVE  WalkInv'
<1> DEFINE o == Defaults(asked)
           q == [filter |-> walk.filter, sort |-> o.sort, direction |-> o.direction]
           page == ListPage(q, walk.cursor, limit)
           key == KeyOf(o)
           rows == Matching(walk.filter)
           quiet == touched = {}
           v == Served(walk, o, page)
<1>1. /\ walk.kind = "walk" /\ walk.state \in {"walking", "refused"}
      /\ ValidList(o, walk.cursor) /\ UNCHANGED <<listed, price, touched, present>>
  BY DEF ListModelsEndpoint, Walking
<1>2. WalkOK(walk, KeyOf(walk.order), rows, Steady, quiet, present)
  BY <1>1 DEF WalkInv, NoRequest
<1>3. /\ walk \in WalkType
      /\ walk.order # None => walk.cursor # None
      /\ walk.cursor # None =>
            walk.cursor.sort = walk.order.sort /\ walk.cursor.direction = walk.order.direction
  BY <1>1, <1>2 DEF WalkOK
<1>4. o \in ListOrder /\ o.sort \in Sorts /\ o.direction \in Directions
  BY <1>1 DEF ValidList, Defaults, ListOrder
<1>5. walk.order \in {None, o}
  <2> SUFFICES ASSUME walk.order # None PROVE walk.order = o
    OBVIOUS
  <2>1. walk.order \in ListOrder /\ walk.order.sort = o.sort /\ walk.order.direction = o.direction
    BY <1>1, <1>3 DEF ValidList, WalkType
  <2> HIDE DEF o
  <2> QED BY <1>4, <2>1 DEF ListOrder
<1>6. q.sort = o.sort /\ q.direction = o.direction /\ q.filter = walk.filter
  OBVIOUS
<1> HIDE DEF o, q
<1>7. IsPage(page, KeyOf(q), Matching(q.filter), q, walk.cursor)
  <2>1. limit \in Nat \ {0}
    BY RequestsAssumption
  <2>2. q.sort \in Sorts /\ q.direction \in Directions
    BY <1>4, <1>6
  <2> QED BY <2>1, <2>2, PageIsPage
<1>8. KeyOf(q) = key /\ Matching(q.filter) = rows
  BY <1>6 DEF KeyOf, SortKey
<1>9. IsPage(page, key, rows, o, walk.cursor)
  <2> HIDE DEF page, key, rows
  <2> QED BY <1>6, <1>7, <1>8 DEF IsPage
<1>10. key \in [ModelIds -> Int] /\ rows \subseteq ModelIds /\ rows \subseteq present
  BY <1>4, Keys DEF KeyOf, Matching, CatalogueType
<1>11. WalkOK(walk, key, rows, Steady, quiet, present)
  <2> HIDE DEF rows, quiet
  <2> QED BY <1>2, <1>5, FreshOK
<1>12. \/ walk' = v /\ (page.next # None => Encodable(page.next))
       \/ walk' = [walk EXCEPT !.state = "failed"]
  <2> DEFINE served == [walk EXCEPT !.seen = @ \o page.models, !.totals = Append(@, page.total),
                                    !.order = IF @ = None THEN o ELSE @, !.cursor = page.next]
  <2>1. walk' = IF page.next = None THEN [served EXCEPT !.state = "finished"]
                ELSE IF Encodable(page.next) THEN [served EXCEPT !.state = "walking"]
                ELSE [walk EXCEPT !.state = "failed"]
    BY DEF ListModelsEndpoint, o, q
  <2> HIDE DEF page
  <2>2. \A s : [served EXCEPT !.state = s] =
            [walk EXCEPT !.seen = @ \o page.models, !.totals = Append(@, page.total),
                         !.order = o, !.cursor = page.next, !.state = s]
    BY <1>3, <1>5 DEF WalkType
  <2> HIDE DEF served
  <2> QED BY <2>1, <2>2 DEF Served
<1>13. Steady' = Steady /\ (touched = {})' = quiet /\ present' = present /\ quiet \in BOOLEAN
  BY <1>1 DEF Steady
<1> HIDE DEF quiet
<1>14. ASSUME walk' = v, page.next # None => Encodable(page.next)
       PROVE  WalkInv'
  <2>1. WalkOK(v, key, rows, Steady, quiet, present)
    <3> HIDE DEF page, key, rows
    <3> QED BY <1>1, <1>4, <1>5, <1>9, <1>10, <1>11, <1>13, <1>14, ServedOK
  <2>2. walk'.order = o /\ walk'.filter = walk.filter
    <3> HIDE DEF page
    <3> QED BY <1>3, <1>14 DEF WalkType, Served
  <2> HIDE DEF v
  <2>3. KeyOf(walk.order)' = key /\ Matching(walk.filter)' = rows
    BY <1>1, <2>2, SameCatalogue
  <2> HIDE DEF key, rows
  <2> QED BY <1>13, <1>14, <2>1, <2>3 DEF WalkInv
<1>15. ASSUME walk' = [walk EXCEPT !.state = "failed"]
       PROVE  WalkInv'
  <2>1. WalkOK(walk', KeyOf(walk.order), rows, Steady, quiet, present)
    <3> HIDE DEF rows
    <3> QED BY <1>1, <1>2, <1>15, StateOK
  <2>2. walk'.order = walk.order /\ walk'.filter = walk.filter
    BY <1>3, <1>15 DEF WalkType
  <2>3. KeyOf(walk.order)' = KeyOf(walk.order) /\ Matching(walk.filter)' = rows
    BY <1>1, <2>2, SameCatalogue
  <2> HIDE DEF rows
  <2> QED BY <1>13, <2>1, <2>3 DEF WalkInv
<1> QED BY <1>12, <1>14, <1>15

(* So does a change of one model.                                          *)
LEMMA ChangeStep ==
    ASSUME WalkInv, NEW x \in ModelIds, Change(x),
           \A m \in ModelIds \ {x} : (m \in listed' <=> m \in listed) /\ price'[m] = price[m]
    PROVE  WalkInv'
<1>1. walk' = walk /\ touched' = touched \cup {x} /\ present \subseteq present'
  BY DEF Change
<1>2. Steady' \subseteq Steady /\ x \notin Steady' /\ Steady' \subseteq ModelIds
  BY <1>1 DEF Steady
<1>3. ASSUME NEW m \in Steady'
      PROVE  /\ m \in Matching(walk.filter)' <=> m \in Matching(walk.filter)
             /\ KeyOf(walk.order)'[m] = KeyOf(walk.order)[m]
  <2>1. m \in ModelIds \ {x}
    BY <1>2
  <2>2. (m \in listed' <=> m \in listed) /\ price'[m] = price[m]
    BY <2>1
  <2> QED BY <1>1, <2>1, <2>2 DEF Matching, Matches, KeyOf, SortKey, RawKey
<1>4. CASE walk = NoRequest
  BY <1>1, <1>4 DEF WalkInv
<1>5. CASE WalkOK(walk, KeyOf(walk.order), Matching(walk.filter), Steady, touched = {}, present)
  <2> DEFINE key2 == KeyOf(walk.order)'
             rows2 == Matching(walk.filter)'
             steady2 == Steady'
             since2 == present'
             key == KeyOf(walk.order)
             rows == Matching(walk.filter)
             quiet == touched = {}
  <2>0. WalkOK(walk, key, rows, Steady, quiet, present)
    BY <1>5
  <2>1. Agree(steady2, key, rows, key2, rows2)
    BY <1>3 DEF Agree
  <2>2. steady2 \subseteq Steady /\ present \subseteq since2 /\ ModelIds \subseteq Nat
    BY <1>1, <1>2, ModelsAreIds
  <2> HIDE DEF key2, rows2, steady2, since2, key, rows, quiet
  <2>3. WalkOK(walk, key2, rows2, steady2, FALSE, since2)
    BY <2>0, <2>1, <2>2, ChangedOK
  <2>4. (touched = {})' = FALSE
    BY <1>1
  <2> QED BY <1>1, <2>3, <2>4 DEF WalkInv, key2, rows2, steady2, since2
<1> QED BY <1>4, <1>5 DEF WalkInv

(* Every step keeps the invariant of the walk.                             *)
LEMMA WalkStep ==
    ASSUME CatalogueType, Alone, WalkInv, [PagesNext]_pagesVars
    PROVE  WalkInv'
<1>1. CASE Walks
  <2>1. ASSUME StopWalk
        PROVE  WalkInv'
    BY <2>1 DEF StopWalk, WalkInv
  <2> QED BY <1>1, <2>1, StartStep, RefusedStep, ServedStep DEF Walks
<1>2. ASSUME walk' = walk, UNCHANGED <<listed, price>>,
             walk = NoRequest \/ UNCHANGED <<touched, present>>
      PROVE  WalkInv'
  <2>1. CASE walk = NoRequest
    BY <1>2, <2>1 DEF WalkInv
  <2>2. CASE UNCHANGED <<touched, present>>
    <3>1. KeyOf(walk.order)' = KeyOf(walk.order) /\ Matching(walk.filter)' = Matching(walk.filter)
      BY <1>2, SameCatalogue
    <3>2. Steady' = Steady /\ (touched = {})' = (touched = {}) /\ present' = present
      BY <2>2 DEF Steady
    <3> QED BY <1>2, <3>1, <3>2 DEF WalkInv
  <2> QED BY <1>2, <2>1, <2>2
<1>3. CASE Visits
  BY <1>2, <1>3, VisitsRead DEF Alone
<1>4. ASSUME NEW m \in ModelIds, SetModelStatus(m)
      PROVE  WalkInv'
  <2>1. Change(m) /\ price' = price /\ \A x \in ModelIds \ {m} : x \in listed' <=> x \in listed
    BY <1>4 DEF SetModelStatus
  <2> QED BY <2>1, ChangeStep
<1>5. ASSUME NEW m \in ModelIds, NEW p \in Prices, Reprice(m, p)
      PROVE  WalkInv'
  <2>1. Change(m) /\ listed' = listed /\ \A x \in ModelIds \ {m} : price'[x] = price[x]
    BY <1>5 DEF Reprice, CatalogueType
  <2> QED BY <2>1, ChangeStep
<1>6. CASE UNCHANGED pagesVars
  BY <1>2, <1>6 DEF pagesVars
<1> QED BY <1>1, <1>3, <1>4, <1>5, <1>6 DEF PagesNext

(* The invariant says that the pages are one listing.                      *)
LEMMA WalkHolds ==
    ASSUME CatalogueType, WalkInv
    PROVE  SteadySeenOnce /\ UnknownLast /\ TotalHolds
<1> SUFFICES ASSUME walk.kind = "walk"
             PROVE  SteadySeenOnce /\ UnknownLast /\ TotalHolds
  BY DEF SteadySeenOnce, UnknownLast, TotalHolds
<1> DEFINE key == KeyOf(walk.order)
           rows == Matching(walk.filter)
           quiet == touched = {}
<1>1. WalkOK(walk, key, rows, Steady, quiet, present)
  BY DEF WalkInv, NoRequest
<1>2. walk \in WalkType /\ walk.seen \in Seq(ModelIds) /\ DOMAIN walk.seen = 1 .. Len(walk.seen)
      /\ Len(walk.seen) \in Nat
  <2>1. walk \in WalkType
    BY <1>1 DEF WalkOK
  <2> QED BY <2>1, LenProperties DEF WalkType
<1>3. DOMAIN walk.seen # {} => walk.order \in ListOrder
  <2> HIDE DEF key, rows, quiet
  <2> QED BY <1>1, <1>2, EmptySeq DEF WalkOK, WalkType
<1>4. ASSUME NEW i \in DOMAIN walk.seen
      PROVE  walk.seen[i] \in ModelIds /\ walk.seen[i] \in Nat /\ key[walk.seen[i]] \in Int
             /\ key[walk.seen[i]] = SortKey(walk.seen[i], walk.order)
  <2>1. walk.seen[i] \in ModelIds /\ walk.seen[i] \in Nat
    BY <1>2, ElementOfSeq, ModelsAreIds
  <2>2. walk.order.sort \in Sorts /\ walk.order.direction \in Directions
    BY <1>3 DEF ListOrder
  <2> QED BY <2>1, <2>2, Keys DEF CatalogueType, KeyOf
<1>5. \A i, j \in DOMAIN walk.seen :
        i < j /\ walk.seen[i] \in Steady /\ walk.seen[j] \in Steady =>
            Ahead(key, walk.seen[i], walk.seen[j])
  <2> HIDE DEF key, rows, quiet
  <2> QED BY <1>1 DEF WalkOK
<1> HIDE DEF key
<1>6. SteadySeenOnce
  <2> SUFFICES ASSUME NEW m \in Steady
               PROVE  LET times == Cardinality({i \in DOMAIN walk.seen : walk.seen[i] = m})
                      IN  /\ times <= 1
                          /\ walk.state = "finished" =>
                                (times = 1 <=> m \in listed /\ Matches(m, walk.filter))
    BY DEF SteadySeenOnce
  <2> DEFINE T == {i \in DOMAIN walk.seen : walk.seen[i] = m}
  <2>1. \A i, j \in T : i = j
    <3> SUFFICES ASSUME NEW i \in T, NEW j \in T, i < j PROVE FALSE
      BY <1>2
    <3>1. Ahead(key, m, m) /\ m \in Nat /\ key[m] \in Int
      BY <1>4, <1>5
    <3> QED BY <3>1 DEF Ahead
  <2>2. Cardinality(T) = IF m \in ToSet(walk.seen) THEN 1 ELSE 0
    <3>1. CASE m \in ToSet(walk.seen)
      <4>1. PICK i \in DOMAIN walk.seen : walk.seen[i] = m
        BY <3>1 DEF ToSet
      <4>2. T = {i}
        BY <2>1, <4>1
      <4> QED BY <3>1, <4>2, FS_Singleton
    <3>2. CASE m \notin ToSet(walk.seen)
      <4>1. T = {}
        BY <3>2 DEF ToSet
      <4> QED BY <3>2, <4>1, FS_EmptySet
    <3> QED BY <3>1, <3>2
  <2>3. walk.state = "finished" => (m \in ToSet(walk.seen) <=> m \in rows)
    <3> HIDE DEF rows, quiet
    <3> QED BY <1>1 DEF WalkOK, Passed
  <2>4. m \in rows <=> m \in listed /\ Matches(m, walk.filter)
    BY DEF Matching
  <2> HIDE DEF T, rows
  <2>5. Cardinality(T) <= 1 /\ (Cardinality(T) = 1 <=> m \in ToSet(walk.seen))
    BY <2>2
  <2> QED BY <2>3, <2>4, <2>5 DEF T
<1>7. UnknownLast
  <2> SUFFICES ASSUME NEW i \in DOMAIN walk.seen, NEW j \in DOMAIN walk.seen,
                      i < j, walk.seen[i] \in Steady, walk.seen[j] \in Steady
               PROVE  LET a == RawKey(walk.seen[i], walk.order.sort)
                          b == RawKey(walk.seen[j], walk.order.sort)
                      IN  \/ b = None
                          \/ /\ a # None
                             /\ IF walk.order.direction = "asc" THEN a <= b ELSE a >= b
    BY DEF UnknownLast
  <2> DEFINE x == walk.seen[i]
             y == walk.seen[j]
             a == RawKey(x, walk.order.sort)
             b == RawKey(y, walk.order.sort)
  <2>1. key[x] <= key[y] /\ key[x] = SortKey(x, walk.order) /\ key[y] = SortKey(y, walk.order)
    BY <1>4, <1>5 DEF Ahead
  <2>2. walk.order.sort \in Sorts /\ walk.order.direction \in Directions
        /\ x \in ModelIds /\ y \in ModelIds
    BY <1>3, <1>4 DEF ListOrder
  <2> HIDE DEF x, y
  <2>3. /\ a = None => SortKey(x, walk.order) = Infinity
        /\ a # None => /\ a \in Nat /\ SortKey(x, walk.order) < Infinity
                       /\ SortKey(x, walk.order) = IF walk.order.direction = "asc" THEN a ELSE -a
        /\ Infinity \in Nat
    BY <2>2, Keys DEF CatalogueType
  <2>4. /\ b = None => SortKey(y, walk.order) = Infinity
        /\ b # None => /\ b \in Nat /\ SortKey(y, walk.order) < Infinity
                       /\ SortKey(y, walk.order) = IF walk.order.direction = "asc" THEN b ELSE -b
    BY <2>2, Keys DEF CatalogueType
  <2> HIDE DEF a, b
  <2>5. b = None \/ (a # None /\ IF walk.order.direction = "asc" THEN a <= b ELSE a >= b)
    BY <2>1, <2>3, <2>4
  <2> QED BY <2>5 DEF a, b, x, y
<1>8. TotalHolds
  <2>1. quiet => \A i \in DOMAIN walk.totals : walk.totals[i] = Cardinality(rows)
    <3> HIDE DEF rows, quiet
    <3> QED BY <1>1 DEF WalkOK
  <2> QED BY <2>1 DEF TotalHolds
<1> QED BY <1>6, <1>7, <1>8

-----------------------------------------------------------------------------
(* The other pages.                                                        *)

(* The part of a sequence that lies in a set: the places it keeps.         *)
Keeps(kept, s, N, set, k, g) ==
    /\ k \in Nat /\ g \in [1 .. k -> 1 .. N]
    /\ \A i, j \in 1 .. k : i < j => g[i] < g[j]
    /\ \A i \in 1 .. k : s[g[i]] \in set
    /\ \A n \in 1 .. N : s[n] \in set => \E i \in 1 .. k : g[i] = n
    /\ kept = [i \in 1 .. k |-> s[g[i]]]

(* What Kept leaves of a sequence: places that ascend, all that are wanted.*)
LEMMA KeptIs ==
    ASSUME NEW N \in Nat, NEW s, DOMAIN s = 1 .. N, NEW set
    PROVE  \E k, g : Keeps(Kept(s, set), s, N, set, k, g) /\ k <= N
<1> DEFINE places == {i \in DOMAIN s : s[i] \in set}
           before == {p \in places \X places : p[1] < p[2]}
           g == Sorted(places, before)
           k == Cardinality(places)
<1>1. IsFiniteSet(places) /\ k <= N /\ places \subseteq 1 .. N
  <2>1. IsFiniteSet(1 .. N) /\ Cardinality(1 .. N) = N
    BY FS_Interval
  <2> QED BY <2>1, FS_Subset
<1>2. \A x, y \in places : <<x, y>> \in before <=> x < y
  OBVIOUS
<1>3. Kept(s, set) = [i \in DOMAIN g |-> s[g[i]]]
  BY DEF Kept
<1>4. \A x \in places : s[x] \in set
  OBVIOUS
<1>5. \A n \in 1 .. N : s[n] \in set => n \in places
  OBVIOUS
<1> HIDE DEF before, places
<1>6. NoTies(places, before)
  <2>1. \A x \in places : x \in Nat
    BY <1>1
  <2> QED BY <1>2, <2>1 DEF NoTies
<1>7. InOrder(g, places, before) /\ k \in Nat
  BY <1>1, <1>6, SortedInOrder
<1> HIDE DEF g, k
<1>8. g \in [1 .. k -> places] /\ \A x \in places : \E i \in 1 .. k : g[i] = x
  BY <1>7 DEF InOrder, k
<1>9. \A i, j \in 1 .. k : i < j => g[i] < g[j]
  BY <1>2, <1>7, <1>8 DEF InOrder, k
<1>10. Keeps(Kept(s, set), s, N, set, k, g)
  BY <1>1, <1>3, <1>4, <1>5, <1>7, <1>8, <1>9 DEF Keeps
<1> QED BY <1>1, <1>10 DEF k

Shape(v) == v = [kind |-> v.kind, arg |-> v.arg, step |-> v.step, head |-> v.head,
                 ids |-> v.ids, found |-> v.found, shown |-> v.shown]

VisitShape ==
    visit = NoRequest \/
        /\ Shape(visit)
        /\ \/ visit.kind = "model" /\ visit.arg \in ModelIds
           \/ visit.kind = "summary"
           \/ visit.kind = "benchmark" /\ visit.arg \in Benchmarks
           \/ visit.kind = "ranking" /\ visit.arg \in Boards
           \/ visit.kind = "navigation" /\ visit.arg \in Navigations
           \/ visit.kind = "page" /\ visit.arg \in Bodies

(* One read of a visit: what it is for does not change.                    *)
LEMMA ReadKeeps ==
    ASSUME VisitShape, visit # NoRequest, Shape(visit'),
           visit'.kind = visit.kind, visit'.arg = visit.arg
    PROVE  VisitShape'
BY DEF VisitShape

Keeping == Shape(visit') /\ visit'.kind = visit.kind /\ visit'.arg = visit.arg

(* The steps of a request keep its kind and its argument.                  *)
LEMMA ReadsKeep ==
    ASSUME Shape(visit)
    PROVE  /\ GetModel \/ RelatedModelIDs \/ modelDetail => Keeping
           /\ CatalogCounts \/ FeaturedModelIDs \/ summary => Keeping
           /\ BenchmarkResults \/ benchmarkDetail => Keeping
           /\ RankModels \/ ranking => Keeping
           /\ docsNavigation \/ docsPage => Keeping
           /\ ModelsByIDs => Keeping
<1>1. GetModel \/ RelatedModelIDs \/ modelDetail => Keeping
  BY DEF GetModel, RelatedModelIDs, modelDetail, AnswerInOrder, Read, Shape, Keeping
<1>2. CatalogCounts \/ FeaturedModelIDs \/ summary => Keeping
  BY DEF CatalogCounts, FeaturedModelIDs, summary, AnswerInOrder, Read, Shape, Keeping
<1>3. BenchmarkResults \/ benchmarkDetail => Keeping
  BY DEF BenchmarkResults, benchmarkDetail, Read, Shape, Keeping
<1>4. RankModels \/ ranking => Keeping
  BY DEF RankModels, ranking, Read, Shape, Keeping
<1>5. docsNavigation \/ docsPage => Keeping
  BY DEF docsNavigation, docsPage, Read, Shape, Keeping
<1>6. ModelsByIDs => Keeping
  BY DEF ModelsByIDs, Read, Shape, Keeping
<1> QED BY <1>1, <1>2, <1>3, <1>4, <1>5, <1>6

(* Every step of a request keeps its fields.                               *)
LEMMA ShapeStep ==
    ASSUME VisitShape, Visits
    PROVE  VisitShape'
<1>1. ASSUME NEW k, NEW a, Open(k, a)
      PROVE  Shape(visit') /\ visit'.kind = k /\ visit'.arg = a
  BY <1>1 DEF Open, Shape
<1>2. (\E m \in ModelIds : Open("model", m)) \/ Open("summary", None) => VisitShape'
  BY <1>1 DEF VisitShape
<1>3. (\E b \in Benchmarks : Open("benchmark", b)) \/ (\E b \in Boards : Open("ranking", b))
        => VisitShape'
  BY <1>1 DEF VisitShape
<1>4. (\E n \in Navigations : Open("navigation", n)) \/ (\E b \in Bodies : Open("page", b))
        => VisitShape'
  BY <1>1 DEF VisitShape
<1>5. CloseVisit => VisitShape'
  BY DEF CloseVisit, VisitShape
<1>6. CASE visit # NoRequest
  <2>1. Shape(visit)
    BY <1>6 DEF VisitShape
  <2>2. Keeping => VisitShape'
    BY <1>6, ReadKeeps DEF Keeping
  <2> QED BY <1>2, <1>3, <1>4, <1>5, <2>1, <2>2, ReadsKeep DEF Visits
<1>7. CASE visit = NoRequest
  <2>1. \/ \E m \in ModelIds : Open("model", m)
        \/ Open("summary", None)
        \/ \E b \in Benchmarks : Open("benchmark", b)
        \/ \E b \in Boards : Open("ranking", b)
        \/ \E n \in Navigations : Open("navigation", n)
        \/ \E b \in Bodies : Open("page", b)
    <3>1. \A k, s : At(k, s) => k = "idle"
      BY <1>7 DEF At, NoRequest
    <3>2. ~(GetModel \/ RelatedModelIDs \/ modelDetail)
      BY <3>1 DEF GetModel, RelatedModelIDs, modelDetail, AnswerInOrder
    <3>3. ~(CatalogCounts \/ FeaturedModelIDs \/ summary)
      BY <3>1 DEF CatalogCounts, FeaturedModelIDs, summary, AnswerInOrder
    <3>4. ~(BenchmarkResults \/ benchmarkDetail \/ RankModels \/ ranking)
      BY <3>1 DEF BenchmarkResults, benchmarkDetail, RankModels, ranking
    <3>5. ~(docsNavigation \/ docsPage)
      BY <3>1 DEF docsNavigation, docsPage
    <3>6. ~ModelsByIDs /\ ~CloseVisit
      BY <1>7 DEF ModelsByIDs, CloseVisit, NoRequest
    <3> QED BY <3>2, <3>3, <3>4, <3>5, <3>6 DEF Visits
  <2> QED BY <1>2, <1>3, <1>4, <2>1
<1> QED BY <1>6, <1>7

(* Whose read it is.                                                       *)
LEMMA WhichVisit ==
    ASSUME VisitShape, Visits
    PROVE  \/ \E k, a : Open(k, a)
           \/ visit' = NoRequest
           \/ /\ visit # NoRequest /\ Shape(visit) /\ Keeping
              /\ UNCHANGED <<listed, price, touched, present>>
              /\ \/ visit.kind = "model" /\ (GetModel \/ RelatedModelIDs \/ modelDetail \/ ModelsByIDs)
                 \/ /\ visit.kind = "summary"
                    /\ CatalogCounts \/ FeaturedModelIDs \/ summary \/ ModelsByIDs
                 \/ visit.kind = "benchmark" /\ (BenchmarkResults \/ benchmarkDetail \/ ModelsByIDs)
                 \/ visit.kind = "ranking" /\ (RankModels \/ ranking \/ ModelsByIDs)
                 \/ visit.kind = "navigation" /\ docsNavigation
                 \/ visit.kind = "page" /\ docsPage
<1> DEFINE Asks(k) == /\ visit.kind = k /\ k # "idle"
                      /\ UNCHANGED <<listed, price, touched, present>>
<1>1. GetModel \/ RelatedModelIDs \/ modelDetail => Asks("model")
  BY DEF GetModel, RelatedModelIDs, modelDetail, AnswerInOrder, At, Read
<1>2. CatalogCounts \/ FeaturedModelIDs \/ summary => Asks("summary")
  BY DEF CatalogCounts, FeaturedModelIDs, summary, AnswerInOrder, At, Read
<1>3. BenchmarkResults \/ benchmarkDetail => Asks("benchmark")
  BY DEF BenchmarkResults, benchmarkDetail, At, Read
<1>4. RankModels \/ ranking => Asks("ranking")
  BY DEF RankModels, ranking, At, Read
<1>5. docsNavigation => Asks("navigation")
  BY DEF docsNavigation, At, Read
<1>6. docsPage => Asks("page")
  BY DEF docsPage, At, Read
<1>7. ModelsByIDs =>
        \E k \in {"model", "summary", "benchmark", "ranking"} : Asks(k)
  BY DEF ModelsByIDs, Read
<1>8. visit.kind # "idle" => visit # NoRequest /\ Shape(visit)
  BY DEF VisitShape, NoRequest
<1>9. CloseVisit => visit' = NoRequest
  BY DEF CloseVisit
<1>10. \A k : Asks(k) =>
        visit.kind = k /\ visit.kind # "idle" /\ UNCHANGED <<listed, price, touched, present>>
  OBVIOUS
<1> HIDE DEF Asks
<1>11. CASE \/ GetModel \/ RelatedModelIDs \/ modelDetail
            \/ CatalogCounts \/ FeaturedModelIDs \/ summary
  BY <1>1, <1>2, <1>8, <1>10, <1>11, ReadsKeep
<1>12. CASE BenchmarkResults \/ benchmarkDetail \/ RankModels \/ ranking
  BY <1>3, <1>4, <1>8, <1>10, <1>12, ReadsKeep
<1>13. CASE docsNavigation \/ docsPage \/ ModelsByIDs
  BY <1>5, <1>6, <1>7, <1>8, <1>10, <1>13, ReadsKeep
<1> QED BY <1>9, <1>11, <1>12, <1>13 DEF Visits

(* What the administrators leave alone.                                    *)
Same(steady, l, p, l2, p2) == \A m \in steady : (m \in l2 <=> m \in l) /\ p2[m] = p[m]

(* What the statement that loads models by id found of the ids it got.     *)
Loaded(found, ids, l, p, steady, since) ==
    \E ms, c :
        /\ found = {[id |-> m, price |-> c[m]] : m \in ms}
        /\ c \in [ModelIds -> Prices]
        /\ ms \subseteq ids /\ ms \subseteq since /\ ms \subseteq ModelIds
        /\ \A m \in ids \cap steady : (m \in ms <=> m \in l) /\ (m \in ms => c[m] = p[m])

(* Loaded models stay what they are when an unsteady one changes.          *)
LEMMA LoadedStays ==
    ASSUME NEW found, NEW ids, NEW l, NEW p, NEW steady, NEW since,
           Loaded(found, ids, l, p, steady, since),
           NEW l2, NEW p2, NEW steady2, NEW since2,
           steady2 \subseteq steady, since \subseteq since2, Same(steady2, l, p, l2, p2)
    PROVE  Loaded(found, ids, l2, p2, steady2, since2)
BY DEF Loaded, Same

(* The models found, each under its own id.                                *)
LEMMA FoundIs ==
    ASSUME NEW ms, NEW c, visit.found = {[id |-> m, price |-> c[m]] : m \in ms}
    PROVE  Found = ms /\ \A m \in ms : FoundModel(m) = [id |-> m, price |-> c[m]]
<1>1. Found = ms
  <2>1. \A x \in visit.found : x.id \in ms
    OBVIOUS
  <2>2. \A m \in ms : [id |-> m, price |-> c[m]] \in visit.found /\ [id |-> m, price |-> c[m]].id = m
    OBVIOUS
  <2>3. \A m \in ms : \E x \in visit.found : x.id = m
    BY <2>2
  <2> QED BY <2>1, <2>3 DEF Found
<1>2. ASSUME NEW m \in ms
      PROVE  FoundModel(m) = [id |-> m, price |-> c[m]]
  <2> DEFINE y == [id |-> m, price |-> c[m]]
  <2>1. y \in visit.found /\ y.id = m
    OBVIOUS
  <2>2. \A x \in visit.found : x.id = m => x = y
    OBVIOUS
  <2> HIDE DEF y
  <2>3. (CHOOSE x \in visit.found : x.id = m) = y
    BY <2>1, <2>2
  <2> QED BY <2>3 DEF FoundModel, y
<1> QED BY <1>1, <1>2

(* The statement loads of the ids those that are listed now.               *)
LEMMA LoadStep ==
    ASSUME CatalogueType, VisitShape, ModelsByIDs, NEW ids,
           ids = IF visit.kind \in {"model", "summary"} THEN ToSet(visit.ids) ELSE IdsOf(visit.ids)
    PROVE  /\ Loaded(visit'.found, ids, listed, price, Steady, present)
           /\ visit.step = "models" /\ visit'.step = "answer"
           /\ visit' = [visit EXCEPT !.step = "answer", !.found = visit'.found]
           /\ visit.kind \in {"model", "summary", "benchmark", "ranking"}
           /\ UNCHANGED <<listed, price, touched, present>>
           /\ visit'.ids = visit.ids /\ visit'.kind = visit.kind /\ visit'.arg = visit.arg
           /\ visit'.head = visit.head
<1>1. /\ visit.kind \in {"model", "summary", "benchmark", "ranking"} /\ visit.step = "models"
      /\ UNCHANGED <<listed, price, touched, present>>
      /\ visit' = [visit EXCEPT !.step = "answer",
                                !.found = {Model(m) : m \in ListModelSummariesByIDs(ids)}]
  BY DEF ModelsByIDs, Read
<1>2. Shape(visit)
  BY <1>1 DEF VisitShape, NoRequest
<1>3. visit'.step = "answer" /\ visit'.ids = visit.ids /\ visit'.kind = visit.kind
      /\ visit'.arg = visit.arg /\ visit'.head = visit.head
      /\ visit'.found = {Model(m) : m \in ListModelSummariesByIDs(ids)}
  BY <1>1, <1>2 DEF Shape
<1>4. visit'.found = {[id |-> m, price |-> price[m]] : m \in ids \cap listed}
  BY <1>3 DEF Model, ListModelSummariesByIDs
<1>5. Loaded(visit'.found, ids, listed, price, Steady, present)
  <2>1. /\ price \in [ModelIds -> Prices] /\ ids \cap listed \subseteq present
        /\ ids \cap listed \subseteq ModelIds /\ ids \cap listed \subseteq ids
    BY DEF CatalogueType
  <2> QED BY <1>4, <2>1 DEF Loaded
<1> QED BY <1>1, <1>3, <1>5

(* The ids of a page of models: different ones, and not too many.          *)
Chosen(ids, limit) ==
    /\ ids \in Seq(ModelIds) /\ Len(ids) <= limit
    /\ \A i, j \in DOMAIN ids : ids[i] = ids[j] => i = j

Place(ids, m) == CHOOSE i \in DOMAIN ids : ids[i] = m

(* What a page shows of them.                                              *)
Shows(shown, ids, limit, steady, since) ==
    /\ shown \in Seq([id : ModelIds, price : Prices]) /\ Len(shown) <= limit
    /\ {shown[i].id : i \in DOMAIN shown} \subseteq since
    /\ \A i, j \in DOMAIN shown : i < j => Place(ids, shown[i].id) < Place(ids, shown[j].id)
    /\ \A m \in ToSet(ids) \cap steady : \E i \in DOMAIN shown : shown[i].id = m

PickOK(v, limit, l, p, steady, since) ==
    /\ v.step \in {"models", "answer"} =>
        Chosen(v.ids, limit) /\ \A m \in ToSet(v.ids) \cap steady : m \in l
    /\ v.step = "answer" => Loaded(v.found, ToSet(v.ids), l, p, steady, since)
    /\ v.step = "answered" => Shows(v.shown, v.ids, limit, steady, since)

(* What has been picked stays so when an unsteady model changes.           *)
LEMMA PickStays ==
    ASSUME NEW v, NEW limit, NEW l, NEW p, NEW steady, NEW since,
           PickOK(v, limit, l, p, steady, since),
           NEW l2, NEW p2, NEW steady2, NEW since2,
           steady2 \subseteq steady, since \subseteq since2, Same(steady2, l, p, l2, p2)
    PROVE  PickOK(v, limit, l2, p2, steady2, since2)
<1>1. v.step = "answer" => Loaded(v.found, ToSet(v.ids), l2, p2, steady2, since2)
  BY LoadedStays DEF PickOK
<1>2. v.step \in {"models", "answer"} =>
        Chosen(v.ids, limit) /\ \A m \in ToSet(v.ids) \cap steady2 : m \in l2
  BY DEF PickOK, Same
<1>3. v.step = "answered" => Shows(v.shown, v.ids, limit, steady2, since2)
  BY DEF PickOK, Shows
<1> QED BY <1>1, <1>2, <1>3 DEF PickOK

(* The first of any sorting are distinct, and no more than the limit.      *)
LEMMA ChosenFirst ==
    ASSUME NEW rows, rows \subseteq ModelIds, NEW before, NEW s \in Sortings(rows, before),
           NEW limit \in Nat
    PROVE  Chosen(First(s, limit), limit) /\ ToSet(First(s, limit)) \subseteq rows
<1> DEFINE N == Cardinality(rows)
           ids == First(s, limit)
<1>0. IsFiniteSet(rows)
  BY ModelsAreIds, FS_Subset
<1>1. N \in Nat
  BY <1>0, FS_CardinalityType
<1>2. s \in [1 .. N -> rows] /\ \A i, j \in 1 .. N : s[i] = s[j] => i = j
  BY <1>0, SortingInOrder DEF InSomeOrder
<1> HIDE DEF N, ids
<1>3. Limited(ids, s, N, rows, limit)
  BY <1>1, <1>2, FirstOf DEF ids
<1>4. Shorter(N, limit) \in Nat /\ Shorter(N, limit) <= N /\ Shorter(N, limit) <= limit
  BY <1>1 DEF Shorter
<1>5. ids \in Seq(rows) /\ Len(ids) <= limit /\ DOMAIN ids = 1 .. Shorter(N, limit)
      /\ \A i \in DOMAIN ids : ids[i] = s[i] /\ ids[i] \in rows
  BY <1>3, <1>4 DEF Limited
<1>6. \A i, j \in DOMAIN ids : ids[i] = ids[j] => i = j
  BY <1>1, <1>2, <1>4, <1>5
<1>7. ids \in Seq(ModelIds) /\ ToSet(ids) \subseteq rows
  BY <1>5 DEF ToSet
<1> QED BY <1>5, <1>6, <1>7 DEF Chosen, ids

(* A function on 1 .. k is a sequence of length k.                         *)
LEMMA ListOf ==
    ASSUME NEW k \in Nat, NEW R, NEW s \in [1 .. k -> R]
    PROVE  s \in Seq(R) /\ Len(s) = k /\ DOMAIN s = 1 .. k
OBVIOUS

(* The models found, in the order of the ids.                              *)
LEMMA OrderedByIDs ==
    ASSUME NEW ids, NEW limit \in Nat, Chosen(ids, limit), NEW l, NEW p, NEW steady, NEW since,
           Loaded(visit.found, ToSet(ids), l, p, steady, since),
           \A m \in ToSet(ids) \cap steady : m \in l
    PROVE  Shows(orderByIDs(ids), ids, limit, steady, since)
<1> DEFINE N == Len(ids)
<1>1. ids \in Seq(ModelIds) /\ N \in Nat /\ DOMAIN ids = 1 .. N /\ N <= limit
      /\ \A i \in 1 .. N : ids[i] \in ModelIds
  BY LenProperties, ElementOfSeq DEF Chosen
<1>2. PICK ms, c :
        /\ visit.found = {[id |-> m, price |-> c[m]] : m \in ms}
        /\ c \in [ModelIds -> Prices]
        /\ ms \subseteq ToSet(ids) /\ ms \subseteq since /\ ms \subseteq ModelIds
        /\ \A m \in ToSet(ids) \cap steady : (m \in ms <=> m \in l) /\ (m \in ms => c[m] = p[m])
  BY DEF Loaded
<1>3. Found = ms /\ \A m \in ms : FoundModel(m) = [id |-> m, price |-> c[m]]
  BY <1>2, FoundIs
<1>4. PICK k, g : Keeps(Kept(ids, ms), ids, N, ms, k, g) /\ k <= N
  <2> HIDE DEF N
  <2> QED BY <1>1, KeptIs
<1> DEFINE shown == orderByIDs(ids)
<1> HIDE DEF N
<1>5. /\ k \in Nat /\ DOMAIN Kept(ids, ms) = 1 .. k
      /\ \A i \in 1 .. k : Kept(ids, ms)[i] = ids[g[i]] /\ ids[g[i]] \in ms
  BY <1>4 DEF Keeps
<1>6. shown = [i \in 1 .. k |-> [id |-> ids[g[i]], price |-> c[ids[g[i]]]]]
  BY <1>3, <1>5 DEF orderByIDs
<1> HIDE DEF shown
<1>7. DOMAIN shown = 1 .. k /\ \A i \in 1 .. k : shown[i].id = ids[g[i]]
  BY <1>6
<1>8. shown \in Seq([id : ModelIds, price : Prices]) /\ Len(shown) = k
  <2>1. \A i \in 1 .. k : [id |-> ids[g[i]], price |-> c[ids[g[i]]]] \in [id : ModelIds, price : Prices]
    BY <1>2, <1>5
  <2>2. shown \in [1 .. k -> [id : ModelIds, price : Prices]]
    BY <1>6, <2>1
  <2> QED BY <1>5, <2>2, ListOf
<1>9. {shown[i].id : i \in DOMAIN shown} \subseteq since
  BY <1>2, <1>5, <1>7
<1>10. \A i \in 1 .. N : Place(ids, ids[i]) = i
  BY <1>1 DEF Place, Chosen
<1>11. \A i, j \in DOMAIN shown : i < j => Place(ids, shown[i].id) < Place(ids, shown[j].id)
  BY <1>4, <1>7, <1>10 DEF Keeps
<1>12. ASSUME NEW m \in ToSet(ids) \cap steady
       PROVE  \E i \in DOMAIN shown : shown[i].id = m
  <2>1. m \in ms
    BY <1>2
  <2>2. PICK n \in 1 .. N : ids[n] = m
    BY <1>1 DEF ToSet
  <2>3. PICK i \in 1 .. k : g[i] = n
    BY <1>4, <2>1, <2>2 DEF Keeps
  <2> QED BY <1>7, <2>2, <2>3
<1>13. Len(shown) <= limit
  BY <1>1, <1>4, <1>5, <1>8
<1> QED BY <1>8, <1>9, <1>11, <1>12, <1>13 DEF Shows, shown

PickLimit(kind) == IF kind = "model" THEN RelatedLimit ELSE FeaturedLimit

PickInv ==
    visit.kind \in {"model", "summary"} =>
        PickOK(visit, PickLimit(visit.kind), listed, price, Steady, present)

(* Either limit is a natural number.                                       *)
LEMMA PickLimitIsNat == \A k : PickLimit(k) \in Nat
BY Bounds DEF PickLimit

(* The related models are chosen.                                          *)
LEMMA RelatedStep ==
    ASSUME CatalogueType, VisitShape, RelatedModelIDs
    PROVE  PickInv'
<1>1. /\ visit.kind = "model" /\ UNCHANGED <<listed, price, touched, present>>
      /\ \E ids \in ListRelatedModelIDs(visit.arg) :
            visit' = [visit EXCEPT !.step = "models", !.ids = ids]
  BY DEF RelatedModelIDs, At, Read
<1>2. PICK ids \in ListRelatedModelIDs(visit.arg) :
        visit' = [visit EXCEPT !.step = "models", !.ids = ids]
  BY <1>1
<1>3. Shape(visit)
  BY <1>1 DEF VisitShape, NoRequest
<1>4. visit'.kind = "model" /\ visit'.step = "models" /\ visit'.ids = ids
  BY <1>1, <1>2, <1>3 DEF Shape
<1> DEFINE rows == listed \ {visit.arg}
<1>5. PICK before, s : s \in Sortings(rows, before) /\ ids = First(s, RelatedLimit)
  BY DEF ListRelatedModelIDs
<1>6. rows \subseteq ModelIds /\ rows \subseteq listed
  BY DEF CatalogueType
<1> HIDE DEF rows
<1>7. Chosen(ids, RelatedLimit) /\ ToSet(ids) \subseteq listed
  <2>1. Chosen(First(s, RelatedLimit), RelatedLimit) /\ ToSet(First(s, RelatedLimit)) \subseteq rows
    BY <1>5, <1>6, Bounds, ChosenFirst
  <2> QED BY <1>5, <1>6, <2>1
<1> QED BY <1>1, <1>4, <1>7 DEF PickInv, PickOK, PickLimit

(* The featured models are chosen.                                         *)
LEMMA FeaturedStep ==
    ASSUME CatalogueType, VisitShape, FeaturedModelIDs
    PROVE  PickInv'
<1>1. /\ visit.kind = "summary" /\ UNCHANGED <<listed, price, touched, present>>
      /\ \E ids \in ListFeaturedModelIDs :
            visit' = [visit EXCEPT !.step = "models", !.ids = ids]
  BY DEF FeaturedModelIDs, At, Read
<1>2. PICK ids \in ListFeaturedModelIDs :
        visit' = [visit EXCEPT !.step = "models", !.ids = ids]
  BY <1>1
<1>3. Shape(visit)
  BY <1>1 DEF VisitShape, NoRequest
<1>4. visit'.kind = "summary" /\ visit'.step = "models" /\ visit'.ids = ids
  BY <1>1, <1>2, <1>3 DEF Shape
<1> DEFINE rows == {m \in listed : Facts[m].featured}
<1>5. PICK before, s : s \in Sortings(rows, before) /\ ids = First(s, FeaturedLimit)
  BY DEF ListFeaturedModelIDs
<1>6. rows \subseteq ModelIds /\ rows \subseteq listed
  BY DEF CatalogueType
<1> HIDE DEF rows
<1>7. Chosen(ids, FeaturedLimit) /\ ToSet(ids) \subseteq listed
  <2>1. Chosen(First(s, FeaturedLimit), FeaturedLimit) /\ ToSet(First(s, FeaturedLimit)) \subseteq rows
    BY <1>5, <1>6, Bounds, ChosenFirst
  <2> QED BY <1>5, <1>6, <2>1
<1> QED BY <1>1, <1>4, <1>7 DEF PickInv, PickOK, PickLimit

(* The answer shows the picked models in their order.                      *)
LEMMA PickAnswered ==
    ASSUME VisitShape, PickInv, NEW kind \in {"model", "summary"}, AnswerInOrder(kind)
    PROVE  PickInv'
<1>1. /\ visit.kind = kind /\ visit.step = "answer"
      /\ visit' = [visit EXCEPT !.step = "answered", !.shown = orderByIDs(visit.ids)]
      /\ UNCHANGED <<listed, price, touched, present>>
  BY DEF AnswerInOrder, At, Read
<1>2. Shape(visit)
  BY <1>1 DEF VisitShape, NoRequest
<1>3. /\ visit'.kind = kind /\ visit'.step = "answered" /\ visit'.ids = visit.ids
      /\ visit'.shown = orderByIDs(visit.ids)
  BY <1>1, <1>2 DEF Shape
<1>4. /\ Chosen(visit.ids, PickLimit(kind)) /\ \A m \in ToSet(visit.ids) \cap Steady : m \in listed
      /\ Loaded(visit.found, ToSet(visit.ids), listed, price, Steady, present)
  BY <1>1 DEF PickInv, PickOK
<1>5. Shows(orderByIDs(visit.ids), visit.ids, PickLimit(kind), Steady, present)
  BY <1>4, PickLimitIsNat, OrderedByIDs
<1>6. Steady' = Steady /\ present' = present
  BY <1>1 DEF Steady
<1> QED BY <1>3, <1>5, <1>6 DEF PickInv, PickOK

(* The picked models are loaded.                                           *)
LEMMA PickLoaded ==
    ASSUME CatalogueType, VisitShape, PickInv, ModelsByIDs
    PROVE  PickInv'
<1> DEFINE ids == IF visit.kind \in {"model", "summary"} THEN ToSet(visit.ids) ELSE IdsOf(visit.ids)
<1>1. /\ Loaded(visit'.found, ids, listed, price, Steady, present)
      /\ visit.step = "models" /\ visit'.step = "answer"
      /\ UNCHANGED <<listed, price, touched, present>>
      /\ visit'.ids = visit.ids /\ visit'.kind = visit.kind
  BY LoadStep
<1> SUFFICES ASSUME visit.kind \in {"model", "summary"}
             PROVE  PickInv'
  BY <1>1 DEF PickInv
<1>2. ids = ToSet(visit.ids)
  OBVIOUS
<1>3. /\ Chosen(visit.ids, PickLimit(visit.kind))
      /\ \A m \in ToSet(visit.ids) \cap Steady : m \in listed
  BY <1>1 DEF PickInv, PickOK
<1>4. Steady' = Steady /\ present' = present
  BY <1>1 DEF Steady
<1> QED BY <1>1, <1>2, <1>3, <1>4 DEF PickInv, PickOK

(* Every step of a request keeps what has been picked.                     *)
LEMMA PickStep ==
    ASSUME CatalogueType, VisitShape, PickInv, Visits
    PROVE  PickInv'
<1>1. ASSUME NEW k, NEW a, Open(k, a)
      PROVE  PickInv'
  <2>1. visit'.step = "first"
    BY <1>1 DEF Open
  <2> QED BY <2>1 DEF PickInv, PickOK
<1>2. CASE visit' = NoRequest
  BY <1>2 DEF NoRequest, PickInv
<1>3. ASSUME Shape(visit), GetModel \/ CatalogCounts
      PROVE  PickInv'
  <2>1. visit'.step \in {"ids", "not_found"}
    BY <1>3 DEF GetModel, CatalogCounts, Read, Shape
  <2> QED BY <2>1 DEF PickInv, PickOK
<1>4. ASSUME visit'.kind = visit.kind, visit.kind \notin {"model", "summary"}
      PROVE  PickInv'
  BY <1>4 DEF PickInv
<1>5. modelDetail \/ summary => PickInv'
  BY PickAnswered DEF modelDetail, summary
<1> QED BY <1>1, <1>2, <1>3, <1>4, <1>5, RelatedStep, FeaturedStep, PickLoaded, WhichVisit
        DEF Keeping

-----------------------------------------------------------------------------
(* The documentation.                                                      *)

(* The headings of a page, up to a line.                                   *)
FencesTo(body, n) == {j \in 1 .. n : body[j] = "fence"}
HeadingsTo(body, n) ==
    {i \in 1 .. n : body[i] = "heading" /\ Cardinality(FencesTo(body, i - 1)) % 2 = 0}

TocState == [inFence : BOOLEAN, lines : Seq(Nat)]

TocStep(body, n, old) ==
    IF body[n] = "fence" THEN [old EXCEPT !.inFence = ~@]
    ELSE IF old.inFence \/ body[n] # "heading" THEN old
    ELSE [old EXCEPT !.lines = Append(@, n)]

(* Adding one turns an even number into an odd one, and back.              *)
LEMMA Parity ==
    /\ 0 % 2 = 0
    /\ \A d \in Nat : d % 2 \in {0, 1} /\ (d + 1) % 2 \in {0, 1} /\ ((d + 1) % 2 = 1 <=> d % 2 = 0)
OBVIOUS

(* The members of a sequence with one more.                                *)
LEMMA ToSetAppend ==
    ASSUME NEW S, NEW s \in Seq(S), NEW x \in S
    PROVE  /\ ToSet(Append(s, x)) = ToSet(s) \cup {x} /\ Append(s, x) \in Seq(S)
           /\ Len(Append(s, x)) = Len(s) + 1 /\ Append(s, x)[Len(s) + 1] = x
           /\ \A i \in 1 .. Len(s) : Append(s, x)[i] = s[i]
<1>1. /\ Append(s, x) \in Seq(S) /\ Len(Append(s, x)) = Len(s) + 1
      /\ Append(s, x)[Len(s) + 1] = x
      /\ \A i \in 1 .. Len(s) : Append(s, x)[i] = s[i]
  BY AppendProperties
<1>2. Len(s) \in Nat /\ DOMAIN s = 1 .. Len(s) /\ DOMAIN Append(s, x) = 1 .. (Len(s) + 1)
  BY <1>1, LenProperties
<1> DEFINE t == Append(s, x)
<1> HIDE DEF t
<1>3. ToSet(t) = ToSet(s) \cup {x}
  <2>1. \A i \in DOMAIN t : t[i] \in ToSet(s) \cup {x}
    BY <1>1, <1>2 DEF t, ToSet
  <2>2. \A i \in DOMAIN s : i \in DOMAIN t /\ t[i] = s[i]
    BY <1>1, <1>2 DEF t
  <2>3. Len(s) + 1 \in DOMAIN t /\ t[Len(s) + 1] = x
    BY <1>1, <1>2 DEF t
  <2> QED BY <2>1, <2>2, <2>3 DEF ToSet
<1> QED BY <1>1, <1>3 DEF t

(* A line that is a fence makes one more fence, any other line none.       *)
LEMMA FencesCounted ==
    ASSUME NEW N \in Nat, NEW body, NEW n \in 1 .. N
    PROVE  LET c == Cardinality(FencesTo(body, n))
               d == Cardinality(FencesTo(body, n - 1))
           IN  /\ d \in Nat /\ c \in Nat
               /\ c = IF body[n] = "fence" THEN d + 1 ELSE d
<1>1. IsFiniteSet(FencesTo(body, n - 1)) /\ IsFiniteSet(FencesTo(body, n))
  <2>1. IsFiniteSet(1 .. n) /\ IsFiniteSet(1 .. (n - 1))
    BY FS_Interval
  <2> QED BY <2>1, FS_Subset DEF FencesTo
<1>2. n \notin FencesTo(body, n - 1)
  BY DEF FencesTo
<1>3. FencesTo(body, n) = IF body[n] = "fence" THEN FencesTo(body, n - 1) \cup {n}
                          ELSE FencesTo(body, n - 1)
  BY DEF FencesTo
<1> QED BY <1>1, <1>2, <1>3, FS_CardinalityType, FS_AddElement

(* extractHeadings is an iteration over the lines.                         *)
LEMMA TocIterates ==
    ASSUME NEW body \in Seq({"fence", "heading", "text"})
    PROVE  \E toc : /\ toc[0] = [inFence |-> FALSE, lines |-> <<>>]
                    /\ \A n \in 1 .. Len(body) : toc[n] = TocStep(body, n, toc[n - 1])
                    /\ extractHeadings(body) = toc[Len(body)].lines
                    /\ \A n \in 0 .. Len(body) : toc[n] \in TocState
<1> DEFINE N == Len(body)
           start == [inFence |-> FALSE, lines |-> <<>>]
           step == [n \in 1 .. N |-> [old \in TocState |-> TocStep(body, n, old)]]
           Is(f) == f = [n \in 0 .. N |->
                            IF n = 0 THEN [inFence |-> FALSE, lines |-> <<>>]
                            ELSE LET old == f[n - 1]
                                 IN  IF body[n] = "fence" THEN [old EXCEPT !.inFence = ~@]
                                     ELSE IF old.inFence \/ body[n] # "heading" THEN old
                                     ELSE [old EXCEPT !.lines = Append(@, n)]]
           toc == CHOOSE f : Is(f)
<1>1. N \in Nat /\ start \in TocState
  BY DEF TocState
<1>2. step \in [1 .. N -> [TocState -> TocState]]
  <2>1. ASSUME NEW n \in 1 .. N, NEW old \in TocState
        PROVE  TocStep(body, n, old) \in TocState
    <3>1. n \in Nat /\ old.lines \in Seq(Nat)
      BY <1>1 DEF TocState
    <3>2. Append(old.lines, n) \in Seq(Nat)
      BY <3>1, AppendProperties
    <3> QED BY <3>2 DEF TocStep, TocState
  <2> QED BY <2>1
<1>3. PICK f \in [0 .. N -> TocState] : Iterates(f, N, start, step)
  <2> HIDE DEF step, N, start
  <2> QED BY <1>1, <1>2, IterationExists
<1>4. Is(f)
  <2>1. f[0] = start /\ \A n \in 1 .. N : f[n] = TocStep(body, n, f[n - 1])
    <3>1. \A n \in 1 .. N : f[n - 1] \in TocState
      BY <1>1, <1>3
    <3> QED BY <1>3, <3>1 DEF Iterates
  <2>2. \A n \in 0 .. N : f[n] = IF n = 0 THEN start ELSE TocStep(body, n, f[n - 1])
    BY <1>1, <2>1
  <2> HIDE DEF N
  <2> QED BY <2>2 DEF TocStep
<1>5. Is(toc)
  <2> HIDE DEF Is
  <2> QED BY <1>4
<1>6. toc[0] = start /\ \A n \in 1 .. N : toc[n] = TocStep(body, n, toc[n - 1])
  <2> HIDE DEF toc
  <2>1. \A n \in 0 .. N : toc[n] = IF n = 0 THEN start ELSE TocStep(body, n, toc[n - 1])
    <3> HIDE DEF N
    <3> QED BY <1>5 DEF TocStep
  <2> QED BY <1>1, <2>1
<1>7. extractHeadings(body) = toc[N].lines
  BY DEF extractHeadings
<1> HIDE DEF toc, Is, N
<1>8. \A n \in 0 .. N : toc[n] \in TocState
  <2> DEFINE good == {n \in 0 .. N : toc[n] \in TocState}
  <2>1. 0 \in good
    BY <1>1, <1>6
  <2>2. \A n \in 1 .. N : n - 1 \in good => n \in good
    <3> SUFFICES ASSUME NEW n \in 1 .. N, toc[n - 1] \in TocState
                 PROVE  toc[n] \in TocState
      BY <1>1
    <3>1. step[n][toc[n - 1]] = TocStep(body, n, toc[n - 1])
      OBVIOUS
    <3> HIDE DEF step
    <3> QED BY <1>2, <1>6, <3>1
  <2> HIDE DEF good
  <2>3. \A n \in 0 .. N : n \in good
    BY <1>1, <2>1, <2>2, Climb
  <2> QED BY <2>3 DEF good
<1> QED BY <1>6, <1>7, <1>8 DEF N

(* It finds the headings below an even number of fences, and no others.    *)
LEMMA HeadingsAre ==
    ASSUME NEW body \in Seq({"fence", "heading", "text"})
    PROVE  ToSet(extractHeadings(body)) = HeadingsTo(body, Len(body))
<1> DEFINE N == Len(body)
<1>1. PICK toc : /\ toc[0] = [inFence |-> FALSE, lines |-> <<>>]
                 /\ \A n \in 1 .. N : toc[n] = TocStep(body, n, toc[n - 1])
                 /\ extractHeadings(body) = toc[N].lines
                 /\ \A n \in 0 .. N : toc[n] \in TocState
  BY TocIterates
<1>2. N \in Nat
  OBVIOUS
<1> HIDE DEF N
<1> DEFINE Fits(n) == /\ ToSet(toc[n].lines) = HeadingsTo(body, n)
                      /\ toc[n].inFence <=> Cardinality(FencesTo(body, n)) % 2 = 1
           good == {n \in 0 .. N : Fits(n)}
<1>3. 0 \in good
  <2>1. FencesTo(body, 0) = {} /\ HeadingsTo(body, 0) = {}
    BY DEF FencesTo, HeadingsTo
  <2>2. Cardinality(FencesTo(body, 0)) % 2 = 0
    <3>1. Cardinality(FencesTo(body, 0)) = 0
      BY <2>1, FS_EmptySet
    <3> QED BY <3>1, Parity
  <2>3. ToSet(<<>>) = {}
    BY DEF ToSet
  <2>4. toc[0].lines = <<>> /\ ~toc[0].inFence
    BY <1>1
  <2>5. Fits(0)
    <3>1. 0 # 1
      OBVIOUS
    <3>2. Cardinality(FencesTo(body, 0)) % 2 # 1
      BY <2>2, <3>1
    <3> QED BY <2>1, <2>3, <2>4, <3>2, Zenon
  <2> HIDE DEF Fits
  <2> QED BY <1>2, <2>5
<1>4. ASSUME NEW n \in 1 .. N, Fits(n - 1)
      PROVE  Fits(n)
  <2> DEFINE old == toc[n - 1]
             c == Cardinality(FencesTo(body, n))
             d == Cardinality(FencesTo(body, n - 1))
  <2>1. old \in TocState /\ toc[n] = TocStep(body, n, old) /\ n \in Nat
    BY <1>1, <1>2
  <2>2. d \in Nat /\ c \in Nat /\ c = IF body[n] = "fence" THEN d + 1 ELSE d
    BY <1>2, FencesCounted
  <2>3. old.inFence <=> d % 2 = 1
    BY <1>4
  <2>4. HeadingsTo(body, n) = IF body[n] = "heading" /\ d % 2 = 0 THEN HeadingsTo(body, n - 1) \cup {n}
                              ELSE HeadingsTo(body, n - 1)
    BY <1>2 DEF HeadingsTo
  <2>5. ToSet(old.lines) = HeadingsTo(body, n - 1)
    BY <1>4
  <2>6. ToSet(Append(old.lines, n)) = ToSet(old.lines) \cup {n}
    <3>1. old.lines \in Seq(Nat)
      BY <2>1 DEF TocState
    <3> QED BY <2>1, <3>1, ToSetAppend
  <2>7. /\ toc[n].inFence <=> (IF body[n] = "fence" THEN ~old.inFence ELSE old.inFence)
        /\ toc[n].lines = IF body[n] # "fence" /\ ~old.inFence /\ body[n] = "heading"
                          THEN Append(old.lines, n) ELSE old.lines
    BY <2>1 DEF TocStep, TocState
  <2> HIDE DEF old, c, d
  <2>8. toc[n].inFence <=> c % 2 = 1
    BY <2>2, <2>3, <2>7, Parity
  <2>9. ToSet(toc[n].lines) = HeadingsTo(body, n)
    <3>1. old.inFence <=> ~(d % 2 = 0)
      BY <2>2, <2>3, Parity
    <3>2. CASE body[n] = "heading" /\ d % 2 = 0
      BY <2>4, <2>5, <2>6, <2>7, <3>1, <3>2
    <3>3. CASE ~(body[n] = "heading" /\ d % 2 = 0)
      <4>1. toc[n].lines = old.lines
        BY <2>7, <3>1, <3>3
      <4> QED BY <2>4, <2>5, <3>3, <4>1
    <3> QED BY <3>2, <3>3
  <2> QED BY <2>8, <2>9 DEF c
<1> HIDE DEF Fits
<1>5. \A n \in 1 .. N : n - 1 \in good => n \in good
  BY <1>2, <1>4
<1>6. Fits(N)
  <2> HIDE DEF good
  <2>1. \A n \in 0 .. N : n \in good
    BY <1>2, <1>3, <1>5, Climb
  <2> QED BY <1>2, <2>1 DEF good
<1> QED BY <1>1, <1>6 DEF Fits, N

(* A documentation page that is shown has its headings.                    *)
PageInv ==
    visit.kind = "page" /\ visit.step = "answered" =>
        ToSet(visit.shown) = HeadingsTo(visit.arg, Len(visit.arg))

(* Every step of a request keeps the table of contents.                    *)
LEMMA PageStep ==
    ASSUME VisitShape, PageInv, Visits
    PROVE  PageInv'
<1>1. ASSUME NEW k, NEW a, Open(k, a)
      PROVE  PageInv'
  <2>1. visit'.step = "first"
    BY <1>1 DEF Open
  <2> QED BY <2>1 DEF PageInv
<1>2. CASE docsPage
  <2>1. /\ visit.kind = "page"
        /\ visit' = [visit EXCEPT !.step = "answered", !.shown = extractHeadings(visit.arg)]
    BY <1>2 DEF docsPage, At, Read
  <2>2. Shape(visit) /\ visit.arg \in Bodies
    BY <2>1 DEF VisitShape, NoRequest
  <2>3. visit'.shown = extractHeadings(visit.arg) /\ visit'.arg = visit.arg
    BY <2>1, <2>2 DEF Shape
  <2>4. visit.arg \in Seq({"fence", "heading", "text"})
    BY <2>2, RequestsAssumption
  <2> QED BY <2>3, <2>4, HeadingsAre DEF PageInv
<1>3. CASE visit' = NoRequest
  BY <1>3 DEF NoRequest, PageInv
<1>4. ASSUME visit'.kind = visit.kind, visit.kind # "page"
      PROVE  PageInv'
  BY <1>4 DEF PageInv
<1> QED BY <1>1, <1>2, <1>3, <1>4, WhichVisit DEF Keeping

(* The navigation: items of one title next to each other.                  *)
NavGroup(S) == [title : {item.group : item \in S}, items : Seq(S)]

Joined(old, x) == [old EXCEPT ![Len(old)].items = Append(@, x)]
Begun(old, x) == Append(old, [title |-> x.group, items |-> <<x>>])

NavStep(items, n, old) ==
    IF old # <<>> /\ old[Len(old)].title = items[n].group THEN Joined(old, items[n])
    ELSE Begun(old, items[n])

(* An item joins the last group.                                           *)
LEMMA NavJoins ==
    ASSUME NEW S, NEW old \in Seq(NavGroup(S)), old # <<>>, NEW x \in S
    PROVE  /\ Joined(old, x) \in Seq(NavGroup(S))
           /\ Len(Joined(old, x)) = Len(old) /\ Len(old) \in Nat \ {0}
           /\ \A i \in 1 .. Len(old) :
                /\ Joined(old, x)[i].title = old[i].title
                /\ i # Len(old) => Joined(old, x)[i].items = old[i].items
           /\ x \in ToSet(Joined(old, x)[Len(old)].items)
           /\ \A y \in ToSet(old[Len(old)].items) : y \in ToSet(Joined(old, x)[Len(old)].items)
<1> DEFINE l == Len(old)
           group == [old[l] EXCEPT !.items = Append(@, x)]
           new == [old EXCEPT ![l] = group]
<1>1. l \in Nat \ {0} /\ DOMAIN old = 1 .. l /\ l \in 1 .. l
  BY EmptySeq, LenProperties
<1>2. \A i \in 1 .. l : old[i] \in NavGroup(S)
  BY <1>1, ElementOfSeq
<1>3. old[l].items \in Seq(S) /\ old[l].title \in {item.group : item \in S}
  BY <1>1, <1>2 DEF NavGroup
<1>4. Append(old[l].items, x) \in Seq(S) /\ ToSet(Append(old[l].items, x)) = ToSet(old[l].items) \cup {x}
  BY <1>3, ToSetAppend
<1>5. /\ group \in NavGroup(S) /\ group.title = old[l].title
      /\ group.items = Append(old[l].items, x)
  BY <1>1, <1>2, <1>4 DEF NavGroup
<1>6. Joined(old, x) = new
  BY DEF Joined
<1> HIDE DEF group, l
<1>7. new \in Seq(NavGroup(S)) /\ Len(new) = l
      /\ \A i \in 1 .. l : new[i] = IF i = l THEN group ELSE old[i]
  <2>1. new \in [1 .. l -> NavGroup(S)]
    BY <1>1, <1>2, <1>5
  <2> QED BY <1>1, <2>1, ListOf
<1>8. l = Len(old)
  BY DEF l
<1> HIDE DEF new
<1> QED BY <1>1, <1>4, <1>5, <1>6, <1>7, <1>8

(* Or it begins a group.                                                   *)
LEMMA NavBegins ==
    ASSUME NEW S, NEW old \in Seq(NavGroup(S)), NEW x \in S
    PROVE  /\ Begun(old, x) \in Seq(NavGroup(S))
           /\ Len(Begun(old, x)) = Len(old) + 1 /\ Len(old) \in Nat
           /\ \A i \in 1 .. Len(old) : Begun(old, x)[i] = old[i]
           /\ Begun(old, x)[Len(old) + 1].title = x.group
           /\ x \in ToSet(Begun(old, x)[Len(old) + 1].items)
<1> DEFINE group == [title |-> x.group, items |-> <<x>>]
<1>1. group \in NavGroup(S) /\ group.title = x.group
  BY DEF NavGroup
<1>2. x \in ToSet(group.items)
  BY DEF ToSet
<1> HIDE DEF group
<1> DEFINE new == Append(old, group)
<1>3. /\ new \in Seq(NavGroup(S)) /\ Len(new) = Len(old) + 1 /\ Len(old) \in Nat
      /\ \A i \in 1 .. Len(old) : new[i] = old[i]
      /\ new[Len(old) + 1] = group
  BY <1>1, ToSetAppend, LenProperties
<1>4. Begun(old, x) = new
  BY DEF Begun, group
<1> HIDE DEF new
<1> QED BY <1>1, <1>2, <1>3, <1>4

(* One more item leaves groups.                                            *)
LEMMA NavType ==
    ASSUME NEW S, NEW old \in Seq(NavGroup(S)), NEW items, NEW n, items[n] \in S
    PROVE  NavStep(items, n, old) \in Seq(NavGroup(S))
BY NavJoins, NavBegins DEF NavStep

NavRun(nav, items, N, S) ==
    /\ nav[0] = <<>>
    /\ \A n \in 1 .. N : nav[n] = NavStep(items, n, nav[n - 1])
    /\ DocsNavigation(items) = nav[N]
    /\ \A n \in 0 .. N : nav[n] \in Seq(NavGroup(S))

(* DocsNavigation is an iteration over the items.                          *)
LEMMA NavIterates ==
    ASSUME NEW S, NEW N \in Nat, NEW items \in [1 .. N -> S]
    PROVE  \E nav : NavRun(nav, items, N, S)
<1> DEFINE T == Seq(NavGroup(S))
           step == [n \in 1 .. N |-> [old \in T |-> NavStep(items, n, old)]]
           Is(f) == f = [n \in 0 .. N |->
                IF n = 0 THEN <<>>
                ELSE LET old == f[n - 1]
                     IN  IF old # <<>> /\ old[Len(old)].title = items[n].group
                         THEN [old EXCEPT ![Len(old)].items = Append(@, items[n])]
                         ELSE Append(old, [title |-> items[n].group, items |-> <<items[n]>>])]
           nav == CHOOSE f : Is(f)
<1>1. <<>> \in T /\ Len(items) = N
  BY EmptySeq, ListOf
<1>2. step \in [1 .. N -> [T -> T]]
  <2> HIDE DEF T
  <2>1. ASSUME NEW n \in 1 .. N, NEW old \in T
        PROVE  NavStep(items, n, old) \in T
    BY NavType DEF T
  <2> QED BY <2>1
<1>3. PICK f \in [0 .. N -> T] : Iterates(f, N, <<>>, step)
  <2> HIDE DEF step, T
  <2> QED BY <1>1, <1>2, IterationExists
<1> HIDE DEF T
<1>4. Is(f)
  <2>1. f[0] = <<>> /\ \A n \in 1 .. N : f[n] = NavStep(items, n, f[n - 1])
    <3>1. \A n \in 1 .. N : f[n - 1] \in T
      BY <1>3
    <3> QED BY <1>3, <3>1 DEF Iterates
  <2>2. \A n \in 0 .. N : f[n] = IF n = 0 THEN <<>> ELSE NavStep(items, n, f[n - 1])
    BY <2>1
  <2> QED BY <2>2 DEF NavStep, Joined, Begun
<1>5. Is(nav)
  <2> HIDE DEF Is
  <2> QED BY <1>4
<1>6. nav[0] = <<>> /\ \A n \in 1 .. N : nav[n] = NavStep(items, n, nav[n - 1])
  <2> HIDE DEF nav
  <2>1. \A n \in 0 .. N : nav[n] = IF n = 0 THEN <<>> ELSE NavStep(items, n, nav[n - 1])
    BY <1>5 DEF NavStep, Joined, Begun
  <2> QED BY <2>1
<1>7. DocsNavigation(items) = nav[N]
  BY <1>1 DEF DocsNavigation
<1> HIDE DEF nav, Is
<1>8. \A n \in 0 .. N : nav[n] \in T
  <2> DEFINE good == {n \in 0 .. N : nav[n] \in T}
  <2>1. 0 \in good
    BY <1>1, <1>6
  <2>2. \A n \in 1 .. N : n - 1 \in good => n \in good
    <3> SUFFICES ASSUME NEW n \in 1 .. N, nav[n - 1] \in T
                 PROVE  nav[n] \in T
      OBVIOUS
    <3>1. step[n][nav[n - 1]] = NavStep(items, n, nav[n - 1])
      OBVIOUS
    <3> HIDE DEF step
    <3> QED BY <1>2, <1>6, <3>1
  <2> HIDE DEF good
  <2>3. \A n \in 0 .. N : n \in good
    BY <2>1, <2>2, Climb
  <2> QED BY <2>3 DEF good
<1> QED BY <1>6, <1>7, <1>8 DEF T, NavRun

(* After n items: their titles, once each, and each item under its own.    *)
NavFits(g, items, n) ==
    /\ \A i, j \in 1 .. Len(g) : g[i].title = g[j].title => i = j
    /\ \A k \in 1 .. n : \E i \in 1 .. Len(g) :
            g[i].title = items[k].group /\ items[k] \in ToSet(g[i].items)
    /\ \A i \in 1 .. Len(g) : \E k \in 1 .. n : items[k].group = g[i].title
    /\ n > 0 => g # <<>> /\ g[Len(g)].title = items[n].group

Contiguous(items, N) ==
    \A i, j, k \in 1 .. N : i <= j /\ j <= k /\ items[i].group = items[k].group =>
        items[j].group = items[k].group

(* One more item falls into the last group or begins a group of its own.   *)
LEMMA NavGoesOn ==
    ASSUME NEW S, NEW N \in Nat, NEW items \in [1 .. N -> S], Contiguous(items, N),
           NEW n \in 1 .. N, NEW old \in Seq(NavGroup(S)), NavFits(old, items, n - 1)
    PROVE  NavFits(NavStep(items, n, old), items, n)
<1> DEFINE l == Len(old)
           x == items[n]
           new == NavStep(items, n, old)
<1>1. l \in Nat /\ x \in S /\ n - 1 \in Nat
  BY LenProperties
<1>4. \A k \in 1 .. n : k # n => \E i \in 1 .. l :
        old[i].title = items[k].group /\ items[k] \in ToSet(old[i].items)
  <2> HIDE DEF x, new
  <2>1. \A k \in 1 .. (n - 1) : \E i \in 1 .. Len(old) :
            old[i].title = items[k].group /\ items[k] \in ToSet(old[i].items)
    BY Zenon DEF NavFits
  <2>2. \A k \in 1 .. n : k # n => k \in 1 .. (n - 1)
    OBVIOUS
  <2> QED BY <2>1, <2>2
<1>2. CASE old # <<>> /\ old[l].title = x.group
  <2>1. /\ Len(new) = l /\ l \in Nat \ {0}
        /\ \A i \in 1 .. l : new[i].title = old[i].title /\ (i # l => new[i].items = old[i].items)
        /\ x \in ToSet(new[l].items)
        /\ \A y \in ToSet(old[l].items) : y \in ToSet(new[l].items)
    <3>1. new = Joined(old, x)
      BY <1>2 DEF NavStep
    <3>2. old # <<>> /\ x \in S
      BY <1>1, <1>2
    <3> HIDE DEF x, new
    <3>3. /\ Len(Joined(old, x)) = l /\ l \in Nat \ {0}
          /\ \A i \in 1 .. l :
                /\ Joined(old, x)[i].title = old[i].title
                /\ i # l => Joined(old, x)[i].items = old[i].items
          /\ x \in ToSet(Joined(old, x)[l].items)
          /\ \A y \in ToSet(old[l].items) : y \in ToSet(Joined(old, x)[l].items)
      <4>1. Len(Joined(old, x)) = l /\ l \in Nat \ {0}
        BY <3>2, NavJoins
      <4>2. \A i \in 1 .. l : Joined(old, x)[i].title = old[i].title
        BY <3>2, NavJoins
      <4>3. \A i \in 1 .. l : i # l => Joined(old, x)[i].items = old[i].items
        BY <3>2, NavJoins
      <4>4. /\ x \in ToSet(Joined(old, x)[l].items)
            /\ \A y \in ToSet(old[l].items) : y \in ToSet(Joined(old, x)[l].items)
        BY <3>2, NavJoins
      <4> QED BY <4>1, <4>2, <4>3, <4>4
    <3> QED BY <3>1, <3>3
  <2> HIDE DEF new, l, x
  <2>2. \A i \in 1 .. l : ToSet(old[i].items) \subseteq ToSet(new[i].items)
    BY <2>1
  <2>3. \A k \in 1 .. n : \E i \in 1 .. Len(new) :
            new[i].title = items[k].group /\ items[k] \in ToSet(new[i].items)
    <3> SUFFICES ASSUME NEW k \in 1 .. n
                 PROVE  \E i \in 1 .. l :
                            new[i].title = items[k].group /\ items[k] \in ToSet(new[i].items)
      BY <2>1
    <3>1. CASE k = n
      BY <1>2, <2>1, <3>1 DEF x
    <3>2. CASE k # n
      <4>1. PICK i \in 1 .. l : old[i].title = items[k].group /\ items[k] \in ToSet(old[i].items)
        BY <1>4, <3>2
      <4> QED BY <2>1, <2>2, <4>1
    <3> QED BY <3>1, <3>2
  <2>4. new # <<>> /\ new[Len(new)].title = items[n].group
    BY <1>2, <2>1, EmptySeq DEF x
  <2>5. \A i \in 1 .. Len(new) : \E k \in 1 .. n : items[k].group = new[i].title
    <3>1. \A i \in 1 .. l : \E k \in 1 .. (n - 1) : items[k].group = old[i].title
      BY DEF NavFits, l
    <3> SUFFICES ASSUME NEW i \in 1 .. l
                 PROVE  \E k \in 1 .. n : items[k].group = new[i].title
      BY <2>1
    <3>2. PICK k \in 1 .. (n - 1) : items[k].group = old[i].title
      BY <3>1
    <3>3. new[i].title = old[i].title
      BY <2>1
    <3>4. k \in 1 .. n
      OBVIOUS
    <3> QED BY <3>2, <3>3, <3>4
  <2>6. \A i, j \in 1 .. Len(new) : new[i].title = new[j].title => i = j
    <3>1. \A i, j \in 1 .. l : old[i].title = old[j].title => i = j
      BY DEF NavFits, l
    <3>2. Len(new) = l /\ \A i \in 1 .. l : new[i].title = old[i].title
      BY <2>1
    <3> QED BY <3>1, <3>2
  <2> QED BY <2>3, <2>4, <2>5, <2>6 DEF NavFits, new
<1>3. CASE ~(old # <<>> /\ old[l].title = x.group)
  <2>1. /\ Len(new) = l + 1 /\ \A i \in 1 .. l : new[i] = old[i]
        /\ new[l + 1].title = x.group /\ x \in ToSet(new[l + 1].items)
    <3>1. new = Begun(old, x)
      BY <1>3 DEF NavStep
    <3> HIDE DEF x, new
    <3>2. /\ Len(Begun(old, x)) = l + 1
          /\ \A i \in 1 .. l : Begun(old, x)[i] = old[i]
          /\ Begun(old, x)[l + 1].title = x.group /\ x \in ToSet(Begun(old, x)[l + 1].items)
      BY <1>1, NavBegins
    <3> QED BY <3>1, <3>2
  <2>2. \A i \in 1 .. l : old[i].title # x.group
    <3> SUFFICES ASSUME NEW i \in 1 .. l, old[i].title = x.group PROVE FALSE
      OBVIOUS
    <3>1. PICK k \in 1 .. (n - 1) : items[k].group = old[i].title
      BY DEF NavFits
    <3>2. old # <<>> /\ old[l].title = items[n - 1].group
      BY <3>1 DEF NavFits
    <3>3. items[n - 1].group = x.group
      BY <3>1 DEF Contiguous
    <3> QED BY <1>3, <3>2, <3>3
  <2> HIDE DEF new, l, x
  <2>3. \A k \in 1 .. n : \E i \in 1 .. Len(new) :
            new[i].title = items[k].group /\ items[k] \in ToSet(new[i].items)
    <3> SUFFICES ASSUME NEW k \in 1 .. n
                 PROVE  \E i \in 1 .. (l + 1) :
                            new[i].title = items[k].group /\ items[k] \in ToSet(new[i].items)
      BY <2>1
    <3>1. CASE k = n
      BY <1>1, <2>1, <3>1 DEF x
    <3>2. CASE k # n
      <4>1. PICK i \in 1 .. l : old[i].title = items[k].group /\ items[k] \in ToSet(old[i].items)
        BY <1>4, <3>2
      <4> QED BY <1>1, <2>1, <4>1
    <3> QED BY <3>1, <3>2
  <2>4. new # <<>> /\ new[Len(new)].title = items[n].group
    <3>1. Len(new) # 0
      BY <1>1, <2>1
    <3> QED BY <2>1, <3>1 DEF x
  <2>5. \A i \in 1 .. Len(new) : \E k \in 1 .. n : items[k].group = new[i].title
    <3> SUFFICES ASSUME NEW i \in 1 .. (l + 1)
                 PROVE  \E k \in 1 .. n : items[k].group = new[i].title
      BY <2>1
    <3>1. CASE i = l + 1
      BY <2>1, <3>1 DEF x
    <3>2. CASE i # l + 1
      <4>1. i \in 1 .. l
        BY <1>1, <3>2
      <4>2. PICK k \in 1 .. (n - 1) : items[k].group = old[i].title
        BY <4>1 DEF NavFits, l
      <4> QED BY <2>1, <4>1, <4>2
    <3> QED BY <3>1, <3>2
  <2>6. \A i, j \in 1 .. Len(new) : new[i].title = new[j].title => i = j
    <3>1. \A i, j \in 1 .. l : old[i].title = old[j].title => i = j
      BY DEF NavFits, l
    <3> SUFFICES ASSUME NEW i \in 1 .. (l + 1), NEW j \in 1 .. (l + 1), i < j,
                        new[i].title = new[j].title
                 PROVE  FALSE
      BY <1>1, <2>1
    <3>2. i \in 1 .. l /\ (j \in 1 .. l \/ j = l + 1)
      BY <1>1
    <3>3. new[i].title = old[i].title
      BY <2>1, <3>2
    <3>4. CASE j = l + 1
      BY <2>1, <2>2, <3>2, <3>3, <3>4
    <3>5. CASE j \in 1 .. l
      <4>1. new[j].title = old[j].title
        BY <2>1, <3>5
      <4>2. i = j
        BY <3>1, <3>2, <3>3, <3>5, <4>1
      <4> QED BY <1>1, <4>2
    <3> QED BY <3>2, <3>4, <3>5
  <2> QED BY <2>3, <2>4, <2>5, <2>6 DEF NavFits, new
<1> QED BY <1>2, <1>3

Grouped(shown, arg) ==
    /\ \A i, j \in DOMAIN shown : shown[i].title = shown[j].title => i = j
    /\ \A item \in arg : \E i \in DOMAIN shown :
        shown[i].title = item.group /\ item \in ToSet(shown[i].items)

(* The groups of a navigation have places of their own.                    *)
Placed(arg) == \A a, b \in arg : a.group = b.group <=> a.groupPosition = b.groupPosition

(* Items whose groups do not mix are grouped under titles that differ.     *)
LEMMA NavigationIs ==
    ASSUME NEW arg \in Navigations, Placed(arg), NEW items \in ListDocsNavigation(arg)
    PROVE  Grouped(DocsNavigation(items), arg)
<1> DEFINE N == Cardinality(arg)
<1>1. IsFiniteSet(arg) /\ N \in Nat /\ \A item \in arg : item.groupPosition \in Nat
  BY RequestsAssumption, FS_CardinalityType
<1>2. /\ items \in [1 .. N -> arg] /\ \A item \in arg : \E i \in 1 .. N : items[i] = item
      /\ \A i, j \in 1 .. N : i < j => ~(items[j].groupPosition < items[i].groupPosition)
  BY DEF ListDocsNavigation, Sortings, Bijection, Injection, Surjection
<1> HIDE DEF N
<1>3. Contiguous(items, N)
  <2> SUFFICES ASSUME NEW i \in 1 .. N, NEW j \in 1 .. N, NEW k \in 1 .. N, i <= j, j <= k,
                      items[i].group = items[k].group
               PROVE  items[j].group = items[k].group
    BY DEF Contiguous
  <2> DEFINE P(n) == items[n].groupPosition
  <2>1. items[i] \in arg /\ items[j] \in arg /\ items[k] \in arg
    BY <1>2
  <2>2. P(i) \in Nat /\ P(j) \in Nat /\ P(k) \in Nat /\ P(i) = P(k)
    BY <1>1, <2>1 DEF Placed
  <2>3. \A a, b \in 1 .. N : a < b => ~(P(b) < P(a))
    BY <1>2
  <2>4. (i < j => ~(P(j) < P(i))) /\ (j < k => ~(P(k) < P(j)))
    BY <2>3
  <2> HIDE DEF P
  <2>5. P(j) = P(k)
    BY <1>1, <2>2, <2>4
  <2> QED BY <2>1, <2>5 DEF P, Placed
<1>0. PICK nav : NavRun(nav, items, N, arg)
  BY <1>1, <1>2, NavIterates
<1>4. /\ nav[0] = <<>>
      /\ \A n \in 1 .. N : nav[n] = NavStep(items, n, nav[n - 1])
      /\ DocsNavigation(items) = nav[N]
      /\ \A n \in 0 .. N : nav[n] \in Seq(NavGroup(arg))
  BY <1>0 DEF NavRun
<1> DEFINE good == {n \in 0 .. N : NavFits(nav[n], items, n)}
<1>5. NavFits(nav[N], items, N)
  <2>1. 0 \in good
    <3>1. Len(nav[0]) = 0
      BY <1>4
    <3>2. 1 .. Len(nav[0]) = {} /\ 1 .. 0 = {}
      BY <3>1
    <3>3. NavFits(nav[0], items, 0)
      BY <3>2 DEF NavFits
    <3> QED BY <1>1, <3>3
  <2>2. \A n \in 1 .. N : n - 1 \in good => n \in good
    <3> SUFFICES ASSUME NEW n \in 1 .. N, NavFits(nav[n - 1], items, n - 1)
                 PROVE  NavFits(nav[n], items, n)
      BY <1>1
    <3>1. nav[n - 1] \in Seq(NavGroup(arg)) /\ nav[n] = NavStep(items, n, nav[n - 1])
      BY <1>1, <1>4
    <3> DEFINE old == nav[n - 1]
    <3> HIDE DEF old
    <3>2. NavFits(NavStep(items, n, old), items, n)
      BY <1>1, <1>2, <1>3, <3>1, NavGoesOn DEF old
    <3> QED BY <3>1, <3>2 DEF old
  <2> HIDE DEF good
  <2>3. \A n \in 0 .. N : n \in good
    BY <1>1, <2>1, <2>2, Climb
  <2> QED BY <1>1, <2>3 DEF good
<1> DEFINE g == nav[N]
<1>6. g \in Seq(NavGroup(arg)) /\ DOMAIN g = 1 .. Len(g)
  BY <1>1, <1>4, LenProperties
<1>7. NavFits(g, items, N)
  BY <1>5
<1>8. DocsNavigation(items) = g
  BY <1>4
<1> HIDE DEF g
<1>9. \A item \in arg : \E i \in DOMAIN g : g[i].title = item.group /\ item \in ToSet(g[i].items)
  BY <1>2, <1>6, <1>7 DEF NavFits
<1> QED BY <1>6, <1>7, <1>8, <1>9 DEF NavFits, Grouped

NavInv ==
    visit.kind = "navigation" /\ visit.step = "answered" /\ Placed(visit.arg) =>
        Grouped(visit.shown, visit.arg)

(* Every step of a request keeps the navigation.                           *)
LEMMA NavigationStep ==
    ASSUME VisitShape, NavInv, Visits
    PROVE  NavInv'
<1>1. ASSUME NEW k, NEW a, Open(k, a)
      PROVE  NavInv'
  <2>1. visit'.step = "first"
    BY <1>1 DEF Open
  <2> QED BY <2>1 DEF NavInv
<1>2. CASE docsNavigation
  <2>1. visit.kind = "navigation"
    BY <1>2 DEF docsNavigation, At
  <2>2. PICK items \in ListDocsNavigation(visit.arg) :
            visit' = [visit EXCEPT !.step = "answered", !.shown = DocsNavigation(items)]
    BY <1>2 DEF docsNavigation, Read
  <2>3. Shape(visit) /\ visit.arg \in Navigations
    BY <2>1 DEF VisitShape, NoRequest
  <2>4. visit'.shown = DocsNavigation(items) /\ visit'.arg = visit.arg
    BY <2>2, <2>3 DEF Shape
  <2>5. Placed(visit.arg) => Grouped(DocsNavigation(items), visit.arg)
    BY <2>3, NavigationIs
  <2> QED BY <2>4, <2>5 DEF NavInv
<1>3. CASE visit' = NoRequest
  BY <1>3 DEF NoRequest, NavInv
<1>4. ASSUME visit'.kind = visit.kind, visit.kind # "navigation"
      PROVE  NavInv'
  BY <1>4 DEF NavInv
<1> QED BY <1>1, <1>2, <1>3, <1>4, WhichVisit DEF Keeping

-----------------------------------------------------------------------------
(* The benchmarks.                                                         *)

(* A common positive factor can be cancelled.                              *)
LEMMA CancelFactor ==
    ASSUME NEW d \in Nat \ {0}, NEW x \in Int, NEW y \in Int, d * x < d * y
    PROVE  x < y
OBVIOUS

(* A comparison that can have a winner.                                    *)
Comparison(set, better) ==
    /\ \A x \in set : <<x, x>> \notin better
    /\ \A x, y, z \in set : <<x, y>> \in better /\ <<y, z>> \in better => <<x, z>> \in better

(* The three comparisons are irreflexive and transitive.                   *)
LEMMA Comparisons ==
    /\ Comparison(Results, HigherScore)
    /\ Comparison(Results, Faster)
    /\ Comparison({r \in Results : r.cost > 0}, BetterValue)
<1>0. \A r \in Results : r.score \in Nat /\ r.cost \in Nat /\ r.duration \in Nat
  BY ResultsAssumption
<1>1. Comparison(Results, HigherScore)
  BY <1>0 DEF Comparison, HigherScore
<1>2. Comparison(Results, Faster)
  BY <1>0 DEF Comparison, Faster
<1>3. Comparison({r \in Results : r.cost > 0}, BetterValue)
  <2> DEFINE set == {r \in Results : r.cost > 0}
  <2>1. ASSUME NEW x \in set
        PROVE  <<x, x>> \notin BetterValue
    <3>1. x.score * x.cost \in Nat
      BY <1>0
    <3> QED BY <3>1 DEF BetterValue
  <2>2. ASSUME NEW x \in set, NEW y \in set, NEW z \in set,
               <<x, y>> \in BetterValue, <<y, z>> \in BetterValue
        PROVE  <<x, z>> \in BetterValue
    <3>1. /\ x.score \in Nat /\ y.score \in Nat /\ z.score \in Nat
          /\ x.cost \in Nat \ {0} /\ y.cost \in Nat \ {0} /\ z.cost \in Nat \ {0}
      BY <1>0
    <3>2. x.score * y.cost > y.score * x.cost /\ y.score * z.cost > z.score * y.cost
      BY <2>2 DEF BetterValue
    <3> DEFINE a == x.score
               b == y.score
               c == z.score
               ac == x.cost
               bc == y.cost
               cc == z.cost
    <3>3. /\ a \in Nat /\ b \in Nat /\ c \in Nat
          /\ ac \in Nat \ {0} /\ bc \in Nat \ {0} /\ cc \in Nat \ {0}
          /\ a * bc > b * ac /\ b * cc > c * bc
      BY <3>1, <3>2
    <3> HIDE DEF a, b, c, ac, bc, cc
    <3>4. cc * (b * ac) < cc * (a * bc)
      <4> DEFINE u == b * ac
                 v == a * bc
      <4>1. u \in Nat /\ v \in Nat /\ u < v
        BY <3>3
      <4> HIDE DEF u, v
      <4>2. cc * u < cc * v
        BY <3>3, <4>1
      <4> QED BY <4>2 DEF u, v
    <3>5. ac * (c * bc) < ac * (b * cc)
      <4> DEFINE u == c * bc
                 v == b * cc
      <4>1. u \in Nat /\ v \in Nat /\ u < v
        BY <3>3
      <4> HIDE DEF u, v
      <4>2. ac * u < ac * v
        BY <3>3, <4>1
      <4> QED BY <4>2 DEF u, v
    <3>6. cc * (b * ac) = ac * (b * cc)
      BY <3>3
    <3>7. ac * (c * bc) = bc * (c * ac) /\ cc * (a * bc) = bc * (a * cc)
      BY <3>3
    <3>8. c * ac \in Nat /\ a * cc \in Nat
      BY <3>3
    <3>9. bc * (c * ac) < bc * (a * cc)
      <4> DEFINE u == bc * (c * ac)
                 v == ac * (b * cc)
                 w == bc * (a * cc)
      <4>1. u \in Nat /\ v \in Nat /\ w \in Nat
        BY <3>3
      <4>2. u < v /\ v < w
        BY <3>4, <3>5, <3>6, <3>7
      <4> HIDE DEF u, v, w
      <4>3. u < w
        BY <4>1, <4>2
      <4> QED BY <4>3 DEF u, w
    <3>10. c * ac < a * cc
      <4> DEFINE u == c * ac
                 v == a * cc
      <4>1. u \in Int /\ v \in Int /\ bc * u < bc * v
        BY <3>8, <3>9
      <4> HIDE DEF u, v
      <4>2. u < v
        BY <3>3, <4>1, CancelFactor
      <4> QED BY <4>2 DEF u, v
    <3> QED BY <3>8, <3>10 DEF BetterValue, a, c, ac, cc
  <2> QED BY <2>1, <2>2 DEF Comparison
<1> QED BY <1>1, <1>2, <1>3

(* The leader of a number of rows: none of the candidates among them beats *)
(* it, and there is none only when there is no candidate.                  *)
Leads(leader, rows, n, candidates, better) ==
    /\ leader = None => \A i \in 1 .. n : rows[i] \notin candidates
    /\ leader # None =>
        /\ leader \in candidates /\ \E i \in 1 .. n : rows[i] = leader
        /\ \A i \in 1 .. n : rows[i] \in candidates => <<rows[i], leader>> \notin better

LeaderStep(row, old, candidates, better) ==
    IF row \in candidates /\ (old = None \/ <<row, old>> \in better) THEN row ELSE old

(* One more row: the leader stays, or the row leads.                       *)
LEMMA LeadsOn ==
    ASSUME NEW candidates, None \notin candidates, NEW better, Comparison(candidates, better),
           NEW rows, NEW n \in Nat \ {0}, NEW old, Leads(old, rows, n - 1, candidates, better)
    PROVE  Leads(LeaderStep(rows[n], old, candidates, better), rows, n, candidates, better)
<1> DEFINE new == LeaderStep(rows[n], old, candidates, better)
<1>1. \A i \in 1 .. n : i = n \/ i \in 1 .. (n - 1)
  OBVIOUS
<1>2. n \in 1 .. n /\ \A i \in 1 .. (n - 1) : i \in 1 .. n
  OBVIOUS
<1>3. CASE rows[n] \in candidates /\ (old = None \/ <<rows[n], old>> \in better)
  <2>1. new = rows[n] /\ new \in candidates /\ new # None
    BY <1>3 DEF LeaderStep
  <2>2. ASSUME NEW i \in 1 .. n, rows[i] \in candidates
        PROVE  <<rows[i], new>> \notin better
    <3>1. CASE i = n
      BY <2>1, <3>1 DEF Comparison
    <3>2. CASE i \in 1 .. (n - 1)
      <4>1. old # None /\ old \in candidates /\ <<rows[i], old>> \notin better
        BY <2>2, <3>2 DEF Leads
      <4> QED BY <1>3, <2>1, <2>2, <4>1 DEF Comparison
    <3> QED BY <1>1, <3>1, <3>2
  <2> HIDE DEF new
  <2>3. Leads(new, rows, n, candidates, better)
    BY <1>2, <2>1, <2>2 DEF Leads
  <2> QED BY <2>3 DEF new
<1>4. CASE ~(rows[n] \in candidates /\ (old = None \/ <<rows[n], old>> \in better))
  <2>1. new = old
    BY <1>4 DEF LeaderStep
  <2>2. Leads(old, rows, n, candidates, better)
    BY <1>1, <1>2, <1>4 DEF Leads
  <2> QED BY <2>1, <2>2
<1> QED BY <1>3, <1>4

(* The leader is a candidate that no candidate among the rows beats.       *)
LEMMA LeaderLeads ==
    ASSUME NEW N \in Nat, NEW R, NEW rows \in [1 .. N -> R],
           NEW candidates, None \notin candidates, NEW better, Comparison(candidates, better)
    PROVE  Leads(Leader(rows, candidates, better), rows, N, candidates, better)
<1> DEFINE T == R \cup {None}
           step == [n \in 1 .. N |-> [old \in T |-> LeaderStep(rows[n], old, candidates, better)]]
           Is(f) == f = [n \in 0 .. N |->
                IF n = 0 THEN None
                ELSE LET old == f[n - 1]
                     IN  IF rows[n] \in candidates /\ (old = None \/ <<rows[n], old>> \in better)
                         THEN rows[n] ELSE old]
           best == CHOOSE f : Is(f)
<1>1. None \in T /\ Len(rows) = N
  BY ListOf
<1>2. step \in [1 .. N -> [T -> T]]
  BY DEF LeaderStep
<1>3. PICK f \in [0 .. N -> T] : Iterates(f, N, None, step)
  <2> HIDE DEF step, T
  <2> QED BY <1>1, <1>2, IterationExists
<1> HIDE DEF T
<1>4. Is(f)
  <2>1. f[0] = None /\ \A n \in 1 .. N : f[n] = LeaderStep(rows[n], f[n - 1], candidates, better)
    <3>1. \A n \in 1 .. N : f[n - 1] \in T
      BY <1>3
    <3> QED BY <1>3, <3>1 DEF Iterates
  <2>2. \A n \in 0 .. N : f[n] = IF n = 0 THEN None
                                 ELSE LeaderStep(rows[n], f[n - 1], candidates, better)
    BY <2>1
  <2> QED BY <2>2 DEF LeaderStep
<1>5. Is(best)
  <2> HIDE DEF Is
  <2> QED BY <1>4
<1>6. best[0] = None /\ \A n \in 1 .. N : best[n] = LeaderStep(rows[n], best[n - 1], candidates, better)
  <2> HIDE DEF best
  <2>1. \A n \in 0 .. N : best[n] = IF n = 0 THEN None
                                    ELSE LeaderStep(rows[n], best[n - 1], candidates, better)
    BY <1>5 DEF LeaderStep
  <2> QED BY <2>1
<1>7. Leader(rows, candidates, better) = best[N]
  BY <1>1 DEF Leader
<1> HIDE DEF best, Is, step
<1> DEFINE good == {n \in 0 .. N : Leads(best[n], rows, n, candidates, better)}
<1>8. 0 \in good
  BY <1>6 DEF Leads
<1>9. \A n \in 1 .. N : n - 1 \in good => n \in good
  <2> SUFFICES ASSUME NEW n \in 1 .. N, Leads(best[n - 1], rows, n - 1, candidates, better)
               PROVE  Leads(best[n], rows, n, candidates, better)
    OBVIOUS
  <2> DEFINE old == best[n - 1]
  <2>1. best[n] = LeaderStep(rows[n], old, candidates, better)
    BY <1>6
  <2>2. Leads(old, rows, n - 1, candidates, better) /\ n \in Nat \ {0}
    OBVIOUS
  <2> HIDE DEF old
  <2>3. Leads(LeaderStep(rows[n], old, candidates, better), rows, n, candidates, better)
    BY <2>2, LeadsOn
  <2> QED BY <2>1, <2>3
<1> HIDE DEF good
<1>10. N \in good
  <2>1. \A n \in 0 .. N : n \in good
    BY <1>8, <1>9, Climb
  <2>2. N \in 0 .. N
    OBVIOUS
  <2> QED BY <2>1, <2>2
<1> QED BY <1>7, <1>10 DEF good

(* The results of a benchmark whose models a page shows, and its winners.  *)
OnPage(b, shown) ==
    {r \in Results : r.benchmark = b /\ \E i \in DOMAIN shown : shown[i].id = r.model}

Winning(w, on) ==
    /\ IF w.quality = None THEN on = {}
       ELSE w.quality \in on /\ \A r \in on : r.score <= w.quality.score
    /\ w.value # None =>
        /\ w.value \in on /\ w.value.cost > 0
        /\ \A r \in on : r.cost > 0 => r.score * w.value.cost <= w.value.score * r.cost
    /\ w.speed # None =>
        /\ w.speed \in on /\ w.speed.duration > 0
        /\ \A r \in on : r.duration > 0 => r.duration >= w.speed.duration

ResultsOf(b) == {r \in Results : r.benchmark = b}

(* The statement lists every result of the benchmark once.                 *)
LEMMA ResultsListed ==
    ASSUME NEW b, NEW ids \in ListBenchmarkResults(b)
    PROVE  /\ Cardinality(ResultsOf(b)) \in Nat
           /\ ids \in [1 .. Cardinality(ResultsOf(b)) -> ResultsOf(b)]
           /\ \A r \in ResultsOf(b) : \E i \in 1 .. Cardinality(ResultsOf(b)) : ids[i] = r
<1>1. IsFiniteSet(ResultsOf(b))
  BY ResultsAssumption, FS_Subset DEF ResultsOf
<1>2. PICK before : ids \in Sortings(ResultsOf(b), before)
  BY DEF ListBenchmarkResults, ResultsOf
<1> QED BY <1>1, <1>2, SortingInOrder DEF InSomeOrder

(* The models found are the ones whose results the page shows.             *)
HasModel(found) == {r \in Results : r.model \in found}
Report(kept) == [i \in DOMAIN kept |-> [id |-> kept[i].model, rank |-> RankOf(kept[i])]]
OnlyFound(b, shown, found) ==
    /\ OnPage(b, shown) = {r \in ResultsOf(b) : r.model \in found}
    /\ {shown[i].id : i \in DOMAIN shown} \subseteq found

(* The page shows the results whose models were found.                     *)
LEMMA BenchShows ==
    ASSUME NEW b, NEW ids \in ListBenchmarkResults(b), NEW found, NEW k, NEW g, NEW kept,
           Keeps(kept, ids, Cardinality(ResultsOf(b)), HasModel(found), k, g)
    PROVE  OnlyFound(b, Report(kept), found)
<1> DEFINE N == Cardinality(ResultsOf(b))
           R == ResultsOf(b)
           shown == Report(kept)
<1>1. N \in Nat /\ ids \in [1 .. N -> R] /\ \A r \in R : \E n \in 1 .. N : ids[n] = r
  BY ResultsListed
<1>2. R \subseteq Results /\ \A r \in R : r.benchmark = b
  BY DEF ResultsOf
<1> HIDE DEF N
<1>3. /\ k \in Nat /\ g \in [1 .. k -> 1 .. N] /\ DOMAIN kept = 1 .. k
      /\ \A i \in 1 .. k : kept[i] = ids[g[i]] /\ ids[g[i]].model \in found
      /\ \A n \in 1 .. N : ids[n] \in Results /\ ids[n].model \in found =>
            \E i \in 1 .. k : g[i] = n
  BY DEF Keeps, HasModel, N
<1>4. DOMAIN shown = 1 .. k /\ \A i \in 1 .. k : shown[i].id = ids[g[i]].model
  BY <1>3 DEF Report
<1> HIDE DEF shown
<1>5. \A i \in DOMAIN shown : shown[i].id \in found
  BY <1>3, <1>4
<1>6. ASSUME NEW r \in OnPage(b, shown)
      PROVE  r \in R /\ r.model \in found
  BY <1>5 DEF OnPage, ResultsOf
<1>7. ASSUME NEW r \in R, r.model \in found
      PROVE  r \in OnPage(b, shown)
  <2>1. PICK n \in 1 .. N : ids[n] = r
    BY <1>1
  <2>2. PICK i \in 1 .. k : g[i] = n
    BY <1>2, <1>3, <1>7, <2>1
  <2>3. shown[i].id = r.model /\ i \in DOMAIN shown
    BY <1>4, <2>1, <2>2
  <2> QED BY <1>2, <2>3 DEF OnPage
<1> QED BY <1>5, <1>6, <1>7 DEF OnlyFound, shown

(* The three winners that buildView names win among these.                 *)
LEMMA ViewWins ==
    ASSUME NEW b, NEW ids \in ListBenchmarkResults(b),
           NEW on, on = {r \in ResultsOf(b) : r.model \in Found}
    PROVE  Winning(buildView(ids), on)
<1> DEFINE N == Cardinality(ResultsOf(b))
           R == ResultsOf(b)
           shown == {r \in Results : r.model \in Found}
           cheap == {r \in shown : r.cost > 0}
           quick == {r \in shown : r.duration > 0}
           w == buildView(ids)
<1>1. N \in Nat /\ ids \in [1 .. N -> R] /\ \A r \in R : \E n \in 1 .. N : ids[n] = r
  BY ResultsListed
<1>2. R \subseteq Results
  BY DEF ResultsOf
<1>3. shown \subseteq Results /\ cheap \subseteq {r \in Results : r.cost > 0} /\ quick \subseteq Results
      /\ None \notin shown /\ None \notin cheap /\ None \notin quick
  BY NothingAssumption
<1>4. /\ w.quality = Leader(ids, shown, HigherScore)
      /\ w.value = Leader(ids, cheap, BetterValue)
      /\ w.speed = Leader(ids, quick, Faster)
  BY DEF buildView
<1>5. /\ \A r \in on : r \in R /\ r \in shown /\ r \in Results
      /\ \A r \in R : r \in shown => r \in on
      /\ \A r \in on : (r \in cheap <=> r.cost > 0) /\ (r \in quick <=> r.duration > 0)
      /\ \A r \in cheap : r \in shown /\ r.cost > 0
      /\ \A r \in quick : r \in shown /\ r.duration > 0
  BY <1>2
<1> HIDE DEF N, R, shown, cheap, quick, w
<1>6. /\ Comparison(shown, HigherScore) /\ Comparison(cheap, BetterValue)
      /\ Comparison(quick, Faster)
  BY <1>3, Comparisons DEF Comparison
<1>7. Leads(w.quality, ids, N, shown, HigherScore)
  <2>1. Comparison(shown, HigherScore) /\ None \notin shown
    BY <1>3, <1>6
  <2>2. Leads(Leader(ids, shown, HigherScore), ids, N, shown, HigherScore)
    BY <1>1, <2>1, LeaderLeads
  <2> QED BY <1>4, <2>2
<1>8. Leads(w.value, ids, N, cheap, BetterValue)
  <2>1. Comparison(cheap, BetterValue) /\ None \notin cheap
    BY <1>3, <1>6
  <2>2. Leads(Leader(ids, cheap, BetterValue), ids, N, cheap, BetterValue)
    BY <1>1, <2>1, LeaderLeads
  <2> QED BY <1>4, <2>2
<1>9. Leads(w.speed, ids, N, quick, Faster)
  <2>1. Comparison(quick, Faster) /\ None \notin quick
    BY <1>3, <1>6
  <2>2. Leads(Leader(ids, quick, Faster), ids, N, quick, Faster)
    BY <1>1, <2>1, LeaderLeads
  <2> QED BY <1>4, <2>2
<1>10. \A n \in 1 .. N : ids[n] \in R
  BY <1>1
<1>0. \A r \in Results : r.score \in Nat /\ r.cost \in Nat /\ r.duration \in Nat
  BY ResultsAssumption
<1>11. IF w.quality = None THEN on = {}
       ELSE w.quality \in on /\ \A r \in on : r.score <= w.quality.score
  <2>1. CASE w.quality = None
    BY <1>1, <1>5, <1>7, <2>1 DEF Leads
  <2>2. CASE w.quality # None
    <3>1. w.quality \in on
      BY <1>5, <1>7, <1>10, <2>2 DEF Leads
    <3>2. \A r \in on : <<r, w.quality>> \notin HigherScore
      BY <1>1, <1>5, <1>7, <2>2 DEF Leads
    <3>3. ASSUME NEW r \in on
          PROVE  r.score <= w.quality.score
      <4>1. <<r, w.quality>> \in Results \X Results
        BY <1>5, <3>1
      <4>2. ~(r.score > w.quality.score)
        BY <3>2, <4>1 DEF HigherScore
      <4>3. r.score \in Nat /\ w.quality.score \in Nat
        BY <1>0, <4>1
      <4> QED BY <4>2, <4>3
    <3> QED BY <2>2, <3>1, <3>3
  <2> QED BY <2>1, <2>2
<1>12. w.value # None =>
        /\ w.value \in on /\ w.value.cost > 0
        /\ \A r \in on : r.cost > 0 => r.score * w.value.cost <= w.value.score * r.cost
  <2> SUFFICES ASSUME w.value # None
               PROVE  /\ w.value \in on /\ w.value.cost > 0
                      /\ \A r \in on : r.cost > 0 =>
                            r.score * w.value.cost <= w.value.score * r.cost
    OBVIOUS
  <2>1. w.value \in on /\ w.value.cost > 0
    BY <1>5, <1>8, <1>10 DEF Leads
  <2>2. \A r \in on : r.cost > 0 => <<r, w.value>> \notin BetterValue
    BY <1>1, <1>5, <1>8 DEF Leads
  <2>3. ASSUME NEW r \in on, r.cost > 0
        PROVE  r.score * w.value.cost <= w.value.score * r.cost
    <3>1. r.score * w.value.cost \in Nat /\ w.value.score * r.cost \in Nat
      BY <1>0, <1>5, <2>1
    <3>2. ~(r.score * w.value.cost > w.value.score * r.cost)
      BY <1>5, <2>1, <2>2, <2>3 DEF BetterValue
    <3> QED BY <3>1, <3>2
  <2> QED BY <2>1, <2>3
<1>13. w.speed # None =>
        /\ w.speed \in on /\ w.speed.duration > 0
        /\ \A r \in on : r.duration > 0 => r.duration >= w.speed.duration
  <2> SUFFICES ASSUME w.speed # None
               PROVE  /\ w.speed \in on /\ w.speed.duration > 0
                      /\ \A r \in on : r.duration > 0 => r.duration >= w.speed.duration
    OBVIOUS
  <2>1. w.speed \in on /\ w.speed.duration > 0
    BY <1>5, <1>9, <1>10 DEF Leads
  <2>2. \A r \in on : r.duration > 0 => <<r, w.speed>> \notin Faster
    BY <1>1, <1>5, <1>9 DEF Leads
  <2>3. ASSUME NEW r \in on, r.duration > 0
        PROVE  r.duration >= w.speed.duration
    <3>1. <<r, w.speed>> \in Results \X Results
      BY <1>5, <2>1
    <3>2. ~(r.duration < w.speed.duration)
      BY <2>2, <2>3, <3>1 DEF Faster
    <3>3. r.duration \in Nat /\ w.speed.duration \in Nat
      BY <1>0, <3>1
    <3> QED BY <3>2, <3>3
  <2> QED BY <2>1, <2>3
<1>14. Winning(w, on)
  BY <1>11, <1>12, <1>13 DEF Winning
<1> QED BY <1>14 DEF w

BenchOK(v, l, p, steady, since) ==
    /\ v.step \in {"models", "answer"} => v.ids \in ListBenchmarkResults(v.arg)
    /\ v.step = "answer" => Loaded(v.found, IdsOf(v.ids), l, p, steady, since)
    /\ v.step = "answered" =>
        /\ {v.shown[i].id : i \in DOMAIN v.shown} \subseteq since
        /\ Winning(v.head.winners, OnPage(v.arg, v.shown))

(* A benchmark's page stays right when an unsteady model changes.          *)
LEMMA BenchStays ==
    ASSUME NEW v, NEW l, NEW p, NEW steady, NEW since, BenchOK(v, l, p, steady, since),
           NEW l2, NEW p2, NEW steady2, NEW since2,
           steady2 \subseteq steady, since \subseteq since2, Same(steady2, l, p, l2, p2)
    PROVE  BenchOK(v, l2, p2, steady2, since2)
<1>1. v.step = "answer" => Loaded(v.found, IdsOf(v.ids), l2, p2, steady2, since2)
  BY LoadedStays DEF BenchOK
<1> QED BY <1>1 DEF BenchOK

BenchInv ==
    visit.kind = "benchmark" => BenchOK(visit, listed, price, Steady, present)

(* The page of a benchmark is answered.                                    *)
LEMMA BenchAnswered ==
    ASSUME VisitShape, BenchInv, benchmarkDetail
    PROVE  BenchInv'
<1> DEFINE b == visit.arg
           ids == visit.ids
           set == {r \in Results : r.model \in Found}
           kept == Kept(ids, set)
           shown == [i \in DOMAIN kept |-> [id |-> kept[i].model, rank |-> RankOf(kept[i])]]
<1>1. /\ visit.kind = "benchmark" /\ visit.step = "answer"
      /\ visit' = [visit EXCEPT !.step = "answered", !.shown = shown,
                                !.head = [evaluated |-> visit.head,
                                          winners |-> buildView(ids)]]
      /\ UNCHANGED <<listed, price, touched, present>>
  BY DEF benchmarkDetail, At, Read
<1>2. Shape(visit)
  BY <1>1 DEF VisitShape, NoRequest
<1>3. /\ visit'.kind = "benchmark" /\ visit'.step = "answered" /\ visit'.arg = b
      /\ visit'.shown = shown /\ visit'.head.winners = buildView(ids)
  BY <1>1, <1>2 DEF Shape
<1>4. /\ ids \in ListBenchmarkResults(b)
      /\ Loaded(visit.found, IdsOf(ids), listed, price, Steady, present)
  BY <1>1 DEF BenchInv, BenchOK
<1>5. PICK ms, c :
        /\ visit.found = {[id |-> m, price |-> c[m]] : m \in ms}
        /\ ms \subseteq present
  BY <1>4 DEF Loaded
<1>6. Found \subseteq present
  BY <1>5, FoundIs
<1> HIDE DEF b, ids, set
<1>7. /\ Cardinality(ResultsOf(b)) \in Nat
      /\ ids \in [1 .. Cardinality(ResultsOf(b)) -> ResultsOf(b)]
  BY <1>4, ResultsListed
<1>8. PICK k, g : Keeps(kept, ids, Cardinality(ResultsOf(b)), set, k, g)
  BY <1>7, KeptIs
<1> HIDE DEF kept
<1>9. shown = Report(kept)
  BY DEF Report
<1> DEFINE found == Found
<1> HIDE DEF shown, found
<1>11. OnlyFound(b, Report(kept), found)
  <2>1. Keeps(kept, ids, Cardinality(ResultsOf(b)), HasModel(found), k, g)
    BY <1>8 DEF HasModel, set, found
  <2> QED BY <1>4, <2>1, BenchShows
<1>12. /\ OnPage(b, shown) = {r \in ResultsOf(b) : r.model \in Found}
       /\ {shown[i].id : i \in DOMAIN shown} \subseteq Found
  BY <1>9, <1>11 DEF OnlyFound, found
<1>10. Winning(buildView(ids), OnPage(b, shown))
  BY <1>4, <1>12, ViewWins
<1> QED BY <1>1, <1>3, <1>6, <1>10, <1>12 DEF BenchInv, BenchOK

(* The models of a benchmark are loaded.                                   *)
LEMMA BenchLoaded ==
    ASSUME CatalogueType, VisitShape, BenchInv, ModelsByIDs
    PROVE  BenchInv'
<1> DEFINE ids == IF visit.kind \in {"model", "summary"} THEN ToSet(visit.ids) ELSE IdsOf(visit.ids)
<1>1. /\ Loaded(visit'.found, ids, listed, price, Steady, present)
      /\ visit.step = "models" /\ visit'.step = "answer"
      /\ UNCHANGED <<listed, price, touched, present>>
      /\ visit'.ids = visit.ids /\ visit'.kind = visit.kind /\ visit'.arg = visit.arg
  BY LoadStep
<1> SUFFICES ASSUME visit.kind = "benchmark"
             PROVE  BenchInv'
  BY <1>1 DEF BenchInv
<1>2. ids = IdsOf(visit.ids)
  OBVIOUS
<1>3. visit.ids \in ListBenchmarkResults(visit.arg)
  BY <1>1 DEF BenchInv, BenchOK
<1>4. Steady' = Steady /\ present' = present
  BY <1>1 DEF Steady
<1> QED BY <1>1, <1>2, <1>3, <1>4 DEF BenchInv, BenchOK

(* Every step of a request keeps the page of a benchmark.                  *)
LEMMA BenchStep ==
    ASSUME CatalogueType, VisitShape, BenchInv, Visits
    PROVE  BenchInv'
<1>1. ASSUME NEW k, NEW a, Open(k, a)
      PROVE  BenchInv'
  <2>1. visit'.step = "first"
    BY <1>1 DEF Open
  <2> QED BY <2>1 DEF BenchInv, BenchOK
<1>2. CASE visit' = NoRequest
  BY <1>2 DEF NoRequest, BenchInv
<1>3. ASSUME Shape(visit), BenchmarkResults
      PROVE  BenchInv'
  <2>1. visit'.step = "models" /\ visit'.ids \in ListBenchmarkResults(visit'.arg)
    BY <1>3 DEF BenchmarkResults, Read, Shape
  <2> QED BY <2>1 DEF BenchInv, BenchOK
<1>4. ASSUME visit'.kind = visit.kind, visit.kind # "benchmark"
      PROVE  BenchInv'
  BY <1>4 DEF BenchInv
<1> QED BY <1>1, <1>2, <1>3, <1>4, BenchAnswered, BenchLoaded, WhichVisit DEF Keeping

-----------------------------------------------------------------------------
(* The boards.                                                             *)

(* A dimension has one source, and only sessions are ranked by cost.       *)
LEMMA SourceIs ==
    ASSUME NEW d \in Dimensions
    PROVE  /\ SourceOf(d) \in {"usage", "quality", "throughput", "context_length", "session_cost"}
           /\ SourceOf(d) = "session_cost" <=> d = "session-cost"
<1>1. DOMAIN Sources = {"usage", "quality", "throughput", "context_length", "session_cost"}
  BY DEF Sources
<1>2. \E s \in DOMAIN Sources : d \in Sources[s]
  BY DEF Dimensions
<1>3. SourceOf(d) \in DOMAIN Sources /\ d \in Sources[SourceOf(d)]
  BY <1>2 DEF SourceOf
<1>4. \A s \in DOMAIN Sources : "session-cost" \in Sources[s] => s = "session_cost"
  BY <1>1 DEF Sources
<1>5. \A x \in Sources["session_cost"] : x = "session-cost"
  BY DEF Sources
<1> QED BY <1>1, <1>3, <1>4, <1>5

(* What a board ranks a model by, unless that is its price.                *)
Fact(m, source) ==
    CASE source = "quality"        -> Facts[m].quality
      [] source = "context_length" -> Facts[m].context
      [] source = "throughput"     -> Facts[m].throughput

Worth(m, b) ==
    IF SourceOf(b.dimension) = "usage" THEN Facts[m].tokens[Period(b.period)]
    ELSE Fact(m, SourceOf(b.dimension))

(* What a model is worth on a board is a number or nothing.                *)
LEMMA WorthIs ==
    ASSUME NEW m \in ModelIds, NEW b \in Boards, b.dimension \in Dimensions,
           SourceOf(b.dimension) # "session_cost"
    PROVE  /\ Worth(m, b) \in Nat \cup {None}
           /\ SourceOf(b.dimension) = "usage" => Worth(m, b) \in Nat
           /\ SourceOf(b.dimension) # "usage" => Worth(m, b) = Metric(m, SourceOf(b.dimension))
<1> DEFINE s == SourceOf(b.dimension)
<1>1. s \in {"usage", "quality", "throughput", "context_length"}
  BY SourceIs
<1>2. Facts[m].tokens[Period(b.period)] \in Nat
  BY RequestsAssumption, FactsOf DEF Period
<1>3. /\ Facts[m].context \in Nat \cup {None} /\ Facts[m].quality \in Nat \cup {None}
      /\ Facts[m].throughput \in Nat \cup {None}
  BY FactsOf
<1> HIDE DEF s
<1>4. s # "usage" => Fact(m, s) = Metric(m, s) /\ Fact(m, s) \in Nat \cup {None}
  BY <1>1, <1>3 DEF Fact, Metric
<1> QED BY <1>2, <1>4 DEF s, Worth

(* The first rows of a ranking.                                            *)
Higher(key, rows) == {p \in rows \X rows : key[p[1]] > key[p[2]]}

TopOf(top, rows, key) ==
    /\ top \in Seq(rows) /\ Len(top) <= RankingCap
    /\ \A i, j \in DOMAIN top : i < j => key[top[i]] >= key[top[j]]
    /\ Cardinality(rows) <= RankingCap => \A m \in rows : \E i \in DOMAIN top : top[i] = m

(* The first rows by a key: none that is left out is above them.           *)
LEMMA TopRows ==
    ASSUME NEW rows, rows \subseteq ModelIds, NEW key \in [ModelIds -> Int],
           NEW s \in Sortings(rows, Higher(key, rows))
    PROVE  TopOf(First(s, RankingCap), rows, key)
<1> DEFINE before == Higher(key, rows)
           N == Cardinality(rows)
           top == First(s, RankingCap)
<1>1. IsFiniteSet(rows) /\ \A m \in rows : m \in Nat /\ key[m] \in Int
  BY ModelsAreIds, FS_Subset
<1>2. \A x, y \in rows : <<x, y>> \in before <=> key[x] > key[y]
  BY DEF Higher
<1> HIDE DEF before
<1>4. InSomeOrder(s, rows, before) /\ N \in Nat
  BY <1>1, SortingInOrder DEF InSomeOrder, before
<1>5. /\ s \in [1 .. N -> rows] /\ \A x \in rows : \E i \in 1 .. N : s[i] = x
      /\ \A i, j \in 1 .. N : i < j => <<s[j], s[i]>> \notin before
  BY <1>4 DEF InSomeOrder
<1> HIDE DEF N, top
<1>6. Limited(top, s, N, rows, RankingCap)
  BY <1>4, <1>5, Bounds, FirstOf DEF top
<1> DEFINE k == Shorter(N, RankingCap)
<1>7. k \in Nat /\ k <= N /\ k <= RankingCap /\ (N <= RankingCap => k = N)
  BY <1>4, Bounds DEF Shorter
<1>8. top \in Seq(rows) /\ Len(top) = k /\ DOMAIN top = 1 .. k /\ \A i \in 1 .. k : top[i] = s[i]
  BY <1>6 DEF Limited
<1> HIDE DEF k
<1>9. ASSUME NEW i \in 1 .. k, NEW j \in 1 .. k, i < j
      PROVE  key[top[i]] >= key[top[j]]
  <2>1. i \in 1 .. N /\ j \in 1 .. N
    BY <1>4, <1>7
  <2>2. s[i] \in rows /\ s[j] \in rows /\ <<s[j], s[i]>> \notin before
    BY <1>5, <1>9, <2>1
  <2>3. key[s[i]] \in Int /\ key[s[j]] \in Int
    BY <1>1, <2>2
  <2>4. ~(key[s[j]] > key[s[i]])
    BY <1>2, <2>2
  <2>5. top[i] = s[i] /\ top[j] = s[j]
    BY <1>8
  <2> QED BY <2>3, <2>4, <2>5
<1>10. N <= RankingCap => \A m \in rows : \E i \in DOMAIN top : top[i] = m
  BY <1>5, <1>7, <1>8
<1> QED BY <1>7, <1>8, <1>9, <1>10 DEF TopOf, top, N

(* The rows a board is made of.                                            *)
Chooses(ids, b, l, steady, since) ==
    /\ ids \in Seq([model : ModelIds, value : Nat \cup {None}]) /\ Len(ids) <= RankingCap
    /\ SourceOf(b.dimension) # "session_cost" =>
        /\ \A i \in DOMAIN ids : ids[i].value = Worth(ids[i].model, b)
        /\ \A i, j \in DOMAIN ids : i < j =>
            ids[j].value = None \/ (ids[i].value # None /\ ids[i].value >= ids[j].value)
    /\ Cardinality(since) <= RankingCap => \A m \in steady :
        m \in IdsOf(ids) <=> /\ m \in l /\ InScope(m, b.scope)
                             /\ SourceOf(b.dimension) = "usage" => Worth(m, b) > 0

(* The ORDER BY of a ranking as one key: what is not known is last.        *)
Ranks(b) ==
    {m \in listed : /\ InScope(m, b.scope)
                    /\ SourceOf(b.dimension) = "usage" => Facts[m].tokens[Period(b.period)] > 0}

RankedBy(b) ==
    [m \in ModelIds |->
        IF SourceOf(b.dimension) = "usage" THEN Facts[m].tokens[Period(b.period)]
        ELSE Metric(m, IF SourceOf(b.dimension) = "session_cost" THEN "price_input"
                       ELSE SourceOf(b.dimension))]

RankKey(b) == [m \in ModelIds |-> IF RankedBy(b)[m] = None THEN -Infinity ELSE RankedBy(b)[m]]

Tops(b) == {First(s, RankingCap) : s \in Sortings(Ranks(b), Higher(RankKey(b), Ranks(b)))}

(* The statement of a board ranks by what the board is about.              *)
LEMMA RankedIsTop ==
    ASSUME CatalogueType, NEW b \in Boards, b.dimension \in Dimensions, NEW ids \in Ranked(b)
    PROVE  \E top \in Tops(b) :
            /\ TopOf(top, Ranks(b), RankKey(b))
            /\ ids = [i \in DOMAIN top |-> [model |-> top[i], value |-> RankedBy(b)[top[i]]]]
<1> DEFINE s == SourceOf(b.dimension)
           metric == IF s = "session_cost" THEN "price_input" ELSE s
           period == Period(b.period)
           worth(m) == IF s = "usage" THEN Facts[m].tokens[period] ELSE Metric(m, metric)
           tops == IF s = "usage" THEN RankModelsByUsage(period, b.scope)
                   ELSE RankModelsByColumn(metric, b.scope)
<1>0. None \notin Int /\ Infinity \in Nat
  BY NothingAssumption, InfinityAssumption
<1>1. Ranks(b) \subseteq ModelIds
  BY DEF Ranks, CatalogueType
<1>2. \A m \in ModelIds : Facts[m].tokens[period] \in Nat
  BY RequestsAssumption, FactsOf DEF Period
<1>3. \A m \in ModelIds : RankedBy(b)[m] = worth(m)
  BY DEF RankedBy
<1>4. PICK top \in tops : ids = [i \in DOMAIN top |-> [model |-> top[i], value |-> worth(top[i])]]
  BY DEF Ranked
<1>5. \A m \in ModelIds : worth(m) \in Nat \cup {None}
  BY <1>2, SourceIs, FactsOf, PricesAssumption DEF Metric, RawKey, CatalogueType
<1> HIDE DEF worth
<1>6. RankKey(b) \in [ModelIds -> Int]
  BY <1>0, <1>3, <1>5 DEF RankKey
<1> DEFINE before == Higher(RankKey(b), Ranks(b))
<1>7. ASSUME s = "usage" PROVE top \in Tops(b)
  <2> DEFINE key(m) == Facts[m].tokens[period]
  <2>1. Ranks(b) = {m \in listed : InScope(m, b.scope) /\ key(m) > 0}
    BY <1>7 DEF Ranks
  <2>2. \A m \in ModelIds : RankKey(b)[m] = key(m)
    BY <1>0, <1>2, <1>3, <1>7 DEF RankKey, worth
  <2>3. before = {p \in Ranks(b) \X Ranks(b) : key(p[1]) > key(p[2])}
    BY <1>1, <2>2 DEF Higher
  <2>4. RankModelsByUsage(period, b.scope) = {First(x, RankingCap) : x \in Sortings(Ranks(b), before)}
    BY <2>1, <2>3 DEF RankModelsByUsage
  <2> QED BY <1>4, <1>7, <2>4 DEF Tops
<1>8. ASSUME s # "usage" PROVE top \in Tops(b)
  <2> DEFINE key(m) == IF Metric(m, metric) = None THEN -Infinity ELSE Metric(m, metric)
  <2>1. Ranks(b) = {m \in listed : InScope(m, b.scope)}
    BY <1>8 DEF Ranks
  <2>2. \A m \in ModelIds : RankKey(b)[m] = key(m)
    BY <1>3, <1>8 DEF RankKey, worth
  <2> HIDE DEF metric
  <2>3. before = {p \in Ranks(b) \X Ranks(b) : key(p[1]) > key(p[2])}
    BY <1>1, <2>2 DEF Higher
  <2>4. RankModelsByColumn(metric, b.scope) = {First(x, RankingCap) : x \in Sortings(Ranks(b), before)}
    BY <2>1, <2>3 DEF RankModelsByColumn
  <2> QED BY <1>4, <1>8, <2>4 DEF Tops
<1>9. top \in Tops(b)
  BY <1>7, <1>8
<1> HIDE DEF before, tops
<1>10. TopOf(top, Ranks(b), RankKey(b))
  BY <1>1, <1>6, <1>9, TopRows DEF Tops
<1>11. \A i \in DOMAIN top : top[i] \in ModelIds
  BY <1>1, <1>10, ElementOfSeq, LenProperties DEF TopOf
<1> QED BY <1>3, <1>4, <1>9, <1>10, <1>11

(* It chooses every steady model it may rank, if there is room for all.    *)
LEMMA RankedChooses ==
    ASSUME CatalogueType, NEW b \in Boards, b.dimension \in Dimensions, NEW ids \in Ranked(b)
    PROVE  Chooses(ids, b, listed, Steady, present)
<1> DEFINE s == SourceOf(b.dimension)
           rows == Ranks(b)
           val == RankedBy(b)
           key == RankKey(b)
<1>0. None \notin Int /\ Infinity \in Nat /\ \A m \in ModelIds : Infinity > 0
  BY NothingAssumption, InfinityAssumption, FactsOf
<1>1. rows \subseteq ModelIds /\ rows \subseteq listed
  BY DEF Ranks, CatalogueType
<1>2. \A m \in ModelIds : val[m] \in Nat \cup {None}
  <2>1. CASE s = "session_cost"
    BY <2>1, PricesAssumption DEF RankedBy, Metric, RawKey, CatalogueType
  <2>2. CASE s # "session_cost"
    BY <2>2, WorthIs DEF RankedBy, Worth
  <2> QED BY <2>1, <2>2
<1>3. \A m \in ModelIds : key[m] = IF val[m] = None THEN -Infinity ELSE val[m]
  BY DEF RankKey
<1>4. key \in [ModelIds -> Int]
  BY <1>0, <1>2 DEF RankKey
<1>5. s # "session_cost" => \A m \in ModelIds : val[m] = Worth(m, b)
  BY WorthIs DEF RankedBy, Worth
<1>6. \A m \in ModelIds :
        m \in rows <=> /\ m \in listed /\ InScope(m, b.scope)
                       /\ s = "usage" => Worth(m, b) > 0
  BY DEF Ranks, Worth
<1>7. PICK top \in Tops(b) :
        /\ TopOf(top, rows, key)
        /\ ids = [i \in DOMAIN top |-> [model |-> top[i], value |-> val[top[i]]]]
  BY RankedIsTop
<1>8. TopOf(top, rows, key)
  BY <1>7
<1> HIDE DEF s, rows, val, key
<1>9. /\ top \in Seq(rows) /\ Len(top) \in Nat /\ DOMAIN top = 1 .. Len(top)
      /\ \A i \in 1 .. Len(top) : top[i] \in rows /\ top[i] \in ModelIds
  BY <1>1, <1>8, LenProperties, ElementOfSeq DEF TopOf
<1>10. DOMAIN ids = 1 .. Len(top) /\ \A i \in 1 .. Len(top) :
        ids[i].model = top[i] /\ ids[i].value = val[top[i]]
  BY <1>7, <1>9
<1>11. ids \in Seq([model : ModelIds, value : Nat \cup {None}]) /\ Len(ids) = Len(top)
  <2>1. ids \in [1 .. Len(top) -> [model : ModelIds, value : Nat \cup {None}]]
    BY <1>2, <1>7, <1>9
  <2> QED BY <1>9, <2>1, ListOf
<1>12. s # "session_cost" => \A i \in DOMAIN ids : ids[i].value = Worth(ids[i].model, b)
  BY <1>5, <1>9, <1>10
<1>13. ASSUME NEW i \in DOMAIN ids, NEW j \in DOMAIN ids, i < j
       PROVE  ids[j].value = None \/ (ids[i].value # None /\ ids[i].value >= ids[j].value)
  <2>1. /\ top[i] \in ModelIds /\ top[j] \in ModelIds /\ key[top[i]] >= key[top[j]]
        /\ ids[i].value = val[top[i]] /\ ids[j].value = val[top[j]]
    BY <1>8, <1>9, <1>10, <1>13 DEF TopOf
  <2>2. /\ val[top[i]] \in Nat \cup {None} /\ val[top[j]] \in Nat \cup {None} /\ Infinity > 0
        /\ key[top[i]] = IF val[top[i]] = None THEN -Infinity ELSE val[top[i]]
        /\ key[top[j]] = IF val[top[j]] = None THEN -Infinity ELSE val[top[j]]
    BY <1>0, <1>2, <1>3, <2>1
  <2> DEFINE x == val[top[i]]
             y == val[top[j]]
             kx == key[top[i]]
             ky == key[top[j]]
  <2>3. /\ x \in Nat \cup {None} /\ y \in Nat \cup {None} /\ kx >= ky
        /\ kx = IF x = None THEN -Infinity ELSE x
        /\ ky = IF y = None THEN -Infinity ELSE y
        /\ ids[i].value = x /\ ids[j].value = y
    BY <2>1, <2>2
  <2> HIDE DEF x, y, kx, ky
  <2> QED BY <1>0, <2>2, <2>3
<1>14. IdsOf(ids) = {top[i] : i \in 1 .. Len(top)}
  BY <1>10 DEF IdsOf
<1>15. ASSUME Cardinality(present) <= RankingCap, NEW m \in Steady
       PROVE  m \in IdsOf(ids) <=> m \in rows
  <2>1. Cardinality(rows) <= RankingCap
    <3>1. rows \subseteq present /\ IsFiniteSet(present)
      BY <1>1, ModelsAreIds, FS_Subset DEF CatalogueType
    <3>2. Cardinality(rows) <= Cardinality(present)
          /\ Cardinality(rows) \in Nat /\ Cardinality(present) \in Nat
      BY <3>1, FS_Subset, FS_CardinalityType
    <3> QED BY <1>15, <3>2, Bounds
  <2>2. \A x \in rows : \E i \in 1 .. Len(top) : top[i] = x
    BY <1>8, <1>9, <2>1 DEF TopOf
  <2> QED BY <1>9, <1>14, <2>2
<1>16. Steady \subseteq ModelIds /\ Len(ids) <= RankingCap
  BY <1>8, <1>11 DEF Steady, TopOf
<1>17. Chooses(ids, b, listed, Steady, present)
  BY <1>6, <1>11, <1>12, <1>13, <1>15, <1>16 DEF Chooses, s
<1> QED BY <1>17

(* What a board knows of a model, given the prices that were loaded.       *)
Known(m, b, p) ==
    CASE SourceOf(b.dimension) = "usage" -> Worth(m, b) > 0
      [] SourceOf(b.dimension) = "session_cost" -> Chargeable(p[m])
      [] OTHER -> Worth(m, b) # None

Entry == [id : ModelIds, value : Nat]

Falls(e) == \A i, j \in DOMAIN e : i < j => e[i].value >= e[j].value
Rises(e) == \A i, j \in DOMAIN e : i < j => e[i].value <= e[j].value
Names(e) == {e[i].id : i \in DOMAIN e}

(* The entries of a board: the models found that it has a value for.       *)
Entered(e, b, ids, ms, c) ==
    /\ e \in Seq(Entry) /\ Len(e) <= Len(ids)
    /\ SourceOf(b.dimension) # "session_cost" => Falls(e)
    /\ \A m : m \in Names(e) <=>
        /\ m \in IdsOf(ids) /\ m \in ms
        /\ IF SourceOf(b.dimension) = "session_cost" THEN Chargeable(c[m]) ELSE Worth(m, b) # None

(* The entries are those of the chosen models that were found with data.   *)
LEMMA EntriesAre ==
    ASSUME NEW b \in Boards, b.dimension \in Dimensions,
           NEW ids, NEW l, NEW steady, NEW since, Chooses(ids, b, l, steady, since),
           NEW ms, NEW c, visit.found = {[id |-> m, price |-> c[m]] : m \in ms},
           c \in [ModelIds -> Prices], ms \subseteq ModelIds
    PROVE  Entered(Entries(b, ids), b, ids, ms, c)
<1> DEFINE s == SourceOf(b.dimension)
           N == Len(ids)
           set == {r \in ToSet(ids) : r.model \in Found /\ rankValue(s, r) # None}
           kept == Kept(ids, set)
           e == Entries(b, ids)
<1>0. None \notin Int
  BY NothingAssumption
<1>1. /\ ids \in Seq([model : ModelIds, value : Nat \cup {None}])
      /\ N \in Nat /\ DOMAIN ids = 1 .. N
      /\ \A n \in 1 .. N : ids[n] \in [model : ModelIds, value : Nat \cup {None}]
  BY LenProperties, ElementOfSeq DEF Chooses
<1>2. Found = ms /\ \A m \in ms : FoundModel(m) = [id |-> m, price |-> c[m]]
  BY FoundIs
<1>3. \A m \in ms : FoundModel(m).price = c[m]
  BY <1>2
<1>4. \A m \in ms : Chargeable(c[m]) => SessionCost(c[m]) \in Nat
  <2> SUFFICES ASSUME NEW m \in ms, Chargeable(c[m]) PROVE SessionCost(c[m]) \in Nat
    OBVIOUS
  <2>1. c[m] \in [input : Nat, output : Nat]
    BY PricesAssumption DEF Chargeable
  <2> QED BY <2>1 DEF SessionCost
<1>5. ASSUME NEW r \in [model : ModelIds, value : Nat \cup {None}], r.model \in ms
      PROVE  /\ s = "session_cost" =>
                rankValue(s, r) = IF Chargeable(c[r.model]) THEN SessionCost(c[r.model]) ELSE None
             /\ s # "session_cost" => rankValue(s, r) = r.value
             /\ rankValue(s, r) \in Nat \cup {None}
  <2> HIDE DEF s
  <2> QED BY <1>3, <1>4, <1>5 DEF rankValue
<1>6. e = [i \in DOMAIN kept |-> [id |-> kept[i].model, value |-> rankValue(s, kept[i])]]
  BY DEF Entries
<1>7. \A r \in ToSet(ids) : r \in [model : ModelIds, value : Nat \cup {None}]
  BY <1>1 DEF ToSet
<1>8. \A r : r \in set <=> r \in ToSet(ids) /\ r.model \in ms /\ rankValue(s, r) # None
  BY <1>2
<1>9. \A n \in 1 .. N : ids[n] \in ToSet(ids)
  BY <1>1 DEF ToSet
<1>10. /\ s # "session_cost" => \A i \in 1 .. N : ids[i].value = Worth(ids[i].model, b)
       /\ s # "session_cost" => \A i, j \in 1 .. N : i < j =>
            ids[j].value = None \/ (ids[i].value # None /\ ids[i].value >= ids[j].value)
  BY <1>1 DEF Chooses
<1> HIDE DEF N, set
<1>11. PICK k, g : Keeps(kept, ids, N, set, k, g) /\ k <= N
  BY <1>1, KeptIs
<1>12. /\ k \in Nat /\ g \in [1 .. k -> 1 .. N] /\ DOMAIN kept = 1 .. k
       /\ \A i, j \in 1 .. k : i < j => g[i] < g[j]
       /\ \A i \in 1 .. k : kept[i] = ids[g[i]] /\ ids[g[i]] \in set
       /\ \A n \in 1 .. N : ids[n] \in set => \E i \in 1 .. k : g[i] = n
  BY <1>11 DEF Keeps
<1> HIDE DEF kept, e
<1>13. \A i \in 1 .. k : /\ g[i] \in 1 .. N /\ ids[g[i]].model \in ms
                         /\ rankValue(s, ids[g[i]]) \in Nat
  <2> SUFFICES ASSUME NEW i \in 1 .. k
               PROVE  /\ g[i] \in 1 .. N /\ ids[g[i]].model \in ms
                      /\ rankValue(s, ids[g[i]]) \in Nat
    OBVIOUS
  <2>1. g[i] \in 1 .. N /\ ids[g[i]] \in set
    BY <1>12
  <2> DEFINE r == ids[g[i]]
  <2>2. r \in [model : ModelIds, value : Nat \cup {None}] /\ r.model \in ms /\ rankValue(s, r) # None
    BY <1>7, <1>8, <2>1
  <2> HIDE DEF r, s
  <2>3. rankValue(s, r) \in Nat
    BY <1>5, <2>2
  <2> QED BY <2>1, <2>2, <2>3 DEF r
<1>14. DOMAIN e = 1 .. k /\ \A i \in 1 .. k :
        e[i].id = ids[g[i]].model /\ e[i].value = rankValue(s, ids[g[i]])
  <2> HIDE DEF s
  <2> QED BY <1>6, <1>12
<1>15. e \in Seq(Entry) /\ Len(e) = k
  <2>1. \A i \in 1 .. k : [id |-> kept[i].model, value |-> rankValue(s, kept[i])] \in Entry
    BY <1>12, <1>13 DEF Entry
  <2>2. e \in [1 .. k -> Entry]
    BY <1>6, <1>12, <2>1
  <2> QED BY <1>12, <2>2, ListOf
<1>16. ASSUME s # "session_cost"
       PROVE  Falls(e)
  <2> SUFFICES ASSUME NEW i \in 1 .. k, NEW j \in 1 .. k, i < j
               PROVE  e[i].value >= e[j].value
    BY <1>14 DEF Falls
  <2>1. g[i] \in 1 .. N /\ g[j] \in 1 .. N /\ g[i] < g[j]
    BY <1>12
  <2>2. rankValue(s, ids[g[i]]) = ids[g[i]].value /\ rankValue(s, ids[g[j]]) = ids[g[j]].value
    BY <1>1, <1>5, <1>13, <1>16
  <2>3. ids[g[j]].value = None \/ ids[g[i]].value >= ids[g[j]].value
    BY <1>10, <1>16, <2>1
  <2>4. ids[g[j]].value # None
    BY <1>0, <1>13, <2>2
  <2> QED BY <1>14, <2>2, <2>3, <2>4
<1>17. ASSUME NEW m
       PROVE  m \in Names(e) <=>
                /\ m \in IdsOf(ids) /\ m \in ms
                /\ IF s = "session_cost" THEN Chargeable(c[m]) ELSE Worth(m, b) # None
  <2>1. ASSUME NEW n \in 1 .. N, ids[n].model \in ms
        PROVE  rankValue(s, ids[n]) # None <=>
                IF s = "session_cost" THEN Chargeable(c[ids[n].model])
                ELSE Worth(ids[n].model, b) # None
    <3>1. ids[n] \in [model : ModelIds, value : Nat \cup {None}]
      BY <1>1
    <3>2. CASE s = "session_cost"
      <4>1. rankValue(s, ids[n]) =
                IF Chargeable(c[ids[n].model]) THEN SessionCost(c[ids[n].model]) ELSE None
        BY <1>5, <2>1, <3>1, <3>2
      <4>2. Chargeable(c[ids[n].model]) => SessionCost(c[ids[n].model]) # None
        BY <1>0, <1>4, <2>1
      <4> QED BY <3>2, <4>1, <4>2
    <3>3. CASE s # "session_cost"
      <4>1. rankValue(s, ids[n]) = ids[n].value /\ ids[n].value = Worth(ids[n].model, b)
        BY <1>5, <1>10, <2>1, <3>1, <3>3
      <4> QED BY <3>3, <4>1
    <3> QED BY <3>2, <3>3
  <2>2. ASSUME m \in Names(e)
        PROVE  /\ m \in IdsOf(ids) /\ m \in ms
               /\ IF s = "session_cost" THEN Chargeable(c[m]) ELSE Worth(m, b) # None
    <3>1. PICK i \in 1 .. k : m = e[i].id
      BY <1>14, <2>2 DEF Names
    <3>2. g[i] \in 1 .. N /\ m = ids[g[i]].model /\ m \in ms /\ rankValue(s, ids[g[i]]) # None
      BY <1>0, <1>13, <1>14, <3>1
    <3> HIDE DEF s
    <3> QED BY <1>1, <2>1, <3>2 DEF IdsOf
  <2>3. ASSUME m \in IdsOf(ids), m \in ms,
               IF s = "session_cost" THEN Chargeable(c[m]) ELSE Worth(m, b) # None
        PROVE  m \in Names(e)
    <3>1. PICK n \in 1 .. N : ids[n].model = m
      BY <1>1, <2>3 DEF IdsOf
    <3>2. ids[n] \in set
      <4> HIDE DEF s
      <4>1. rankValue(s, ids[n]) # None
        BY <2>1, <2>3, <3>1
      <4> QED BY <1>8, <1>9, <2>3, <3>1, <4>1
    <3>3. PICK i \in 1 .. k : g[i] = n
      BY <1>12, <3>2
    <3> QED BY <1>14, <3>1, <3>3 DEF Names
  <2> QED BY <2>2, <2>3
<1>18. Entered(e, b, ids, ms, c)
  BY <1>11, <1>15, <1>16, <1>17 DEF Entered, N
<1> QED BY <1>18 DEF e

(* The same entries, in the order a board gives them.                      *)
Arranged(x, e, b) ==
    /\ x \in Seq(Entry) /\ Len(x) = Len(e) /\ Names(x) = Names(e)
    /\ IF SourceOf(b.dimension) = "session_cost" THEN Rises(x) ELSE Falls(x)

(* An entry has a model and a natural number.                              *)
LEMMA EntriesHave ==
    ASSUME NEW e \in Seq(Entry)
    PROVE  /\ Len(e) \in Nat /\ DOMAIN e = 1 .. Len(e)
           /\ \A i \in 1 .. Len(e) : e[i] \in Entry
           /\ \A i \in 1 .. Len(e) : e[i].value \in Nat /\ e[i].id \in ModelIds
<1>1. Len(e) \in Nat /\ DOMAIN e = 1 .. Len(e) /\ \A i \in 1 .. Len(e) : e[i] \in Entry
  BY LenProperties, ElementOfSeq
<1> QED BY <1>1 DEF Entry

(* Board has the entries in the order that the dimension asks for.         *)
LEMMA BoardArranges ==
    ASSUME NEW b, NEW ids, Entries(b, ids) \in Seq(Entry),
           SourceOf(b.dimension) # "session_cost" => Falls(Entries(b, ids))
    PROVE  Arranged(Board(b, ids), Entries(b, ids), b)
<1> DEFINE e == Entries(b, ids)
           N == Len(e)
           places == DOMAIN e
           before == {p \in places \X places :
                        \/ e[p[1]].value < e[p[2]].value
                        \/ e[p[1]].value = e[p[2]].value /\ p[1] < p[2]}
           stable == Sorted(places, before)
           x == [i \in places |-> e[stable[i]]]
<1>1. /\ N \in Nat /\ places = 1 .. N /\ DOMAIN e = 1 .. N
      /\ \A i \in 1 .. N : e[i] \in Entry /\ e[i].value \in Nat
  <2>1. e \in Seq(Entry)
    OBVIOUS
  <2> HIDE DEF e
  <2> QED BY <2>1, EntriesHave
<1>2. CASE SourceOf(b.dimension) # "session_cost"
  BY <1>2 DEF Board, Arranged
<1>3. CASE SourceOf(b.dimension) = "session_cost"
  <2>1. Board(b, ids) = x
    BY <1>3 DEF Board
  <2>2. \A i, j \in places : <<i, j>> \in before <=>
            e[i].value < e[j].value \/ (e[i].value = e[j].value /\ i < j)
    OBVIOUS
  <2>3. x = [i \in places |-> e[stable[i]]]
    OBVIOUS
  <2> HIDE DEF before, e, N, places, x
  <2>4. NoTies(places, before)
    <3>1. \A i \in places : i \in Nat /\ e[i].value \in Nat
      BY <1>1
    <3>2. \A i \in places : <<i, i>> \notin before
      BY <2>2, <3>1
    <3>3. \A i, j \in places : i # j => <<i, j>> \in before \/ <<j, i>> \in before
      <4> SUFFICES ASSUME NEW i \in places, NEW j \in places, i # j
                   PROVE  <<i, j>> \in before \/ <<j, i>> \in before
        OBVIOUS
      <4>1. i \in Nat /\ j \in Nat /\ e[i].value \in Nat /\ e[j].value \in Nat
        BY <3>1
      <4> QED BY <2>2, <4>1
    <3>4. \A i, j, k \in places : <<i, j>> \in before /\ <<j, k>> \in before => <<i, k>> \in before
      <4> SUFFICES ASSUME NEW i \in places, NEW j \in places, NEW k \in places,
                          <<i, j>> \in before, <<j, k>> \in before
                   PROVE  <<i, k>> \in before
        OBVIOUS
      <4>1. /\ i \in Nat /\ j \in Nat /\ k \in Nat
            /\ e[i].value \in Nat /\ e[j].value \in Nat /\ e[k].value \in Nat
        BY <3>1
      <4>2. /\ e[i].value < e[j].value \/ (e[i].value = e[j].value /\ i < j)
            /\ e[j].value < e[k].value \/ (e[j].value = e[k].value /\ j < k)
        BY <2>2
      <4> QED BY <2>2, <4>1, <4>2
    <3> QED BY <3>2, <3>3, <3>4 DEF NoTies
  <2>5. IsFiniteSet(places) /\ Cardinality(places) = N
    BY <1>1, FS_Interval
  <2>6. InOrder(stable, places, before)
    BY <2>4, <2>5, SortedInOrder
  <2> HIDE DEF stable
  <2>7. /\ stable \in [1 .. N -> 1 .. N] /\ \A n \in 1 .. N : \E i \in 1 .. N : stable[i] = n
        /\ \A i, j \in 1 .. N : i < j => <<stable[i], stable[j]>> \in before
    BY <1>1, <2>5, <2>6 DEF InOrder
  <2>8. DOMAIN x = 1 .. N /\ \A i \in 1 .. N : x[i] = e[stable[i]]
    BY <1>1, <2>3
  <2>9. x \in Seq(Entry) /\ Len(x) = N
    <3>1. x \in [1 .. N -> Entry]
      BY <1>1, <2>3, <2>7
    <3> QED BY <1>1, <3>1, ListOf
  <2>10. Rises(x)
    <3> SUFFICES ASSUME NEW i \in 1 .. N, NEW j \in 1 .. N, i < j
                 PROVE  x[i].value <= x[j].value
      BY <2>8 DEF Rises
    <3>1. stable[i] \in 1 .. N /\ stable[j] \in 1 .. N /\ <<stable[i], stable[j]>> \in before
      BY <2>7
    <3>2. e[stable[i]].value < e[stable[j]].value \/ e[stable[i]].value = e[stable[j]].value
      BY <1>1, <2>2, <3>1
    <3>3. e[stable[i]].value \in Nat /\ e[stable[j]].value \in Nat
      BY <1>1, <3>1
    <3> QED BY <2>8, <3>2, <3>3
  <2>11. Names(x) = Names(e)
    <3>1. \A i \in 1 .. N : \E n \in 1 .. N : x[i].id = e[n].id
      <4>1. \A i \in 1 .. N : stable[i] \in 1 .. N /\ x[i].id = e[stable[i]].id
        BY <2>7, <2>8
      <4> QED BY <4>1
    <3>2. \A n \in 1 .. N : \E i \in 1 .. N : x[i].id = e[n].id
      <4> SUFFICES ASSUME NEW n \in 1 .. N PROVE \E i \in 1 .. N : x[i].id = e[n].id
        OBVIOUS
      <4>1. PICK i \in 1 .. N : stable[i] = n
        BY <2>7
      <4> QED BY <2>8, <4>1
    <3>3. \A m : m \in Names(x) <=> \E i \in 1 .. N : x[i].id = m
      BY <2>8 DEF Names
    <3>4. \A m : m \in Names(e) <=> \E n \in 1 .. N : e[n].id = m
      BY <1>1 DEF Names
    <3>5. \A m : m \in Names(x) <=> m \in Names(e)
      BY <3>1, <3>2, <3>3, <3>4
    <3> HIDE DEF Names
    <3> QED BY <3>5
  <2>12. Arranged(x, e, b)
    BY <1>3, <2>9, <2>10, <2>11 DEF Arranged, N
  <2> QED BY <2>1, <2>12 DEF e
<1> QED BY <1>2, <1>3

(* The total of the values is a natural number.                            *)
LEMMA SumIsNat ==
    ASSUME NEW e \in Seq(Entry)
    PROVE  (LET sum[n \in 0 .. Len(e)] == IF n = 0 THEN 0 ELSE sum[n - 1] + e[n].value
            IN  sum[Len(e)]) \in Nat
<1> DEFINE N == Len(e)
           step == [n \in 1 .. N |-> [old \in Nat |-> old + e[n].value]]
           Is(f) == f = [n \in 0 .. N |-> IF n = 0 THEN 0 ELSE f[n - 1] + e[n].value]
           sum == CHOOSE f : Is(f)
<1>1. N \in Nat /\ \A n \in 1 .. N : e[n].value \in Nat
  BY EntriesHave
<1>2. step \in [1 .. N -> [Nat -> Nat]]
  BY <1>1
<1>3. PICK f \in [0 .. N -> Nat] : Iterates(f, N, 0, step)
  <2> HIDE DEF step, N
  <2> QED BY <1>1, <1>2, IterationExists
<1>4. Is(f)
  <2>1. f[0] = 0 /\ \A n \in 1 .. N : f[n] = f[n - 1] + e[n].value
    <3>1. \A n \in 1 .. N : f[n - 1] \in Nat
      <4> HIDE DEF N
      <4> QED BY <1>1, <1>3
    <3> QED BY <1>3, <3>1 DEF Iterates
  <2> QED BY <2>1
<1>5. Is(sum)
  <2> HIDE DEF Is
  <2> QED BY <1>4
<1> DEFINE good == {n \in 0 .. N : sum[n] \in Nat}
<1>6. 0 \in good
  <2> HIDE DEF sum
  <2>1. 0 \in 0 .. N
    BY <1>1
  <2>2. sum[0] = 0
    BY <1>5, <2>1
  <2> QED BY <2>1, <2>2
<1>7. \A n \in 1 .. N : n - 1 \in good => n \in good
  <2> HIDE DEF sum
  <2> SUFFICES ASSUME NEW n \in 1 .. N, sum[n - 1] \in Nat PROVE sum[n] \in Nat
    BY <1>1
  <2>1. sum[n] = sum[n - 1] + e[n].value
    BY <1>1, <1>5
  <2> QED BY <1>1, <2>1
<1>8. N \in good
  <2> HIDE DEF good
  <2> QED BY <1>1, <1>6, <1>7, Climb
<1> QED BY <1>8

(* Taking a share of a positive total keeps the order.                     *)
LEMMA ShareOrder ==
    ASSUME NEW a \in Nat, NEW b \in Nat, NEW t \in Nat \ {0}, a >= b
    PROVE  (a * 100) \div t \in Nat /\ (b * 100) \div t \in Nat
           /\ (a * 100) \div t >= (b * 100) \div t
<1> DEFINE x == a * 100
           y == b * 100
           q == x \div t
           r == y \div t
<1>1. x \in Nat /\ y \in Nat /\ x >= y
  OBVIOUS
<1> HIDE DEF x, y
<1>2. /\ q \in Nat /\ t * q <= x /\ x < t * q + t
      /\ r \in Nat /\ t * r <= y /\ y < t * r + t
  BY <1>1
<1> HIDE DEF q, r
<1>3. q >= r
  <2> SUFFICES ASSUME q < r PROVE FALSE
    BY <1>2
  <2>1. q + 1 <= r
    BY <1>2
  <2>2. t * (q + 1) <= t * r
    BY <1>2, <2>1
  <2>3. t * (q + 1) = t * q + t
    BY <1>2
  <2>4. t * r \in Nat /\ t * q \in Nat
    BY <1>2
  <2> QED BY <1>1, <1>2, <2>2, <2>3, <2>4
<1> QED BY <1>2, <1>3 DEF x, y, q, r

(* Shares change the values and neither the order nor the models.          *)
LEMMA SharesArrange ==
    ASSUME NEW b, NEW e, NEW x, Arranged(x, e, b)
    PROVE  Arranged(Shares(b, x), e, b)
<1> DEFINE total == LET sum[n \in 0 .. Len(x)] == IF n = 0 THEN 0 ELSE sum[n - 1] + x[n].value
                    IN  sum[Len(x)]
           parts == [i \in DOMAIN x |-> [x[i] EXCEPT !.value = (@ * 100) \div total]]
           N == Len(x)
<1>1. x \in Seq(Entry) /\ N \in Nat /\ DOMAIN x = 1 .. N
      /\ \A i \in 1 .. N : x[i] \in Entry /\ x[i].value \in Nat /\ x[i].id \in ModelIds
  BY EntriesHave DEF Arranged
<1>2. total \in Nat
  BY <1>1, SumIsNat
<1>3. Shares(b, x) = IF b.unit = "percentage" /\ SourceOf(b.dimension) = "usage" /\ total > 0
                     THEN parts ELSE x
  BY DEF Shares
<1>4. parts = [i \in DOMAIN x |-> [x[i] EXCEPT !.value = (@ * 100) \div total]]
  OBVIOUS
<1> HIDE DEF total, parts, N
<1>5. ASSUME SourceOf(b.dimension) = "usage", total > 0
      PROVE  Arranged(parts, e, b)
  <2>0. total \in Nat \ {0}
    BY <1>2, <1>5
  <2>1. DOMAIN parts = 1 .. N /\ \A i \in 1 .. N :
            parts[i] = [id |-> x[i].id, value |-> (x[i].value * 100) \div total]
    BY <1>1, <1>4 DEF Entry
  <2>2. \A i \in 1 .. N : (x[i].value * 100) \div total \in Nat
    <3> SUFFICES ASSUME NEW i \in 1 .. N PROVE (x[i].value * 100) \div total \in Nat
      OBVIOUS
    <3>1. x[i].value \in Nat /\ x[i].value >= x[i].value
      BY <1>1
    <3> QED BY <2>0, <3>1, ShareOrder
  <2>3. parts \in Seq(Entry) /\ Len(parts) = N
    <3>1. \A i \in 1 .. N : parts[i] \in Entry
      BY <1>1, <2>1, <2>2 DEF Entry
    <3>2. parts \in [1 .. N -> Entry]
      BY <1>1, <1>4, <2>1, <3>1
    <3> QED BY <1>1, <3>2, ListOf
  <2>4. Falls(parts)
    <3> SUFFICES ASSUME NEW i \in 1 .. N, NEW j \in 1 .. N, i < j
                 PROVE  parts[i].value >= parts[j].value
      BY <2>1 DEF Falls
    <3>1. x[i].value >= x[j].value /\ x[i].value \in Nat /\ x[j].value \in Nat
      BY <1>1, <1>5 DEF Arranged, Falls
    <3>2. (x[i].value * 100) \div total >= (x[j].value * 100) \div total
      BY <2>0, <3>1, ShareOrder
    <3> QED BY <2>1, <3>2
  <2>5. Names(parts) = Names(x)
    BY <1>1, <2>1 DEF Names
  <2> QED BY <1>5, <2>3, <2>4, <2>5 DEF Arranged, N
<1> QED BY <1>3, <1>5

(* What a board that was answered shows.                                   *)
Posted(shown, b, l, p, steady, since) ==
    /\ shown \in Seq(Entry) /\ Len(shown) <= RankingCap /\ Names(shown) \subseteq since
    /\ b.dimension \in Dimensions =>
        /\ IF SourceOf(b.dimension) = "session_cost" THEN Rises(shown) ELSE Falls(shown)
        /\ Cardinality(since) <= RankingCap => \A m \in steady :
            m \in Names(shown) <=> m \in l /\ InScope(m, b.scope) /\ Known(m, b, p)
    /\ b.dimension \notin Dimensions => shown = <<>>

RankOK(v, l, p, steady, since) ==
    /\ v.step = "first" => v.shown = <<>>
    /\ v.step \in {"models", "answer"} =>
        v.arg.dimension \in Dimensions /\ Chooses(v.ids, v.arg, l, steady, since)
    /\ v.step = "answer" => Loaded(v.found, IdsOf(v.ids), l, p, steady, since)
    /\ v.step = "answered" => Posted(v.shown, v.arg, l, p, steady, since)

(* A board stays right when an unsteady model changes.                     *)
LEMMA RankStays ==
    ASSUME NEW v, NEW l, NEW p, NEW steady, NEW since, RankOK(v, l, p, steady, since),
           NEW l2, NEW p2, NEW steady2, NEW since2,
           steady2 \subseteq steady, since \subseteq since2, Same(steady2, l, p, l2, p2),
           IsFiniteSet(since2)
    PROVE  RankOK(v, l2, p2, steady2, since2)
<1>1. Cardinality(since2) <= RankingCap => Cardinality(since) <= RankingCap
  <2>1. /\ Cardinality(since) \in Nat /\ Cardinality(since2) \in Nat
        /\ Cardinality(since) <= Cardinality(since2)
    BY FS_Subset, FS_CardinalityType
  <2> QED BY <2>1, Bounds
<1>2. v.step = "answer" => Loaded(v.found, IdsOf(v.ids), l2, p2, steady2, since2)
  BY LoadedStays DEF RankOK
<1>3. \A m \in steady2 : m \in steady /\ (m \in l2 <=> m \in l) /\ p2[m] = p[m]
  BY DEF Same
<1>4. ASSUME NEW ids, NEW b, Chooses(ids, b, l, steady, since)
      PROVE  Chooses(ids, b, l2, steady2, since2)
  BY <1>1, <1>3, <1>4 DEF Chooses
<1>5. ASSUME NEW shown, NEW b, Posted(shown, b, l, p, steady, since)
      PROVE  Posted(shown, b, l2, p2, steady2, since2)
  <2>1. \A m \in steady2 : Known(m, b, p2) <=> Known(m, b, p)
    BY <1>3 DEF Known
  <2> QED BY <1>1, <1>3, <1>5, <2>1 DEF Posted
<1> QED BY <1>2, <1>4, <1>5 DEF RankOK

RankInv ==
    visit.kind = "ranking" => RankOK(visit, listed, price, Steady, present)

(* The models of a board are chosen.                                       *)
LEMMA RankChosen ==
    ASSUME CatalogueType, VisitShape, RankInv, RankModels
    PROVE  RankInv'
<1> DEFINE b == visit.arg
<1>1. /\ visit.kind = "ranking" /\ visit.step = "first"
      /\ UNCHANGED <<listed, price, touched, present>>
  BY DEF RankModels, At, Read
<1>2. Shape(visit) /\ b \in Boards /\ visit.shown = <<>>
  BY <1>1 DEF VisitShape, NoRequest, RankInv, RankOK
<1>3. Steady' = Steady /\ present' = present
  BY <1>1 DEF Steady
<1>4. CASE b.dimension \in Unsourced
  <2>0. visit' = [visit EXCEPT !.step = "answered"]
    BY <1>4 DEF RankModels, Read
  <2>1. visit'.step = "answered" /\ visit'.shown = <<>> /\ visit'.arg = b
    BY <1>2, <2>0 DEF Shape
  <2>2. b.dimension \notin Dimensions
    BY <1>4 DEF Unsourced, Dimensions, Sources
  <2>3. <<>> \in Seq(Entry) /\ Len(<<>>) <= RankingCap /\ Names(<<>>) \subseteq present
    <3>1. <<>> \in Seq(Entry) /\ Len(<<>>) = 0 /\ DOMAIN <<>> = {}
      BY EmptySeq
    <3> QED BY <3>1, Bounds DEF Names
  <2>4. Posted(<<>>, b, listed', price', Steady', present')
    BY <1>3, <2>2, <2>3 DEF Posted
  <2> QED BY <2>1, <2>4 DEF RankInv, RankOK
<1>5. CASE b.dimension \notin Unsourced
  <2>0. PICK ids \in Ranked(b) : visit' = [visit EXCEPT !.step = "models", !.ids = ids]
    BY <1>5 DEF RankModels, Read
  <2>1. visit'.step = "models" /\ visit'.ids = ids /\ visit'.arg = b
    BY <1>2, <2>0 DEF Shape
  <2>2. b.dimension \in Dimensions
    BY <1>2, <1>5, RequestsAssumption
  <2>3. Chooses(ids, b, listed, Steady, present)
    BY <1>2, <2>2, RankedChooses
  <2> HIDE DEF b
  <2> QED BY <1>1, <1>3, <2>1, <2>2, <2>3 DEF RankInv, RankOK
<1> QED BY <1>4, <1>5

(* The models of a board are loaded.                                       *)
LEMMA RankLoaded ==
    ASSUME CatalogueType, VisitShape, RankInv, ModelsByIDs
    PROVE  RankInv'
<1> DEFINE ids == IF visit.kind \in {"model", "summary"} THEN ToSet(visit.ids) ELSE IdsOf(visit.ids)
<1>1. /\ Loaded(visit'.found, ids, listed, price, Steady, present)
      /\ visit.step = "models" /\ visit'.step = "answer"
      /\ UNCHANGED <<listed, price, touched, present>>
      /\ visit'.ids = visit.ids /\ visit'.kind = visit.kind /\ visit'.arg = visit.arg
  BY LoadStep
<1> SUFFICES ASSUME visit.kind = "ranking"
             PROVE  RankInv'
  BY <1>1 DEF RankInv
<1>2. ids = IdsOf(visit.ids)
  OBVIOUS
<1>3. /\ visit.arg.dimension \in Dimensions
      /\ Chooses(visit.ids, visit.arg, listed, Steady, present)
  BY <1>1 DEF RankInv, RankOK
<1>4. Steady' = Steady /\ present' = present
  BY <1>1 DEF Steady
<1> QED BY <1>1, <1>2, <1>3, <1>4 DEF RankInv, RankOK

(* What was loaded and entered is what a board has to show.                *)
LEMMA BoardPosts ==
    ASSUME NEW b \in Boards, b.dimension \in Dimensions,
           NEW ids, NEW l, NEW p, NEW steady, steady \subseteq ModelIds, NEW since,
           Chooses(ids, b, l, steady, since), Loaded(visit.found, IdsOf(ids), l, p, steady, since)
    PROVE  Posted(Shares(b, Board(b, ids)), b, l, p, steady, since)
<1> DEFINE s == SourceOf(b.dimension)
           e == Entries(b, ids)
           x == Shares(b, Board(b, ids))
<1>1. PICK ms, c :
        /\ visit.found = {[id |-> m, price |-> c[m]] : m \in ms}
        /\ c \in [ModelIds -> Prices]
        /\ ms \subseteq IdsOf(ids) /\ ms \subseteq since /\ ms \subseteq ModelIds
        /\ \A m \in IdsOf(ids) \cap steady : (m \in ms <=> m \in l) /\ (m \in ms => c[m] = p[m])
  BY DEF Loaded
<1>2. Entered(e, b, ids, ms, c)
  BY <1>1, EntriesAre
<1>3. e \in Seq(Entry) /\ (s # "session_cost" => Falls(e)) /\ Len(e) <= Len(ids)
  BY <1>2 DEF Entered
<1>4. Arranged(Board(b, ids), e, b)
  BY <1>3, BoardArranges
<1> DEFINE y == Board(b, ids)
<1> HIDE DEF e, y
<1>5. Arranged(Shares(b, y), e, b)
  BY <1>4, SharesArrange DEF y
<1>6. Arranged(x, e, b)
  BY <1>5 DEF y
<1> HIDE DEF x, s
<1>7. /\ x \in Seq(Entry) /\ Len(x) = Len(e) /\ Names(x) = Names(e)
      /\ IF s = "session_cost" THEN Rises(x) ELSE Falls(x)
  BY <1>6 DEF Arranged, s
<1>8. \A m : m \in Names(x) <=>
        /\ m \in IdsOf(ids) /\ m \in ms
        /\ IF s = "session_cost" THEN Chargeable(c[m]) ELSE Worth(m, b) # None
  BY <1>2, <1>7 DEF Entered, s
<1>9. Len(x) <= RankingCap
  <2>1. Len(ids) <= RankingCap /\ Len(ids) \in Nat /\ Len(e) \in Nat
    BY <1>3, LenProperties DEF Chooses
  <2> QED BY <1>3, <1>7, <2>1, Bounds
<1>10. Names(x) \subseteq since
  BY <1>1, <1>8
<1>11. ASSUME Cardinality(since) <= RankingCap, NEW m \in steady
       PROVE  m \in Names(x) <=> m \in l /\ InScope(m, b.scope) /\ Known(m, b, p)
  <2>1. m \in IdsOf(ids) <=> /\ m \in l /\ InScope(m, b.scope)
                             /\ s = "usage" => Worth(m, b) > 0
    BY <1>11 DEF Chooses, s
  <2>2. m \in IdsOf(ids) => (m \in ms <=> m \in l) /\ (m \in ms => c[m] = p[m])
    BY <1>1
  <2>3. s = "usage" => Worth(m, b) # None /\ s # "session_cost"
    <3>1. s = "usage" => Worth(m, b) \in Nat
      BY WorthIs DEF s
    <3> QED BY <3>1, NothingAssumption
  <2> DEFINE known == Known(m, b, p)
             worth == Worth(m, b)
  <2>4. known <=> IF s = "usage" THEN worth > 0
                  ELSE IF s = "session_cost" THEN Chargeable(p[m]) ELSE worth # None
    BY DEF Known, s
  <2> HIDE DEF known, worth
  <2>5. /\ m \in IdsOf(ids) <=> m \in l /\ InScope(m, b.scope) /\ (s = "usage" => worth > 0)
        /\ s = "usage" => worth # None /\ s # "session_cost"
        /\ m \in Names(x) <=> /\ m \in IdsOf(ids) /\ m \in ms
                              /\ IF s = "session_cost" THEN Chargeable(c[m]) ELSE worth # None
    BY <1>8, <2>1, <2>3 DEF worth
  <2>6. m \in Names(x) <=> m \in l /\ InScope(m, b.scope) /\ known
    <3>1. CASE s = "usage"
      BY <2>2, <2>4, <2>5, <3>1
    <3>2. CASE s = "session_cost"
      BY <2>2, <2>4, <2>5, <3>2
    <3>3. CASE s # "usage" /\ s # "session_cost"
      BY <2>2, <2>4, <2>5, <3>3
    <3> QED BY <3>1, <3>2, <3>3
  <2> QED BY <2>6 DEF known
<1>12. Posted(x, b, l, p, steady, since)
  BY <1>7, <1>9, <1>10, <1>11 DEF Posted, s
<1> QED BY <1>12 DEF x

(* A board is answered.                                                    *)
LEMMA RankAnswered ==
    ASSUME VisitShape, RankInv, ranking
    PROVE  RankInv'
<1> DEFINE b == visit.arg
           ids == visit.ids
           shown == Shares(b, Board(b, ids))
<1>1. /\ visit.kind = "ranking" /\ visit.step = "answer"
      /\ UNCHANGED <<listed, price, touched, present>>
      /\ visit' = [visit EXCEPT !.step = "answered", !.shown = shown]
  BY DEF ranking, At, Read
<1>2. Shape(visit) /\ b \in Boards
  BY <1>1 DEF VisitShape, NoRequest
<1>3. visit'.step = "answered" /\ visit'.shown = shown /\ visit'.arg = b
  BY <1>1, <1>2 DEF Shape
<1>4. /\ b.dimension \in Dimensions /\ Chooses(ids, b, listed, Steady, present)
      /\ Loaded(visit.found, IdsOf(ids), listed, price, Steady, present)
  BY <1>1 DEF RankInv, RankOK
<1>5. Steady' = Steady /\ present' = present /\ Steady \subseteq ModelIds
  BY <1>1 DEF Steady
<1> HIDE DEF b, ids
<1>6. Posted(shown, b, listed, price, Steady, present)
  BY <1>2, <1>4, <1>5, BoardPosts
<1> HIDE DEF shown
<1> QED BY <1>1, <1>3, <1>5, <1>6 DEF RankInv, RankOK

(* Every step of a request keeps the board.                                *)
LEMMA RankStep ==
    ASSUME CatalogueType, VisitShape, RankInv, Visits
    PROVE  RankInv'
<1>1. ASSUME NEW k, NEW a, Open(k, a)
      PROVE  RankInv'
  <2>1. visit'.step = "first" /\ visit'.shown = <<>>
    BY <1>1 DEF Open
  <2> QED BY <2>1 DEF RankInv, RankOK
<1>2. CASE visit' = NoRequest
  BY <1>2 DEF NoRequest, RankInv
<1>3. ASSUME visit'.kind = visit.kind, visit.kind # "ranking"
      PROVE  RankInv'
  BY <1>3 DEF RankInv
<1> QED BY <1>1, <1>2, <1>3, RankChosen, RankLoaded, RankAnswered, WhichVisit DEF Keeping

-----------------------------------------------------------------------------
(* The pages as a whole.                                                   *)

VisitInv == PickInv /\ BenchInv /\ RankInv /\ NavInv /\ PageInv

PagesIInv == CatalogueType /\ Alone /\ WalkInv /\ VisitShape /\ VisitInv

(* A visit waits while administrators change what it reads.                *)
LEMMA VisitStays ==
    ASSUME VisitInv, visit' = visit, Steady' \subseteq Steady, present \subseteq present',
           IsFiniteSet(present'), Same(Steady', listed, price, listed', price')
    PROVE  VisitInv'
<1> DEFINE s2 == Steady'
           l2 == listed'
           p2 == price'
           h2 == present'
<1>0. s2 \subseteq Steady /\ present \subseteq h2 /\ IsFiniteSet(h2) /\ Same(s2, listed, price, l2, p2)
  OBVIOUS
<1> HIDE DEF s2, l2, p2, h2
<1>1. PickInv'
  <2>1. visit.kind \in {"model", "summary"} =>
            PickOK(visit, PickLimit(visit.kind), l2, p2, s2, h2)
    BY <1>0, PickStays DEF VisitInv, PickInv
  <2> QED BY <2>1 DEF PickInv, s2, l2, p2, h2
<1>2. BenchInv'
  <2>1. visit.kind = "benchmark" => BenchOK(visit, l2, p2, s2, h2)
    BY <1>0, BenchStays DEF VisitInv, BenchInv
  <2> QED BY <2>1 DEF BenchInv, s2, l2, p2, h2
<1>3. RankInv'
  <2>1. visit.kind = "ranking" => RankOK(visit, l2, p2, s2, h2)
    BY <1>0, RankStays DEF VisitInv, RankInv
  <2> QED BY <2>1 DEF RankInv, s2, l2, p2, h2
<1>4. NavInv' /\ PageInv'
  BY DEF VisitInv, NavInv, PageInv
<1> QED BY <1>1, <1>2, <1>3, <1>4 DEF VisitInv

(* A change of one model keeps the invariant of every page.                *)
LEMMA VisitChange ==
    ASSUME CatalogueType, VisitInv, NEW x \in ModelIds, Change(x),
           \A m \in ModelIds \ {x} : (m \in listed' <=> m \in listed) /\ price'[m] = price[m],
           CatalogueType'
    PROVE  VisitInv'
<1>1. visit' = visit /\ touched' = touched \cup {x} /\ present \subseteq present'
  BY DEF Change
<1>2. Steady' \subseteq Steady /\ Steady' \subseteq ModelIds \ {x}
  BY <1>1 DEF Steady
<1>3. Same(Steady', listed, price, listed', price')
  BY <1>2 DEF Same
<1>4. IsFiniteSet(present')
  <2>1. present' \subseteq ModelIds
    BY DEF CatalogueType
  <2> QED BY <2>1, ModelsAreIds, FS_Subset
<1> QED BY <1>1, <1>2, <1>3, <1>4, VisitStays

(* The invariant holds from the beginning and is kept by every step.       *)
LEMMA PagesInvariant == PagesSpec => []PagesIInv
<1>1. PagesInit => PagesIInv
  <2> SUFFICES ASSUME PagesInit PROVE PagesIInv
    OBVIOUS
  <2>1. CatalogueType
    <3>1. listed \subseteq ModelIds /\ price \in [ModelIds -> Prices]
      BY PricesAssumption DEF PagesInit
    <3> QED BY <3>1, Bounds DEF PagesInit, CatalogueType
  <2>2. walk = NoRequest /\ visit = NoRequest /\ visit.kind = "idle"
    BY DEF PagesInit, NoRequest
  <2>3. Alone /\ WalkInv /\ VisitShape
    BY <2>2 DEF Alone, WalkInv, VisitShape
  <2>4. VisitInv
    BY <2>2 DEF VisitInv, PickInv, BenchInv, RankInv, NavInv, PageInv
  <2> QED BY <2>1, <2>3, <2>4 DEF PagesIInv
<1>2. PagesIInv /\ [PagesNext]_pagesVars => PagesIInv'
  <2> SUFFICES ASSUME PagesIInv, [PagesNext]_pagesVars PROVE PagesIInv'
    OBVIOUS
  <2>0. CatalogueType /\ Alone /\ WalkInv /\ VisitShape /\ VisitInv
    BY DEF PagesIInv
  <2>1. CatalogueType'
    BY <2>0, TypeStep
  <2>2. Alone'
    BY <2>0, AloneStep
  <2>3. WalkInv'
    BY <2>0, WalkStep
  <2>4. VisitShape' /\ VisitInv'
    <3>1. CASE Visits
      BY <2>0, <3>1, ShapeStep, PickStep, BenchStep, RankStep, NavigationStep, PageStep DEF VisitInv
    <3>2. CASE UNCHANGED visit
      <4>1. VisitShape'
        BY <2>0, <3>2 DEF VisitShape
      <4>2. ASSUME visit = NoRequest
            PROVE  VisitInv'
        <5>1. visit'.kind = "idle"
          BY <3>2, <4>2 DEF NoRequest
        <5> QED BY <5>1 DEF VisitInv, PickInv, BenchInv, RankInv, NavInv, PageInv
      <4>3. ASSUME UNCHANGED <<listed, price, touched, present>>
            PROVE  VisitInv'
        <5>1. Steady' = Steady
          BY <4>3 DEF Steady
        <5> QED BY <2>0, <3>2, <4>3, <5>1
                DEF VisitInv, PickInv, BenchInv, RankInv, NavInv, PageInv
      <4>4. CASE Walks
        <5>1. visit = NoRequest \/ UNCHANGED <<listed, price, touched, present>>
          <6>1. walk.kind = "walk" => walk # NoRequest
            BY DEF NoRequest
          <6>2. StopWalk => visit = NoRequest
            BY <2>0, <6>1 DEF StopWalk, Alone
          <6>3. (\E f \in Filters : StartWalk(f)) => visit = NoRequest
            BY DEF StartWalk
          <6>4. (\E o \in Orders : ListRefused(o)) => UNCHANGED <<listed, price, touched, present>>
            BY DEF ListRefused
          <6>5. (\E o \in Orders, n \in PageSizes : ListModelsEndpoint(o, n)) =>
                    UNCHANGED <<listed, price, touched, present>>
            BY DEF ListModelsEndpoint
          <6> QED BY <4>4, <6>2, <6>3, <6>4, <6>5 DEF Walks
        <5> QED BY <4>1, <4>2, <4>3, <5>1
      <4>5. ASSUME NEW m \in ModelIds, SetModelStatus(m)
            PROVE  VisitInv'
        <5>1. Change(m) /\ price' = price /\ \A x \in ModelIds \ {m} : x \in listed' <=> x \in listed
          BY <4>5 DEF SetModelStatus
        <5> QED BY <2>0, <2>1, <5>1, VisitChange
      <4>6. ASSUME NEW m \in ModelIds, NEW p \in Prices, Reprice(m, p)
            PROVE  VisitInv'
        <5>1. Change(m) /\ listed' = listed /\ \A x \in ModelIds \ {m} : price'[x] = price[x]
          BY <2>0, <4>6 DEF Reprice, CatalogueType
        <5> QED BY <2>0, <2>1, <5>1, VisitChange
      <4>7. CASE UNCHANGED pagesVars
        BY <4>1, <4>3, <4>7 DEF pagesVars
      <4> QED BY <3>1, <4>1, <4>4, <4>5, <4>6, <4>7, <2>0, ShapeStep, PickStep, BenchStep, RankStep,
                 NavigationStep, PageStep DEF PagesNext, VisitInv
    <3>3. Visits \/ UNCHANGED visit
      BY DEF PagesNext, Walks, StartWalk, ListRefused, ListModelsEndpoint, StopWalk,
             SetModelStatus, Reprice, Change, pagesVars
    <3> QED BY <3>1, <3>2, <3>3
  <2> QED BY <2>1, <2>2, <2>3, <2>4 DEF PagesIInv
<1> QED BY <1>1, <1>2, PTL DEF PagesSpec

(* The invariant implies the types,                                        *)
LEMMA TypesHold == PagesIInv => PagesTypeOK
<1> SUFFICES ASSUME PagesIInv PROVE PagesTypeOK
  OBVIOUS
<1>1. CatalogueType /\ WalkInv /\ PickInv /\ RankInv
  BY DEF PagesIInv, VisitInv
<1>2. /\ listed \subseteq ModelIds /\ price \in [ModelIds -> Prices \cup {None}]
      /\ changes \in 0 .. MaxChanges /\ touched \subseteq ModelIds /\ present \subseteq ModelIds
  BY <1>1 DEF CatalogueType
<1>3. /\ walk.kind \in {"idle", "walk"}
      /\ walk.kind = "walk" =>
            /\ walk.state \in {"walking", "refused", "finished", "failed"}
            /\ walk.seen \in Seq(ModelIds)
            /\ \A i \in DOMAIN walk.totals : walk.totals[i] \in 0 .. Cardinality(ModelIds)
            /\ walk.cursor # None => walk.cursor.id \in ModelIds /\ walk.cursor.key < Infinity
  <2>1. CASE walk = NoRequest
    BY <2>1 DEF NoRequest
  <2>2. CASE walk # NoRequest
    <3> DEFINE key == KeyOf(walk.order)
               rows == Matching(walk.filter)
               quiet == touched = {}
    <3>1. WalkOK(walk, key, rows, Steady, quiet, present)
      BY <1>1, <2>2 DEF WalkInv
    <3> HIDE DEF key, rows, quiet
    <3>2. /\ walk \in WalkType
          /\ walk.cursor # None => walk.cursor.key < Infinity
          /\ \A i \in DOMAIN walk.totals : walk.totals[i] <= Cardinality(ModelIds)
      BY <3>1 DEF WalkOK
    <3>3. /\ walk.kind = "walk" /\ walk.state \in {"walking", "refused", "finished", "failed"}
          /\ walk.seen \in Seq(ModelIds) /\ walk.totals \in Seq(Nat)
          /\ walk.cursor \in Cursor \cup {None}
      BY <3>2 DEF WalkType
    <3>4. \A i \in DOMAIN walk.totals : walk.totals[i] \in Nat
      BY <3>3, LenProperties, ElementOfSeq
    <3>5. Cardinality(ModelIds) \in Nat
      BY ModelsAreIds, FS_CardinalityType
    <3>6. \A i \in DOMAIN walk.totals : walk.totals[i] \in 0 .. Cardinality(ModelIds)
      BY <3>2, <3>4, <3>5
    <3>7. walk.cursor # None => walk.cursor.id \in ModelIds
      BY <3>3 DEF Cursor
    <3> QED BY <3>2, <3>3, <3>6, <3>7
  <2> QED BY <2>1, <2>2
<1>4. /\ Answered("summary") => Len(visit.shown) <= FeaturedLimit
      /\ Answered("model") => Len(visit.shown) <= RelatedLimit
  BY <1>1 DEF Answered, PickInv, PickOK, Shows, PickLimit
<1>5. Answered("ranking") => Len(visit.shown) <= RankingCap
  BY <1>1 DEF Answered, RankInv, RankOK, Posted
<1> QED BY <1>2, <1>3, <1>4, <1>5 DEF PagesTypeOK

(* Of every page, what the property below says of all of them.             *)
LEMMA OnlyListedHolds == PagesIInv => OnlyListedShown
<1> SUFFICES ASSUME PagesIInv PROVE OnlyListedShown
  OBVIOUS
<1>1. WalkInv /\ PickInv /\ BenchInv /\ RankInv
  BY DEF PagesIInv, VisitInv
<1> DEFINE Listed == {visit.shown[i].id : i \in DOMAIN visit.shown} \subseteq present
<1>2. Answered("model") \/ Answered("summary") => Listed
  BY <1>1 DEF Answered, PickInv, PickOK, Shows
<1>3. Answered("benchmark") => Listed
  BY <1>1 DEF Answered, BenchInv, BenchOK
<1>4. Answered("ranking") => Listed
  BY <1>1 DEF Answered, RankInv, RankOK, Posted, Names
<1>5. walk.kind = "walk" => ToSet(walk.seen) \subseteq present
  BY <1>1 DEF WalkInv, WalkOK, NoRequest
<1> HIDE DEF Listed
<1>6. \A k \in {"model", "summary", "benchmark", "ranking"} : Answered(k) => Listed
  BY <1>2, <1>3, <1>4
<1> QED BY <1>5, <1>6 DEF OnlyListedShown, Listed

(* the order of the pages,                                                 *)
LEMMA OrderHolds == PagesIInv => OrderKept
<1> SUFFICES ASSUME PagesIInv, NEW k \in {"model", "summary"}, Answered(k)
             PROVE  /\ \A i, j \in DOMAIN visit.shown :
                        i < j => Place(visit.ids, visit.shown[i].id) < Place(visit.ids, visit.shown[j].id)
                    /\ \A m \in ToSet(visit.ids) \cap Steady :
                        \E i \in DOMAIN visit.shown : visit.shown[i].id = m
  BY DEF OrderKept, Place
<1>1. PickInv /\ visit.kind \in {"model", "summary"} /\ visit.step = "answered"
  BY DEF PagesIInv, VisitInv, Answered
<1>2. Shows(visit.shown, visit.ids, PickLimit(visit.kind), Steady, present)
  BY <1>1 DEF PickInv, PickOK
<1> QED BY <1>2 DEF Shows

(* the navigation and the tables of contents,                              *)
LEMMA DocsHold == PagesIInv => NavigationGrouped /\ HeadingsOutsideFences
<1> SUFFICES ASSUME PagesIInv PROVE NavigationGrouped /\ HeadingsOutsideFences
  OBVIOUS
<1>1. VisitShape /\ NavInv /\ PageInv
  BY DEF PagesIInv, VisitInv
<1>2. NavigationGrouped
  <2> SUFFICES ASSUME Answered("navigation"),
                      \A a, b \in visit.arg : (a.group = b.group) = (a.groupPosition = b.groupPosition)
               PROVE  Grouped(visit.shown, visit.arg)
    BY DEF NavigationGrouped, Grouped
  <2>1. Placed(visit.arg)
    BY DEF Placed
  <2> QED BY <1>1, <2>1 DEF NavInv, Answered
<1>3. HeadingsOutsideFences
  <2> SUFFICES ASSUME Answered("page")
               PROVE  ToSet(visit.shown) =
                        {i \in DOMAIN visit.arg :
                            /\ visit.arg[i] = "heading"
                            /\ Cardinality({j \in 1 .. i - 1 : visit.arg[j] = "fence"}) % 2 = 0}
    BY DEF HeadingsOutsideFences
  <2>1. visit.kind = "page" /\ visit # NoRequest
    BY DEF Answered, NoRequest
  <2>2. visit.arg \in Bodies
    BY <1>1, <2>1 DEF VisitShape
  <2>3. DOMAIN visit.arg = 1 .. Len(visit.arg)
    BY <2>2, RequestsAssumption, LenProperties
  <2>4. ToSet(visit.shown) = HeadingsTo(visit.arg, Len(visit.arg))
    BY <1>1 DEF PageInv, Answered
  <2> QED BY <2>3, <2>4 DEF HeadingsTo, FencesTo
<1> QED BY <1>2, <1>3

(* the winners,                                                            *)
LEMMA WinnersHold == PagesIInv => WinnersAreShown
<1> SUFFICES ASSUME PagesIInv, Answered("benchmark")
             PROVE  WinnersAreShown
  BY DEF WinnersAreShown
<1>1. BenchInv /\ visit.kind = "benchmark" /\ visit.step = "answered"
  BY DEF PagesIInv, VisitInv, Answered
<1>2. Winning(visit.head.winners, OnPage(visit.arg, visit.shown))
  BY <1>1 DEF BenchInv, BenchOK
<1> QED BY <1>2 DEF WinnersAreShown, Winning, OnPage

(* and the boards.                                                         *)
LEMMA BoardHolds == PagesIInv => BoardIsRanking
<1> SUFFICES ASSUME PagesIInv, Answered("ranking")
             PROVE  BoardIsRanking
  BY DEF BoardIsRanking, BoardOrdered, BoardComplete
<1> DEFINE b == visit.arg
           shown == visit.shown
<1>1. /\ CatalogueType /\ VisitShape /\ RankInv
      /\ visit.kind = "ranking" /\ visit # NoRequest /\ visit.step = "answered"
  BY DEF PagesIInv, VisitInv, Answered, NoRequest
<1>2. b \in Boards /\ Posted(shown, b, listed, price, Steady, present)
  BY <1>1 DEF VisitShape, RankInv, RankOK
<1>3. b.dimension \in Dimensions \/ b.dimension \in Unsourced
  BY <1>2, RequestsAssumption
<1>4. b.dimension \notin Dimensions => shown = <<>> /\ DOMAIN shown = {}
  BY <1>2 DEF Posted
<1>5. BoardOrdered
  <2> SUFFICES ASSUME NEW i \in DOMAIN shown, NEW j \in DOMAIN shown, i < j
               PROVE  IF b.dimension = "session-cost" THEN shown[i].value <= shown[j].value
                      ELSE shown[i].value >= shown[j].value
    BY DEF BoardOrdered
  <2>1. b.dimension \in Dimensions
    BY <1>4
  <2> HIDE DEF b, shown
  <2>2. SourceOf(b.dimension) = "session_cost" <=> b.dimension = "session-cost"
    BY <2>1, SourceIs
  <2>3. IF SourceOf(b.dimension) = "session_cost" THEN Rises(shown) ELSE Falls(shown)
    BY <1>2, <2>1 DEF Posted
  <2> QED BY <2>2, <2>3 DEF Rises, Falls
<1>6. BoardComplete
  <2> DEFINE source == SourceOf(b.dimension)
             known(m) == CASE source = "usage" -> Facts[m].tokens[Period(b.period)] > 0
                           [] source = "session_cost" -> Chargeable(price[m])
                           [] OTHER -> Metric(m, source) # None
  <2> SUFFICES ASSUME b.dimension \notin Unsourced, Cardinality(present) <= RankingCap, NEW m \in Steady
               PROVE  (\E i \in DOMAIN shown : shown[i].id = m)
                        <=> (m \in listed /\ InScope(m, b.scope) /\ known(m))
    BY DEF BoardComplete
  <2>1. b.dimension \in Dimensions /\ m \in ModelIds
    BY <1>3 DEF Steady
  <2>2. m \in Names(shown) <=> \E i \in DOMAIN shown : shown[i].id = m
    BY DEF Names
  <2>3. m \in Names(shown) <=> m \in listed /\ InScope(m, b.scope) /\ Known(m, b, price)
    BY <1>2, <2>1 DEF Posted
  <2>4. Known(m, b, price) <=> known(m)
    <3>1. CASE source = "usage"
      <4>1. Worth(m, b) = Facts[m].tokens[Period(b.period)]
        BY <3>1 DEF Worth
      <4> QED BY <3>1, <4>1 DEF Known
    <3>2. CASE source = "session_cost"
      BY <3>2 DEF Known
    <3>3. CASE source # "usage" /\ source # "session_cost"
      <4>1. Worth(m, b) = Metric(m, source)
        BY <1>2, <2>1, <3>3, WorthIs
      <4> QED BY <3>3, <4>1 DEF Known
    <3> QED BY <3>1, <3>2, <3>3
  <2> QED BY <2>2, <2>3, <2>4
<1> QED BY <1>5, <1>6 DEF BoardIsRanking

-----------------------------------------------------------------------------
(* The theorems.                                                           *)

(* Type correctness: a page never shows more than its limit, a walk never  *)
(* counts more models than there are, and a client only holds cursors that *)
(* encodeCursor could encode.                                              *)
THEOREM PagesTypes == PagesSpec => []PagesTypeOK
  BY PagesInvariant, TypesHold, PTL

(* The pages of GET /models, read with the cursor of the page before, are  *)
(* one listing: whatever ties the order has, whatever sizes of page the    *)
(* client asks for and whatever administrators do to other models between  *)
(* them, a model nobody changed is shown once, in the order asked for with *)
(* the unknown last, and totals agree while nothing changes (ListModels).  *)
THEOREM WalkListsOnce == PagesSpec => []WalkIsOneListing
<1>1. PagesIInv => WalkIsOneListing
  BY TypesHold, WalkHolds DEF WalkIsOneListing, PagesIInv
<1> QED BY <1>1, PagesInvariant, PTL

(* Between the statement that chooses models and the one that loads them   *)
(* models come and go; yet the pages show only models listed since the     *)
(* request arrived, in the chosen order, with none that stayed missing     *)
(* (orderByIDs).  DocsNavigation has one group for a title, and            *)
(* extractHeadings finds exactly the headings outside fences.              *)
THEOREM PagesShow == PagesSpec => []PagesShowWhatWasChosen
<1>1. PagesIInv => PagesShowWhatWasChosen
  BY OnlyListedHolds, OrderHolds, DocsHold DEF PagesShowWhatWasChosen
<1> QED BY <1>1, PagesInvariant, PTL

(* The winners that buildView names are among the results the page of the  *)
(* benchmark shows, and no result on that page beats them.                 *)
THEOREM WinnersShown == PagesSpec => []WinnersAreShown
  BY PagesInvariant, WinnersHold, PTL

(* Ranking answers a board in the order of the values it shows, also when  *)
(* prices change after the models were chosen, shares of a total included, *)
(* and whichever of equal models are cut off; and it leaves out no steady  *)
(* model with data that it can charge for while there is room for all.     *)
THEOREM BoardsRank == PagesSpec => []BoardIsRanking
  BY PagesInvariant, BoardHolds, PTL

=============================================================================
