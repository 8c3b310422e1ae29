--------------------------- MODULE SyncMergeProofs ---------------------------
(***************************************************************************)
(* Theorems about the books of SyncEngine, for any devices, books, clocks, *)
(* pages, writes and faults: every variable keeps its type, and the stored *)
(* balance of a contact is the sum of its live transactions after every    *)
(* local write and every merge; where the merchants edit rows and delete   *)
(* transactions, devices that have pushed and pulled everything show the   *)
(* same books; and the sync implements SyncContract.  A merge is a fold    *)
(* over the entries of a page; MergedInSteps takes it apart and the least  *)
(* step that would break the invariant takes the place of an induction.    *)
(***************************************************************************)
EXTENDS SyncEngineProofs, FiniteSetTheorems

(* --------------------------- the fold of a merge ----------------------- *)

\* A function over parts of 1..n that folds a sequence from its end.
FoldsUp(d, start, seq, n, f) ==
    f = [T \in SUBSET (1..n) |->
            IF T = {} THEN start ELSE ApplyOp(d, f[T \ {Max(T)}], seq[Max(T)])]

\* There is one for every length.
LEMMA FoldExists ==
  ASSUME NEW d, NEW start, NEW seq
  PROVE  \A n \in Nat : \E f : FoldsUp(d, start, seq, n, f)
<1> DEFINE B == {n \in Nat : ~ \E f : FoldsUp(d, start, seq, n, f)}
<1> SUFFICES ASSUME B # {} PROVE FALSE
  OBVIOUS
<1>1. PICK n \in B : \A m \in B : n =< m
  <2>1. B \subseteq Nat
    OBVIOUS
  <2> HIDE DEF B
  <2> QED
    BY <2>1, LeastNatural
<1>2. CASE n = 0
  <2> DEFINE f == [T \in SUBSET (1..0) |-> start]
  <2>1. \A T \in SUBSET (1..0) : T = {}
    OBVIOUS
  <2>2. f = [T \in SUBSET (1..0) |->
               IF T = {} THEN start ELSE ApplyOp(d, f[T \ {Max(T)}], seq[Max(T)])]
    BY <2>1
  <2> QED
    BY <1>1, <1>2, <2>2 DEF FoldsUp
<1>3. CASE n # 0
  <2>1. n - 1 \in Nat /\ n \in Nat
    BY <1>1, <1>3
  <2>2. PICK f : FoldsUp(d, start, seq, n - 1, f)
    BY <1>1, <2>1
  <2> DEFINE g == [T \in SUBSET (1..n) |->
                     IF n \in T THEN ApplyOp(d, f[T \ {n}], seq[n]) ELSE f[T]]
  <2>3. ASSUME NEW T \in SUBSET (1..n)
        PROVE  g[T] = IF T = {} THEN start ELSE ApplyOp(d, g[T \ {Max(T)}], seq[Max(T)])
    <3>1. CASE n \in T
      <4>1. Max(T) = n
        <5>1. T \subseteq 0..n
          OBVIOUS
        <5>2. Max(T) \in T /\ \A y \in T : y =< Max(T)
          BY <2>1, <3>1, <5>1, MaxOfBounded
        <5>3. Max(T) \in 1..n /\ n =< Max(T)
          BY <3>1, <5>2
        <5> QED
          BY <2>1, <5>3
      <4>2. g[T \ {n}] = f[T \ {n}]
        OBVIOUS
      <4> QED
        BY <3>1, <4>1, <4>2
    <3>2. CASE n \notin T
      <4>1. T \in SUBSET (1..n - 1)
        BY <2>1, <3>2
      <4>2. f[T] = IF T = {} THEN start ELSE ApplyOp(d, f[T \ {Max(T)}], seq[Max(T)])
        BY <2>2, <4>1 DEF FoldsUp
      <4>3. g[T \ {Max(T)}] = f[T \ {Max(T)}] /\ g[T] = f[T]
        BY <3>2
      <4> QED
        BY <4>2, <4>3
    <3> QED
      BY <3>1, <3>2
  <2>4. FoldsUp(d, start, seq, n, g)
    BY <2>3 DEF FoldsUp
  <2> QED
    BY <1>1, <2>4
<1> QED
  BY <1>2, <1>3

\* What is merged of a sequence, one entry after the other.
LEMMA MergedInSteps ==
  ASSUME NEW d, NEW start, NEW seq, NEW n \in Nat, DOMAIN seq = 1..n
  PROVE  \E m : /\ m[0] = start
                /\ \A k \in 1..n : m[k] = ApplyOp(d, m[k - 1], seq[k])
                /\ m[n] = ApplyAll(d, start, seq)
<1> DEFINE it == CHOOSE f : FoldsUp(d, start, seq, n, f)
           m == [k \in 0..n |-> it[1..k]]
<1>1. FoldsUp(d, start, seq, n, it)
  BY FoldExists
<1>2. ApplyAll(d, start, seq) = it[1..n]
  BY DEF ApplyAll, FoldLeft, MapThenFoldSet, FoldsUp
<1> HIDE DEF it
<1>3. m[0] = start
  <2>1. it[{}] = start
    BY <1>1 DEF FoldsUp
  <2>2. 1..0 = {}
    OBVIOUS
  <2> QED
    BY <2>1, <2>2
<1>4. ASSUME NEW k \in 1..n PROVE m[k] = ApplyOp(d, m[k - 1], seq[k])
  <2>1. k \in 1..k /\ k \in Nat /\ (1..k) \in SUBSET (1..n) /\ 1..k \subseteq 0..k
    OBVIOUS
  <2>2. Max(1..k) = k
    <3>1. Max(1..k) \in 1..k /\ \A y \in 1..k : y =< Max(1..k)
      BY <2>1, MaxOfBounded
    <3> QED
      BY <2>1, <3>1
  <2>3. (1..k) \ {k} = 1..k - 1
    OBVIOUS
  <2>4. it[1..k] = ApplyOp(d, it[(1..k) \ {k}], seq[k])
    BY <1>1, <2>1, <2>2 DEF FoldsUp
  <2>5. m[k] = it[1..k] /\ m[k - 1] = it[1..k - 1]
    OBVIOUS
  <2> QED
    BY <2>3, <2>4, <2>5
<1>5. m[n] = it[1..n]
  OBVIOUS
<1> QED
  BY <1>2, <1>3, <1>4, <1>5

(* ------------------------- a page in its order ------------------------- *)

\* e lists the numbers of K from below.
Lists(e, m, K) ==
    /\ e \in [1..m -> K]
    /\ \A i, j \in 1..m : i < j => e[i] < e[j]
    /\ \A k \in K : \E i \in 1..m : e[i] = k

\* A bounded set of numbers can be listed.
LEMMA Listed ==
  \A n \in Nat : \A K \in SUBSET (1..n) : \E m \in Nat : \E e : Lists(e, m, K)
<1> DEFINE B == {n \in Nat : \E K \in SUBSET (1..n) : ~ \E m \in Nat : \E e : Lists(e, m, K)}
<1> SUFFICES ASSUME B # {} PROVE FALSE
  OBVIOUS
<1>1. PICK n \in B : \A m \in B : n =< m
  <2>1. B \subseteq Nat
    OBVIOUS
  <2> HIDE DEF B
  <2> QED
    BY <2>1, LeastNatural
<1>2. PICK K \in SUBSET (1..n) : ~ \E m \in Nat : \E e : Lists(e, m, K)
  BY <1>1
<1>3. n \in Nat
  BY <1>1
<1>4. CASE n = 0
  <2> DEFINE e == [i \in 1..0 |-> 0]
  <2>1. K = {}
    BY <1>4
  <2>2. Lists(e, 0, K)
    BY <2>1 DEF Lists
  <2> QED
    BY <1>2, <2>2
<1>5. CASE n # 0
  <2>1. n - 1 \in Nat /\ n - 1 \notin B
    BY <1>1, <1>3, <1>5
  <2>2. K \ {n} \in SUBSET (1..n - 1)
    BY <1>3
  <2>3. PICK m \in Nat : \E e : Lists(e, m, K \ {n})
    BY <2>1, <2>2
  <2>6. PICK e : Lists(e, m, K \ {n})
    BY <2>3
  <2>4. CASE n \notin K
    BY <1>2, <2>3, <2>6, <2>4
  <2>5. CASE n \in K
    <3> DEFINE g == [i \in 1..m + 1 |-> IF i = m + 1 THEN n ELSE e[i]]
    <3>1. g \in [1..m + 1 -> K]
      BY <2>3, <2>6, <2>5 DEF Lists
    <3>2. ASSUME NEW i \in 1..m + 1, NEW j \in 1..m + 1, i < j PROVE g[i] < g[j]
      <4>1. i \in 1..m /\ e[i] \in 1..n - 1
        <5>1. i \in 1..m
          BY <2>3, <2>6, <3>2
        <5>2. e[i] \in K \ {n}
          BY <2>3, <2>6, <5>1 DEF Lists
        <5> QED
          BY <2>2, <5>1, <5>2
      <4>2. CASE j = m + 1
        BY <1>3, <4>1, <4>2
      <4>3. CASE j # m + 1
        BY <2>3, <2>6, <3>2, <4>1, <4>3 DEF Lists
      <4> QED
        BY <4>2, <4>3
    <3>3. ASSUME NEW k \in K PROVE \E i \in 1..m + 1 : g[i] = k
      <4>1. CASE k = n
        BY <2>3, <2>6, <4>1
      <4>2. CASE k # n
        <5>1. PICK i \in 1..m : e[i] = k
          BY <2>3, <2>6, <4>2 DEF Lists
        <5> QED
          BY <2>3, <2>6, <5>1
      <4> QED
        BY <4>1, <4>2
    <3>4. Lists(g, m + 1, K)
      BY <3>1, <3>2, <3>3 DEF Lists
    <3> QED
      BY <1>2, <2>3, <2>6, <3>4
  <2> QED
    BY <2>4, <2>5
<1> QED
  BY <1>4, <1>5

\* The numbers up to n.
LEMMA UpTo ==
  ASSUME NEW n \in Nat
  PROVE  IsFiniteSet(1..n) /\ Cardinality(1..n) = n
<1>1. IsFiniteSet(1..n) /\ Cardinality(1..n) = IF 1 > n THEN 0 ELSE n - 1 + 1
  BY FS_Interval
<1> QED
  BY <1>1

\* The entries of a page in the order of their numbers.
LEMMA PageInOrder ==
  ASSUME NEW n \in Nat, NEW page, \A x \in page : x.seq \in 1..n,
         \A x, y \in page : x.seq = y.seq => x = y
  PROVE  /\ Cardinality(page) \in Nat
         /\ InOrder(page) \in [1..Cardinality(page) -> page]
         /\ \A i, j \in 1..Cardinality(page) : i < j => InOrder(page)[i].seq < InOrder(page)[j].seq
         /\ \A x \in page : \E i \in 1..Cardinality(page) : InOrder(page)[i] = x
<1> DEFINE K == {x.seq : x \in page}
           Of(k) == CHOOSE x \in page : x.seq = k
<1>1. PICK m \in Nat : \E e : Lists(e, m, K)
  BY Listed
<1>10. PICK e : Lists(e, m, K)
  BY <1>1
<1> DEFINE s == [i \in 1..m |-> Of(e[i])]
<1>2. \A k \in K : Of(k) \in page /\ Of(k).seq = k
  OBVIOUS
<1>3. \A i \in 1..m : s[i] \in page /\ s[i].seq = e[i]
  BY <1>1, <1>10, <1>2 DEF Lists
<1>4. \A i, j \in 1..m : i < j => s[i].seq < s[j].seq
  BY <1>1, <1>10, <1>3 DEF Lists
<1>5. ASSUME NEW x \in page PROVE \E i \in 1..m : s[i] = x
  <2>1. PICK i \in 1..m : e[i] = x.seq
    BY <1>1, <1>10 DEF Lists
  <2>2. s[i] \in page /\ s[i].seq = x.seq
    BY <1>3, <2>1
  <2> QED
    BY <2>1, <2>2
<1>6. s \in [1..m -> page]
  BY <1>3
<1> HIDE DEF s, K, Of
<1>7. s \in Bijection(1..m, page)
  <2>1. \A i, j \in 1..m : s[i] = s[j] => i = j
    <3> SUFFICES ASSUME NEW i \in 1..m, NEW j \in 1..m, s[i] = s[j] PROVE i = j
      OBVIOUS
    <3>1. s[i].seq \in 1..n
      BY <1>3
    <3>2. ~(i < j) /\ ~(j < i)
      BY <1>4, <3>1
    <3> QED
      BY <1>1, <1>10, <3>2
  <2>2. \A i, j \in DOMAIN s : s[i] = s[j] => i = j
    BY <1>6, <2>1
  <2>3. s \in Injection(1..m, page)
    BY <1>6, <2>2 DEF Injection, IsInjective
  <2>4. s \in Surjection(1..m, page)
    BY <1>5, <1>6 DEF Surjection
  <2> QED
    BY <2>3, <2>4 DEF Bijection
<1>8. ExistsBijection(1..m, page)
  BY <1>7 DEF ExistsBijection
<1>9. Cardinality(page) = m
  BY <1>1, <1>10, <1>8, FS_CountingElements
<1> DEFINE f == InOrder(page)
<1>11. f \in [1..m -> page] /\ \A i, j \in DOMAIN f : i < j => f[i].seq < f[j].seq
  BY <1>4, <1>6, <1>9 DEF InOrder
<1> HIDE DEF f
<1>12. f \in Surjection(1..m, page)
  <2>1. \A i, j \in DOMAIN f : f[i] = f[j] => i = j
    <3> SUFFICES ASSUME NEW i \in 1..m, NEW j \in 1..m, f[i] = f[j] PROVE i = j
      BY <1>11
    <3>1. f[i].seq \in 1..n
      BY <1>11
    <3>2. ~(i < j) /\ ~(j < i)
      BY <1>11, <3>1
    <3> QED
      BY <1>1, <3>2
  <2>2. f \in Injection(1..m, page)
    BY <1>11, <2>1 DEF Injection, IsInjective
  <2>3. IsFiniteSet(page)
    BY <1>1, <1>8, UpTo, FS_Bijection
  <2>4. Cardinality(1..m) = m
    BY <1>1, UpTo
  <2> QED
    BY <1>9, <2>2, <2>3, <2>4, FS_Injection
<1> QED
  BY <1>1, <1>9, <1>11, <1>12 DEF f, Surjection

(* ----------------------- rows, stamps and sums ------------------------- *)

\* The i-th of n numbers is the largest.
IsLargest(f, n, i) == i \in 1..n /\ \A j \in 1..n : f[j] =< f[i]

\* Numbers that can be listed have a maximum.
LEMMA Largest ==
  \A n \in Nat \ {0} : \A f \in [1..n -> Int] : \E i : IsLargest(f, n, i)
<1> DEFINE B == {n \in Nat \ {0} : \E f \in [1..n -> Int] : ~ \E i : IsLargest(f, n, i)}
<1> SUFFICES ASSUME B # {} PROVE FALSE
  OBVIOUS
<1>1. PICK n \in B : \A m \in B : n =< m
  <2>1. B \subseteq Nat
    OBVIOUS
  <2> HIDE DEF B
  <2> QED
    BY <2>1, LeastNatural
<1>2. PICK f \in [1..n -> Int] : ~ \E i : IsLargest(f, n, i)
  BY <1>1
<1>3. n \in Nat \ {0}
  BY <1>1
<1>4. CASE n = 1
  <2>1. IsLargest(f, n, 1)
    <3>1. \A j \in 1..1 : j = 1
      OBVIOUS
    <3>2. f[1] \in Int
      BY <1>2, <1>4
    <3> QED
      BY <1>4, <3>1, <3>2 DEF IsLargest
  <2> QED
    BY <1>2, <2>1
<1>5. CASE n # 1
  <2>1. n - 1 \in Nat \ {0} /\ n - 1 \notin B
    <3>1. n - 1 \in Nat \ {0} /\ ~(n =< n - 1)
      BY <1>3, <1>5
    <3> HIDE DEF B
    <3> QED
      BY <1>1, <3>1
  <2>2. [j \in 1..n - 1 |-> f[j]] \in [1..n - 1 -> Int]
    BY <1>2, <1>3
  <2>3. PICK i : IsLargest([j \in 1..n - 1 |-> f[j]], n - 1, i)
    BY <2>1, <2>2
  <2>4. i \in 1..n - 1 /\ \A j \in 1..n - 1 : f[j] =< f[i]
    BY <2>3 DEF IsLargest
  <2>5. i \in 1..n /\ n \in 1..n /\ \A j \in 1..n : j = n \/ j \in 1..n - 1
    BY <1>3, <2>4
  <2>6. \A j \in 1..n : f[j] \in Int
    BY <1>2
  <2>7. CASE f[n] =< f[i]
    <3>1. IsLargest(f, n, i)
      BY <2>4, <2>5, <2>6, <2>7 DEF IsLargest
    <3> QED
      BY <1>2, <3>1
  <2>8. CASE f[i] =< f[n]
    <3>1. ASSUME NEW j \in 1..n PROVE f[j] =< f[n]
      <4>1. f[j] \in Int /\ f[i] \in Int /\ f[n] \in Int
        BY <2>5, <2>6
      <4> QED
        BY <2>4, <2>5, <2>8, <4>1
    <3>2. IsLargest(f, n, n)
      BY <2>5, <3>1 DEF IsLargest
    <3> QED
      BY <1>2, <3>2
  <2> QED
    BY <2>5, <2>6, <2>7, <2>8
<1> QED
  BY <1>4, <1>5

\* The later of a time and of times the transactions give is one of them.
LEMMA LatestTime ==
  ASSUME NEW t \in Int, NEW U \in SUBSET Transactions, NEW at, \A x \in U : at[x] \in Int
  PROVE  Max({t} \cup {at[x] : x \in U}) \in Int
<1> DEFINE S == {t} \cup {at[x] : x \in U}
<1>1. IsFiniteSet(U)
  <2>1. U \in SUBSET Entities
    BY DEF Entities
  <2> QED
    BY <2>1, FS_Subset, MergeAssumption
<1>2. PICK n \in Nat : ExistsBijection(1..n, U)
  BY <1>1, FS_NatBijection
<1>3. PICK b : b \in [1..n -> U] /\ \A x \in U : \E i \in 1..n : b[i] = x
  BY <1>2 DEF ExistsBijection, Bijection, Surjection
<1> DEFINE f == [i \in 1..n + 1 |-> IF i = n + 1 THEN t ELSE at[b[i]]]
<1>4. f \in [1..n + 1 -> Int]
  BY <1>3
<1>5. PICK i \in 1..n + 1 : \A j \in 1..n + 1 : f[j] =< f[i]
  <2>1. n + 1 \in Nat \ {0}
    BY <1>2
  <2> HIDE DEF f
  <2> QED
    BY <1>4, <2>1, Largest DEF IsLargest
<1>6. f[i] \in S
  BY <1>3
<1>7. ASSUME NEW y \in S PROVE f[i] >= y
  <2>1. PICK j \in 1..n + 1 : f[j] = y
    <3>1. CASE y = t
      BY <1>2, <3>1
    <3>2. CASE y # t
      <4>1. PICK x \in U : y = at[x]
        BY <3>2
      <4>2. PICK j \in 1..n : b[j] = x
        BY <1>3
      <4> QED
        BY <1>2, <4>1, <4>2
    <3> QED
      BY <3>1, <3>2
  <2>2. f[j] \in Int /\ f[i] \in Int /\ f[j] =< f[i]
    BY <1>4, <1>5
  <2> QED
    BY <2>1, <2>2
<1>8. Max(S) \in S
  BY <1>6, <1>7 DEF Max
<1> QED
  BY <1>8

\* A stored time is a number.
LEMMA StoredTime ==
  ASSUME NEW t \in Int
  PROVE  Stored(t) \in Int
<1>1. Second \in Nat /\ Second > 0
  BY MergeAssumption
<1>2. t \div Second \in Int
  BY <1>1
<1> HIDE DEF Stored
<1> QED
  BY <1>1, <1>2 DEF Stored

\* No other transactions change what a balance sums up.
Changes(old, new, changed) ==
    \A t \in Transactions \ changed : new[t].st = old[t].st /\ new[t].val = old[t].val

\* A change leaves the books of the contacts alone that are not affected.
LEMMA BooksKept ==
  ASSUME NEW old, NEW new, NEW changed, Changes(old, new, changed),
         NEW c \in Contacts \ Affected(changed)
  PROVE  Books(new, c) = Books(old, c)
<1>1. \A t \in Transactions : ContactOf[t] = c => new[t].st = old[t].st /\ new[t].val = old[t].val
  BY DEF Affected, Changes
<1>2. \A t : t \in Transactions \cap Live(new) /\ ContactOf[t] = c <=>
             t \in Transactions \cap Live(old) /\ ContactOf[t] = c
  BY <1>1 DEF Live, Entities
<1> QED
  BY <1>1, <1>2 DEF Books

(* ------------------------- one entry is merged ------------------------- *)

Conflicts ==
    [kind : {"ambiguous", "concurrentCreate", "deleteVsEdit", "rejectedByServer"},
     op : 1..MaxWrites, dev : Devices, ent : Entities]

\* What a merge itself finds: a refusal is the server's to tell.
Found ==
    [kind : {"ambiguous", "concurrentCreate", "deleteVsEdit"},
     op : 1..MaxWrites, dev : Devices, ent : Entities]

\* What a merge carries from one entry to the next.
Carried ==
    [rows : [Entities -> Rows], seen : SUBSET Entries,
     conflicts : SUBSET Found, affected : SUBSET Contacts]

\* Whose books differ from those of s is in r.affected.
Follows(s, r) ==
    /\ r \in Carried
    /\ s.affected \subseteq r.affected
    /\ \A c \in Contacts \ r.affected : Books(r.rows, c) = Books(s.rows, c)

\* Nothing or only a conflict comes of the entry.
LEMMA Stays ==
  ASSUME NEW s \in Carried, NEW op \in Ops,
         NEW kind \in {"ambiguous", "concurrentCreate", "deleteVsEdit"}
  PROVE  Follows(s, s) /\ Follows(s, Surfaced(s, kind, op))
<1> DEFINE x == [kind |-> kind, op |-> op.id, dev |-> op.dev, ent |-> op.ent]
           r == [s EXCEPT !.conflicts = @ \cup {x}]
<1>1. x \in Found
  BY DEF Ops, Found
<1>2. Surfaced(s, kind, op) = r
  BY DEF Surfaced
<1> HIDE DEF x
<1>3. r \in Carried /\ r.affected = s.affected /\ r.rows = s.rows
  BY <1>1 DEF Carried
<1> HIDE DEF r
<1> QED
  BY <1>2, <1>3 DEF Follows

\* The entry changes rows, and the contacts of the transactions among them
\* are affected.
LEMMA Moves ==
  ASSUME NEW s \in Carried, NEW new \in [Entities -> Rows],
         NEW changed, Changes(s.rows, new, changed),
         NEW aff \in SUBSET Contacts, Affected(changed) \subseteq aff
  PROVE  Follows(s, [s EXCEPT !.rows = new, !.affected = @ \cup aff])
<1> DEFINE r == [s EXCEPT !.rows = new, !.affected = @ \cup aff]
<1>1. r \in Carried /\ r.affected = s.affected \cup aff /\ r.rows = new
  BY DEF Carried
<1> HIDE DEF r
<1>2. ASSUME NEW c \in Contacts \ r.affected PROVE Books(r.rows, c) = Books(s.rows, c)
  <2>1. c \in Contacts \ Affected(changed)
    BY <1>1
  <2> QED
    BY <1>1, <2>1, BooksKept
<1>3. Follows(s, r)
  BY <1>1, <1>2 DEF Follows
<1> QED
  BY <1>3 DEF r

\* The affected are contacts.
LEMMA AffectedContacts ==
  ASSUME NEW changed
  PROVE  Affected(changed) \in SUBSET Contacts
BY MergeAssumption DEF Affected

\* Another row for one entity keeps the rows of all others.
LEMMA OneRow ==
  ASSUME NEW old \in [Entities -> Rows], NEW e \in Entities, NEW row \in Rows
  PROVE  /\ [old EXCEPT ![e] = row] \in [Entities -> Rows]
         /\ Changes(old, [old EXCEPT ![e] = row], Transactions \cap {e})
         /\ (e \notin Transactions \/ (row.st = old[e].st /\ row.val = old[e].val)) =>
               Changes(old, [old EXCEPT ![e] = row], {})
BY DEF Changes, Entities

\* A cascade changes what it takes or brings back.
LEMMA Cascades ==
  ASSUME NEW old \in [Entities -> Rows], NEW e \in Entities, NEW stamp \in Int
  PROVE  /\ Sweep(old, e, stamp) \in [Entities -> Rows]
         /\ Changes(old, Sweep(old, e, stamp), Taken(old, e))
         /\ Revive(old, e, stamp) \in [Entities -> Rows]
         /\ Changes(old, Revive(old, e, stamp), BroughtBack(old, e))
<1>1. \A x \in Entities : old[x] \in Rows
  OBVIOUS
<1>2. \A x \in Entities : /\ [old[x] EXCEPT !.st = "dead", !.upd = stamp] \in Rows
                          /\ [old[x] EXCEPT !.st = "live", !.upd = stamp] \in Rows
  BY <1>1 DEF Rows
<1>3. Sweep(old, e, stamp) \in [Entities -> Rows] /\ Revive(old, e, stamp) \in [Entities -> Rows]
  BY <1>1, <1>2 DEF Sweep, Revive
<1>4. \A x \in Entities \ Taken(old, e) : Sweep(old, e, stamp)[x] = old[x]
  BY DEF Sweep
<1>5. \A x \in Entities \ BroughtBack(old, e) : Revive(old, e, stamp)[x] = old[x]
  BY DEF Revive
<1> QED
  BY <1>3, <1>4, <1>5 DEF Changes, Entities

\* The flag of a row is no part of the books.
LEMMA Unarchived ==
  ASSUME NEW old, NEW new \in [Entities -> Rows], NEW changed, Changes(old, new, changed),
         NEW e \in Entities
  PROVE  LET kept == [new EXCEPT ![e].arch = FALSE] IN
         kept \in [Entities -> Rows] /\ Changes(old, kept, changed)
<1> DEFINE row == [new[e] EXCEPT !.arch = FALSE]
           kept == [new EXCEPT ![e] = row]
<1>1. row \in Rows /\ row.st = new[e].st /\ row.val = new[e].val
  BY DEF Rows
<1> HIDE DEF row
<1>2. kept \in [Entities -> Rows] /\ Changes(old, kept, changed)
  BY <1>1 DEF Changes, Entities
<1> QED
  BY <1>2 DEF row

LEMMA CreateFollows ==
  ASSUME NEW d \in Devices, NEW s \in Carried, NEW op \in Ops, NEW at \in Nat
  PROVE  Follows(s, MergeCreate(d, s, op, at))
<1> DEFINE row == NewRow(op.val, at)
           new == [s.rows EXCEPT ![op.ent] = row]
           aff == Affected(Transactions \cap {op.ent})
<1>1. s.rows \in [Entities -> Rows] /\ op.ent \in Entities /\ s.rows[op.ent] \in Rows
  BY DEF Carried, Ops
<1>2. CASE s.rows[op.ent].st = "none"
  <2>1. row \in Rows
    <3>1. Stored(at) \in Int /\ op.val \in [Fields -> Nat]
      BY StoredTime DEF Ops
    <3> QED
      BY <3>1 DEF NewRow, Rows
  <2>2. MergeCreate(d, s, op, at) = [s EXCEPT !.rows = new, !.affected = @ \cup aff]
    BY <1>2 DEF MergeCreate
  <2> HIDE DEF row
  <2>3. new \in [Entities -> Rows] /\ Changes(s.rows, new, Transactions \cap {op.ent})
    BY <1>1, <2>1, OneRow
  <2>4. aff \in SUBSET Contacts /\ Affected(Transactions \cap {op.ent}) \subseteq aff
    BY AffectedContacts
  <2> HIDE DEF new, aff
  <2>5. Follows(s, [s EXCEPT !.rows = new, !.affected = @ \cup aff])
    BY <2>3, <2>4, Moves
  <2> QED
    BY <2>2, <2>5
<1>3. CASE s.rows[op.ent].st # "none"
  BY <1>3, Stays DEF MergeCreate, Entities
<1> QED
  BY <1>2, <1>3

LEMMA UpdateFollows ==
  ASSUME NEW d \in Devices, NEW s \in Carried, NEW op \in Ops, NEW at \in Nat
  PROVE  Follows(s, MergeUpdate(d, s, op, at))
<1> DEFINE old == s.rows[op.ent]
           val == IF RemoteWins(d, s, op, at) THEN op.val ELSE old.val
           upd == ServerOrdered(old.upd, at)
           row == [old EXCEPT !.st = "live", !.val = val, !.upd = upd]
           new == [s.rows EXCEPT ![op.ent] = row]
           aff == IF old.st = "live" /\ op.ent \in Contacts THEN {} ELSE Affected({op.ent})
<1>1. s.rows \in [Entities -> Rows] /\ op.ent \in Entities /\ old \in Rows
  BY DEF Carried, Ops
<1>2. CASE old.st = "none"
  BY <1>2, Stays DEF MergeUpdate
<1>3. CASE old.st # "none"
  <2>1. val \in [Fields -> Nat]
    <3>1. op.val \in [Fields -> Nat] /\ old.val \in [Fields -> Nat]
      BY <1>1 DEF Ops, Rows
    <3> QED
      BY <3>1
  <2>2. upd \in Int
    <3>1. old.upd \in Int /\ Stored(at) \in Int
      BY <1>1, StoredTime DEF Rows
    <3> QED
      BY <3>1 DEF ServerOrdered
  <2>3. MergeUpdate(d, s, op, at) = [s EXCEPT !.rows = new, !.affected = @ \cup aff]
    BY <1>3 DEF MergeUpdate
  <2> HIDE DEF val, upd
  <2>4. row \in Rows
    BY <1>1, <2>1, <2>2 DEF Rows
  <2> HIDE DEF row, old
  <2>5. new \in [Entities -> Rows]
    BY <1>1, <2>4, OneRow
  <2>6. CASE old.st = "live" /\ op.ent \in Contacts
    <3>1. op.ent \notin Transactions
      BY <2>6, MergeAssumption
    <3>2. Changes(s.rows, new, {}) /\ Affected({}) \subseteq aff /\ aff \in SUBSET Contacts
      BY <1>1, <2>4, <2>6, <3>1, OneRow DEF Affected
    <3> HIDE DEF new, aff
    <3>3. Follows(s, [s EXCEPT !.rows = new, !.affected = @ \cup aff])
      BY <2>5, <3>2, Moves
    <3> QED
      BY <2>3, <3>3
  <2>7. CASE ~(old.st = "live" /\ op.ent \in Contacts)
    <3>1. Changes(s.rows, new, Transactions \cap {op.ent})
      BY <1>1, <2>4, OneRow
    <3>2. aff = Affected({op.ent})
      BY <2>7
    <3>3. Affected(Transactions \cap {op.ent}) \subseteq aff /\ aff \in SUBSET Contacts
      BY <3>2, AffectedContacts DEF Affected
    <3> HIDE DEF new, aff
    <3>4. Follows(s, [s EXCEPT !.rows = new, !.affected = @ \cup aff])
      BY <2>5, <3>1, <3>3, Moves
    <3> QED
      BY <2>3, <3>4
  <2> QED
    BY <2>6, <2>7
<1> QED
  BY <1>2, <1>3

LEMMA DeleteFollows ==
  ASSUME NEW s \in Carried, NEW op \in Ops, NEW at \in Nat
  PROVE  Follows(s, MergeDelete(s, op, at))
<1> DEFINE new == Sweep(s.rows, op.ent, Stored(at))
           aff == Affected(Taken(s.rows, op.ent))
<1>1. s.rows \in [Entities -> Rows] /\ op.ent \in Entities /\ s.rows[op.ent].upd \in Int
  BY DEF Carried, Ops, Rows
<1>2. CASE s.rows[op.ent].st # "live"
  BY <1>2, Stays DEF MergeDelete
<1>3. CASE s.rows[op.ent].st = "live" /\ s.rows[op.ent].upd > at
  <2>1. MergeDelete(s, op, at) = Surfaced(s, "deleteVsEdit", op)
    BY <1>1, <1>3 DEF MergeDelete
  <2> QED
    BY <2>1, Stays
<1>4. CASE s.rows[op.ent].st = "live" /\ ~(s.rows[op.ent].upd > at)
  <2>1. MergeDelete(s, op, at) = [s EXCEPT !.rows = new, !.affected = @ \cup aff]
    <3>1. s.rows[op.ent].upd =< at
      BY <1>1, <1>4
    <3> QED
      BY <1>4, <3>1 DEF MergeDelete
  <2>2. new \in [Entities -> Rows] /\ Changes(s.rows, new, Taken(s.rows, op.ent))
    BY <1>1, StoredTime, Cascades
  <2>3. aff \in SUBSET Contacts /\ Affected(Taken(s.rows, op.ent)) \subseteq aff
    BY AffectedContacts
  <2> HIDE DEF new, aff
  <2>4. Follows(s, [s EXCEPT !.rows = new, !.affected = @ \cup aff])
    BY <2>2, <2>3, Moves
  <2> QED
    BY <2>1, <2>4
<1> QED
  BY <1>2, <1>3, <1>4

LEMMA RestoreFollows ==
  ASSUME NEW s \in Carried, NEW op \in Ops, NEW at \in Nat
  PROVE  Follows(s, MergeRestore(s, op, at))
<1> DEFINE new == Revive(s.rows, op.ent, Stored(at))
           aff == Affected(BroughtBack(s.rows, op.ent))
<1>1. /\ s.rows \in [Entities -> Rows] /\ op.ent \in Entities
      /\ s.rows[op.ent].st \in {"none", "live", "dead"}
  BY DEF Carried, Ops, Rows
<1>2. CASE s.rows[op.ent].st \in {"none", "live"}
  BY <1>2, Stays DEF MergeRestore
<1>3. CASE s.rows[op.ent].st = "dead"
  <2>1. MergeRestore(s, op, at) = [s EXCEPT !.rows = new, !.affected = @ \cup aff]
    BY <1>3 DEF MergeRestore
  <2>2. new \in [Entities -> Rows] /\ Changes(s.rows, new, BroughtBack(s.rows, op.ent))
    BY <1>1, StoredTime, Cascades
  <2>3. aff \in SUBSET Contacts /\ Affected(BroughtBack(s.rows, op.ent)) \subseteq aff
    BY AffectedContacts
  <2> HIDE DEF new, aff
  <2>4. Follows(s, [s EXCEPT !.rows = new, !.affected = @ \cup aff])
    BY <2>2, <2>3, Moves
  <2> QED
    BY <2>1, <2>4
<1> QED
  BY <1>1, <1>2, <1>3

\* The flag of a ledger is in no balance.
LEMMA ArchiveFollows ==
  ASSUME NEW s \in Carried, NEW op \in Ops, NEW at \in Nat
  PROVE  Follows(s, MergeArchive(s, op, at))
<1> DEFINE old == s.rows[op.ent]
           upd == ServerOrdered(old.upd, at)
           arch == (op.act = "USER_ARCHIVE")
           row == [old EXCEPT !.arch = arch, !.upd = upd]
           new == [s.rows EXCEPT ![op.ent] = row]
           r == [s EXCEPT !.rows = new]
<1>1. s.rows \in [Entities -> Rows] /\ op.ent \in Entities /\ old \in Rows
  BY DEF Carried, Ops
<1>2. CASE old.st = "none"
  BY <1>2, Stays DEF MergeArchive
<1>3. CASE old.st # "none"
  <2>1. upd \in Int
    <3>1. old.upd \in Int /\ Stored(at) \in Int
      BY <1>1, StoredTime DEF Rows
    <3> QED
      BY <3>1 DEF ServerOrdered
  <2>2. arch \in BOOLEAN
    OBVIOUS
  <2>3. MergeArchive(s, op, at) = r
    BY <1>3 DEF MergeArchive
  <2> HIDE DEF upd, arch
  <2>4. row \in Rows /\ row.st = old.st /\ row.val = old.val
    BY <1>1, <2>1, <2>2 DEF Rows
  <2> HIDE DEF row
  <2>5. new \in [Entities -> Rows] /\ Changes(s.rows, new, {})
    BY <1>1, <2>4, OneRow
  <2> HIDE DEF new
  <2>6. r \in Carried /\ r.affected = s.affected /\ r.rows = new
    BY <2>5 DEF Carried
  <2> HIDE DEF r
  <2>7. \A c \in Contacts : Books(new, c) = Books(s.rows, c)
    BY <2>5, BooksKept DEF Affected
  <2> QED
    BY <2>3, <2>6, <2>7 DEF Follows
<1> QED
  BY <1>2, <1>3

\* Whatever the operation.
LEMMA ApplyFollows ==
  ASSUME NEW d \in Devices, NEW s \in Carried, NEW x \in Entries
  PROVE  Follows(s, ApplyOp(d, s, x))
<1> DEFINE op == x.op
           at == x.at
           merged == CASE op.act = "CREATE"  -> MergeCreate(d, s, op, at)
                       [] op.act = "UPDATE"  -> MergeUpdate(d, s, op, at)
                       [] op.act = "DELETE"  -> MergeDelete(s, op, at)
                       [] op.act = "RESTORE" -> MergeRestore(s, op, at)
                       [] op.act \in {"USER_ARCHIVE", "USER_UNARCHIVE"} -> MergeArchive(s, op, at)
<1>1. op \in Ops /\ at \in Nat /\ op.act \in Actions
  BY DEF Entries, Ops
<1>2. ApplyOp(d, s, x) = IF \E y \in s.seen : y.op.id = op.id THEN s
                         ELSE [merged EXCEPT !.seen = @ \cup {x}]
  BY DEF ApplyOp
<1> HIDE DEF op, at
<1>3. Follows(s, merged)
  <2>1. CASE op.act = "CREATE"
    BY <1>1, <2>1, CreateFollows
  <2>2. CASE op.act = "UPDATE"
    BY <1>1, <2>2, UpdateFollows
  <2>3. CASE op.act = "DELETE"
    BY <1>1, <2>3, DeleteFollows
  <2>4. CASE op.act = "RESTORE"
    BY <1>1, <2>4, RestoreFollows
  <2>5. CASE op.act \in {"USER_ARCHIVE", "USER_UNARCHIVE"}
    BY <1>1, <2>5, ArchiveFollows
  <2> QED
    BY <1>1, <2>1, <2>2, <2>3, <2>4, <2>5 DEF Actions
<1> HIDE DEF merged
<1> DEFINE r == [merged EXCEPT !.seen = @ \cup {x}]
<1>4. r \in Carried /\ r.affected = merged.affected /\ r.rows = merged.rows
  BY <1>3 DEF Follows, Carried
<1> HIDE DEF r
<1>5. Follows(s, r)
  BY <1>3, <1>4 DEF Follows
<1>6. Follows(s, s)
  BY DEF Follows
<1> QED
  BY <1>2, <1>5, <1>6 DEF r

\* A whole page: what it carries at the end follows what it started from.
LEMMA PageFollows ==
  ASSUME NEW d \in Devices, NEW start \in Carried, NEW n \in Nat, NEW seq \in [1..n -> Entries]
  PROVE  Follows(start, ApplyAll(d, start, seq))
<1>1. DOMAIN seq = 1..n
  OBVIOUS
<1>2. PICK m : /\ m[0] = start
               /\ \A k \in 1..n : m[k] = ApplyOp(d, m[k - 1], seq[k])
               /\ m[n] = ApplyAll(d, start, seq)
  BY <1>1, MergedInSteps
<1> DEFINE B == {k \in 0..n : ~ Follows(start, m[k])}
<1>3. B = {}
  <2> SUFFICES ASSUME B # {} PROVE FALSE
    OBVIOUS
  <2>1. PICK k \in B : \A j \in B : k =< j
    <3>1. B \subseteq Nat
      OBVIOUS
    <3> HIDE DEF B
    <3> QED
      BY <3>1, LeastNatural
  <2>2. k \in 0..n /\ ~ Follows(start, m[k])
    BY <2>1
  <2>3. k # 0
    BY <1>2, <2>2 DEF Follows
  <2>4. k \in 1..n /\ k - 1 \in 0..n /\ ~(k =< k - 1)
    BY <2>2, <2>3
  <2>5. Follows(start, m[k - 1])
    <3>1. k - 1 \notin B
      <4> HIDE DEF B
      <4> QED
        BY <2>1, <2>4
    <3> QED
      BY <2>4, <3>1
  <2>6. Follows(m[k - 1], m[k])
    <3>1. m[k - 1] \in Carried /\ seq[k] \in Entries /\ m[k] = ApplyOp(d, m[k - 1], seq[k])
      BY <1>2, <2>4, <2>5 DEF Follows
    <3> QED
      BY <3>1, ApplyFollows
  <2>7. Follows(start, m[k])
    BY <2>5, <2>6 DEF Follows
  <2> QED
    BY <2>2, <2>7
<1>4. Follows(start, m[n])
  BY <1>3
<1> QED
  BY <1>2, <1>4

(* ------------------------- the books of a state ------------------------ *)

ClockOK == now \in Nat /\ writes \in 0..MaxWrites /\ faults \in 0..MaxFaults

OpsOK == Made \subseteq Ops /\ ToSet(log) \subseteq Entries

InboundOK == \A d \in Devices : acked[d] \subseteq 1..MaxWrites /\ conflicts[d] \subseteq Conflicts

TriesOK == \A d \in Devices : cycle[d].tries \in 0..Max({1, MaxAttempts})

RowsOK ==
    /\ rows \in [Devices -> [Entities -> Rows]]
    /\ bal = [d \in Devices |-> bal[d]]
    /\ BalanceIsTheBooks

BooksInv == ClockOK /\ OpsOK /\ InboundOK /\ TriesOK /\ RowsOK

\* The push is tried once at least.
LEMMA TriesBound ==
  LET most == Max({1, MaxAttempts}) IN most \in Nat /\ 1 =< most /\ MaxAttempts =< most
<1> DEFINE S == {1, MaxAttempts}
<1>1. MaxAttempts \in Nat
  BY SyncAssumption
<1>2. MaxAttempts + 1 \in Nat /\ S \subseteq 0..MaxAttempts + 1 /\ S # {}
  BY <1>1
<1>3. Max(S) \in S /\ \A y \in S : y =< Max(S)
  BY <1>2, MaxOfBounded
<1> QED
  BY <1>1, <1>3

\* The time a device writes is a number.
LEMMA LocalTime ==
  ASSUME now \in Nat, NEW d \in Devices
  PROVE  LocalNow(d) \in Int
<1>1. now + 1 + Skew[d] \in Int
  BY SyncAssumption
<1> QED
  BY <1>1, StoredTime DEF LocalNow

\* The rows a device changes, its balances follow.
LEMMA RowsMove ==
  ASSUME RowsOK, NEW d \in Devices, NEW new \in [Entities -> Rows], NEW aff,
         \A c \in Contacts \ aff : Books(new, c) = Books(rows[d], c),
         rows' = [rows EXCEPT ![d] = new],
         bal' = [bal EXCEPT ![d] = Recalculate(bal[d], new, aff)]
  PROVE  RowsOK'
<1>1. /\ rows' \in [Devices -> [Entities -> Rows]]
      /\ bal' = [x \in Devices |-> bal'[x]]
      /\ rows'[d] = new /\ bal'[d] = Recalculate(bal[d], new, aff)
      /\ \A x \in Devices \ {d} : rows'[x] = rows[x] /\ bal'[x] = bal[x]
  BY DEF RowsOK
<1>2. ASSUME NEW x \in Devices, NEW c \in Contacts PROVE bal'[x][c] = Books(rows'[x], c)
  <2>1. bal[x][c] = Books(rows[x], c)
    BY DEF RowsOK, BalanceIsTheBooks
  <2>2. CASE x # d
    BY <1>1, <2>1, <2>2
  <2>3. CASE x = d /\ c \in aff
    BY <1>1, <2>3 DEF Recalculate
  <2>4. CASE x = d /\ c \notin aff
    BY <1>1, <2>1, <2>4 DEF Recalculate
  <2> QED
    BY <2>2, <2>3, <2>4
<1> QED
  BY <1>1, <1>2 DEF RowsOK, BalanceIsTheBooks

\* A local write: the rows, the balances and one more operation.
LEMMA BooksWrite ==
  ASSUME IInv, BooksInv, NEW d \in Devices, NEW e \in Entities,
         NEW act \in Actions, NEW val \in [Fields -> Nat],
         NEW new \in [Entities -> Rows], NEW changed, Changes(rows[d], new, changed),
         Write(d, act, e, val, new, changed)
  PROVE  BooksInv'
<1>1. PICK bad \in BOOLEAN :
        \E q \in Queued(audit[d], [id |-> writes + 1, dev |-> d, ent |-> e, act |-> act,
                                   val |-> val, t |-> LocalNow(d), bad |-> bad]) :
            audit' = [audit EXCEPT ![d] = q]
  BY DEF Write
<1> DEFINE op == [id |-> writes + 1, dev |-> d, ent |-> e, act |-> act,
                  val |-> val, t |-> LocalNow(d), bad |-> bad]
<1>2. PICK i \in 1..Len(audit[d]) + 1 : audit' = [audit EXCEPT ![d] = InsertAt(audit[d], i, op)]
  BY <1>1 DEF Queued
<1>3. /\ writes < MaxWrites /\ writes' = writes + 1 /\ now' = now + 1
      /\ rows' = [rows EXCEPT ![d] = new]
      /\ bal' = [bal EXCEPT ![d] = Recalculate(bal[d], new, Affected(changed))]
      /\ UNCHANGED <<faults, acked, applied, cursor, conflicts, cycle, log, mirror, handlers>>
  BY DEF Write, inbox, server
<1>4. now \in Nat /\ writes \in 0..MaxWrites /\ MaxWrites \in Nat
  BY SyncAssumption DEF BooksInv, ClockOK
<1>5. op \in Ops
  <2>1. writes + 1 \in 1..MaxWrites
    BY <1>3, <1>4
  <2>2. LocalNow(d) \in Int
    BY <1>4, LocalTime
  <2> QED
    BY <2>1, <2>2 DEF Ops
<1> HIDE DEF op
<1>6. /\ audit'[d] = InsertAt(audit[d], i, op) /\ IsSeq(audit[d])
      /\ \A x \in Devices \ {d} : audit'[x] = audit[x]
  BY <1>2 DEF IInv, QueueOK
<1>7. ToSet(audit'[d]) = ToSet(audit[d]) \cup {op}
  BY <1>6, Inserted
<1>8. ASSUME NEW x \in Made' PROVE x \in Ops
  <2>1. PICK y \in Devices : x \in ToSet(audit'[y])
    BY DEF Made
  <2>2. x = op \/ x \in Made
    BY <1>6, <1>7, <2>1 DEF Made
  <2> QED
    BY <1>5, <2>2 DEF BooksInv, OpsOK
<1>9. OpsOK'
  BY <1>3, <1>8 DEF BooksInv, OpsOK
<1>10. ClockOK' /\ InboundOK' /\ TriesOK'
  <2>1. ClockOK'
    BY <1>3, <1>4 DEF BooksInv, ClockOK
  <2>2. InboundOK'
    BY <1>3 DEF BooksInv, InboundOK
  <2>3. TriesOK'
    BY <1>3 DEF BooksInv, TriesOK
  <2> QED
    BY <2>1, <2>2, <2>3
<1>11. RowsOK'
  <2>1. \A c \in Contacts \ Affected(changed) : Books(new, c) = Books(rows[d], c)
    BY BooksKept
  <2> QED
    BY <1>3, <2>1, RowsMove DEF BooksInv
<1> QED
  BY <1>9, <1>10, <1>11 DEF BooksInv

\* Every local write is one.
LEMMA BooksLocal ==
  ASSUME IInv, BooksInv, NEW d \in Devices, LocalWrite(d)
  PROVE  BooksInv'
<1>1. PICK e \in Entities :
        \/ CreateRow(d, e)
        \/ \E f \in Fields : UpdateRow(d, e, f)
        \/ DeleteRow(d, e)
        \/ RestoreRow(d, e)
        \/ \E act \in {"USER_ARCHIVE", "USER_UNARCHIVE"} : ArchiveLedger(d, e, act)
  BY DEF LocalWrite
<1>2. /\ rows[d] \in [Entities -> Rows] /\ rows[d][e] \in Rows
      /\ writes + 1 \in Nat /\ LocalNow(d) \in Int /\ now \in Nat
  BY LocalTime, SyncAssumption DEF BooksInv, RowsOK, ClockOK
<1>3. rows[d][e].val \in [Fields -> Nat] /\ rows[d][e].arch \in BOOLEAN
  BY <1>2 DEF Rows
<1> USE DEF Actions
<1>4. CASE CreateRow(d, e)
  <2> DEFINE val == [f \in Fields |-> writes + 1]
             row == NewRow(val, LocalNow(d))
             new == [rows[d] EXCEPT ![e] = row]
  <2>1. Write(d, "CREATE", e, val, new, {e} \cap Transactions)
    BY <1>4 DEF CreateRow
  <2>2. val \in [Fields -> Nat]
    BY <1>2
  <2> HIDE DEF val
  <2>3. row \in Rows
    <3>1. Stored(LocalNow(d)) \in Int
      BY <1>2, StoredTime
    <3> QED
      BY <2>2, <3>1 DEF NewRow, Rows
  <2> HIDE DEF row
  <2>4. new \in [Entities -> Rows] /\ Changes(rows[d], new, {e} \cap Transactions)
    BY <1>2, <2>3, OneRow DEF Changes
  <2> HIDE DEF new
  <2>5. PICK v \in [Fields -> Nat], n \in [Entities -> Rows] :
          Changes(rows[d], n, {e} \cap Transactions)
          /\ Write(d, "CREATE", e, v, n, {e} \cap Transactions)
    BY <2>1, <2>2, <2>4
  <2> QED
    BY <2>5, BooksWrite
<1>5. CASE \E f \in Fields : UpdateRow(d, e, f)
  <2>1. PICK f \in Fields : UpdateRow(d, e, f)
    BY <1>5
  <2> DEFINE val == [rows[d][e].val EXCEPT ![f] = writes + 1]
             row == [rows[d][e] EXCEPT !.val = val, !.upd = LocalNow(d)]
             new == [rows[d] EXCEPT ![e] = row]
  <2>2. Write(d, "UPDATE", e, val, new, {e} \cap Transactions)
    BY <1>2, <2>1 DEF UpdateRow
  <2>3. val \in [Fields -> Nat]
    BY <1>2, <1>3
  <2> HIDE DEF val
  <2>4. row \in Rows
    BY <1>2, <2>3 DEF Rows
  <2> HIDE DEF row
  <2>5. new \in [Entities -> Rows] /\ Changes(rows[d], new, {e} \cap Transactions)
    BY <1>2, <2>4, OneRow DEF Changes
  <2> HIDE DEF new
  <2>6. PICK v \in [Fields -> Nat], n \in [Entities -> Rows] :
          Changes(rows[d], n, {e} \cap Transactions)
          /\ Write(d, "UPDATE", e, v, n, {e} \cap Transactions)
    BY <2>2, <2>3, <2>5
  <2> QED
    BY <2>6, BooksWrite
<1>6. CASE DeleteRow(d, e)
  <2> DEFINE stamp == DeleteStamp(d, e)
             new == [Sweep(rows[d], e, stamp) EXCEPT ![e].arch = FALSE]
  <2>1. Write(d, "DELETE", e, rows[d][e].val, new, Taken(rows[d], e))
    BY <1>6 DEF DeleteRow
  <2>2. stamp \in Int
    <3> DEFINE U == {u \in Transactions : ContactOf[u] = e /\ rows[d][u].st # "none"}
    <3>1. PICK at : at = [t \in Transactions |-> rows[d][t].upd + Second]
      OBVIOUS
    <3>2. \A x \in U : at[x] \in Int /\ at[x] = rows[d][x].upd + Second
      BY <1>2, <3>1, MergeAssumption DEF Rows, Entities
    <3>3. stamp = Max({LocalNow(d)} \cup {at[x] : x \in U})
      <4>1. {rows[d][x].upd + Second : x \in U} = {at[x] : x \in U}
        BY <3>2
      <4> QED
        BY <4>1 DEF DeleteStamp
    <3>4. PICK t \in Int : t = LocalNow(d)
      BY <1>2
    <3>5. PICK W \in SUBSET Transactions : W = U
      OBVIOUS
    <3> HIDE DEF stamp, new, U
    <3> QED
      BY <3>2, <3>3, <3>4, <3>5, LatestTime
  <2> HIDE DEF stamp
  <2>3. new \in [Entities -> Rows] /\ Changes(rows[d], new, Taken(rows[d], e))
    <3>1. PICK old \in [Entities -> Rows], s \in Int : old = rows[d] /\ s = stamp
      BY <1>2, <2>2
    <3>2. PICK swept \in [Entities -> Rows] :
            swept = Sweep(rows[d], e, stamp) /\ Changes(rows[d], swept, Taken(rows[d], e))
      BY <3>1, Cascades
    <3> QED
      BY <3>2, Unarchived
  <2> HIDE DEF new
  <2>4. PICK v \in [Fields -> Nat], n \in [Entities -> Rows] : \E changed :
          Changes(rows[d], n, changed) /\ Write(d, "DELETE", e, v, n, changed)
    BY <1>3, <2>1, <2>3
  <2>5. PICK changed : Changes(rows[d], n, changed) /\ Write(d, "DELETE", e, v, n, changed)
    BY <2>4
  <2> QED
    BY <2>5, BooksWrite
<1>7. CASE RestoreRow(d, e)
  <2> DEFINE new == [Revive(rows[d], e, LocalNow(d)) EXCEPT ![e].arch = FALSE]
  <2>1. Write(d, "RESTORE", e, rows[d][e].val, new, BroughtBack(rows[d], e))
    BY <1>7 DEF RestoreRow
  <2>2. new \in [Entities -> Rows] /\ Changes(rows[d], new, BroughtBack(rows[d], e))
    <3>1. PICK old \in [Entities -> Rows], s \in Int : old = rows[d] /\ s = LocalNow(d)
      BY <1>2
    <3>2. PICK back \in [Entities -> Rows] :
            /\ back = Revive(rows[d], e, LocalNow(d))
            /\ Changes(rows[d], back, BroughtBack(rows[d], e))
      BY <3>1, Cascades
    <3> QED
      BY <3>2, Unarchived
  <2> HIDE DEF new
  <2>3. PICK v \in [Fields -> Nat], n \in [Entities -> Rows] : \E changed :
          Changes(rows[d], n, changed) /\ Write(d, "RESTORE", e, v, n, changed)
    BY <1>3, <2>1, <2>2
  <2>5. PICK changed : Changes(rows[d], n, changed) /\ Write(d, "RESTORE", e, v, n, changed)
    BY <2>3
  <2> QED
    BY <2>5, BooksWrite
<1>8. CASE \E act \in {"USER_ARCHIVE", "USER_UNARCHIVE"} : ArchiveLedger(d, e, act)
  <2>1. PICK act \in {"USER_ARCHIVE", "USER_UNARCHIVE"} : ArchiveLedger(d, e, act)
    BY <1>8
  <2> DEFINE row == [rows[d][e] EXCEPT !.arch = ~@, !.upd = LocalNow(d)]
             new == [rows[d] EXCEPT ![e] = row]
  <2>2. Write(d, act, e, rows[d][e].val, new, {})
    BY <1>2, <2>1 DEF ArchiveLedger
  <2>3. row \in Rows /\ row.st = rows[d][e].st /\ row.val = rows[d][e].val
    BY <1>2, <1>3 DEF Rows
  <2> HIDE DEF row
  <2>4. new \in [Entities -> Rows] /\ Changes(rows[d], new, {})
    BY <1>2, <2>3, OneRow
  <2> HIDE DEF new
  <2>5. PICK v \in [Fields -> Nat], n \in [Entities -> Rows] :
          Changes(rows[d], n, {}) /\ Write(d, act, e, v, n, {})
    BY <1>3, <2>2, <2>4
  <2> QED
    BY <2>1, <2>5, BooksWrite
<1> QED
  BY <1>1, <1>4, <1>5, <1>6, <1>7, <1>8

\* The log grows by an operation that was made.
LEMMA BooksAppend ==
  ASSUME IInv, BooksInv, NEW h \in handlers, Append1(h)
  PROVE  BooksInv'
<1>1. PICK op \in Upcoming(h) :
        /\ IF Logged(op.id)
           THEN UNCHANGED <<log, now>>
           ELSE /\ log' = Append(log, [op |-> op, seq |-> Len(log) + 1, at |-> now + 1])
                /\ now' = now + 1
        /\ UNCHANGED <<writes, faults, books, outbox, inbox, conflicts, cycle, mirror>>
  BY DEF Append1
<1> DEFINE entry == [op |-> op, seq |-> Len(log) + 1, at |-> now + 1]
<1>2. UNCHANGED <<writes, faults, rows, bal, audit, acked, conflicts, cycle>>
  BY <1>1 DEF books, outbox
<1>3. IsSeq(log) /\ Len(log) \in Nat /\ now \in Nat
  BY DEF IInv, LogOK, IsSeq, BooksInv, ClockOK
<1>4. entry \in Entries
  <2>1. op \in Made
    BY DEF Upcoming, IInv, WorkOK, Handlers0
  <2>2. op \in Ops
    BY <2>1 DEF BooksInv, OpsOK
  <2> QED
    BY <1>3, <2>2 DEF Entries
<1> HIDE DEF entry
<1>5. ToSet(log') \subseteq Entries /\ now' \in Nat
  <2>1. CASE Logged(op.id)
    BY <1>1, <1>3, <2>1 DEF BooksInv, OpsOK
  <2>2. CASE ~Logged(op.id)
    <3>1. log' = Append(log, entry) /\ now' = now + 1
      BY <1>1, <2>2 DEF entry
    <3>2. ToSet(log') = ToSet(log) \cup {entry}
      BY <1>3, <3>1, Appended
    <3> QED
      BY <1>3, <1>4, <3>1, <3>2 DEF BooksInv, OpsOK
  <2> QED
    BY <2>1, <2>2
<1>6. OpsOK'
  BY <1>2, <1>5 DEF BooksInv, OpsOK, Made
<1>7. ClockOK' /\ InboundOK'
  BY <1>2, <1>5 DEF BooksInv, ClockOK, InboundOK
<1>8. TriesOK' /\ RowsOK'
  BY <1>2 DEF BooksInv, TriesOK, RowsOK, BalanceIsTheBooks
<1> QED
  BY <1>6, <1>7, <1>8 DEF BooksInv

\* Steps that leave the books, the log and the queues as they are.
LEMMA BooksStay ==
  ASSUME BooksInv, UNCHANGED <<now, writes, rows, bal, audit, acked, conflicts, log>>,
         faults' \in 0..MaxFaults, TriesOK'
  PROVE  BooksInv'
<1>1. ClockOK' /\ InboundOK'
  BY DEF BooksInv, ClockOK, InboundOK
<1>2. OpsOK'
  BY DEF BooksInv, OpsOK, Made
<1>3. RowsOK'
  BY DEF BooksInv, RowsOK, BalanceIsTheBooks
<1> QED
  BY <1>1, <1>2, <1>3 DEF BooksInv

\* The tries of one device change.
LEMMA TriesChange ==
  ASSUME IInv, BooksInv, NEW d \in Devices, NEW c, cycle' = [cycle EXCEPT ![d] = c],
         c.tries \in 0..Max({1, MaxAttempts})
  PROVE  TriesOK'
<1>1. cycle'[d] = c /\ \A x \in Devices \ {d} : cycle'[x] = cycle[x]
  BY DEF IInv, WorkOK
<1> QED
  BY <1>1 DEF BooksInv, TriesOK

\* A retry is counted.
LEMMA TriesRetry ==
  ASSUME IInv, BooksInv, NEW d \in Devices, NEW rest, Retry(d, rest)
  PROVE  TriesOK'
<1>1. cycle[d].tries \in Nat /\ cycle[d] \in Cycles0
  BY DEF IInv, WorkOK, Cycles0
<1>2. CASE cycle[d].tries < MaxAttempts
  <2> DEFINE c == [cycle[d] EXCEPT !.tries = @ + 1]
  <2>1. cycle' = [cycle EXCEPT ![d] = c]
    BY <1>2 DEF Retry
  <2>2. c.tries = cycle[d].tries + 1
    BY <1>1 DEF Cycles0
  <2>3. c.tries \in 0..Max({1, MaxAttempts})
    <3>1. MaxAttempts \in Nat
      BY SyncAssumption
    <3> QED
      BY <1>1, <1>2, <2>2, <3>1, TriesBound
  <2> HIDE DEF c
  <2>4. PICK x : x = c
    OBVIOUS
  <2> QED
    BY <2>1, <2>3, <2>4, TriesChange
<1>3. CASE ~(cycle[d].tries < MaxAttempts)
  <2>1. cycle' = [cycle EXCEPT ![d] = Idle]
    BY <1>3 DEF Retry
  <2>2. Idle.tries \in 0..Max({1, MaxAttempts})
    BY TriesBound DEF Idle
  <2> QED
    BY <2>1, <2>2, TriesChange
<1> QED
  BY <1>2, <1>3

\* The server, the network and the steps of a cycle that touch no book.
LEMMA BooksCycle ==
  ASSUME IInv, BooksInv, NEW d \in Devices,
         \/ \E kind \in Cycles : StartCycle(d, kind)
         \/ PushFailed(d) \/ AnswerLost(d) \/ PushAnswered(d)
         \/ PullPage(d) \/ RecordPullWatermark(d) \/ CycleDies(d)
  PROVE  BooksInv'
<1>1. faults \in 0..MaxFaults /\ MaxFaults \in Nat
  BY SyncAssumption DEF BooksInv, ClockOK
<1>2. cycle[d] \in Cycles0 /\ cycle[d].tries \in 0..Max({1, MaxAttempts})
  BY DEF IInv, WorkOK, BooksInv, TriesOK
<1>3. Max({1, MaxAttempts}) \in Nat /\ 1 =< Max({1, MaxAttempts})
  BY TriesBound
<1>4. Idle.tries = 0
  BY DEF Idle
<1>5. CASE \E kind \in Cycles : StartCycle(d, kind)
  <2>1. PICK c : cycle' = [cycle EXCEPT ![d] = c] /\ c.tries \in {0, 1}
    <3> DEFINE pull == [Idle EXCEPT !.pc = "pull"]
               push(batch, pulls) ==
                  [Idle EXCEPT !.pc = "push", !.tries = 1, !.batch = batch, !.pulls = pulls]
    <3>1. pull.tries = 0 /\ \A batch, pulls : push(batch, pulls).tries = 1
      BY DEF Idle
    <3>2. \/ cycle' = [cycle EXCEPT ![d] = pull]
          \/ \E batch, pulls : cycle' = [cycle EXCEPT ![d] = push(batch, pulls)]
      BY <1>5 DEF StartCycle
    <3> HIDE DEF pull, push
    <3>3. CASE cycle' = [cycle EXCEPT ![d] = pull]
      BY <3>1, <3>3
    <3>4. CASE \E batch, pulls : cycle' = [cycle EXCEPT ![d] = push(batch, pulls)]
      <4>1. PICK batch, pulls : cycle' = [cycle EXCEPT ![d] = push(batch, pulls)]
        BY <3>4
      <4> QED
        BY <3>1, <4>1
    <3> QED
      BY <3>2, <3>3, <3>4
  <2>2. UNCHANGED <<now, writes, faults, rows, bal, audit, acked, conflicts, log>>
    BY <1>5 DEF StartCycle, books, outbox
  <2>3. c.tries \in 0..Max({1, MaxAttempts})
    BY <1>3, <2>1
  <2> QED
    BY <1>1, <2>1, <2>2, <2>3, TriesChange, BooksStay
<1>6. CASE PushFailed(d)
  <2>1. \E h : Retry(d, handlers \ {h})
    BY <1>6 DEF PushFailed
  <2>2. PICK rest : Retry(d, rest)
    BY <2>1
  <2>3. UNCHANGED <<now, writes, faults, rows, bal, audit, acked, conflicts, log>>
    BY <1>6 DEF PushFailed, books, outbox
  <2> QED
    BY <1>1, <2>2, <2>3, TriesRetry, BooksStay
<1>7. CASE AnswerLost(d)
  <2>1. \E h : Retry(d, (handlers \ {h}) \cup {Lost(h)})
    BY <1>7 DEF AnswerLost
  <2>2. PICK rest : Retry(d, rest)
    BY <2>1
  <2>3. /\ UNCHANGED <<now, writes, rows, bal, audit, acked, conflicts, log>>
        /\ faults < MaxFaults /\ faults' = faults + 1
    BY <1>7 DEF AnswerLost, books, outbox
  <2>4. faults' \in 0..MaxFaults
    BY <1>1, <2>3
  <2> QED
    BY <2>2, <2>3, <2>4, TriesRetry, BooksStay
<1>8. CASE PushAnswered(d)
  <2> DEFINE c == [cycle[d] EXCEPT !.pc = "ack"]
  <2>1. cycle' = [cycle EXCEPT ![d] = c]
    BY <1>8 DEF PushAnswered
  <2>2. c.tries = cycle[d].tries
    BY <1>2 DEF Cycles0
  <2>3. UNCHANGED <<now, writes, faults, rows, bal, audit, acked, conflicts, log>>
    BY <1>8 DEF PushAnswered, books, outbox
  <2> HIDE DEF c
  <2>4. PICK x : x = c
    OBVIOUS
  <2> QED
    BY <1>1, <1>2, <2>1, <2>2, <2>3, <2>4, TriesChange, BooksStay
<1>9. CASE PullPage(d)
  <2>1. PICK c : cycle' = [cycle EXCEPT ![d] = c] /\ c.tries = 0
    <3> DEFINE merge(next, more, page) ==
                 [Idle EXCEPT !.pc = "merge", !.next = next, !.more = more, !.page = page]
    <3>1. \A next, more, page : merge(next, more, page).tries = 0
      BY DEF Idle
    <3>2. \E next, more, page : cycle' = [cycle EXCEPT ![d] = merge(next, more, page)]
      BY <1>9 DEF PullPage, TakePage
    <3> HIDE DEF merge
    <3>3. PICK next, more, page : cycle' = [cycle EXCEPT ![d] = merge(next, more, page)]
      BY <3>2
    <3> QED
      BY <3>1, <3>3
  <2>2. UNCHANGED <<now, writes, faults, rows, bal, audit, acked, conflicts, log>>
    BY <1>9 DEF PullPage, TakePage, books, outbox, server
  <2>3. c.tries \in 0..Max({1, MaxAttempts})
    BY <1>3, <2>1
  <2> QED
    BY <1>1, <2>1, <2>2, <2>3, TriesChange, BooksStay
<1>10. CASE RecordPullWatermark(d)
  <2>1. PICK c : cycle' = [cycle EXCEPT ![d] = c] /\ c.tries = 0
    <3> DEFINE pull == [Idle EXCEPT !.pc = "pull"]
    <3>1. pull.tries = 0
      BY DEF Idle
    <3>2. cycle' = [cycle EXCEPT ![d] = pull] \/ cycle' = [cycle EXCEPT ![d] = Idle]
      BY <1>10 DEF RecordPullWatermark
    <3> HIDE DEF pull
    <3> QED
      BY <1>4, <3>1, <3>2
  <2>2. UNCHANGED <<now, writes, faults, rows, bal, audit, acked, conflicts, log>>
    BY <1>10 DEF RecordPullWatermark, books, outbox, server
  <2>3. c.tries \in 0..Max({1, MaxAttempts})
    BY <1>3, <2>1
  <2> QED
    BY <1>1, <2>1, <2>2, <2>3, TriesChange, BooksStay
<1>11. CASE CycleDies(d)
  <2>1. cycle' = [cycle EXCEPT ![d] = Idle]
    BY <1>11 DEF CycleDies
  <2>2. /\ UNCHANGED <<now, writes, rows, bal, audit, acked, conflicts, log>>
        /\ faults < MaxFaults /\ faults' = faults + 1
    BY <1>11 DEF CycleDies, books, outbox
  <2>3. faults' \in 0..MaxFaults /\ Idle.tries \in 0..Max({1, MaxAttempts})
    BY <1>1, <1>3, <1>4, <2>2
  <2> QED
    BY <2>1, <2>2, <2>3, TriesChange, BooksStay
<1> QED
  BY <1>5, <1>6, <1>7, <1>8, <1>9, <1>10, <1>11

\* A handler's other steps.
LEMMA BooksHandler ==
  ASSUME BooksInv, NEW h, Project(h) \/ Unheard(h) \/ HandlerDies(h)
  PROVE  BooksInv'
<1>1. UNCHANGED <<now, writes, rows, bal, audit, acked, conflicts, log, cycle>>
  BY DEF Project, Unheard, HandlerDies, books, outbox
<1>2. faults' = faults \/ (faults < MaxFaults /\ faults' = faults + 1)
  BY DEF Project, Unheard, HandlerDies
<1>3. faults' \in 0..MaxFaults
  BY <1>2, SyncAssumption DEF BooksInv, ClockOK
<1>4. TriesOK'
  BY <1>1 DEF BooksInv, TriesOK
<1> QED
  BY <1>1, <1>3, <1>4, BooksStay

\* What the server answered is booked: ids of operations that were made.
LEMMA BooksAnswer ==
  ASSUME IInv, BooksInv, NEW d \in Devices, RecordAcks(d) \/ RecordRejections(d)
  PROVE  BooksInv'
<1>1. cycle[d] \in Cycles0
  BY DEF IInv, WorkOK
<1>2. \A op \in cycle[d].batch : op \in Ops
  BY <1>1 DEF Cycles0, BooksInv, OpsOK
<1>3. Accepted(d) \subseteq cycle[d].batch /\ RefusedOps(d) \subseteq cycle[d].batch
  BY DEF Accepted, RefusedOps
<1>4. \A op \in Accepted(d) \cup RefusedOps(d) : op.id \in 1..MaxWrites /\ op.ent \in Entities
  BY <1>2, <1>3 DEF Ops
<1>5. UNCHANGED <<now, writes, faults, rows, bal, audit, log>>
  BY DEF RecordAcks, RecordRejections, books, server
<1>6. InboundOK'
  <2>1. acked = [x \in Devices |-> acked[x]] /\ conflicts = [x \in Devices |-> conflicts[x]]
    BY DEF IInv, QueueOK, SettledOK
  <2>2. CASE RecordAcks(d)
    <3>1. /\ acked'[d] = acked[d] \cup {op.id : op \in Accepted(d)}
          /\ \A x \in Devices \ {d} : acked'[x] = acked[x]
          /\ conflicts' = conflicts
      BY <2>1, <2>2 DEF RecordAcks
    <3> QED
      BY <1>4, <3>1 DEF BooksInv, InboundOK
  <2>3. CASE RecordRejections(d)
    <3> DEFINE filed(op) == [kind |-> "rejectedByServer", op |-> op.id, dev |-> d, ent |-> op.ent]
    <3>1. /\ acked'[d] = acked[d] \cup {op.id : op \in RefusedOps(d)}
          /\ conflicts'[d] = conflicts[d] \cup {filed(op) : op \in RefusedOps(d)}
          /\ \A x \in Devices \ {d} : acked'[x] = acked[x] /\ conflicts'[x] = conflicts[x]
      BY <2>1, <2>3 DEF RecordRejections
    <3>2. \A op \in RefusedOps(d) : filed(op) \in Conflicts
      BY <1>4 DEF Conflicts
    <3> HIDE DEF filed
    <3>3. acked'[d] \subseteq 1..MaxWrites /\ conflicts'[d] \subseteq Conflicts
      BY <1>4, <3>1, <3>2 DEF BooksInv, InboundOK
    <3> QED
      BY <3>1, <3>3 DEF BooksInv, InboundOK
  <2> QED
    BY <2>2, <2>3
<1>7. TriesOK'
  <2> DEFINE refused == [cycle[d] EXCEPT !.pc = "quarantine"]
             after == AfterPush(d)
  <2>1. cycle' = [cycle EXCEPT ![d] = refused] \/ cycle' = [cycle EXCEPT ![d] = after]
    BY DEF RecordAcks, RecordRejections
  <2>2. after.tries = 0 /\ refused.tries = cycle[d].tries
    BY <1>1 DEF AfterPush, Idle, Cycles0
  <2> HIDE DEF refused, after
  <2>3. PICK c : cycle' = [cycle EXCEPT ![d] = c] /\ c.tries \in {0, cycle[d].tries}
    BY <2>1, <2>2
  <2>4. c.tries \in 0..Max({1, MaxAttempts})
    BY <2>3, TriesBound DEF BooksInv, TriesOK
  <2> QED
    BY <2>3, <2>4, TriesChange
<1>8. ClockOK' /\ OpsOK'
  BY <1>5 DEF BooksInv, ClockOK, OpsOK, Made
<1>9. RowsOK'
  BY <1>5 DEF BooksInv, RowsOK, BalanceIsTheBooks
<1> QED
  BY <1>6, <1>7, <1>8, <1>9 DEF BooksInv

\* The page of a cycle, merged by its numbers.
LEMMA PageMerges ==
  ASSUME IInv, BooksInv, NEW d \in Devices,
         NEW start, start = [rows |-> rows[d], seen |-> applied[d], conflicts |-> {}, affected |-> {}],
         NEW merged, merged = ApplyAll(d, start, InOrder(cycle[d].page))
  PROVE  Follows(start, merged)
<1>1. PICK page : page = cycle[d].page
  OBVIOUS
<1>2. cycle[d] \in Cycles0
  BY DEF IInv, WorkOK
<1>3. page \subseteq ToSet(log) /\ ToSet(log) \subseteq Entries
  BY <1>1, <1>2 DEF Cycles0, BooksInv, OpsOK
<1>4. start \in Carried
  <2>1. rows[d] \in [Entities -> Rows] /\ applied[d] \subseteq Entries
    BY <1>3 DEF BooksInv, RowsOK, IInv, InboxOK
  <2> QED
    BY <2>1 DEF Carried
<1>5. Len(log) \in Nat /\ DOMAIN log = 1..Len(log)
  BY DEF IInv, LogOK, IsSeq
<1>6. \A x \in page : \E k \in 1..Len(log) : x = log[k] /\ x.seq = k
  BY <1>3, <1>5, SMTT(20) DEF ToSet, IInv, LogOK
<1>7. PICK n \in Nat : n = Len(log)
  BY <1>5
<1>8. \A x \in page : x.seq \in 1..n
  BY <1>6, <1>7
<1>9. \A x, y \in page : x.seq = y.seq => x = y
  BY <1>6
<1>10. Cardinality(page) \in Nat /\ InOrder(page) \in [1..Cardinality(page) -> page]
  BY <1>8, <1>9, PageInOrder
<1>11. InOrder(page) \in [1..Cardinality(page) -> Entries]
  BY <1>3, <1>10
<1> QED
  BY <1>1, <1>4, <1>10, <1>11, PageFollows

\* A merge: the balances follow the rows, whatever the page holds.
LEMMA BooksMerge ==
  ASSUME IInv, BooksInv, NEW d \in Devices, Merge(d)
  PROVE  BooksInv'
<1>1. PICK start : start = [rows |-> rows[d], seen |-> applied[d], conflicts |-> {}, affected |-> {}]
  OBVIOUS
<1>2. PICK merged : merged = ApplyAll(d, start, InOrder(cycle[d].page))
  OBVIOUS
<1>3. /\ rows' = [rows EXCEPT ![d] = merged.rows]
      /\ conflicts' = [conflicts EXCEPT ![d] = @ \cup merged.conflicts]
      /\ bal' = [bal EXCEPT ![d] = Recalculate(bal[d], merged.rows, merged.affected)]
      /\ cycle' = [cycle EXCEPT ![d].pc = "mark", ![d].page = {}]
      /\ UNCHANGED <<now, writes, faults, audit, acked, log>>
  BY <1>1, <1>2 DEF Merge, outbox, server
<1>4. cycle[d] \in Cycles0 /\ cycle \in [Devices -> Cycles0]
  BY DEF IInv, WorkOK
<1>5. Follows(start, merged)
  BY <1>1, <1>2, PageMerges
<1>6. /\ merged.rows \in [Entities -> Rows] /\ merged.conflicts \subseteq Conflicts
      /\ \A c \in Contacts \ merged.affected : Books(merged.rows, c) = Books(rows[d], c)
  <2>1. Found \subseteq Conflicts
    BY DEF Found, Conflicts
  <2> QED
    BY <1>1, <1>5, <2>1 DEF Follows, Carried
<1>7. RowsOK'
  <2>1. PICK new \in [Entities -> Rows] : new = merged.rows
    BY <1>6
  <2>2. PICK aff : aff = merged.affected
    OBVIOUS
  <2> QED
    BY <1>3, <1>6, <2>1, <2>2, RowsMove DEF BooksInv
<1>8. InboundOK'
  <2>1. /\ conflicts'[d] = conflicts[d] \cup merged.conflicts
        /\ \A x \in Devices \ {d} : conflicts'[x] = conflicts[x]
    BY <1>3 DEF IInv, SettledOK
  <2> QED
    BY <1>3, <1>6, <2>1 DEF BooksInv, InboundOK
<1>9. TriesOK'
  <2>1. \A x \in Devices : cycle'[x].tries = cycle[x].tries
    BY <1>3, <1>4 DEF Cycles0
  <2> QED
    BY <2>1 DEF BooksInv, TriesOK
<1>10. ClockOK' /\ OpsOK'
  BY <1>3 DEF BooksInv, ClockOK, OpsOK, Made
<1> QED
  BY <1>7, <1>8, <1>9, <1>10 DEF BooksInv

\* The invariant holds at the start.
LEMMA BooksInit == Init => BooksInv
<1> SUFFICES ASSUME Init PROVE BooksInv
  OBVIOUS
<1>1. ClockOK
  BY SyncAssumption DEF Init, ClockOK
<1>2. OpsOK
  BY DEF Init, OpsOK, Made, ToSet
<1>3. InboundOK
  BY DEF Init, InboundOK
<1>4. TriesOK
  BY TriesBound DEF Init, TriesOK, Idle
<1>5. RowsOK
  <2>1. ASSUME NEW e \in Entities
        PROVE  [st |-> IF e \in Shared THEN "live" ELSE "none", val |-> [f \in Fields |-> 0],
                upd |-> 0, arch |-> FALSE] \in Rows
    BY DEF Rows
  <2>2. rows \in [Devices -> [Entities -> Rows]]
    BY <2>1 DEF Init
  <2>3. bal = [d \in Devices |-> [c \in Contacts |-> Books(rows[d], c)]]
    BY DEF Init
  <2> QED
    BY <2>2, <2>3 DEF RowsOK, BalanceIsTheBooks
<1> QED
  BY <1>1, <1>2, <1>3, <1>4, <1>5 DEF BooksInv

\* The invariant holds after every step.
LEMMA BooksNext == IInv /\ BooksInv /\ [Next]_vars => BooksInv'
<1> SUFFICES ASSUME IInv, BooksInv, [Next]_vars PROVE BooksInv'
  OBVIOUS
<1>1. ASSUME NEW d \in Devices, LocalWrite(d) PROVE BooksInv'
  BY <1>1, BooksLocal
<1>2. ASSUME NEW d \in Devices, NEW kind \in Cycles, StartCycle(d, kind) PROVE BooksInv'
  BY <1>2, BooksCycle
<1>3. ASSUME NEW d \in Devices, CycleStep(d) PROVE BooksInv'
  BY <1>3, BooksCycle, BooksAnswer, BooksMerge DEF CycleStep
<1>4. ASSUME NEW h \in handlers, ServerStep(h) PROVE BooksInv'
  BY <1>4, BooksAppend, BooksHandler DEF ServerStep
<1>5. ASSUME Fault PROVE BooksInv'
  BY <1>5, BooksCycle, BooksHandler DEF Fault
<1>6. CASE UNCHANGED vars
  <2>1. UNCHANGED <<now, writes, faults, rows, bal, audit, acked, conflicts, log, cycle>>
    BY <1>6 DEF vars, books, outbox, server
  <2>2. faults' \in 0..MaxFaults /\ TriesOK'
    BY <2>1 DEF BooksInv, ClockOK, TriesOK
  <2> QED
    BY <2>1, <2>2, BooksStay
<1> QED
  BY <1>1, <1>2, <1>3, <1>4, <1>5, <1>6 DEF Next

\* They give every variable its type.
LEMMA TypesHold == IInv /\ BooksInv => TypeOK
<1> SUFFICES ASSUME IInv, BooksInv PROVE TypeOK
  OBVIOUS
<1>1. now \in Nat /\ writes \in 0..MaxWrites /\ faults \in 0..MaxFaults
  BY DEF BooksInv, ClockOK
<1>2. rows \in [Devices -> [Entities -> Rows]]
  BY DEF BooksInv, RowsOK
<1>3. ASSUME NEW d \in Devices, NEW c \in Contacts
      PROVE  bal[d][c] \subseteq (Transactions \X [Fields -> Nat])
  <2>1. bal[d][c] = Books(rows[d], c)
    BY DEF BooksInv, RowsOK, BalanceIsTheBooks
  <2>2. \A t \in Transactions : rows[d][t].val \in [Fields -> Nat]
    BY <1>2 DEF Rows, Entities
  <2> QED
    BY <2>1, <2>2 DEF Books
<1>4. ASSUME NEW d \in Devices
      PROVE  /\ audit[d] \in Seq(Ops)
             /\ acked[d] \subseteq 1..MaxWrites
             /\ applied[d] \subseteq Entries
             /\ cursor[d] \in Nat
             /\ conflicts[d] \subseteq Conflicts
  <2>1. ToSet(audit[d]) \subseteq Ops /\ IsSeq(audit[d])
    BY DEF BooksInv, OpsOK, Made, IInv, QueueOK
  <2>2. audit[d] \in Seq(Ops)
    BY <2>1 DEF IsSeq
  <2>3. applied[d] \subseteq Entries /\ cursor[d] \in Nat
    BY DEF BooksInv, OpsOK, IInv, InboxOK, LogOK, IsSeq
  <2> QED
    BY <2>2, <2>3 DEF BooksInv, InboundOK
<1>5. ASSUME NEW d \in Devices
      PROVE  cycle[d] \in [pc : {"idle", "push", "ack", "quarantine", "pull", "merge", "mark"},
                           tries : 0..Max({1, MaxAttempts}), batch : SUBSET Ops, pulls : BOOLEAN,
                           page : SUBSET Entries, next : Nat, more : BOOLEAN]
  <2>1. cycle[d] \in Cycles0 /\ cycle[d].tries \in 0..Max({1, MaxAttempts})
    BY DEF IInv, WorkOK, BooksInv, TriesOK
  <2>2. Made \subseteq Ops /\ ToSet(log) \subseteq Entries /\ Len(log) \in Nat
    BY DEF BooksInv, OpsOK, IInv, LogOK, IsSeq
  <2> QED
    BY <2>1, <2>2 DEF Cycles0
<1>6. log \in Seq(Entries)
  BY DEF BooksInv, OpsOK, IInv, LogOK, IsSeq
<1>7. /\ mirror \in [Entities -> [there : BOOLEAN, arch : BOOLEAN, seq : Nat]]
      /\ handlers \subseteq [dev : Devices, left : SUBSET Ops, doing : SUBSET Ops,
                             failed : BOOLEAN, heard : BOOLEAN, lost : 0..MaxFaults]
  BY DEF IInv, MirrorOK, WorkOK, Handlers0, BooksInv, OpsOK
<1> QED
  BY <1>1, <1>2, <1>3, <1>4, <1>5, <1>6, <1>7 DEF TypeOK, Conflicts

\* Both invariants hold of every state of every behaviour.
LEMMA BooksAlways == Spec => [](IInv /\ BooksInv)
<1>1. Init => IInv /\ BooksInv
  BY InvInit, BooksInit
<1>2. IInv /\ BooksInv /\ [Next]_vars => (IInv /\ BooksInv)'
  BY InvNext, BooksNext DEF BooksInv, ClockOK, FaultsOK
<1> QED
  BY <1>1, <1>2, PTL DEF Spec

\* The stored balance of a contact is the sum of its live transactions after
\* every local write and every merge, for any books, clocks and pages: the
\* cascades and the merge engine name every contact whose books they change.
THEOREM BalanceCorrect == Spec => []BalanceIsTheBooks
<1>1. IInv /\ BooksInv => BalanceIsTheBooks
  BY DEF BooksInv, RowsOK
<1> QED
  BY <1>1, BooksAlways, PTL

\* Every variable keeps its type, also through the merge of any page.
THEOREM TypeCorrect == Spec => []TypeOK
BY BooksAlways, TypesHold, PTL

(* ----------------------------- convergence ----------------------------- *)

\* The merchants edit rows and delete transactions, the server refuses
\* nothing, and no clock is ahead.
EditsAndDeletes ==
    /\ Menu \subseteq ({"UPDATE"} \X Entities) \cup ({"DELETE"} \X Transactions)
    /\ CanRefuse = FALSE
    /\ \A d \in Devices : Skew[d] =< 0

\* One of a device's own operations on e has not come back to it.
Open(ops, seen, e) == \E op \in ops : op.ent = e /\ \A x \in seen : x.op # op

\* A row bears no time but that of an entry merged or of an own operation.
Dated(row, e, ops, seen) ==
    \/ row.upd =< 0
    \/ \E x \in seen : x.op.ent = e /\ row.upd =< x.at
    \/ \E op \in ops : op.ent = e /\ row.upd =< op.t

IsLast(x, e, seen) ==
    x \in seen /\ x.op.ent = e /\ \A y \in seen : y.op.ent = e => y.seq =< x.seq

\* The row of e is as the last entry merged has it, or as at the start.
AsLeft(row, e, seen) ==
    /\ (\A x \in seen : x.op.ent # e) => row.st = "live"
    /\ \A x \in seen : IsLast(x, e, seen) =>
          /\ row.st = "live" <=> x.op.act = "UPDATE"
          /\ x.op.act = "UPDATE" => row.val = x.op.val

RowSettled(row, e, ops, seen) ==
    /\ row.st = "none" <=> e \notin Shared
    /\ Dated(row, e, ops, seen)
    /\ e \in Shared /\ ~Open(ops, seen, e) => AsLeft(row, e, seen)

Settled(table, ops, seen) == \A e \in Entities : RowSettled(table[e], e, ops, seen)

\* An edit or a delete that was made before it was logged.
Timely(x) ==
    /\ x.op.act = "UPDATE" \/ (x.op.act = "DELETE" /\ x.op.ent \in Transactions)
    /\ x.op.ent \in Shared
    /\ 0 < x.at /\ x.op.t < x.at

\* The entry x comes after all of seen.
Comes(x, seen) == \A y \in seen : Timely(y) /\ y.at < x.at /\ y.seq < x.seq

\* Once all own operations on a row have come back, the row is older than the
\* next entry.
LEMMA InTime ==
  ASSUME NEW row \in Rows, NEW ops \in SUBSET Ops, NEW seen \in SUBSET Entries,
         NEW x \in Entries, Timely(x), Comes(x, seen),
         Dated(row, x.op.ent, ops, seen), ~Open(ops, seen \cup {x}, x.op.ent)
  PROVE  row.upd < x.at
<1>1. /\ row.upd \in Int /\ x.at \in Nat
      /\ \A y \in seen : y.at \in Nat
      /\ \A op \in ops : op.t \in Int
  BY DEF Rows, Entries, Ops
<1>2. CASE row.upd =< 0
  BY <1>1, <1>2 DEF Timely
<1>3. CASE \E y \in seen : y.op.ent = x.op.ent /\ row.upd =< y.at
  BY <1>1, <1>3 DEF Comes
<1>4. CASE \E op \in ops : op.ent = x.op.ent /\ row.upd =< op.t
  <2>1. PICK op \in ops : op.ent = x.op.ent /\ row.upd =< op.t
    BY <1>4
  <2>2. PICK y \in seen \cup {x} : y.op = op
    BY <2>1 DEF Open
  <2>3. op.t < y.at /\ y.at =< x.at
    BY <1>1, <2>2 DEF Comes, Timely
  <2> QED
    BY <1>1, <2>1, <2>2, <2>3
<1> QED
  BY <1>2, <1>3, <1>4 DEF Dated

\* Of an entry that comes after all others, only the row it names changes its
\* standing.
LEMMA OthersSettled ==
  ASSUME NEW row, NEW e, NEW ops, NEW seen, NEW x, e # x.op.ent,
         RowSettled(row, e, ops, seen)
  PROVE  RowSettled(row, e, ops, seen \cup {x})
<1>1. Open(ops, seen \cup {x}, e) <=> Open(ops, seen, e)
  BY DEF Open
<1>2. Dated(row, e, ops, seen \cup {x})
  BY DEF RowSettled, Dated
<1>3. AsLeft(row, e, seen) => AsLeft(row, e, seen \cup {x})
  BY DEF AsLeft, IsLast
<1> QED
  BY <1>1, <1>2, <1>3 DEF RowSettled

\* The row it names: live with the value of an edit, not live after a delete.
LEMMA NamedSettled ==
  ASSUME NEW row \in Rows, NEW new \in Rows, NEW ops \in SUBSET Ops, NEW seen \in SUBSET Entries,
         NEW x \in Entries, Timely(x), Comes(x, seen),
         RowSettled(row, x.op.ent, ops, seen),
         new.st # "none", new.upd = row.upd \/ new.upd =< x.at,
         row.upd < x.at =>
            /\ new.st = "live" <=> x.op.act = "UPDATE"
            /\ x.op.act = "UPDATE" => new.val = x.op.val
  PROVE  RowSettled(new, x.op.ent, ops, seen \cup {x})
<1> DEFINE e == x.op.ent
<1>1. Dated(new, e, ops, seen \cup {x})
  BY DEF RowSettled, Dated
<1>2. ASSUME ~Open(ops, seen \cup {x}, e) PROVE AsLeft(new, e, seen \cup {x})
  <2>1. row.upd < x.at
    BY <1>2, InTime DEF RowSettled
  <2>2. ASSUME NEW y \in seen \cup {x}, IsLast(y, e, seen \cup {x}) PROVE y = x
    <3>1. x.seq =< y.seq
      BY <2>2 DEF IsLast
    <3>2. \A z \in seen : z.seq < x.seq /\ z.seq \in Nat /\ x.seq \in Nat
      BY DEF Comes, Entries
    <3> QED
      BY <3>1, <3>2
  <2> QED
    BY <2>1, <2>2 DEF AsLeft
<1>3. e \in Shared
  BY DEF Timely
<1> QED
  BY <1>1, <1>2, <1>3 DEF RowSettled

\* Whole seconds are not later than the time they come from.
LEMMA StoredIsNotLater ==
  ASSUME NEW t \in Int
  PROVE  Stored(t) =< t
<1>1. \A s \in Nat \ {0} : (t \div s) * s =< t
  BY SMT
<1> QED
  BY <1>1, MergeAssumption DEF Stored

\* A merge of an entry that comes after all others settles every row.
LEMMA EntrySettles ==
  ASSUME NEW d \in Devices, NEW s \in Carried, NEW ops \in SUBSET Ops,
         NEW x \in Entries, Timely(x), Comes(x, s.seen),
         \A y \in s.seen : y.op.id # x.op.id,
         Settled(s.rows, ops, s.seen)
  PROVE  /\ ApplyOp(d, s, x).seen = s.seen \cup {x}
         /\ Settled(ApplyOp(d, s, x).rows, ops, s.seen \cup {x})
<1> DEFINE e == x.op.ent
           row == s.rows[e]
           merged == IF x.op.act = "UPDATE" THEN MergeUpdate(d, s, x.op, x.at)
                     ELSE MergeDelete(s, x.op, x.at)
<1>1. /\ x.op \in Ops /\ x.at \in Nat /\ e \in Entities /\ x.op.val \in [Fields -> Nat]
      /\ s.rows \in [Entities -> Rows] /\ s.seen \in SUBSET Entries /\ row \in Rows
  BY DEF Carried, Entries, Ops
<1>2. row.upd \in Int /\ row.st \in {"live", "dead"} /\ RowSettled(row, e, ops, s.seen)
  <2>1. RowSettled(row, e, ops, s.seen)
    BY <1>1 DEF Settled
  <2> QED
    BY <1>1, <2>1 DEF RowSettled, Timely, Rows
<1>3. Stored(x.at) \in Int /\ Stored(x.at) =< x.at
  BY <1>1, StoredTime, StoredIsNotLater
<1>4. ApplyOp(d, s, x) = [merged EXCEPT !.seen = @ \cup {x}]
  <2>1. CASE x.op.act = "UPDATE"
    BY <2>1 DEF ApplyOp
  <2>2. CASE x.op.act = "DELETE"
    BY <2>2 DEF ApplyOp
  <2> QED
    BY <2>1, <2>2 DEF Timely
<1>5. /\ merged \in Carried /\ merged.seen = s.seen
      /\ \A f \in Entities \ {e} : merged.rows[f] = s.rows[f]
      /\ merged.rows[e].st # "none"
      /\ merged.rows[e].upd = row.upd \/ merged.rows[e].upd =< x.at
      /\ row.upd < x.at =>
            /\ merged.rows[e].st = "live" <=> x.op.act = "UPDATE"
            /\ x.op.act = "UPDATE" => merged.rows[e].val = x.op.val
  <2>1. CASE x.op.act = "UPDATE"
    <3>1. merged = MergeUpdate(d, s, x.op, x.at)
      BY <2>1
    <3>2. merged \in Carried
      BY <1>1, <3>1, UpdateFollows DEF Follows
    <3> DEFINE new == [row EXCEPT !.st = "live",
                                  !.val = IF RemoteWins(d, s, x.op, x.at) THEN x.op.val ELSE @,
                                  !.upd = ServerOrdered(@, x.at)]
    <3>3. merged.seen = s.seen /\ merged.rows = [s.rows EXCEPT ![e] = new]
      BY <1>2, <3>1 DEF MergeUpdate, Carried
    <3>4. merged.rows[e] = new /\ \A f \in Entities \ {e} : merged.rows[f] = s.rows[f]
      BY <1>1, <3>3
    <3>5. /\ new.st = "live" /\ new.upd = ServerOrdered(row.upd, x.at)
          /\ new.val = IF RemoteWins(d, s, x.op, x.at) THEN x.op.val ELSE row.val
      BY <1>1 DEF Rows
    <3> HIDE DEF new, merged
    <3>6. new.upd = row.upd \/ new.upd =< x.at
      BY <1>3, <3>5 DEF ServerOrdered
    <3>7. row.upd < x.at => new.val = x.op.val
      <4>1. row.upd < x.at => x.at > s.rows[x.op.ent].upd
        BY <1>1, <1>2
      <4> QED
        BY <3>5, <4>1 DEF RemoteWins
    <3> QED
      BY <2>1, <3>2, <3>3, <3>4, <3>5, <3>6, <3>7
  <2>2. CASE x.op.act = "DELETE"
    <3>1. merged = MergeDelete(s, x.op, x.at) /\ e \in Transactions
      BY <2>2 DEF Timely
    <3>2. merged \in Carried
      BY <1>1, <3>1, DeleteFollows DEF Follows
    <3>3. CASE row.st # "live"
      <4>1. merged = s
        BY <3>1, <3>3 DEF MergeDelete
      <4> QED
        BY <1>2, <2>2, <3>2, <3>3, <4>1
    <3>4. CASE row.st = "live" /\ row.upd > x.at
      <4>1. merged = Surfaced(s, "deleteVsEdit", x.op)
        BY <1>1, <1>2, <3>1, <3>4 DEF MergeDelete
      <4>2. merged.rows = s.rows /\ merged.seen = s.seen
        BY <4>1 DEF Surfaced, Carried
      <4> QED
        BY <1>1, <1>2, <2>2, <3>2, <3>4, <4>2
    <3>5. CASE row.st = "live" /\ row.upd =< x.at
      <4>1. Taken(s.rows, e) = {e}
        BY <3>1, MergeAssumption DEF Taken, Beneath
      <4>2. merged.rows = Sweep(s.rows, e, Stored(x.at)) /\ merged.seen = s.seen
        <5>1. ~(row.upd > x.at)
          BY <1>1, <1>2, <3>5
        <5>2. merged = [s EXCEPT !.rows = Sweep(s.rows, e, Stored(x.at)),
                                 !.affected = @ \cup Affected(Taken(s.rows, e))]
          BY <3>1, <3>5, <5>1 DEF MergeDelete
        <5> QED
          BY <5>2 DEF Carried
      <4>3. /\ merged.rows[e] = [row EXCEPT !.st = "dead", !.upd = Stored(x.at)]
            /\ \A f \in Entities \ {e} : merged.rows[f] = s.rows[f]
        BY <1>1, <4>1, <4>2 DEF Sweep
      <4>4. merged.rows[e].st = "dead" /\ merged.rows[e].upd = Stored(x.at)
        BY <1>1, <4>3 DEF Rows
      <4> HIDE DEF merged
      <4> QED
        BY <1>3, <2>2, <3>2, <4>2, <4>3, <4>4
    <3> QED
      BY <1>1, <1>2, <3>3, <3>4, <3>5
  <2> QED
    BY <2>1, <2>2 DEF Timely
<1> HIDE DEF merged
<1>6. merged.rows[e] \in Rows
  BY <1>1, <1>5 DEF Carried
<1>7. RowSettled(merged.rows[e], e, ops, s.seen \cup {x})
  <2>1. PICK new \in Rows : new = merged.rows[e]
    BY <1>6
  <2> QED
    BY <1>1, <1>2, <1>5, <2>1, NamedSettled
<1>8. ASSUME NEW f \in Entities \ {e} PROVE RowSettled(merged.rows[f], f, ops, s.seen \cup {x})
  BY <1>5, OthersSettled DEF Settled
<1>9. /\ ApplyOp(d, s, x).seen = s.seen \cup {x}
      /\ ApplyOp(d, s, x).rows = merged.rows
  BY <1>4, <1>5 DEF Carried
<1> QED
  BY <1>7, <1>8, <1>9 DEF Settled

\* The entries seq of a page after those of seen.
InTurn(seq, n, seen) ==
    /\ \A i \in 1..n : Timely(seq[i]) /\ (seq[i] \in seen \/ Comes(seq[i], seen))
    /\ \A i, j \in 1..n : i < j => seq[i].seq < seq[j].seq /\ seq[i].at < seq[j].at
    /\ \A x, y \in seen \cup {seq[i] : i \in 1..n} : x.op.id = y.op.id => x = y

\* Of a page in order, what was merged before is passed over and the rest comes
\* after all of it; so a merge settles every row.
LEMMA PageSettles ==
  ASSUME NEW d \in Devices, NEW start \in Carried, NEW ops \in SUBSET Ops,
         NEW n \in Nat, NEW seq \in [1..n -> Entries],
         InTurn(seq, n, start.seen),
         Settled(start.rows, ops, start.seen)
  PROVE  LET r == ApplyAll(d, start, seq) IN
         /\ r.seen = start.seen \cup {seq[i] : i \in 1..n}
         /\ Settled(r.rows, ops, r.seen)
<1>1. DOMAIN seq = 1..n
  OBVIOUS
<1>2. PICK m : /\ m[0] = start
               /\ \A k \in 1..n : m[k] = ApplyOp(d, m[k - 1], seq[k])
               /\ m[n] = ApplyAll(d, start, seq)
  BY <1>1, MergedInSteps, SMTT(20)
<1> DEFINE Upto(k) == start.seen \cup {seq[i] : i \in 1..k}
           Good(k) == m[k] \in Carried /\ m[k].seen = Upto(k) /\ Settled(m[k].rows, ops, Upto(k))
           B == {k \in 0..n : ~ Good(k)}
<1>3. B = {}
  <2> SUFFICES ASSUME B # {} PROVE FALSE
    OBVIOUS
  <2>1. PICK k \in B : \A j \in B : k =< j
    <3>1. B \subseteq Nat
      OBVIOUS
    <3> HIDE DEF B
    <3> QED
      BY <3>1, LeastNatural
  <2>2. k \in 0..n /\ ~ Good(k)
    BY <2>1
  <2>3. k # 0
    <3>1. Upto(0) = start.seen
      OBVIOUS
    <3>2. Good(0)
      BY <1>2, <3>1
    <3> QED
      BY <2>2, <3>2
  <2>4. k \in 1..n /\ k - 1 \in 0..n /\ ~(k =< k - 1)
    BY <2>2, <2>3
  <2>5. Good(k - 1)
    <3>1. k - 1 \notin B
      <4> HIDE DEF B
      <4> QED
        BY <2>1, <2>4
    <3> HIDE DEF Good
    <3> QED
      BY <2>4, <3>1
  <2>6. PICK x \in Entries : x = seq[k]
    BY <2>4
  <2>7. PICK s \in Carried : s = m[k - 1]
    BY <2>5
  <2>8. m[k] = ApplyOp(d, s, x) /\ s.seen = Upto(k - 1) /\ Settled(s.rows, ops, s.seen)
    BY <1>2, <2>4, <2>5, <2>6, <2>7
  <2>9. Upto(k) = s.seen \cup {x}
    <3>1. \A i \in 1..k : i = k \/ i \in 1..k - 1
      BY <2>4
    <3>2. \A i \in 1..k - 1 : i \in 1..k
      BY <2>4
    <3> QED
      BY <2>4, <2>6, <2>8, <3>1, <3>2
  <2>10. ApplyOp(d, s, x) \in Carried
    BY ApplyFollows DEF Follows
  <2>11. s.seen \cup {x} \subseteq start.seen \cup {seq[i] : i \in 1..n}
    BY <2>4, <2>9
  <2>12. CASE x \in s.seen
    <3>1. ApplyOp(d, s, x) = s /\ s.seen \cup {x} = s.seen
      BY <2>12 DEF ApplyOp
    <3> QED
      BY <2>2, <2>8, <2>9, <2>10, <3>1
  <2>13. CASE x \notin s.seen
    <3>1. Timely(x) /\ Comes(x, start.seen)
      BY <2>4, <2>6, <2>8, <2>13 DEF InTurn
    <3>2. Comes(x, s.seen)
      <4>1. \A i \in 1..k - 1 : i \in 1..n /\ i < k
        BY <2>4
      <4>2. \A i \in 1..k - 1 : Timely(seq[i]) /\ seq[i].seq < x.seq /\ seq[i].at < x.at
        BY <2>4, <2>6, <4>1 DEF InTurn
      <4> QED
        BY <2>8, <3>1, <4>2 DEF Comes
    <3>3. \A y \in s.seen : y.op.id # x.op.id
      BY <2>11, <2>13 DEF InTurn
    <3>4. ApplyOp(d, s, x).seen = s.seen \cup {x}
          /\ Settled(ApplyOp(d, s, x).rows, ops, s.seen \cup {x})
      BY <2>8, <3>1, <3>2, <3>3, EntrySettles
    <3> QED
      BY <2>2, <2>8, <2>9, <2>10, <3>4
  <2> QED
    BY <2>12, <2>13
<1>4. Good(n)
  <2> HIDE DEF Good
  <2> QED
    BY <1>3
<1> QED
  BY <1>2, <1>4

(* ----------------------- histories of edits ---------------------------- *)

\* Operations were made before they were logged, entries are logged one after
\* the other, and what left a queue is logged.
HistoryOK ==
    /\ \A op \in Made :
          /\ op.act = "UPDATE" \/ (op.act = "DELETE" /\ op.ent \in Transactions)
          /\ op.ent \in Shared /\ op.t =< now /\ ~op.bad
    /\ \A k \in 1..Len(log) : Timely(log[k]) /\ log[k].at =< now
    /\ \A j, k \in 1..Len(log) : j < k => log[j].at < log[k].at
    /\ \A d \in Devices : \A id \in acked[d] : Logged(id)

TablesOK == \A d \in Devices : Settled(rows[d], ToSet(audit[d]), applied[d])

EditInv == HistoryOK /\ TablesOK

\* The invariant holds at the start.
LEMMA EditInit == Init => EditInv
<1> SUFFICES ASSUME Init PROVE EditInv
  OBVIOUS
<1>1. /\ now = 0 /\ log = <<>>
      /\ \A d \in Devices : audit[d] = <<>> /\ acked[d] = {} /\ applied[d] = {}
  BY DEF Init
<1>2. Len(log) = 0 /\ 1..Len(log) = {}
  BY <1>1
<1>3. \A d \in Devices : ToSet(audit[d]) = {}
  BY <1>1 DEF ToSet
<1>4. HistoryOK
  BY <1>1, <1>2, <1>3 DEF HistoryOK, Made
<1>5. ASSUME NEW d \in Devices, NEW e \in Entities PROVE RowSettled(rows[d][e], e, {}, {})
  <2>1. rows[d][e].st = (IF e \in Shared THEN "live" ELSE "none") /\ rows[d][e].upd = 0
    BY DEF Init
  <2> QED
    BY <2>1 DEF RowSettled, Dated, AsLeft
<1> QED
  BY <1>1, <1>3, <1>4, <1>5 DEF EditInv, TablesOK, Settled

\* An own operation that has not come back leaves its row open.
LEMMA WriteOpens ==
  ASSUME NEW table, NEW new, NEW ops, NEW seen, NEW op, Settled(table, ops, seen),
         \A f \in Entities \ {op.ent} : new[f] = table[f],
         op.ent \in Shared, op.t \in Int, new[op.ent].st # "none", new[op.ent].upd = op.t,
         \A x \in seen : x.op # op
  PROVE  Settled(new, ops \cup {op}, seen)
<1>1. ASSUME NEW f \in Entities \ {op.ent} PROVE RowSettled(new[f], f, ops \cup {op}, seen)
  <2>1. new[f] = table[f] /\ RowSettled(table[f], f, ops, seen)
    BY DEF Settled
  <2>2. Open(ops \cup {op}, seen, f) <=> Open(ops, seen, f)
    BY DEF Open
  <2>3. Dated(table[f], f, ops \cup {op}, seen)
    BY <2>1 DEF RowSettled, Dated
  <2> QED
    BY <2>1, <2>2, <2>3 DEF RowSettled
<1>2. RowSettled(new[op.ent], op.ent, ops \cup {op}, seen)
  <2>1. Open(ops \cup {op}, seen, op.ent)
    BY DEF Open
  <2>2. Dated(new[op.ent], op.ent, ops \cup {op}, seen)
    BY DEF Dated
  <2> QED
    BY <2>1, <2>2 DEF RowSettled
<1> QED
  BY <1>1, <1>2 DEF Settled

\* What is merged is in the log, and its operation was made.
LEMMA AppliedIsLogged ==
  ASSUME IInv, NEW d \in Devices, NEW x \in applied[d] \cup cycle[d].page
  PROVE  \E k \in 1..Len(log) : x = log[k] /\ x.seq = k /\ x.op \in Made
<1>1. x \in ToSet(log) /\ DOMAIN log = 1..Len(log)
  BY DEF IInv, InboxOK, WorkOK, Cycles0, LogOK, IsSeq
<1> QED
  BY <1>1 DEF ToSet, IInv, LogOK

\* No clock is ahead.
LEMMA NotAhead ==
  ASSUME EditsAndDeletes, now \in Nat, NEW d \in Devices
  PROVE  LocalNow(d) \in Int /\ LocalNow(d) =< now + 1
<1>1. Skew[d] \in Int /\ Skew[d] =< 0
  BY SyncAssumption DEF EditsAndDeletes
<1>2. now + 1 + Skew[d] \in Int /\ now + 1 + Skew[d] =< now + 1
  BY <1>1
<1>3. PICK t \in Int : t = now + 1 + Skew[d]
  BY <1>2
<1>4. Stored(t) \in Int /\ Stored(t) =< t
  BY StoredTime, StoredIsNotLater
<1> QED
  BY <1>2, <1>3, <1>4 DEF LocalNow

\* An edit or a delete on a device.
LEMMA EditWrite ==
  ASSUME EditsAndDeletes, IInv, BooksInv, EditInv, NEW d \in Devices, NEW e \in Shared,
         NEW act, act = "UPDATE" \/ (act = "DELETE" /\ e \in Transactions),
         NEW val, NEW new, NEW changed, Write(d, act, e, val, new, changed),
         \A f \in Entities \ {e} : new[f] = rows[d][f],
         new[e].st # "none", new[e].upd = LocalNow(d)
  PROVE  EditInv'
<1>1. PICK bad \in BOOLEAN :
        /\ bad => CanRefuse
        /\ \E q \in Queued(audit[d], [id |-> writes + 1, dev |-> d, ent |-> e, act |-> act,
                                      val |-> val, t |-> LocalNow(d), bad |-> bad]) :
              audit' = [audit EXCEPT ![d] = q]
  BY DEF Write
<1> DEFINE op == [id |-> writes + 1, dev |-> d, ent |-> e, act |-> act,
                  val |-> val, t |-> LocalNow(d), bad |-> bad]
<1>2. PICK i \in 1..Len(audit[d]) + 1 : audit' = [audit EXCEPT ![d] = InsertAt(audit[d], i, op)]
  BY <1>1 DEF Queued
<1>3. /\ now' = now + 1 /\ rows' = [rows EXCEPT ![d] = new]
      /\ UNCHANGED <<acked, applied, log>>
  BY DEF Write, inbox, server
<1>4. now \in Nat /\ writes \in Nat /\ rows = [x \in Devices |-> rows[x]] /\ e \in Entities
  BY SyncAssumption DEF BooksInv, ClockOK, RowsOK, IInv, QueueOK
<1>5. /\ op.id = writes + 1 /\ op.ent = e /\ op.act = act /\ op.t = LocalNow(d) /\ ~op.bad
      /\ op.t \in Int /\ op.t =< now + 1
  BY <1>1, <1>4, NotAhead DEF EditsAndDeletes
<1> HIDE DEF op
<1>6. /\ audit'[d] = InsertAt(audit[d], i, op) /\ IsSeq(audit[d])
      /\ \A x \in Devices \ {d} : audit'[x] = audit[x]
  BY <1>2 DEF IInv, QueueOK
<1>7. ToSet(audit'[d]) = ToSet(audit[d]) \cup {op}
  BY <1>6, Inserted
<1>8. \A x \in Made' : x = op \/ x \in Made
  BY <1>6, <1>7 DEF Made
<1>9. \A x \in Made : x.t \in Int /\ x.t =< now + 1
  BY <1>4 DEF EditInv, HistoryOK, BooksInv, OpsOK, Ops
<1>10. \A k \in 1..Len(log) : log[k].at =< now + 1
  BY <1>4 DEF EditInv, HistoryOK, IInv, LogOK, BooksInv, OpsOK, Entries, ToSet
<1>11. HistoryOK'
  BY <1>3, <1>5, <1>8, <1>9, <1>10 DEF EditInv, HistoryOK, Logged
<1>12. Settled(new, ToSet(audit[d]) \cup {op}, applied[d])
  <2>1. \A x \in applied[d] : x.op # op
    <3>1. \A x \in applied[d] : x.op \in Made
      BY AppliedIsLogged
    <3> QED
      BY <1>4, <1>5, <3>1 DEF IInv, QueueOK
  <2>2. Settled(rows[d], ToSet(audit[d]), applied[d])
    BY DEF EditInv, TablesOK
  <2> QED
    BY <1>5, <2>1, <2>2, WriteOpens
<1>13. TablesOK'
  BY <1>3, <1>4, <1>6, <1>7, <1>12 DEF EditInv, TablesOK
<1> QED
  BY <1>11, <1>13 DEF EditInv

\* Whatever a merchant writes.
LEMMA EditLocal ==
  ASSUME EditsAndDeletes, IInv, BooksInv, EditInv, NEW d \in Devices, LocalWrite(d)
  PROVE  EditInv'
<1>1. PICK e \in Entities :
        \/ CreateRow(d, e)
        \/ \E f \in Fields : UpdateRow(d, e, f)
        \/ DeleteRow(d, e)
        \/ RestoreRow(d, e)
        \/ \E act \in {"USER_ARCHIVE", "USER_UNARCHIVE"} : ArchiveLedger(d, e, act)
  BY DEF LocalWrite
<1>2. /\ rows[d] \in [Entities -> Rows] /\ rows[d][e] \in Rows
      /\ RowSettled(rows[d][e], e, ToSet(audit[d]), applied[d])
  BY DEF BooksInv, RowsOK, EditInv, TablesOK, Settled
<1>3. CASE \E f \in Fields : UpdateRow(d, e, f)
  <2>1. PICK f \in Fields : UpdateRow(d, e, f)
    BY <1>3
  <2> DEFINE val == [rows[d][e].val EXCEPT ![f] = writes + 1]
             new == [rows[d] EXCEPT ![e].val = val, ![e].upd = LocalNow(d)]
  <2>2. Write(d, "UPDATE", e, val, new, {e} \cap Transactions)
    BY <2>1 DEF UpdateRow
  <2>3. rows[d][e].st = "live"
    BY <2>1 DEF UpdateRow, Writable
  <2>4. e \in Shared
    BY <1>2, <2>3 DEF RowSettled
  <2>5. /\ \A g \in Entities \ {e} : new[g] = rows[d][g]
        /\ new[e].st # "none" /\ new[e].upd = LocalNow(d)
    BY <1>2, <2>3 DEF Rows
  <2> HIDE DEF new, val
  <2> QED
    BY <2>2, <2>4, <2>5, EditWrite
<1>4. CASE DeleteRow(d, e)
  <2> DEFINE swept == Sweep(rows[d], e, DeleteStamp(d, e))
             new == [swept EXCEPT ![e].arch = FALSE]
  <2>1. Write(d, "DELETE", e, rows[d][e].val, new, Taken(rows[d], e))
    BY <1>4 DEF DeleteRow
  <2>2. e \in Transactions
    BY <2>1 DEF Write, EditsAndDeletes
  <2>3. Taken(rows[d], e) = {e}
    BY <2>2, MergeAssumption DEF Taken, Beneath
  <2>4. DeleteStamp(d, e) = LocalNow(d)
    <3>1. {u \in Transactions : ContactOf[u] = e /\ rows[d][u].st # "none"} = {}
      BY <2>2, MergeAssumption
    <3>2. DeleteStamp(d, e) = Max({LocalNow(d)})
      BY <3>1 DEF DeleteStamp
    <3>3. now \in Nat
      BY DEF BooksInv, ClockOK
    <3>4. PICK t \in Int : t = LocalNow(d)
      BY <3>3, NotAhead
    <3>5. Max({t}) = t
      BY DEF Max
    <3> QED
      BY <3>2, <3>4, <3>5
  <2>5. rows[d][e].st = "live"
    BY <1>4 DEF DeleteRow
  <2>6. e \in Shared
    BY <1>2, <2>5 DEF RowSettled
  <2>7. /\ \A g \in Entities \ {e} : new[g] = rows[d][g]
        /\ new[e].st # "none" /\ new[e].upd = LocalNow(d)
    <3>1. \A g \in Entities : swept[g] =
             IF g = e THEN [rows[d][e] EXCEPT !.st = "dead", !.upd = LocalNow(d)] ELSE rows[d][g]
      BY <2>3, <2>4 DEF Sweep
    <3>2. swept \in [Entities -> Rows] /\ swept[e].st = "dead" /\ swept[e].upd = LocalNow(d)
      <4>1. [rows[d][e] EXCEPT !.st = "dead", !.upd = LocalNow(d)] \in Rows
        BY <1>2, <2>4, NotAhead DEF Rows, BooksInv, ClockOK
      <4> QED
        BY <1>2, <3>1, <4>1 DEF Rows, Sweep
    <3> HIDE DEF swept
    <3> QED
      BY <1>2, <3>1, <3>2 DEF Rows
  <2> HIDE DEF new, swept
  <2> QED
    BY <2>1, <2>2, <2>6, <2>7, EditWrite
<1>5. ~CreateRow(d, e) /\ ~RestoreRow(d, e)
  BY DEF CreateRow, RestoreRow, Write, EditsAndDeletes
<1>6. ~ \E act \in {"USER_ARCHIVE", "USER_UNARCHIVE"} : ArchiveLedger(d, e, act)
  BY DEF ArchiveLedger, Write, EditsAndDeletes
<1> QED
  BY <1>1, <1>3, <1>4, <1>5, <1>6

\* The log grows by an operation that was made before.
LEMMA EditAppend ==
  ASSUME IInv, BooksInv, EditInv, NEW h \in handlers, Append1(h)
  PROVE  EditInv'
<1>1. PICK op \in Upcoming(h) :
        /\ IF Logged(op.id)
           THEN UNCHANGED <<log, now>>
           ELSE /\ log' = Append(log, [op |-> op, seq |-> Len(log) + 1, at |-> now + 1])
                /\ now' = now + 1
        /\ UNCHANGED <<writes, faults, books, outbox, inbox, conflicts, cycle, mirror>>
  BY DEF Append1
<1> DEFINE entry == [op |-> op, seq |-> Len(log) + 1, at |-> now + 1]
<1>2. UNCHANGED <<rows, audit, acked, applied>>
  BY <1>1 DEF books, outbox, inbox
<1>3. IsSeq(log) /\ Len(log) \in Nat /\ now \in Nat
  BY DEF IInv, LogOK, IsSeq, BooksInv, ClockOK
<1>4. TablesOK'
  BY <1>2 DEF EditInv, TablesOK
<1>5. CASE Logged(op.id)
  BY <1>1, <1>2, <1>4, <1>5 DEF EditInv, HistoryOK, Made, Logged
<1>6. CASE ~Logged(op.id)
  <2>1. log' = Append(log, entry) /\ now' = now + 1
    BY <1>1, <1>6
  <2>2. op \in Made /\ op \in Ops
    BY DEF Upcoming, IInv, WorkOK, Handlers0, BooksInv, OpsOK
  <2>3. Timely(entry) /\ entry.at = now + 1 /\ entry.op = op
    <3>1. op.t \in Int /\ op.t =< now
      BY <2>2 DEF EditInv, HistoryOK, Ops
    <3> QED
      BY <1>3, <2>2, <3>1 DEF EditInv, HistoryOK, Timely
  <2> HIDE DEF entry
  <2>4. /\ Len(log') = Len(log) + 1 /\ DOMAIN log' = 1..Len(log) + 1
        /\ \A k \in 1..Len(log) : log'[k] = log[k]
        /\ log'[Len(log) + 1] = entry
    BY <1>3, <2>1, Appended
  <2>5. \A k \in 1..Len(log) : log[k].at \in Nat /\ log[k].at =< now
    BY <1>3 DEF EditInv, HistoryOK, BooksInv, OpsOK, Entries, ToSet, IsSeq
  <2>6. \A k \in 1..Len(log') : k = Len(log) + 1 \/ k \in 1..Len(log)
    BY <1>3, <2>4
  <2>7. ASSUME NEW k \in 1..Len(log') PROVE Timely(log'[k]) /\ log'[k].at =< now'
    <3>1. CASE k = Len(log) + 1
      BY <1>3, <2>1, <2>3, <2>4, <3>1
    <3>2. CASE k \in 1..Len(log)
      <4>1. log'[k] = log[k] /\ Timely(log[k])
        BY <2>4, <3>2 DEF EditInv, HistoryOK
      <4>2. log[k].at =< now + 1
        BY <1>3, <2>5, <3>2
      <4> QED
        BY <2>1, <4>1, <4>2
    <3> QED
      BY <2>6, <3>1, <3>2
  <2>8. ASSUME NEW j \in 1..Len(log'), NEW k \in 1..Len(log'), j < k PROVE log'[j].at < log'[k].at
    <3>1. j \in 1..Len(log)
      BY <1>3, <2>4, <2>8
    <3>2. CASE k = Len(log) + 1
      BY <1>3, <2>3, <2>4, <2>5, <3>1, <3>2
    <3>3. CASE k \in 1..Len(log)
      BY <2>4, <2>8, <3>1, <3>3 DEF EditInv, HistoryOK
    <3> QED
      BY <2>6, <3>2, <3>3
  <2>9. \A id : Logged(id) => Logged(id)'
    <3>1. DOMAIN log = 1..Len(log)
      BY <1>3 DEF IsSeq
    <3> QED
      BY <1>3, <2>4, <3>1 DEF Logged
  <2>10. \A x \in Made' : x \in Made /\ x.t \in Int
    BY <1>2 DEF Made, BooksInv, OpsOK, Ops
  <2>11. HistoryOK'
    BY <1>2, <1>3, <2>1, <2>7, <2>8, <2>9, <2>10 DEF EditInv, HistoryOK
  <2> QED
    BY <1>4, <2>11 DEF EditInv
<1> QED
  BY <1>5, <1>6

\* Nothing that was logged is an archiving.
LEMMA NothingArchived ==
  ASSUME IInv, EditInv, NEW e
  PROVE  ~EverArchived(e)
<1>1. DOMAIN log = 1..Len(log)
  BY DEF IInv, LogOK, IsSeq
<1> QED
  BY <1>1 DEF IInv, LogOK, EditInv, HistoryOK, EverArchived

\* A merge takes the page in its turn.
LEMMA EditMerge ==
  ASSUME IInv, BooksInv, EditInv, NEW d \in Devices, Merge(d)
  PROVE  EditInv'
<1>1. PICK start : start = [rows |-> rows[d], seen |-> applied[d], conflicts |-> {}, affected |-> {}]
  OBVIOUS
<1>2. PICK page : page = cycle[d].page
  OBVIOUS
<1>3. PICK merged : merged = ApplyAll(d, start, InOrder(page))
  OBVIOUS
<1>4. /\ rows' = [rows EXCEPT ![d] = merged.rows]
      /\ applied' = [applied EXCEPT ![d] = @ \cup page]
      /\ UNCHANGED <<now, audit, acked, log>>
  BY <1>1, <1>2, <1>3 DEF Merge, outbox, server
<1>5. /\ page \subseteq ToSet(log) /\ applied[d] \subseteq ToSet(log)
      /\ ToSet(log) \subseteq Entries
      /\ cycle[d].pc = "merge"
  BY <1>2 DEF IInv, WorkOK, InboxOK, Cycles0, BooksInv, OpsOK, Merge
<1>6. start \in Carried /\ start.rows = rows[d] /\ start.seen = applied[d]
  <2>1. rows[d] \in [Entities -> Rows] /\ applied[d] \subseteq Entries
    BY <1>5 DEF BooksInv, RowsOK
  <2> QED
    BY <1>1, <2>1 DEF Carried
<1>7. PICK len \in Nat : len = Len(log) /\ DOMAIN log = 1..len
  BY DEF IInv, LogOK, IsSeq
<1>8. ASSUME NEW x \in applied[d] \cup page
      PROVE  \E k \in 1..len : x = log[k] /\ x.seq = k
  BY <1>2, <1>7, <1>8, AppliedIsLogged
<1>9. \A x \in page : x.seq \in 1..len
  BY <1>8
<1>10. \A x, y \in page : x.seq = y.seq => x = y
  BY <1>8
<1>11. PICK n \in Nat : n = Cardinality(page)
  BY <1>7, <1>9, <1>10, PageInOrder
<1>12. PICK seq : seq = InOrder(page)
  OBVIOUS
<1>13. /\ seq \in [1..n -> page]
       /\ \A i, j \in 1..n : i < j => seq[i].seq < seq[j].seq
       /\ \A x \in page : \E i \in 1..n : seq[i] = x
  BY <1>7, <1>9, <1>10, <1>11, <1>12, PageInOrder
<1>14. /\ \A k \in 1..len : Timely(log[k])
       /\ \A j, k \in 1..len : j < k => log[j].at < log[k].at
  BY <1>7 DEF EditInv, HistoryOK
<1>15. ASSUME NEW x \in page, x \notin applied[d] PROVE Comes(x, applied[d])
  <2>1. PICK k \in 1..len : x = log[k] /\ x.seq = k
    BY <1>8
  <2>2. /\ Watermark(d) \in 0..len
        /\ \A y \in applied[d] : y.seq =< Watermark(d)
    BY <1>7, WatermarkBounds DEF IInv
  <2>3. k > Watermark(d)
    <3> SUFFICES ASSUME ~(k > Watermark(d)) PROVE FALSE
      OBVIOUS
    <3>1. k \in 1..Watermark(d)
      BY <2>2
    <3>2. ~EverArchived(log[k].op.ent)
      BY NothingArchived
    <3> QED
      BY <1>15, <2>1, <3>1, <3>2 DEF IInv, NothingSkipped
  <2>4. ASSUME NEW y \in applied[d] PROVE Timely(y) /\ y.at < x.at /\ y.seq < x.seq
    <3>1. PICK j \in 1..len : y = log[j] /\ y.seq = j
      BY <1>8
    <3>2. j < k
      BY <2>2, <2>3, <3>1
    <3> QED
      BY <1>14, <2>1, <3>1, <3>2
  <2> QED
    BY <2>4 DEF Comes
<1>16. InTurn(seq, n, applied[d])
  <2>1. ASSUME NEW i \in 1..n
        PROVE  Timely(seq[i]) /\ (seq[i] \in applied[d] \/ Comes(seq[i], applied[d]))
    <3>1. seq[i] \in page
      BY <1>13
    <3>2. Timely(seq[i])
      BY <1>8, <1>14, <3>1
    <3> QED
      BY <1>15, <3>1, <3>2
  <2>2. ASSUME NEW i \in 1..n, NEW j \in 1..n, i < j
        PROVE  seq[i].seq < seq[j].seq /\ seq[i].at < seq[j].at
    <3>1. seq[i] \in page /\ seq[j] \in page /\ seq[i].seq < seq[j].seq
      BY <1>13, <2>2
    <3>2. PICK k \in 1..len : seq[i] = log[k] /\ seq[i].seq = k
      BY <1>8, <3>1
    <3>3. PICK m \in 1..len : seq[j] = log[m] /\ seq[j].seq = m
      BY <1>8, <3>1
    <3>4. k < m
      BY <3>1, <3>2, <3>3
    <3> QED
      BY <1>14, <3>1, <3>2, <3>3, <3>4
  <2>3. {seq[i] : i \in 1..n} \subseteq page
    BY <1>13
  <2>4. ASSUME NEW x \in applied[d] \cup page, NEW y \in applied[d] \cup page, x.op.id = y.op.id
        PROVE  x = y
    <3>1. PICK k \in 1..len : x = log[k]
      BY <1>8
    <3>2. PICK m \in 1..len : y = log[m]
      BY <1>8
    <3> QED
      BY <1>7, <2>4, <3>1, <3>2 DEF IInv, LogOK, LoggedOnce
  <2> QED
    BY <2>1, <2>2, <2>3, <2>4 DEF InTurn
<1>17. {seq[i] : i \in 1..n} = page
  BY <1>13
<1>18. Settled(merged.rows, ToSet(audit[d]), applied[d] \cup page)
  <2>1. PICK ops \in SUBSET Ops : ops = ToSet(audit[d])
    BY DEF BooksInv, OpsOK, Made
  <2>2. Settled(start.rows, ops, start.seen)
    BY <1>6, <2>1 DEF EditInv, TablesOK
  <2>3. seq \in [1..n -> Entries]
    BY <1>5, <1>13
  <2>4. LET r == ApplyAll(d, start, seq) IN
        /\ r.seen = start.seen \cup {seq[i] : i \in 1..n}
        /\ Settled(r.rows, ops, r.seen)
    BY <1>6, <1>16, <2>2, <2>3, PageSettles
  <2> QED
    BY <1>3, <1>6, <1>12, <1>17, <2>1, <2>4
<1>19. TablesOK'
  <2>1. ASSUME NEW x \in Devices PROVE Settled(rows'[x], ToSet(audit'[x]), applied'[x])
    <3>1. rows = [y \in Devices |-> rows[y]] /\ applied = [y \in Devices |-> applied[y]]
      BY DEF BooksInv, RowsOK, IInv, InboxOK
    <3>2. CASE x = d
      <4>1. rows'[d] = merged.rows /\ applied'[d] = applied[d] \cup page
        BY <1>4, <3>1
      <4> QED
        BY <1>4, <1>18, <3>2, <4>1
    <3>3. CASE x # d
      <4>1. rows'[x] = rows[x] /\ applied'[x] = applied[x]
        BY <1>4, <3>1, <3>3
      <4> QED
        BY <1>4, <4>1 DEF EditInv, TablesOK
    <3> QED
      BY <3>2, <3>3
  <2> QED
    BY <2>1 DEF TablesOK
<1>20. HistoryOK'
  BY <1>4 DEF EditInv, HistoryOK, Made, Logged
<1> QED
  BY <1>19, <1>20 DEF EditInv

\* What leaves the rows, the queues and the log alone.
LEMMA EditStays ==
  ASSUME EditInv, UNCHANGED <<now, rows, audit, applied, log>>,
         \A d \in Devices : \A id \in acked'[d] : Logged(id)
  PROVE  EditInv'
<1>1. HistoryOK'
  BY DEF EditInv, HistoryOK, Made, Logged
<1>2. TablesOK'
  BY DEF EditInv, TablesOK
<1> QED
  BY <1>1, <1>2 DEF EditInv

\* What the server answered is booked: everything it took is logged.
LEMMA EditAnswer ==
  ASSUME IInv, EditInv, NEW d \in Devices, RecordAcks(d) \/ RecordRejections(d)
  PROVE  EditInv'
<1>1. UNCHANGED <<now, rows, audit, applied, log>>
  BY DEF RecordAcks, RecordRejections, books, inbox, server
<1>2. cycle[d] \in Cycles0 /\ cycle[d].batch \subseteq Made
  BY DEF IInv, WorkOK, Cycles0
<1>3. RefusedOps(d) = {}
  BY <1>2 DEF RefusedOps, Accepted, EditInv, HistoryOK
<1>4. acked = [x \in Devices |-> acked[x]]
  BY DEF IInv, QueueOK
<1>5. CASE RecordAcks(d)
  <2>1. \A op \in Accepted(d) : Logged(op.id)
    BY <1>5 DEF RecordAcks, IInv, PushOK
  <2>2. /\ acked'[d] = acked[d] \cup {op.id : op \in Accepted(d)}
        /\ \A x \in Devices \ {d} : acked'[x] = acked[x]
    BY <1>4, <1>5 DEF RecordAcks
  <2>3. \A x \in Devices : \A id \in acked'[x] : Logged(id)
    BY <2>1, <2>2 DEF EditInv, HistoryOK
  <2> QED
    BY <1>1, <2>3, EditStays
<1>6. CASE RecordRejections(d)
  <2>1. acked' = acked
    BY <1>3, <1>4, <1>6 DEF RecordRejections
  <2> QED
    BY <1>1, <2>1, EditStays DEF EditInv, HistoryOK
<1> QED
  BY <1>5, <1>6

\* The invariant holds after every step.
LEMMA EditNext ==
  ASSUME EditsAndDeletes
  PROVE  IInv /\ BooksInv /\ EditInv /\ [Next]_vars => EditInv'
<1> SUFFICES ASSUME IInv, BooksInv, EditInv, [Next]_vars PROVE EditInv'
  OBVIOUS
<1>1. ASSUME UNCHANGED <<now, rows, audit, acked, applied, log>> PROVE EditInv'
  BY <1>1, EditStays DEF EditInv, HistoryOK
<1>2. ASSUME NEW d \in Devices, LocalWrite(d) PROVE EditInv'
  BY <1>2, EditLocal
<1>3. ASSUME NEW d \in Devices, NEW kind \in Cycles, StartCycle(d, kind) PROVE EditInv'
  BY <1>1, <1>3 DEF StartCycle, books, outbox, inbox
<1>4. ASSUME NEW d \in Devices, CycleStep(d) PROVE EditInv'
  <2>1. CASE PushFailed(d)
    BY <1>1, <2>1 DEF PushFailed, books, outbox, inbox
  <2>2. CASE PushAnswered(d)
    BY <1>1, <2>2 DEF PushAnswered, books, outbox, inbox
  <2>3. CASE PullPage(d)
    BY <1>1, <2>3 DEF PullPage, TakePage, books, outbox, inbox, server
  <2>4. CASE RecordPullWatermark(d)
    BY <1>1, <2>4 DEF RecordPullWatermark, books, outbox, server
  <2> QED
    BY <1>4, <2>1, <2>2, <2>3, <2>4, EditAnswer, EditMerge DEF CycleStep
<1>5. ASSUME NEW h \in handlers, ServerStep(h) PROVE EditInv'
  <2>1. CASE Project(h)
    BY <1>1, <2>1 DEF Project, books, outbox, inbox
  <2>2. CASE Unheard(h)
    BY <1>1, <2>2 DEF Unheard, books, outbox, inbox
  <2> QED
    BY <1>5, <2>1, <2>2, EditAppend DEF ServerStep
<1>6. CASE Fault
  <2>1. ASSUME NEW d \in Devices, AnswerLost(d) \/ CycleDies(d) PROVE EditInv'
    BY <1>1, <2>1 DEF AnswerLost, CycleDies, books, outbox, inbox
  <2>2. ASSUME NEW h \in handlers, HandlerDies(h) PROVE EditInv'
    BY <1>1, <2>2 DEF HandlerDies, books, outbox, inbox
  <2> QED
    BY <1>6, <2>1, <2>2 DEF Fault
<1>7. CASE UNCHANGED vars
  BY <1>1, <1>7 DEF vars, books, outbox, inbox, server
<1> QED
  BY <1>2, <1>3, <1>4, <1>5, <1>6, <1>7 DEF Next

\* When all is pushed and pulled, every row is as the last entry left it.
LEMMA QuietConverges == IInv /\ BooksInv /\ EditInv => Converged
<1> SUFFICES ASSUME IInv, BooksInv, EditInv, Quiet PROVE
      \A d \in Devices : \A e \in Entities :
        /\ \A other \in Devices : e \in Live(rows[d]) <=> e \in Live(rows[other])
        /\ e \in Live(rows[d]) /\ LastWrite(e) # {} =>
              rows[d][e].val = log[Max(LastWrite(e))].op.val
  BY DEF Converged
<1>1. PICK len \in Nat : len = Len(log) /\ DOMAIN log = 1..len
  BY DEF IInv, LogOK, IsSeq
<1>2. \A k \in 1..len : log[k].seq = k /\ Timely(log[k])
  BY <1>1 DEF IInv, LogOK, EditInv, HistoryOK
<1>3. ASSUME NEW d \in Devices PROVE applied[d] = {log[k] : k \in 1..len}
  <2>1. ASSUME NEW k \in 1..len PROVE log[k] \in applied[d]
    <3>1. k \in 1..Watermark(d) /\ ~EverArchived(log[k].op.ent)
      BY <1>1, NothingArchived DEF Quiet
    <3> QED
      BY <3>1 DEF IInv, NothingSkipped
  <2>2. \A x \in applied[d] : \E k \in 1..len : x = log[k]
    BY <1>1, AppliedIsLogged
  <2> QED
    BY <2>1, <2>2
<1>4. ASSUME NEW d \in Devices, NEW e PROVE ~Open(ToSet(audit[d]), applied[d], e)
  <2> SUFFICES ASSUME NEW op \in ToSet(audit[d]) PROVE \E x \in applied[d] : x.op = op
    BY DEF Open
  <2>1. op.id \in acked[d] /\ op \in Made
    BY DEF Quiet, Pending, Made
  <2>2. PICK k \in 1..len : log[k].op.id = op.id
    BY <1>1, <2>1 DEF EditInv, HistoryOK, Logged
  <2>3. log[k].op = op
    BY <1>1, <2>1, <2>2 DEF IInv, LogOK, QueueOK
  <2> QED
    BY <1>3, <2>3
<1>5. ASSUME NEW e \in Entities, e \notin Shared
      PROVE  \A d \in Devices : e \notin Live(rows[d])
  BY <1>5 DEF EditInv, TablesOK, Settled, RowSettled, Live
<1>6. ASSUME NEW e \in Shared, NEW d \in Devices PROVE AsLeft(rows[d][e], e, applied[d])
  <2>1. e \in Entities
    BY SyncAssumption
  <2> QED
    BY <1>4, <2>1 DEF EditInv, TablesOK, Settled, RowSettled
<1>7. ASSUME NEW e \in Shared
      PROVE  \A d \in Devices :
               /\ \A other \in Devices : e \in Live(rows[d]) <=> e \in Live(rows[other])
               /\ e \in Live(rows[d]) /\ LastWrite(e) # {} =>
                     rows[d][e].val = log[Max(LastWrite(e))].op.val
  <2> DEFINE K == {k \in 1..len : log[k].op.ent = e}
  <2>1. e \in Entities
    BY SyncAssumption
  <2>2. CASE K = {}
    <3>1. \A d \in Devices : \A x \in applied[d] : x.op.ent # e
      BY <1>3, <2>2
    <3>2. \A d \in Devices : rows[d][e].st = "live"
      BY <1>6, <3>1 DEF AsLeft
    <3>3. LastWrite(e) = {}
      BY <1>1, <2>2 DEF LastWrite
    <3> QED
      BY <2>1, <3>2, <3>3 DEF Live
  <2>3. CASE K # {}
    <3>1. PICK m \in K : \A k \in K : k =< m
      <4>1. K \subseteq 0..len
        OBVIOUS
      <4> HIDE DEF K
      <4> QED
        BY <2>3, <4>1, MaxOfBounded
    <3>2. PICK x : x = log[m]
      OBVIOUS
    <3>3. m \in 1..len /\ x.op.ent = e /\ Timely(x) /\ x.seq = m
      BY <1>2, <3>1, <3>2
    <3>4. ASSUME NEW d \in Devices PROVE IsLast(x, e, applied[d])
      <4>1. x \in applied[d]
        BY <1>3, <3>2, <3>3
      <4>2. ASSUME NEW y \in applied[d], y.op.ent = e PROVE y.seq =< x.seq
        <5>1. PICK k \in 1..len : y = log[k]
          BY <1>3
        <5>2. k \in K /\ y.seq = k
          BY <1>2, <4>2, <5>1
        <5> QED
          BY <3>1, <3>3, <5>2
      <4> QED
        BY <3>3, <4>1, <4>2 DEF IsLast
    <3>5. ASSUME NEW d \in Devices
          PROVE  /\ rows[d][e].st = "live" <=> x.op.act = "UPDATE"
                 /\ x.op.act = "UPDATE" => rows[d][e].val = x.op.val
      <4>1. AsLeft(rows[d][e], e, applied[d]) /\ IsLast(x, e, applied[d])
        BY <1>6, <3>4
      <4>2. x \in applied[d]
        BY <4>1 DEF IsLast
      <4> QED
        BY <4>1, <4>2 DEF AsLeft
    <3>6. CASE x.op.act = "UPDATE"
      <4>1. LastWrite(e) \subseteq K /\ m \in LastWrite(e)
        BY <1>1, <3>2, <3>3, <3>6 DEF LastWrite
      <4>2. Max(LastWrite(e)) = m
        <5>1. LastWrite(e) \subseteq 0..len
          BY <4>1
        <5>2. Max(LastWrite(e)) \in LastWrite(e) /\ \A k \in LastWrite(e) : k =< Max(LastWrite(e))
          BY <4>1, <5>1, MaxOfBounded
        <5>3. Max(LastWrite(e)) \in 1..len /\ Max(LastWrite(e)) =< m /\ m =< Max(LastWrite(e))
          BY <3>1, <4>1, <5>2
        <5> QED
          BY <3>3, <5>3
      <4> QED
        BY <2>1, <3>2, <3>5, <3>6, <4>2 DEF Live
    <3>7. CASE x.op.act # "UPDATE"
      BY <2>1, <3>5, <3>7 DEF Live
    <3> QED
      BY <3>6, <3>7
  <2> QED
    BY <2>2, <2>3
<1> QED
  BY <1>5, <1>7

\* "CONVERGENCE - two devices must reach identical state": whatever devices
\* edit and whatever transactions they delete at the same time, and whatever is
\* lost or dies on the way, once everything is pushed and pulled every device
\* shows each row as the last entry of the log left it.
THEOREM ConvergedCorrect ==
  ASSUME EditsAndDeletes
  PROVE  Spec => []Converged
<1>1. Init => EditInv
  BY EditInit
<1>2. IInv /\ BooksInv /\ EditInv /\ [Next]_vars => EditInv'
  BY EditNext
<1>3. IInv /\ BooksInv /\ EditInv => Converged
  BY QuietConverges
<1> QED
  BY <1>1, <1>2, <1>3, BooksAlways, PTL DEF Spec

(* ------------------- what is promised of an operation ------------------ *)

\* What the server refuses, no handler works on and the log does not hold.
RefusalOK ==
    /\ \A k \in 1..Len(log) : ~log[k].op.bad
    /\ \A h \in handlers : \A op \in h.left : ~op.bad

\* A device pushes what it made itself, merges what lies behind its
\* watermark and shows as refused only what the server refuses.
OwnOK(d) ==
    /\ cycle[d].batch \subseteq ToSet(audit[d])
    /\ \A x \in cycle[d].page : x.seq > Watermark(d)
    /\ \A c \in conflicts[d] : c.kind = "rejectedByServer" =>
           \E op \in ToSet(audit[d]) : op.id = c.op /\ op.bad

PromiseInv == RefusalOK /\ \A d \in Devices : OwnOK(d)

\* Only one operation has an id, and one device made it.
LEMMA OneOfAnId ==
  ASSUME IInv, NEW d \in Devices, NEW e \in Devices,
         NEW a \in ToSet(audit[d]), NEW b \in ToSet(audit[e]), a.id = b.id
  PROVE  a = b
<1>1. a \in Made /\ b \in Made
  BY DEF Made
<1> QED
  BY <1>1 DEF IInv, QueueOK

\* The ids a device has booked are of writes that were done.
LEMMA BookedIds ==
  ASSUME IInv, PromiseInv, NEW d \in Devices
  PROVE  /\ acked[d] \subseteq 1..writes
         /\ \A c \in conflicts[d] : c.kind = "rejectedByServer" => c.op \in 1..writes
<1>1. ASSUME NEW c \in conflicts[d], c.kind = "rejectedByServer" PROVE c.op \in 1..writes
  <2>1. PICK op \in ToSet(audit[d]) : op.id = c.op
    BY <1>1 DEF PromiseInv, OwnOK
  <2>2. op \in Made
    BY DEF Made
  <2> QED
    BY <2>1, <2>2 DEF IInv, QueueOK
<1>2. ASSUME NEW id \in acked[d] PROVE id \in 1..writes
  <2>1. CASE \E k \in DOMAIN log : log[k].op.id = id
    <3>1. PICK k \in DOMAIN log : log[k].op.id = id
      BY <2>1
    <3>2. log[k].op \in Made
      BY DEF IInv, LogOK, IsSeq
    <3> QED
      BY <3>1, <3>2 DEF IInv, QueueOK
  <2> QED
    BY <1>1, <2>1 DEF IInv, SettledOK, SettledIsKept
<1> QED
  BY <1>1, <1>2

\* The log of the contract.
LEMMA LogOfOps ==
  ASSUME LogOK
  PROVE  /\ Len(log) \in Nat /\ Len(LoggedOps) = Len(log)
         /\ DOMAIN log = 1..Len(log)
         /\ \A k \in 1..Len(log) : LoggedOps[k] = log[k].op
         /\ \A op : Contract!Logged(op) <=> \E k \in 1..Len(log) : log[k].op = op
<1>1. Len(log) \in Nat /\ DOMAIN log = 1..Len(log)
  BY DEF LogOK, IsSeq
<1>2. LoggedOps \in Seq({log[k].op : k \in 1..Len(log)}) /\ Len(LoggedOps) = Len(log)
  BY <1>1 DEF LoggedOps
<1>3. \A k \in 1..Len(log) : LoggedOps[k] = log[k].op
  BY DEF LoggedOps
<1> QED
  BY <1>1, <1>2, <1>3 DEF Contract!Logged

\* An operation is in the log of the contract when its id is in the server's.
LEMMA LoggedById ==
  ASSUME IInv, NEW op \in Made
  PROVE  Contract!Logged(op) <=> Logged(op.id)
<1>1. \A k \in 1..Len(log) : log[k].op \in Made
  BY DEF IInv, LogOK
<1>2. \A k \in 1..Len(log) : log[k].op.id = op.id => log[k].op = op
  BY <1>1 DEF IInv, QueueOK
<1> QED
  BY <1>2, LogOfOps DEF IInv, Logged

\* What a step leaves alone of the promise.
LEMMA Silent ==
  ASSUME UNCHANGED <<audit, log, acked, conflicts, applied, cursor>>
  PROVE  UNCHANGED Contract!vars
BY DEF Contract!vars, MadeOn, LoggedOps, SettledOn, RefusedOn, PlaceOf, GivenTo, Pending, Watermark

\* A step of the cycles and handlers alone is a stutter of the contract.
LEMMA PromiseStays ==
  ASSUME PromiseInv, UNCHANGED <<audit, log, acked, conflicts, applied, cursor>>,
         \A h \in handlers' : \A op \in h.left : ~op.bad,
         \A d \in Devices : /\ cycle'[d].batch \subseteq ToSet(audit[d])
                            /\ \A x \in cycle'[d].page : x.seq > Watermark(d)
  PROVE  PromiseInv' /\ UNCHANGED Contract!vars
<1>1. RefusalOK'
  BY DEF PromiseInv, RefusalOK
<1>2. ASSUME NEW d \in Devices PROVE OwnOK(d)'
  <2>1. Watermark(d)' = Watermark(d)
    BY DEF Watermark
  <2> QED
    BY <2>1 DEF PromiseInv, OwnOK
<1> QED
  BY <1>1, <1>2, Silent DEF PromiseInv

\* So it is when one cycle goes on with the batch and the page c has.
LEMMA CycleStays ==
  ASSUME IInv, PromiseInv, UNCHANGED <<audit, log, acked, conflicts, applied, cursor>>,
         NEW d \in Devices, NEW c, cycle' = [cycle EXCEPT ![d] = c],
         c.batch \subseteq ToSet(audit[d]), \A x \in c.page : x.seq > Watermark(d),
         \A h \in handlers' : \A op \in h.left : ~op.bad
  PROVE  PromiseInv' /\ UNCHANGED Contract!vars
<1>1. cycle'[d] = c /\ \A x \in Devices \ {d} : cycle'[x] = cycle[x]
  BY DEF IInv, WorkOK
<1>2. ASSUME NEW e \in Devices
      PROVE  cycle'[e].batch \subseteq ToSet(audit[e]) /\ \A x \in cycle'[e].page : x.seq > Watermark(e)
  BY <1>1 DEF PromiseInv, OwnOK
<1> QED
  BY <1>2, PromiseStays

\* A handler works on nothing the server refuses.
LEMMA GoodHandler ==
  ASSUME NEW d, NEW batch
  PROVE  \A op \in Handler(d, batch).left : ~op.bad
BY DEF Handler

\* The cycle that pushes again, or gives up.
LEMMA RetryStays ==
  ASSUME IInv, PromiseInv, UNCHANGED <<audit, log, acked, conflicts, applied, cursor>>,
         NEW d \in Devices, NEW rest, Retry(d, rest), \A h \in rest : \A op \in h.left : ~op.bad
  PROVE  PromiseInv' /\ UNCHANGED Contract!vars
<1>1. cycle[d] \in Cycles0
  BY DEF IInv, WorkOK
<1>2. PICK c : /\ cycle' = [cycle EXCEPT ![d] = c]
               /\ c.batch \subseteq ToSet(audit[d]) /\ \A x \in c.page : x.seq > Watermark(d)
  <2> DEFINE again == [cycle[d] EXCEPT !.tries = @ + 1]
  <2>1. again.batch = cycle[d].batch /\ again.page = cycle[d].page
    BY <1>1 DEF Cycles0
  <2>2. Idle.batch = {} /\ Idle.page = {}
    BY DEF Idle
  <2>3. cycle' = [cycle EXCEPT ![d] = again] \/ cycle' = [cycle EXCEPT ![d] = Idle]
    BY DEF Retry
  <2>4. cycle[d].batch \subseteq ToSet(audit[d]) /\ \A x \in cycle[d].page : x.seq > Watermark(d)
    BY DEF PromiseInv, OwnOK
  <2> HIDE DEF again
  <2>5. CASE cycle' = [cycle EXCEPT ![d] = again]
    <3>1. PICK c : c = again
      OBVIOUS
    <3> QED
      BY <2>1, <2>4, <2>5, <3>1
  <2>6. CASE cycle' = [cycle EXCEPT ![d] = Idle]
    BY <2>2, <2>6
  <2> QED
    BY <2>3, <2>5, <2>6
<1>3. \A h \in handlers' : h \in rest \/ h = Handler(d, cycle[d].batch)
  BY DEF Retry
<1>4. \A h \in handlers' : \A op \in h.left : ~op.bad
  BY <1>3, GoodHandler
<1> QED
  BY <1>2, <1>4, CycleStays

\* A cycle that starts, pushes, hears the answer, takes a page or dies.
LEMMA PromiseCycle ==
  ASSUME IInv, PromiseInv, NEW d \in Devices,
         \/ \E kind \in Cycles : StartCycle(d, kind)
         \/ PushFailed(d) \/ AnswerLost(d) \/ PushAnswered(d) \/ PullPage(d) \/ CycleDies(d)
  PROVE  PromiseInv' /\ UNCHANGED Contract!vars
<1>1. UNCHANGED <<audit, log, acked, conflicts, applied, cursor>>
  BY DEF StartCycle, PushFailed, AnswerLost, PushAnswered, PullPage, TakePage, CycleDies,
         outbox, inbox, server
<1>2. /\ cycle[d] \in Cycles0 /\ handlers \subseteq Handlers0
      /\ cycle[d].batch \subseteq ToSet(audit[d]) /\ \A x \in cycle[d].page : x.seq > Watermark(d)
  BY DEF IInv, WorkOK, PromiseInv, OwnOK
<1>3. \A h \in handlers : \A op \in h.left : ~op.bad
  BY DEF PromiseInv, RefusalOK
<1>4. Idle.batch = {} /\ Idle.page = {}
  BY DEF Idle
<1>5. CASE \E kind \in Cycles : StartCycle(d, kind)
  <2>1. PICK kind : StartCycle(d, kind)
    BY <1>5
  <2>2. PICK batch \in SUBSET ToSet(audit[d]) : batch = IF kind = "pull" THEN {} ELSE Pending(d)
    BY DEF Pending
  <2> DEFINE pull == [Idle EXCEPT !.pc = "pull"]
             push == [Idle EXCEPT !.pc = "push", !.tries = 1, !.batch = batch, !.pulls = (kind # "push")]
  <2>3. pull.batch = {} /\ pull.page = {} /\ push.batch = batch /\ push.page = {}
    BY DEF Idle
  <2>4. \/ cycle' = [cycle EXCEPT ![d] = pull] /\ handlers' = handlers
        \/ cycle' = [cycle EXCEPT ![d] = push] /\ handlers' = handlers \cup {Handler(d, batch)}
    BY <2>1, <2>2 DEF StartCycle
  <2> HIDE DEF pull, push
  <2>5. PICK c : cycle' = [cycle EXCEPT ![d] = c] /\ c.batch \subseteq ToSet(audit[d]) /\ c.page = {}
    BY <2>3, <2>4
  <2>6. \A h \in handlers' : \A op \in h.left : ~op.bad
    BY <1>3, <2>4, GoodHandler
  <2> QED
    BY <1>1, <2>5, <2>6, CycleStays
<1>6. CASE PushFailed(d)
  <2>1. PICK h : Retry(d, handlers \ {h})
    BY <1>6 DEF PushFailed
  <2> QED
    BY <1>1, <1>3, <2>1, RetryStays
<1>7. CASE AnswerLost(d)
  <2>1. PICK h \in handlers : Retry(d, (handlers \ {h}) \cup {Lost(h)})
    BY <1>7 DEF AnswerLost, Heard
  <2>2. PICK g : g = Lost(h)
    OBVIOUS
  <2>3. g.left = h.left
    BY <1>2, <2>2 DEF Lost, Handlers0
  <2>4. \A x \in (handlers \ {h}) \cup {g} : \A op \in x.left : ~op.bad
    BY <1>3, <2>3
  <2>5. Retry(d, (handlers \ {h}) \cup {g})
    BY <2>1, <2>2
  <2>6. PICK rest : rest = (handlers \ {h}) \cup {g}
    OBVIOUS
  <2> QED
    BY <1>1, <2>4, <2>5, <2>6, RetryStays
<1>8. CASE PushAnswered(d)
  <2> DEFINE heard == [cycle[d] EXCEPT !.pc = "ack"]
  <2>1. cycle' = [cycle EXCEPT ![d] = heard] /\ handlers' \subseteq handlers
    BY <1>8 DEF PushAnswered
  <2>2. heard.batch = cycle[d].batch /\ heard.page = cycle[d].page
    BY <1>2 DEF Cycles0
  <2> HIDE DEF heard
  <2>3. PICK c : c = heard
    OBVIOUS
  <2>4. \A h \in handlers' : \A op \in h.left : ~op.bad
    BY <1>3, <2>1
  <2> QED
    BY <1>1, <1>2, <2>1, <2>2, <2>3, <2>4, CycleStays
<1>9. CASE PullPage(d)
  <2>1. PICK page : page = {x \in Replayed(d) : x.seq =< PageEnd(d)}
    OBVIOUS
  <2>2. PICK next, more :
          cycle' = [cycle EXCEPT ![d] = [Idle EXCEPT !.pc = "merge", !.next = next, !.more = more,
                                                     !.page = page]]
    BY <1>9, <2>1 DEF PullPage, TakePage
  <2> DEFINE merge == [Idle EXCEPT !.pc = "merge", !.next = next, !.more = more, !.page = page]
  <2>3. merge.batch = {} /\ merge.page = page
    BY DEF Idle
  <2>4. ASSUME NEW x \in page PROVE x.seq > Watermark(d)
    <3>1. Watermark(d) \in Nat /\ Len(log) \in Nat
      BY WatermarkBounds DEF IInv, LogOK, IsSeq
    <3>2. PICK k \in Watermark(d) + 1..Len(log) : x = log[k]
      BY <2>1 DEF Replayed
    <3>3. k \in 1..Len(log) /\ k > Watermark(d)
      BY <3>1
    <3>4. x.seq = k
      BY <3>2, <3>3 DEF IInv, LogOK
    <3> QED
      BY <3>3, <3>4
  <2>5. cycle' = [cycle EXCEPT ![d] = merge] /\ handlers' = handlers
    BY <1>9, <2>2 DEF PullPage, TakePage, server
  <2> HIDE DEF merge
  <2> QED
    BY <1>1, <1>3, <2>3, <2>4, <2>5, CycleStays
<1>10. CASE CycleDies(d)
  <2>1. cycle' = [cycle EXCEPT ![d] = Idle]
    BY <1>10 DEF CycleDies
  <2>2. ASSUME NEW h \in handlers' PROVE \A op \in h.left : ~op.bad
    <3>1. CASE h \in handlers
      BY <1>3, <3>1
    <3>2. CASE h \notin handlers
      <4>1. PICK g \in handlers : h = Lost(g)
        BY <1>10, <3>2 DEF CycleDies, Heard
      <4>2. h.left = g.left
        BY <1>2, <4>1 DEF Lost, Handlers0
      <4> QED
        BY <1>3, <4>2
    <3> QED
      BY <3>1, <3>2
  <2> QED
    BY <1>1, <1>4, <2>1, <2>2, CycleStays
<1> QED
  BY <1>5, <1>6, <1>7, <1>8, <1>9, <1>10

\* A handler that projects, ends or dies.
LEMMA PromiseHandler ==
  ASSUME IInv, PromiseInv, NEW h \in handlers, Project(h) \/ Unheard(h) \/ HandlerDies(h)
  PROVE  PromiseInv' /\ UNCHANGED Contract!vars
<1>1. UNCHANGED <<audit, log, acked, conflicts, applied, cursor, cycle>>
  BY DEF Project, Unheard, HandlerDies, outbox, inbox
<1>2. h \in Handlers0
  BY DEF IInv, WorkOK
<1>3. ASSUME NEW g \in handlers' PROVE g.left = h.left \/ g \in handlers
  <2>1. \/ g \in handlers \/ g = [h EXCEPT !.failed = TRUE] \/ g = [h EXCEPT !.doing = {}]
    BY <1>3 DEF Project, Unheard, HandlerDies
  <2> QED
    BY <1>2, <2>1 DEF Handlers0
<1>4. \A g \in handlers' : \A op \in g.left : ~op.bad
  BY <1>3 DEF PromiseInv, RefusalOK
<1>5. \A d \in Devices : /\ cycle'[d].batch \subseteq ToSet(audit[d])
                         /\ \A x \in cycle'[d].page : x.seq > Watermark(d)
  BY <1>1 DEF PromiseInv, OwnOK
<1> QED
  BY <1>1, <1>4, <1>5, PromiseStays

\* A local write makes an operation.
LEMMA PromiseWrite ==
  ASSUME IInv, PromiseInv, NEW d \in Devices, NEW act, NEW e, NEW val, NEW newRows, NEW changed,
         Write(d, act, e, val, newRows, changed)
  PROVE  PromiseInv' /\ Contract!Next
<1>1. PICK bad \in BOOLEAN :
        \E q \in Queued(audit[d], [id |-> writes + 1, dev |-> d, ent |-> e, act |-> act,
                                   val |-> val, t |-> LocalNow(d), bad |-> bad]) :
            audit' = [audit EXCEPT ![d] = q]
  BY DEF Write
<1> DEFINE new == [id |-> writes + 1, dev |-> d, ent |-> e, act |-> act,
                   val |-> val, t |-> LocalNow(d), bad |-> bad]
<1>2. PICK i \in 1..Len(audit[d]) + 1 : audit' = [audit EXCEPT ![d] = InsertAt(audit[d], i, new)]
  BY <1>1 DEF Queued
<1>3. new.id = writes + 1 /\ writes \in Nat
  BY DEF IInv, QueueOK
<1> HIDE DEF new
<1>4. PICK op : op = new
  OBVIOUS
<1>5. UNCHANGED <<acked, applied, cursor, conflicts, cycle, log, handlers>>
  BY DEF Write, inbox, server
<1>6. /\ ToSet(audit'[d]) = ToSet(audit[d]) \cup {op}
      /\ \A x \in Devices \ {d} : audit'[x] = audit[x]
  <2>1. audit = [x \in Devices |-> audit[x]] /\ IsSeq(audit[d])
    BY DEF IInv, QueueOK
  <2>2. audit'[d] = InsertAt(audit[d], i, op) /\ \A x \in Devices \ {d} : audit'[x] = audit[x]
    BY <1>2, <1>4, <2>1
  <2> QED
    BY <2>1, <2>2, Inserted
<1>7. \A x \in Devices : \A o \in ToSet(audit[x]) : o.id \in 1..writes
  BY DEF IInv, QueueOK, Made
<1>8. /\ \A x \in Devices : op \notin ToSet(audit[x])
      /\ op.id \notin acked[d]
      /\ \A c \in conflicts[d] : ~(c.kind = "rejectedByServer" /\ c.op = op.id)
  BY <1>3, <1>4, <1>7, BookedIds
<1>9. PromiseInv'
  <2>1. RefusalOK'
    BY <1>5 DEF PromiseInv, RefusalOK
  <2>2. ASSUME NEW x \in Devices PROVE OwnOK(x)'
    <3>1. ToSet(audit[x]) \subseteq ToSet(audit'[x])
      BY <1>6
    <3>2. Watermark(x)' = Watermark(x)
      BY <1>5 DEF Watermark
    <3> QED
      BY <1>5, <3>1, <3>2 DEF PromiseInv, OwnOK
  <2> QED
    BY <2>1, <2>2 DEF PromiseInv
<1>10. MadeOn' = [MadeOn EXCEPT ![d] = @ \cup {op}] /\ \A x \in Devices : op \notin MadeOn[x]
  BY <1>6, <1>8 DEF MadeOn
<1>11. SettledOn' = SettledOn
  <2>1. ASSUME NEW x \in Devices
        PROVE  (ToSet(audit[x]) \ Pending(x))' = ToSet(audit[x]) \ Pending(x)
    BY <1>5, <1>6, <1>8 DEF Pending
  <2> QED
    BY <2>1 DEF SettledOn
<1>12. RefusedOn' = RefusedOn
  <2>1. ASSUME NEW x \in Devices
        PROVE  {o \in ToSet(audit'[x]) : \E c \in conflicts'[x] : c.kind = "rejectedByServer" /\ c.op = o.id}
               = {o \in ToSet(audit[x]) : \E c \in conflicts[x] : c.kind = "rejectedByServer" /\ c.op = o.id}
    BY <1>5, <1>6, <1>8
  <2> QED
    BY <2>1 DEF RefusedOn
<1>13. LoggedOps' = LoggedOps /\ PlaceOf' = PlaceOf /\ GivenTo' = GivenTo
  BY <1>5 DEF LoggedOps, PlaceOf, GivenTo, Watermark
<1>14. op \in MadeOn'[d]
  BY <1>6 DEF MadeOn
<1>15. Contract!Make(d)
  BY <1>10, <1>11, <1>12, <1>13, <1>14 DEF Contract!Make
<1> QED
  BY <1>9, <1>15 DEF Contract!Next

\* The server takes an operation it does not have, and none that it refuses.
LEMMA PromiseAppend ==
  ASSUME IInv, PromiseInv, NEW h \in handlers, Append1(h)
  PROVE  PromiseInv' /\ [Contract!Next]_(Contract!vars)
<1>1. PICK op \in Upcoming(h) :
        /\ IF Logged(op.id)
           THEN UNCHANGED <<log, now>>
           ELSE /\ log' = Append(log, [op |-> op, seq |-> Len(log) + 1, at |-> now + 1])
                /\ now' = now + 1
        /\ handlers' = (handlers \ {h}) \cup {[h EXCEPT !.left = @ \ {op}, !.doing = {op}]}
        /\ UNCHANGED <<writes, faults, books, outbox, inbox, conflicts, cycle, mirror>>
  BY DEF Append1
<1> DEFINE entry == [op |-> op, seq |-> Len(log) + 1, at |-> now + 1]
<1>2. UNCHANGED <<audit, acked, applied, cursor, conflicts, cycle>>
  BY <1>1 DEF outbox, inbox
<1>3. h \in Handlers0 /\ op \in h.left /\ op \in Made /\ ~op.bad
  BY DEF Upcoming, IInv, WorkOK, Handlers0, PromiseInv, RefusalOK
<1>4. \A g \in handlers' : \A o \in g.left : ~o.bad
  BY <1>1, <1>3 DEF PromiseInv, RefusalOK, Handlers0
<1>5. \A d \in Devices : /\ cycle'[d].batch \subseteq ToSet(audit[d])
                         /\ \A x \in cycle'[d].page : x.seq > Watermark(d)
  BY <1>2 DEF PromiseInv, OwnOK
<1>6. CASE Logged(op.id)
  BY <1>1, <1>2, <1>4, <1>5, <1>6, PromiseStays
<1>7. CASE ~Logged(op.id)
  <2>1. IsSeq(log) /\ Len(log) \in Nat /\ entry.op = op
    BY DEF IInv, LogOK, IsSeq
  <2>2. log' = Append(log, entry)
    BY <1>1, <1>7
  <2> HIDE DEF entry
  <2>3. /\ Len(log') = Len(log) + 1
        /\ \A k \in 1..Len(log) : log'[k] = log[k]
        /\ log'[Len(log) + 1] = entry
    BY <2>1, <2>2, Appended
  <2>4. PromiseInv'
    <3>1. RefusalOK'
      BY <1>3, <1>4, <2>1, <2>3 DEF PromiseInv, RefusalOK
    <3>2. ASSUME NEW d \in Devices PROVE OwnOK(d)'
      BY <1>2 DEF PromiseInv, OwnOK, Watermark
    <3> QED
      BY <3>1, <3>2 DEF PromiseInv
  <2>5. LoggedOps' = Append(LoggedOps, op)
    <3>1. IsSeq(LoggedOps) /\ Len(LoggedOps) = Len(log)
      <4> DEFINE S == {log[k].op : k \in 1..Len(log)}
      <4>1. LoggedOps \in [1..Len(log) -> S]
        BY DEF LoggedOps
      <4>2. ToSet(LoggedOps) = S
        BY DEF LoggedOps, ToSet
      <4> HIDE DEF S
      <4> QED
        BY <2>1, <4>1, <4>2 DEF IsSeq
    <3>2. PICK r : r = Append(LoggedOps, op)
      OBVIOUS
    <3>3. /\ r \in Seq(ToSet(r)) /\ Len(r) = Len(log) + 1
          /\ \A k \in 1..Len(log) : r[k] = LoggedOps[k]
          /\ r[Len(log) + 1] = op
      BY <3>1, <3>2, Appended DEF IsSeq
    <3>4. LoggedOps' = [k \in 1..Len(log) + 1 |-> log'[k].op]
      BY <2>3 DEF LoggedOps
    <3>5. \A k \in 1..Len(log) : LoggedOps[k] = log[k].op
      BY DEF LoggedOps
    <3>6. ASSUME NEW k \in 1..Len(log) + 1 PROVE log'[k].op = r[k]
      BY <2>1, <2>3, <3>3, <3>5
    <3>7. r = [k \in 1..Len(log) + 1 |-> r[k]]
      BY <2>1, <3>3
    <3> QED
      BY <3>2, <3>4, <3>6, <3>7
  <2>6. PICK d \in Devices : op \in MadeOn[d]
    BY <1>3 DEF Made, MadeOn
  <2>7. ~Contract!Logged(op)
    BY <1>3, <1>7, LoggedById
  <2>8. ASSUME NEW x \in Devices, op \in RefusedOn[x] PROVE FALSE
    <3>1. op \in ToSet(audit[x])
      BY <2>8 DEF RefusedOn
    <3>2. PICK c \in conflicts[x] : c.kind = "rejectedByServer" /\ c.op = op.id
      BY <2>8 DEF RefusedOn
    <3>3. PICK o \in ToSet(audit[x]) : o.id = op.id /\ o.bad
      BY <3>2 DEF PromiseInv, OwnOK
    <3> QED
      BY <1>3, <3>1, <3>3, OneOfAnId
  <2>9. UNCHANGED <<MadeOn, SettledOn, RefusedOn, PlaceOf, GivenTo>>
    BY <1>2 DEF MadeOn, SettledOn, RefusedOn, PlaceOf, GivenTo, Pending, Watermark
  <2>10. Contract!Take(op)
    BY <2>5, <2>7, <2>8, <2>9 DEF Contract!Take
  <2> QED
    BY <2>4, <2>6, <2>10 DEF Contract!Next
<1> QED
  BY <1>6, <1>7

\* What the server answered is booked: what it took is in the log, and what
\* it refused is shown.
LEMMA PromiseAnswer ==
  ASSUME IInv, PromiseInv, NEW d \in Devices, RecordAcks(d) \/ RecordRejections(d)
  PROVE  PromiseInv' /\ Contract!Next
<1>1. UNCHANGED <<audit, applied, cursor, log, handlers>>
  BY DEF RecordAcks, RecordRejections, inbox, server
<1>2. /\ acked = [x \in Devices |-> acked[x]] /\ conflicts = [x \in Devices |-> conflicts[x]]
      /\ cycle \in [Devices -> Cycles0] /\ cycle[d] \in Cycles0
  BY DEF IInv, QueueOK, SettledOK, WorkOK
<1>3. PICK ops \in SUBSET ToSet(audit[d]) :
        \/ RecordAcks(d) /\ ops = Accepted(d)
        \/ RecordRejections(d) /\ ops = RefusedOps(d)
  BY DEF PromiseInv, OwnOK, Accepted, RefusedOps
<1>4. /\ acked'[d] = acked[d] \cup {op.id : op \in ops}
      /\ \A x \in Devices \ {d} : acked'[x] = acked[x] /\ conflicts'[x] = conflicts[x]
  BY <1>2, <1>3 DEF RecordAcks, RecordRejections
<1>5. ASSUME NEW op \in ops
      PROVE  Contract!Logged(op) <=> RecordAcks(d) /\ ops = Accepted(d)
  <2>1. op \in Made
    BY DEF Made
  <2>2. CASE RecordAcks(d) /\ ops = Accepted(d)
    <3>1. Logged(op.id)
      BY <2>2 DEF RecordAcks, IInv, PushOK
    <3> QED
      BY <2>1, <2>2, <3>1, LoggedById
  <2>3. CASE RecordRejections(d) /\ ops = RefusedOps(d)
    <3>1. op.bad /\ cycle[d].pc # "ack"
      BY <2>3 DEF RefusedOps, Accepted, RecordRejections
    <3>2. ~Contract!Logged(op)
      BY <3>1, LogOfOps DEF IInv, PromiseInv, RefusalOK
    <3> QED
      BY <3>1, <3>2 DEF RecordAcks
  <2> QED
    BY <1>3, <2>2, <2>3
<1>6. /\ \A c \in conflicts'[d] : c \in conflicts[d] \/ \E op \in ops : c.op = op.id /\ op.bad
      /\ conflicts[d] \subseteq conflicts'[d]
      /\ \A op \in ops : ~Contract!Logged(op) =>
            \E c \in conflicts'[d] : c.kind = "rejectedByServer" /\ c.op = op.id
      /\ \A c \in conflicts'[d] \ conflicts[d] : \E op \in ops : c.op = op.id /\ ~Contract!Logged(op)
  <2>1. CASE RecordAcks(d) /\ ops = Accepted(d)
    <3>1. conflicts' = conflicts
      BY <2>1 DEF RecordAcks
    <3> QED
      BY <1>5, <2>1, <3>1
  <2>2. CASE RecordRejections(d) /\ ops = RefusedOps(d)
    <3> DEFINE filed(op) == [kind |-> "rejectedByServer", op |-> op.id, dev |-> d, ent |-> op.ent]
    <3>1. conflicts'[d] = conflicts[d] \cup {filed(op) : op \in ops}
      BY <1>2, <2>2 DEF RecordRejections
    <3>2. \A op \in ops : filed(op).kind = "rejectedByServer" /\ filed(op).op = op.id /\ op.bad
      BY <2>2 DEF RefusedOps, Accepted
    <3>3. cycle[d].pc # "ack"
      BY <2>2 DEF RecordRejections
    <3>4. \A op \in ops : ~Contract!Logged(op)
      BY <1>5, <3>3 DEF RecordAcks
    <3> HIDE DEF filed
    <3> QED
      BY <3>1, <3>2, <3>4
  <2> QED
    BY <1>3, <2>1, <2>2
<1>7. PromiseInv'
  <2>1. RefusalOK'
    BY <1>1 DEF PromiseInv, RefusalOK
  <2>2. PICK c : /\ cycle' = [cycle EXCEPT ![d] = c]
                 /\ c.batch \subseteq cycle[d].batch /\ c.page \subseteq cycle[d].page
    <3> DEFINE refused == [cycle[d] EXCEPT !.pc = "quarantine"]
               after == AfterPush(d)
    <3>1. refused.batch = cycle[d].batch /\ refused.page = cycle[d].page
      BY <1>2 DEF Cycles0
    <3>2. after.batch = {} /\ after.page = {}
      BY DEF AfterPush, Idle
    <3>3. cycle' = [cycle EXCEPT ![d] = refused] \/ cycle' = [cycle EXCEPT ![d] = after]
      BY DEF RecordAcks, RecordRejections
    <3> HIDE DEF refused, after
    <3> QED
      BY <3>1, <3>2, <3>3
  <2>3. ASSUME NEW x \in Devices PROVE OwnOK(x)'
    <3>1. Watermark(x)' = Watermark(x)
      BY <1>1 DEF Watermark
    <3>2. cycle'[x].batch \subseteq cycle[x].batch /\ cycle'[x].page \subseteq cycle[x].page
      BY <1>2, <2>2
    <3>3. \A y \in conflicts'[x] : y.kind = "rejectedByServer" =>
             \E op \in ToSet(audit[x]) : op.id = y.op /\ op.bad
      <4>1. CASE x = d
        BY <1>6, <4>1 DEF PromiseInv, OwnOK
      <4>2. CASE x # d
        BY <1>4, <4>2 DEF PromiseInv, OwnOK
      <4> QED
        BY <4>1, <4>2
    <3> QED
      BY <1>1, <3>1, <3>2, <3>3 DEF PromiseInv, OwnOK
  <2> QED
    BY <2>1, <2>3 DEF PromiseInv
<1>8. SettledOn' = [SettledOn EXCEPT ![d] = @ \cup ops]
  <2>1. ASSUME NEW op \in ToSet(audit[d]) PROVE op.id \in acked'[d] <=> op.id \in acked[d] \/ op \in ops
    BY <1>4, OneOfAnId
  <2>2. (ToSet(audit[d]) \ Pending(d))' = (ToSet(audit[d]) \ Pending(d)) \cup ops
    BY <1>1, <2>1 DEF Pending
  <2>3. ASSUME NEW x \in Devices \ {d} PROVE (ToSet(audit[x]) \ Pending(x))' = ToSet(audit[x]) \ Pending(x)
    BY <1>1, <1>4 DEF Pending
  <2> QED
    BY <2>2, <2>3 DEF SettledOn
<1>9. RefusedOn' = [RefusedOn EXCEPT ![d] = @ \cup {op \in ops : ~Contract!Logged(op)}]
  <2> DEFINE shown(x) ==
        {op \in ToSet(audit[x]) : \E c \in conflicts[x] : c.kind = "rejectedByServer" /\ c.op = op.id}
  <2>1. ASSUME NEW op \in ToSet(audit[d])
        PROVE  (\E c \in conflicts'[d] : c.kind = "rejectedByServer" /\ c.op = op.id) <=>
                   \/ \E c \in conflicts[d] : c.kind = "rejectedByServer" /\ c.op = op.id
                   \/ op \in ops /\ ~Contract!Logged(op)
    BY <1>6, OneOfAnId
  <2>2. shown(d)' = shown(d) \cup {op \in ops : ~Contract!Logged(op)}
    BY <1>1, <2>1
  <2>3. ASSUME NEW x \in Devices \ {d} PROVE shown(x)' = shown(x)
    BY <1>1, <1>4
  <2>4. RefusedOn = [x \in Devices |-> shown(x)] /\ RefusedOn' = [x \in Devices |-> shown(x)']
    BY DEF RefusedOn
  <2> HIDE DEF shown
  <2> QED
    BY <2>2, <2>3, <2>4
<1>10. UNCHANGED <<MadeOn, LoggedOps, PlaceOf, GivenTo>>
  BY <1>1 DEF MadeOn, LoggedOps, PlaceOf, GivenTo, Watermark
<1>11. Contract!Settle(d, ops) /\ ops \in SUBSET MadeOn[d]
  BY <1>8, <1>9, <1>10 DEF Contract!Settle, MadeOn
<1> QED
  BY <1>7, <1>11 DEF Contract!Next

\* The device is given a page: what lies between its place and its next is
\* in the page or in an archived ledger.
LEMMA Delivered ==
  ASSUME IInv, NEW d \in Devices, UNCHANGED <<MadeOn, LoggedOps, SettledOn, RefusedOn>>,
         NEW page \in SUBSET ToSet(log), applied' = [applied EXCEPT ![d] = @ \cup page],
         NEW n \in Watermark(d)..Len(log), n = Watermark(d)',
         \A x \in Devices \ {d} : Watermark(x)' = Watermark(x),
         \A x \in page : x.seq > Watermark(d) /\ x.seq =< n,
         \A k \in Watermark(d) + 1..n : log[k] \in page \/ EverArchived(log[k].op.ent)
  PROVE  Contract!Next
<1>1. /\ Len(log) \in Nat /\ Len(LoggedOps) = Len(log) /\ DOMAIN log = 1..Len(log)
      /\ \A k \in 1..Len(log) : LoggedOps[k] = log[k].op
      /\ Watermark(d) \in 0..Len(log) /\ n \in 0..Len(log)
  BY LogOfOps, WatermarkBounds DEF IInv
<1>2. ASSUME NEW x \in page PROVE x.seq \in 1..Len(log) /\ x = log[x.seq]
  <2>1. PICK k \in 1..Len(log) : x = log[k]
    BY <1>1 DEF ToSet
  <2> QED
    BY <2>1 DEF IInv, LogOK
<1>3. PICK given : given = {x.seq : x \in page}
  OBVIOUS
<1>4. given \subseteq Watermark(d) + 1..n
  <2>1. ASSUME NEW x \in page PROVE x.seq \in Watermark(d) + 1..n
    BY <1>1, <1>2
  <2> QED
    BY <1>3, <2>1
<1>5. PlaceOf[d] = Watermark(d) /\ PlaceOf' = [PlaceOf EXCEPT ![d] = n]
  BY DEF PlaceOf
<1>6. GivenTo' = [GivenTo EXCEPT ![d] = @ \cup {<<k, LoggedOps[k]>> : k \in given}]
  <2>1. /\ applied'[d] = applied[d] \cup page
        /\ \A x \in Devices \ {d} : applied'[x] = applied[x]
    BY DEF IInv, InboxOK
  <2>2. \A x \in page : LoggedOps[x.seq] = x.op
    BY <1>1, <1>2
  <2>3. {<<x.seq, x.op>> : x \in applied'[d]} =
            {<<x.seq, x.op>> : x \in applied[d]} \cup {<<k, LoggedOps[k]>> : k \in given}
    BY <1>3, <2>1, <2>2
  <2> QED
    BY <2>1, <2>3 DEF GivenTo
<1>7. ASSUME NEW k \in (Watermark(d) + 1..n) \ given
      PROVE  \E j \in 1..Len(LoggedOps) : Archives(LoggedOps[j], LoggedOps[k])
  <2>1. k \in 1..Len(log) /\ log[k].seq = k
    BY <1>1 DEF IInv, LogOK
  <2>2. EverArchived(log[k].op.ent)
    BY <1>3, <2>1
  <2>3. PICK j \in 1..Len(log) : log[j].op.act = "USER_ARCHIVE"
                                 /\ log[k].op.ent \in Beneath(log[j].op.ent, Entities)
    BY <1>1, <2>2 DEF EverArchived
  <2>4. Archives(log[j].op, log[k].op)
    BY <2>3 DEF Archives
  <2> QED
    BY <1>1, <2>1, <2>4
<1>8. Contract!Deliver(d, n)
  BY <1>4, <1>5, <1>6, <1>7 DEF Contract!Deliver
<1>9. n \in PlaceOf[d]..Len(LoggedOps)
  BY <1>1, <1>5
<1> QED
  BY <1>8, <1>9 DEF Contract!Next

\* The page is merged: everything in it was still to come.
LEMMA PromiseMerge ==
  ASSUME IInv, BooksInv, PromiseInv, NEW d \in Devices, Merge(d)
  PROVE  PromiseInv' /\ Contract!Next
<1>1. PICK start : start = [rows |-> rows[d], seen |-> applied[d], conflicts |-> {}, affected |-> {}]
  OBVIOUS
<1>2. PICK merged : merged = ApplyAll(d, start, InOrder(cycle[d].page))
  OBVIOUS
<1>3. PICK page : page = cycle[d].page
  OBVIOUS
<1>4. PICK found \in SUBSET Found : conflicts' = [conflicts EXCEPT ![d] = @ \cup found]
  <2>1. merged.conflicts \in SUBSET Found
    BY <1>1, <1>2, PageMerges DEF Follows, Carried
  <2> QED
    BY <1>1, <1>2, <2>1 DEF Merge
<1>5. /\ cycle[d].pc = "merge"
      /\ applied' = [applied EXCEPT ![d] = @ \cup page]
      /\ cycle' = [cycle EXCEPT ![d].pc = "mark", ![d].page = {}]
      /\ UNCHANGED <<audit, acked, cursor, log, handlers>>
  BY <1>3 DEF Merge, outbox, server
<1>6. /\ cycle \in [Devices -> Cycles0] /\ cycle[d] \in Cycles0
      /\ page \subseteq ToSet(log) /\ cycle[d].next \in 0..Len(log)
  BY <1>3 DEF IInv, WorkOK, Cycles0
<1>7. /\ \A x \in page : x.seq > Watermark(d) /\ x.seq =< cycle[d].next
      /\ \A k \in 1..cycle[d].next : log[k] \in applied[d] \cup page \/ EverArchived(log[k].op.ent)
  BY <1>3, <1>5 DEF PromiseInv, OwnOK, IInv, PullOK
<1>8. /\ applied'[d] = applied[d] \cup page
      /\ \A x \in Devices \ {d} : applied'[x] = applied[x] /\ Watermark(x)' = Watermark(x)
  <2>1. /\ applied'[d] = applied[d] \cup page
        /\ \A x \in Devices \ {d} : applied'[x] = applied[x]
    BY <1>5 DEF IInv, InboxOK
  <2> QED
    BY <1>5, <2>1 DEF Watermark
<1>9. /\ conflicts'[d] = conflicts[d] \cup found
      /\ \A x \in Devices \ {d} : conflicts'[x] = conflicts[x]
      /\ \A c \in found : c.kind # "rejectedByServer"
  BY <1>4 DEF IInv, SettledOK, Found
<1>10. /\ Len(log) \in Nat /\ Watermark(d) \in 0..Len(log)
       /\ Watermark(d) = cursor[d] \/ \E x \in applied[d] : x.seq = Watermark(d)
       /\ cursor[d] =< Watermark(d) /\ \A x \in applied[d] : x.seq =< Watermark(d)
  BY WatermarkBounds DEF IInv, LogOK, IsSeq
<1>11. PICK n : n = Watermark(d)'
  OBVIOUS
<1>12. /\ n \in 0..Len(log)
       /\ n = cursor[d] \/ \E x \in applied[d] \cup page : x.seq = n
       /\ cursor[d] =< n /\ \A x \in applied[d] \cup page : x.seq =< n
  <2>1. n = Max({cursor[d]} \cup {x.seq : x \in applied[d] \cup page})
    BY <1>5, <1>8, <1>11 DEF Watermark
  <2>2. cursor[d] \in 0..Len(log)
    BY DEF IInv, InboxOK
  <2>3. \A x \in applied[d] \cup page : x.seq \in 0..Len(log)
    BY <1>3, <1>10, AppliedIsLogged
  <2> QED
    BY ZenonT(40), <1>10, <2>1, <2>2, <2>3, MarkOf
<1>13. n \in Watermark(d)..Len(log) /\ (n > Watermark(d) => \E x \in page : x.seq = n)
  BY <1>10, <1>12
<1>14. ASSUME NEW k \in Watermark(d) + 1..n PROVE log[k] \in page \/ EverArchived(log[k].op.ent)
  <2>1. n =< cycle[d].next
    BY <1>7, <1>10, <1>12, <1>13
  <2>2. k \in 1..cycle[d].next /\ k \in 1..Len(log) /\ k > Watermark(d)
    BY <1>6, <1>10, <1>12, <2>1
  <2>3. log[k] \notin applied[d]
    BY <1>10, <2>2 DEF IInv, LogOK
  <2> QED
    BY <1>7, <2>2, <2>3
<1>15. UNCHANGED <<MadeOn, LoggedOps, SettledOn, RefusedOn>>
  <2>1. UNCHANGED <<MadeOn, LoggedOps, SettledOn>>
    BY <1>5 DEF MadeOn, LoggedOps, SettledOn, Pending
  <2>2. ASSUME NEW x \in Devices
        PROVE  {o \in ToSet(audit'[x]) : \E c \in conflicts'[x] : c.kind = "rejectedByServer" /\ c.op = o.id}
               = {o \in ToSet(audit[x]) : \E c \in conflicts[x] : c.kind = "rejectedByServer" /\ c.op = o.id}
    BY <1>5, <1>9
  <2> QED
    BY <2>1, <2>2 DEF RefusedOn
<1>16. Contract!Next
  BY <1>5, <1>6, <1>7, <1>8, <1>11, <1>12, <1>13, <1>14, <1>15, Delivered
<1>17. ASSUME NEW x \in Devices PROVE OwnOK(x)'
  <2>1. /\ cycle'[d].batch = cycle[d].batch /\ cycle'[d].page = {}
        /\ \A y \in Devices \ {d} : cycle'[y] = cycle[y]
    BY <1>5, <1>6 DEF Cycles0
  <2>2. CASE x = d
    BY <1>5, <1>9, <2>1, <2>2 DEF PromiseInv, OwnOK
  <2>3. CASE x # d
    <3>1. /\ cycle'[x] = cycle[x] /\ conflicts'[x] = conflicts[x] /\ audit'[x] = audit[x]
          /\ Watermark(x)' = Watermark(x)
      BY <1>5, <1>8, <1>9, <2>1, <2>3
    <3> QED
      BY <3>1 DEF PromiseInv, OwnOK
  <2> QED
    BY <2>2, <2>3
<1>18. RefusalOK'
  BY <1>5 DEF PromiseInv, RefusalOK
<1> QED
  BY <1>16, <1>17, <1>18 DEF PromiseInv

\* The cursor moves over what the page left out.
LEMMA PromiseMark ==
  ASSUME IInv, PromiseInv, NEW d \in Devices, RecordPullWatermark(d)
  PROVE  PromiseInv' /\ Contract!Next
<1>1. PICK far : far = IF cycle[d].next > Watermark(d) THEN cycle[d].next ELSE cursor[d]
  OBVIOUS
<1>2. /\ cycle[d].pc = "mark"
      /\ cursor' = [cursor EXCEPT ![d] = far]
      /\ UNCHANGED <<audit, acked, applied, conflicts, log, handlers>>
  BY <1>1 DEF RecordPullWatermark, outbox, server
<1>3. /\ Len(log) \in Nat /\ Watermark(d) \in 0..Len(log) /\ cycle[d].next \in 0..Len(log)
      /\ Watermark(d) = cursor[d] \/ \E x \in applied[d] : x.seq = Watermark(d)
      /\ cursor[d] =< Watermark(d) /\ \A x \in applied[d] : x.seq =< Watermark(d)
      /\ cursor[d] \in 0..Len(log)
  BY WatermarkBounds DEF IInv, LogOK, IsSeq, WorkOK, Cycles0, InboxOK
<1>4. /\ cursor'[d] = far /\ \A x \in Devices \ {d} : cursor'[x] = cursor[x]
      /\ far \in 0..Len(log)
  BY <1>1, <1>2, <1>3 DEF IInv, InboxOK
<1>5. \A x \in Devices \ {d} : Watermark(x)' = Watermark(x)
  BY <1>2, <1>4 DEF Watermark
<1>6. PICK n : n = Watermark(d)'
  OBVIOUS
<1>7. /\ n \in 0..Len(log)
      /\ n = far \/ \E x \in applied[d] : x.seq = n
      /\ far =< n /\ \A x \in applied[d] : x.seq =< n
  <2>1. n = Max({far} \cup {x.seq : x \in applied[d]})
    BY <1>2, <1>4, <1>6 DEF Watermark
  <2>2. \A x \in applied[d] : x.seq \in 0..Len(log)
    BY <1>3, AppliedIsLogged
  <2> QED
    BY ZenonT(40), <1>3, <1>4, <2>1, <2>2, MarkOf
<1>8. n \in Watermark(d)..Len(log) /\ (n > Watermark(d) => n = cycle[d].next)
  BY <1>1, <1>3, <1>4, <1>7
<1>9. ASSUME NEW k \in Watermark(d) + 1..n PROVE EverArchived(log[k].op.ent)
  <2>1. k \in 1..cycle[d].next /\ k \in 1..Len(log) /\ k > Watermark(d)
    BY <1>3, <1>8
  <2>2. log[k] \notin applied[d]
    BY <1>3, <2>1 DEF IInv, LogOK
  <2> QED
    BY <1>2, <2>1, <2>2 DEF IInv, PullOK
<1>10. UNCHANGED <<MadeOn, LoggedOps, SettledOn, RefusedOn>>
  BY <1>2 DEF MadeOn, LoggedOps, SettledOn, RefusedOn, Pending
<1>11. applied' = [applied EXCEPT ![d] = @ \cup {}]
  BY <1>2 DEF IInv, InboxOK
<1>12. Contract!Next
  <2>1. PICK page \in SUBSET ToSet(log) : page = {}
    OBVIOUS
  <2> QED
    BY <1>5, <1>6, <1>8, <1>9, <1>10, <1>11, <2>1, Delivered
<1>13. ASSUME NEW x \in Devices PROVE OwnOK(x)'
  <2>1. cycle'[d].batch = {} /\ cycle'[d].page = {} /\ \A y \in Devices \ {d} : cycle'[y] = cycle[y]
    BY DEF RecordPullWatermark, Idle, IInv, WorkOK
  <2>2. CASE x = d
    BY <1>2, <2>1, <2>2 DEF PromiseInv, OwnOK
  <2>3. CASE x # d
    BY <1>2, <1>5, <2>1, <2>3 DEF PromiseInv, OwnOK
  <2> QED
    BY <2>2, <2>3
<1>14. RefusalOK'
  BY <1>2 DEF PromiseInv, RefusalOK
<1> QED
  BY <1>12, <1>13, <1>14 DEF PromiseInv

\* At the start nothing was made, taken or given.
LEMMA PromiseInit == Init => PromiseInv /\ Contract!Init
<1> SUFFICES ASSUME Init PROVE PromiseInv /\ Contract!Init
  OBVIOUS
<1>1. IInv
  BY InvInit
<1>2. log = <<>> /\ Len(log) = 0 /\ handlers = {}
  BY DEF Init
<1>3. ASSUME NEW d \in Devices
      PROVE  /\ ToSet(audit[d]) = {} /\ applied[d] = {} /\ conflicts[d] = {} /\ Watermark(d) = 0
             /\ cycle[d].batch = {} /\ cycle[d].page = {}
  <2>1. Watermark(d) = 0
    BY <1>1, <1>2, WatermarkBounds DEF IInv
  <2> QED
    BY <2>1 DEF Init, ToSet, Idle
<1>4. PromiseInv
  BY <1>2, <1>3 DEF PromiseInv, RefusalOK, OwnOK
<1>5. /\ MadeOn = [d \in Devices |-> {}] /\ SettledOn = [d \in Devices |-> {}]
      /\ RefusedOn = [d \in Devices |-> {}] /\ GivenTo = [d \in Devices |-> {}]
      /\ PlaceOf = [d \in Devices |-> 0]
  BY <1>3 DEF MadeOn, SettledOn, RefusedOn, GivenTo, PlaceOf
<1>6. LoggedOps = <<>>
  BY <1>2 DEF LoggedOps
<1> QED
  BY <1>4, <1>5, <1>6 DEF Contract!Init

\* Every step keeps the invariant, and is a step of the contract or a stutter
\* of it.
LEMMA PromiseNext ==
  IInv /\ BooksInv /\ PromiseInv /\ [Next]_vars => PromiseInv' /\ [Contract!Next]_(Contract!vars)
<1> SUFFICES ASSUME IInv, BooksInv, PromiseInv, [Next]_vars
             PROVE  PromiseInv' /\ [Contract!Next]_(Contract!vars)
  OBVIOUS
<1>1. ASSUME NEW d \in Devices, LocalWrite(d)
      PROVE  PromiseInv' /\ [Contract!Next]_(Contract!vars)
  <2>1. \E e, act, val, newRows, changed : Write(d, act, e, val, newRows, changed)
    BY <1>1 DEF LocalWrite, CreateRow, UpdateRow, DeleteRow, RestoreRow, ArchiveLedger
  <2> QED
    BY <2>1, PromiseWrite
<1>2. ASSUME NEW d \in Devices, \E kind \in Cycles : StartCycle(d, kind)
      PROVE  PromiseInv' /\ [Contract!Next]_(Contract!vars)
  BY <1>2, PromiseCycle
<1>3. ASSUME NEW d \in Devices, CycleStep(d)
      PROVE  PromiseInv' /\ [Contract!Next]_(Contract!vars)
  BY <1>3, PromiseCycle, PromiseAnswer, PromiseMerge, PromiseMark DEF CycleStep
<1>4. ASSUME NEW h \in handlers, ServerStep(h)
      PROVE  PromiseInv' /\ [Contract!Next]_(Contract!vars)
  BY <1>4, PromiseAppend, PromiseHandler DEF ServerStep
<1>5. ASSUME Fault PROVE PromiseInv' /\ [Contract!Next]_(Contract!vars)
  BY <1>5, PromiseCycle, PromiseHandler DEF Fault
<1>6. CASE UNCHANGED vars
  <2>1. UNCHANGED <<audit, log, acked, conflicts, applied, cursor, cycle, handlers>>
    BY <1>6 DEF vars, outbox, inbox, server
  <2>2. \A h \in handlers' : \A op \in h.left : ~op.bad
    BY <2>1 DEF PromiseInv, RefusalOK
  <2>3. \A d \in Devices : /\ cycle'[d].batch \subseteq ToSet(audit[d])
                           /\ \A x \in cycle'[d].page : x.seq > Watermark(d)
    BY <2>1 DEF PromiseInv, OwnOK
  <2> QED
    BY <2>1, <2>2, <2>3, PromiseStays
<1> QED
  BY <1>1, <1>2, <1>3, <1>4, <1>5, <1>6 DEF Next

\* The sync keeps what offline-first promises of an operation, for any devices,
\* books, clocks, page size, refusals, losses and deaths: push-sync-ops,
\* pull-sync-ops, pushPending and pullAndMerge together take every operation
\* at most once, lose none silently and give each device the log once.
THEOREM SyncImplementsContract == Spec => SyncContractHolds
<1>1. Init => IInv /\ BooksInv /\ PromiseInv /\ Contract!Init
  BY InvInit, BooksInit, PromiseInit
<1>2. IInv /\ BooksInv /\ PromiseInv /\ [Next]_vars =>
          (IInv /\ BooksInv /\ PromiseInv)' /\ [Contract!Next]_(Contract!vars)
  BY InvNext, BooksNext, PromiseNext DEF BooksInv, ClockOK, FaultsOK
<1> QED
  BY <1>1, <1>2, PTL DEF Spec, SyncContractHolds, Contract!Spec
=============================================================================
