----------------------------- MODULE LsmTheorems -----------------------------
(***************************************************************************)
(* Facts about the operators of Lsm: the search of the files, the merge    *)
(* and the log, for the proofs about PebbleDB and about the iterators.     *)
(***************************************************************************)
EXTENDS Lsm, Functions, FiniteSetTheorems, TLAPS

(***************************************************************************)
(* Least and greatest elements.  Both come from the fact that the finite   *)
(* subsets of a set are well-founded by strict inclusion.                  *)
(***************************************************************************)

\* The member m of a family F of sets contains no other strictly.
MinimalAt(F, I, m) == \A n \in I : ~(F[n] \subseteq F[m] /\ F[n] # F[m])

\* Every family of finite sets has such a member.
LEMMA MinimalMember ==
    ASSUME NEW I, I # {}, NEW D, NEW F \in [I -> FiniteSubsetsOf(D)]
    PROVE  \E m \in I : MinimalAt(F, I, m)
<1> DEFINE T == {F[n] : n \in I}
<1>1. T \subseteq FiniteSubsetsOf(D) /\ T # {}
  OBVIOUS
<1>2. \E x \in T : \A y \in T : ~(<<y, x>> \in StrictSubsetOrdering(D))
  <2> HIDE DEF T
  <2> QED
    BY <1>1, FS_StrictSubsetOrderingWellFounded, WFMin, Zenon
<1>3. PICK m \in I : \A n \in I : ~(<<F[n], F[m]>> \in StrictSubsetOrdering(D))
  BY <1>2
<1>4. \A n \in I : F[n] \in SUBSET D
  BY DEF FiniteSubsetsOf
<1> QED
  BY <1>3, <1>4 DEF StrictSubsetOrdering, MinimalAt

\* Any set of naturals that is not empty has a least element, which Least
\* names: the first key of a table, the first level over its capacity.
LEMMA LeastOfNaturals ==
    ASSUME NEW S \in SUBSET Nat, S # {}
    PROVE  /\ Least(S) \in S
           /\ \A y \in S : Least(S) <= y
<1> DEFINE F == [n \in S |-> 0 .. n]
<1>1. ASSUME NEW n \in S PROVE 0 .. n \in FiniteSubsetsOf(Nat)
  <2>1. n \in Int /\ 0 .. n \subseteq Nat
    OBVIOUS
  <2>2. IsFiniteSet(0 .. n)
    BY <2>1, FS_Interval
  <2> QED
    BY <2>1, <2>2 DEF FiniteSubsetsOf
<1>2. PICK m \in S : MinimalAt(F, S, m)
  <2>1. F \in [S -> FiniteSubsetsOf(Nat)]
    BY <1>1
  <2> HIDE DEF F
  <2> QED
    BY <2>1, MinimalMember, Zenon
<1>3. \A n \in S : ~(0 .. n \subseteq 0 .. m /\ 0 .. n # 0 .. m)
  BY <1>2 DEF MinimalAt
<1>4. ASSUME NEW y \in S PROVE m <= y
  <2>1. m \in Nat /\ y \in Nat
    OBVIOUS
  <2>2. CASE y < m
    <3>1. 0 .. y \subseteq 0 .. m
      BY <2>1, <2>2
    <3>2. m \in 0 .. m /\ m \notin 0 .. y
      BY <2>1, <2>2
    <3> QED
      BY <1>3, <3>1, <3>2
  <2> QED
    BY <2>1, <2>2
<1> QED
  BY <1>4 DEF Least

\* A finite set of naturals that is not empty has a greatest element, which
\* Greatest names: the last key of a table, the deepest level, the last id.
LEMMA GreatestOfFinite ==
    ASSUME NEW S \in SUBSET Nat, S # {}, IsFiniteSet(S)
    PROVE  /\ Greatest(S) \in S
           /\ \A y \in S : y <= Greatest(S)
<1> DEFINE Above(x) == {y \in S : x < y}
           F == [x \in S |-> Above(x)]
<1>1. F \in [S -> FiniteSubsetsOf(S)]
  <2>1. \A x \in S : IsFiniteSet(Above(x))
    BY FS_Subset
  <2> QED
    BY <2>1 DEF FiniteSubsetsOf
<1>2. PICK m \in S : MinimalAt(F, S, m)
  <2> HIDE DEF F
  <2> QED
    BY <1>1, MinimalMember, Zenon
<1>3. \A y \in S : ~(Above(y) \subseteq Above(m) /\ Above(y) # Above(m))
  BY <1>2 DEF MinimalAt
<1>4. ASSUME NEW y \in S PROVE y <= m
  <2>1. m \in Nat /\ y \in Nat
    OBVIOUS
  <2>2. CASE m < y
    <3>1. Above(y) \subseteq Above(m)
      <4> SUFFICES ASSUME NEW z \in S, y < z PROVE m < z
        OBVIOUS
      <4>1. z \in Nat
        OBVIOUS
      <4> QED
        BY <2>1, <2>2, <4>1
    <3>2. y \in Above(m) /\ y \notin Above(y)
      BY <2>1, <2>2
    <3> QED
      BY <1>3, <3>1, <3>2
  <2> QED
    BY <2>1, <2>2
<1> QED
  BY <1>4 DEF Greatest

(***************************************************************************)
(* The search of the files.                                                *)
(***************************************************************************)

\* No two tables of the set have the same id.
UniqueIds(files) == \A f, g \in files : f.id = g.id => f = g

\* In a finite set of tables with different ids one is newer than all the
\* others: the search order of a read is total.
LEMMA NewestOfFinite ==
    ASSUME NEW files \in SUBSET Table, files # {}, IsFiniteSet(files),
           UniqueIds(files)
    PROVE  /\ Newest(files) \in files
           /\ \A g \in files \ {Newest(files)} : Newer(Newest(files), g)
<1> DEFINE Over(f) == {g \in files : Newer(g, f)}
           F == [f \in files |-> Over(f)]
<1>1. F \in [files -> FiniteSubsetsOf(files)]
  <2>1. \A f \in files : IsFiniteSet(Over(f))
    BY FS_Subset
  <2> QED
    BY <2>1 DEF FiniteSubsetsOf
<1>2. PICK m \in files : MinimalAt(F, files, m)
  <2> HIDE DEF F
  <2> QED
    BY <1>1, MinimalMember, Zenon
<1>3. \A g \in files : ~(Over(g) \subseteq Over(m) /\ Over(g) # Over(m))
  BY <1>2 DEF MinimalAt
<1>4. \A f \in files : f.id \in Nat /\ f.level \in Nat
  BY DEF Table
<1>5. ASSUME NEW g \in files \ {m} PROVE Newer(m, g)
  <2>1. Newer(m, g) \/ Newer(g, m)
    BY <1>4 DEF Newer, UniqueIds
  <2>2. CASE Newer(g, m)
    <3>1. Over(g) \subseteq Over(m)
      BY <1>4, <2>2 DEF Newer
    <3>2. g \in Over(m) /\ g \notin Over(g)
      BY <1>4, <2>2 DEF Newer
    <3> QED
      BY <1>3, <3>1, <3>2
  <2> QED
    BY <2>1, <2>2
<1> QED
  BY <1>5 DEF Newest

\* A search of the files returns a record or Absent.
LEMMA LookupType ==
    ASSUME NEW files \in SUBSET Table, IsFiniteSet(files), UniqueIds(files),
           NEW k \in Key
    PROVE  Lookup(files, k) \in Entry \cup {Absent}
<1> DEFINE H == Holding(files, k)
<1>1. H \in SUBSET Table /\ IsFiniteSet(H) /\ UniqueIds(H)
  BY FS_Subset DEF Holding, UniqueIds
<1>2. CASE H = {}
  BY <1>2 DEF Lookup
<1>3. CASE H # {}
  <2>1. Newest(H) \in Table
    <3> HIDE DEF H
    <3> QED
      BY <1>1, <1>3, NewestOfFinite
  <2>2. Newest(H).contents \in Contents
    BY <2>1 DEF Table
  <2> QED
    BY <1>3, <2>2 DEF Lookup, Contents
<1> QED
  BY <1>2, <1>3

\* What a compaction writes is the contents of a table.
LEMMA MergeType ==
    ASSUME NEW files \in SUBSET Table, IsFiniteSet(files), UniqueIds(files),
           NEW drop \in BOOLEAN
    PROVE  Merge(files, drop) \in Contents
BY LookupType DEF Merge, Contents

\* What recovery rebuilds from the log is the contents of a memtable.
LEMMA ReplayType ==
    ASSUME NEW log \in Seq(Record)
    PROVE  Replay(log) \in Contents
<1> SUFFICES ASSUME NEW k \in Key PROVE Replay(log)[k] \in Entry \cup {Absent}
  BY DEF Replay, Contents
<1> DEFINE hits == {i \in DOMAIN log : log[i].key = k}
<1>1. CASE hits = {}
  BY <1>1 DEF Replay
<1>2. CASE hits # {}
  <2>1. hits \in SUBSET Nat /\ IsFiniteSet(hits)
    <3>1. DOMAIN log = 1 .. Len(log) /\ Len(log) \in Nat
      OBVIOUS
    <3>2. IsFiniteSet(1 .. Len(log))
      BY <3>1, FS_Interval
    <3> QED
      BY <3>1, <3>2, FS_Subset
  <2>2. Greatest(hits) \in hits
    <3> HIDE DEF hits
    <3> QED
      BY <1>2, <2>1, GreatestOfFinite
  <2>3. log[Greatest(hits)] \in Record
    BY <2>2
  <2> QED
    BY <1>2, <2>3 DEF Replay, Record
<1> QED
  BY <1>1, <1>2

\* A part of a table's contents is again the contents of a table.
LEMMA OnlyType ==
    ASSUME NEW contents \in Contents, NEW keys
    PROVE  Only(contents, keys) \in Contents
BY DEF Only, Contents

\* An output file is never empty as long as records are left to write.
LEMMA FirstKeysNotEmpty ==
    ASSUME NEW contents \in Contents, contents # NoContents,
           NEW n \in Nat, n >= 1
    PROVE  KeysOf(Only(contents, FirstKeys(contents, n))) # {}
<1> DEFINE K == KeysOf(contents)
<1>1. K \in SUBSET Nat /\ K # {}
  BY KeyAssumption DEF KeysOf, Contents, NoContents
<1>2. Least(K) \in K /\ \A j \in K : Least(K) <= j
  <2> HIDE DEF K
  <2> QED
    BY <1>1, LeastOfNaturals
<1>3. {j \in K : j < Least(K)} = {}
  BY <1>1, <1>2
<1>4. Cardinality({j \in K : j < Least(K)}) < n
  BY <1>3, FS_EmptySet
<1>5. Least(K) \in FirstKeys(contents, n)
  BY <1>2, <1>4 DEF FirstKeys
<1> QED
  BY <1>2, <1>5 DEF KeysOf, Only

\* A set of tables as a directory or a handle has it.
FileSet(files) ==
    files \in SUBSET Table /\ IsFiniteSet(files) /\ UniqueIds(files)

\* f is the first table with a record of k that a search meets.
FoundFirst(f, files, k) ==
    /\ f \in Holding(files, k)
    /\ \A g \in Holding(files, k) : g = f \/ Newer(f, g)

\* If any table holds the key, there is a first one.
LEMMA Found ==
    ASSUME NEW files, FileSet(files), NEW k \in Key, Holding(files, k) # {}
    PROVE  \E f \in files : FoundFirst(f, files, k)
<1> DEFINE H == Holding(files, k)
<1>1. H \in SUBSET Table /\ H # {} /\ IsFiniteSet(H) /\ UniqueIds(H)
  BY FS_Subset DEF FileSet, Holding, UniqueIds
<1>2. Newest(H) \in H /\ \A g \in H \ {Newest(H)} : Newer(Newest(H), g)
  <2> HIDE DEF H
  <2> QED
    BY <1>1, NewestOfFinite
<1>3. Newest(H) \in files
  BY <1>2 DEF Holding
<1> QED
  BY <1>2, <1>3 DEF FoundFirst

\* No two tables are newer than each other.
LEMMA NewerIsStrict ==
    ASSUME NEW f \in Table, NEW g \in Table, Newer(f, g)
    PROVE  ~Newer(g, f)
BY DEF Newer, Table

\* There is only one.
LEMMA FoundOnce ==
    ASSUME NEW files, FileSet(files), NEW k \in Key, NEW f, NEW g,
           FoundFirst(f, files, k), FoundFirst(g, files, k)
    PROVE  f = g
<1>1. f \in Table /\ g \in Table
  BY DEF FileSet, FoundFirst, Holding
<1> QED
  BY <1>1, NewerIsStrict DEF FoundFirst

\* Its record is what the search returns.
LEMMA LookupIs ==
    ASSUME NEW files, FileSet(files), NEW k \in Key, NEW f,
           FoundFirst(f, files, k)
    PROVE  Lookup(files, k) = f.contents[k]
<1> DEFINE H == Holding(files, k)
<1>1. H \in SUBSET Table /\ H # {} /\ IsFiniteSet(H) /\ UniqueIds(H)
  BY FS_Subset DEF FileSet, Holding, UniqueIds, FoundFirst
<1>2. Newest(H) \in H /\ \A g \in H \ {Newest(H)} : Newer(Newest(H), g)
  <2> HIDE DEF H
  <2> QED
    BY <1>1, NewestOfFinite
<1>3. FoundFirst(Newest(H), files, k)
  BY <1>2 DEF FoundFirst
<1>4. Newest(H) = f
  <2> HIDE DEF H
  <2> QED
    BY <1>3, FoundOnce
<1> QED
  BY <1>1, <1>4 DEF Lookup

\* Tables that do not hold the key make no difference.
LEMMA SameHolders ==
    ASSUME NEW files, NEW others, NEW k,
           Holding(files, k) = Holding(others, k)
    PROVE  Lookup(files, k) = Lookup(others, k)
BY DEF Lookup

\* A search finds nothing only if no table holds the key.
LEMMA NothingFound ==
    ASSUME NEW files, FileSet(files), NEW k \in Key
    PROVE  Lookup(files, k) = Absent <=> Holding(files, k) = {}
<1>1. CASE Holding(files, k) = {}
  BY <1>1 DEF Lookup
<1>2. CASE Holding(files, k) # {}
  <2>1. PICK f \in files : FoundFirst(f, files, k)
    BY <1>2, Found
  <2>2. f.contents[k] # Absent
    BY <2>1 DEF FoundFirst, Holding
  <2> QED
    BY <1>2, <2>1, <2>2, LookupIs
<1> QED
  BY <1>1, <1>2

\* A merge keeps what a search of the inputs finds, or drops a tombstone.
LEMMA Merged ==
    ASSUME NEW inputs, NEW drop \in BOOLEAN, NEW k \in Key
    PROVE  \/ Merge(inputs, drop)[k] = Lookup(inputs, k)
           \/ /\ Merge(inputs, drop)[k] = Absent
              /\ drop
              /\ Lookup(inputs, k) = Tombstone
BY DEF Merge

\* Sets of tables inside others.
LEMMA PartOfFileSet ==
    ASSUME NEW files, FileSet(files), NEW part \in SUBSET files
    PROVE  FileSet(part)
BY FS_Subset DEF FileSet, UniqueIds

(***************************************************************************)
(* The log.                                                                *)
(***************************************************************************)

\* An empty log replays to nothing.
LEMMA ReplayNothing == Replay(<<>>) = NoContents
BY DEF Replay, NoContents

\* One more record in the log is one more record in the memtable.
LEMMA ReplayAppend ==
    ASSUME NEW log \in Seq(Record), NEW r \in Record
    PROVE  Replay(Append(log, r)) = [Replay(log) EXCEPT ![r.key] = r.entry]
<1> DEFINE longer == Append(log, r)
           n == Len(log) + 1
           Hits(l, k) == {i \in DOMAIN l : l[i].key = k}
<1>1. /\ n \in Nat /\ DOMAIN log = 1 .. Len(log) /\ DOMAIN longer = 1 .. n
      /\ longer[n] = r /\ \A i \in 1 .. Len(log) : longer[i] = log[i]
  OBVIOUS
<1>2. ASSUME NEW k \in Key, r.key = k PROVE Replay(longer)[k] = r.entry
  <2>1. Hits(longer, k) \in SUBSET Nat /\ n \in Hits(longer, k)
        /\ \A i \in Hits(longer, k) : i <= n
    BY <1>1, <1>2
  <2>2. Greatest(Hits(longer, k)) = n
    <3> HIDE DEF Hits, n, longer
    <3>1. \A m \in Hits(longer, k) :
            (\A i \in Hits(longer, k) : i <= m) => m = n
      BY <2>1
    <3> QED
      BY <2>1, <3>1 DEF Greatest
  <2> QED
    BY <1>1, <2>1, <2>2 DEF Replay
<1>3. ASSUME NEW k \in Key, r.key # k PROVE Replay(longer)[k] = Replay(log)[k]
  <2>1. Hits(longer, k) = Hits(log, k)
    BY <1>1, <1>3
  <2>2. Hits(log, k) # {} => Greatest(Hits(log, k)) \in Hits(log, k)
    <3>1. Hits(log, k) \in SUBSET Nat /\ IsFiniteSet(Hits(log, k))
      <4>1. IsFiniteSet(1 .. Len(log))
        BY FS_Interval
      <4> QED
        BY <1>1, <4>1, FS_Subset
    <3> HIDE DEF Hits
    <3> QED
      BY <3>1, GreatestOfFinite
  <2>3. Hits(log, k) # {} => longer[Greatest(Hits(log, k))] = log[Greatest(Hits(log, k))]
    BY <1>1, <2>2
  <2> QED
    BY <2>1, <2>3 DEF Replay
<1>4. Replay(log) = [k \in Key |-> Replay(log)[k]] /\ Replay(longer) = [k \in Key |-> Replay(longer)[k]]
  BY DEF Replay
<1>5. r.key \in Key
  BY DEF Record
<1> HIDE DEF longer
<1>6. \A k \in Key : Replay(longer)[k] = [Replay(log) EXCEPT ![r.key] = r.entry][k]
  BY <1>2, <1>3, <1>4, <1>5
<1> QED
  BY <1>4, <1>5, <1>6 DEF longer

-----------------------------------------------------------------------------
(***************************************************************************)
(* Counting, finite sets, and functions defined by recursion.              *)
(***************************************************************************)

\* What holds of 0 and of the successor of each number below n that it holds
\* of holds up to n: T is the set of the numbers it holds of.
LEMMA CountUp ==
    ASSUME NEW n \in Nat, NEW T,
           0 \in T, \A i \in 0 .. n - 1 : i \in T => i + 1 \in T
    PROVE  0 .. n \subseteq T
<1> DEFINE S == (0 .. n) \ T
<1>1. SUFFICES ASSUME S # {} PROVE FALSE
  OBVIOUS
<1>2. Least(S) \in S /\ \A i \in S : Least(S) <= i
  <2>1. S \in SUBSET Nat
    OBVIOUS
  <2> HIDE DEF S
  <2> QED
    BY <1>1, <2>1, LeastOfNaturals
<1>3. PICK m \in S : \A i \in S : m <= i
  <2> HIDE DEF S
  <2> QED BY <1>2
<1>4. m \in 0 .. n /\ m # 0
  BY <1>3
<1>5. m - 1 \in 0 .. n - 1 /\ m - 1 \notin S
  BY <1>3, <1>4
<1> QED
  BY <1>3, <1>5

\* What holds of {} and of each set of which it holds after any of its
\* elements has been removed holds of every finite set.
LEMMA SetInduction ==
    ASSUME NEW S, IsFiniteSet(S), NEW T, {} \in T,
           \A s \in SUBSET S : s # {} /\ (\A x \in s : s \ {x} \in T) => s \in T
    PROVE  S \in T
<1> DEFINE I == (SUBSET S) \ T
           F == [s \in I |-> s]
<1>1. SUFFICES ASSUME I # {} PROVE FALSE
  OBVIOUS
<1>2. F \in [I -> FiniteSubsetsOf(S)]
  BY FS_Subset DEF FiniteSubsetsOf
<1>3. PICK m \in I : MinimalAt(F, I, m)
  <2> HIDE DEF F, I
  <2> QED
    BY <1>1, <1>2, MinimalMember, Zenon
<1>4. \A s \in I : ~(s \subseteq m /\ s # m)
  BY <1>3 DEF MinimalAt
<1>5. \A x \in m : m \ {x} \in T
  BY <1>3, <1>4
<1> QED
  BY <1>3, <1>5

\* base first, then what step makes of its number and of the value before it.
Iterates(f, base, step, N) ==
    f[0] = base /\ \A i \in 1 .. N : f[i] = step[<<i, f[i - 1]>>]

\* A value can be carried from one step to the next.
LEMMA Iteration ==
    ASSUME NEW S, NEW base \in S, NEW step \in [Nat \X S -> S], NEW N \in Nat
    PROVE  \E f \in [0 .. N -> S] : Iterates(f, base, step, N)
<1> DEFINE Eq(f, n) == /\ f \in [0 .. n -> S] /\ f[0] = base
                       /\ \A i \in 1 .. n : f[i] = step[<<i, f[i - 1]>>]
           T == {n \in Nat : \E f \in [0 .. n -> S] : Eq(f, n)}
<1>1. 0 \in T
  <2>1. Eq([i \in 0 .. 0 |-> base], 0)
    OBVIOUS
  <2> QED
    BY <2>1
<1>2. ASSUME NEW n \in 0 .. N - 1, n \in T PROVE n + 1 \in T
  <2>1. PICK f \in [0 .. n -> S] : Eq(f, n)
    BY <1>2
  <2> DEFINE g == [i \in 0 .. n + 1 |-> IF i = n + 1 THEN step[<<n + 1, f[n]>>] ELSE f[i]]
  <2>2. f[n] \in S /\ <<n + 1, f[n]>> \in Nat \X S
    OBVIOUS
  <2>3. step[<<n + 1, f[n]>>] \in S
    BY <2>2
  <2>4. g \in [0 .. n + 1 -> S]
    BY <2>3
  <2>5. g[0] = base
    BY <2>1
  <2>6. ASSUME NEW i \in 1 .. n + 1 PROVE g[i] = step[<<i, g[i - 1]>>]
    <3>1. i - 1 \in 0 .. n /\ g[i - 1] = f[i - 1]
      OBVIOUS
    <3>2. CASE i = n + 1
      <4>1. g[n + 1] = step[<<n + 1, f[n]>>] /\ i - 1 = n
        BY <3>2
      <4> HIDE DEF g
      <4> QED
        BY <3>1, <3>2, <4>1
    <3>3. CASE i # n + 1
      BY <2>1, <3>1, <3>3
    <3> QED
      BY <3>2, <3>3
  <2>7. Eq(g, n + 1)
    BY <2>4, <2>5, <2>6
  <2>8. n + 1 \in Nat
    OBVIOUS
  <2> HIDE DEF g, Eq
  <2> QED
    BY <2>4, <2>7, <2>8
<1>3. N \in T
  <2> HIDE DEF T
  <2> QED
    BY <1>1, <1>2, CountUp
<1>4. PICK f \in [0 .. N -> S] : Eq(f, N)
  BY <1>3
<1> QED
  BY <1>4 DEF Iterates

(***************************************************************************)
(* Sums.  SumFunctionOnSet takes the elements of the set one after the     *)
(* other in an order of its own; the sum does not depend on it.            *)
(***************************************************************************)

\* What SumFunctionOnSet computes on the way: the sum of each subset of S.
IsSum(g, f, S) ==
    g = [s \in SUBSET S |->
            IF s = {} THEN 0
            ELSE f[CHOOSE x \in s : TRUE] + g[s \ {CHOOSE x \in s : TRUE}]]

\* Two functions have the same values on a set.
SameOn(f, e, s) == \A x \in s : f[x] = e[x]

\* Any element may be taken out of the sum.
TakesOut(g, f, S) == \A x \in S : g[S] = f[x] + g[S \ {x}]

\* There is such a function.
LEMMA SumExists ==
    ASSUME NEW S, IsFiniteSet(S), NEW f, \A x \in S : f[x] \in Int
    PROVE  \E g \in [SUBSET S -> Int] : IsSum(g, f, S)
<1> DEFINE Pick(s) == CHOOSE x \in s : TRUE
           Upto(n) == {s \in SUBSET S : Cardinality(s) <= n}
           Eq(g, n) == /\ g \in [Upto(n) -> Int] /\ g[{}] = 0
                       /\ \A s \in Upto(n) \ {{}} : g[s] = f[Pick(s)] + g[s \ {Pick(s)}]
           T == {n \in Nat : \E g \in [Upto(n) -> Int] : Eq(g, n)}
<1>1. \A s \in SUBSET S : IsFiniteSet(s) /\ Cardinality(s) \in Nat
                           /\ (Cardinality(s) = 0 <=> s = {})
  BY FS_Subset, FS_CardinalityType, FS_EmptySet
<1>2. \A s \in SUBSET S : s # {} =>
        /\ Pick(s) \in s /\ s \ {Pick(s)} \in SUBSET S
        /\ Cardinality(s \ {Pick(s)}) = Cardinality(s) - 1
  BY <1>1, FS_RemoveElement
<1>3. 0 \in T
  <2>1. Upto(0) = {{}}
    BY <1>1
  <2>2. Eq([s \in Upto(0) |-> 0], 0)
    BY <2>1
  <2> QED
    BY <2>2
<1>4. ASSUME NEW n \in Nat, n \in T PROVE n + 1 \in T
  <2>1. PICK g \in [Upto(n) -> Int] : Eq(g, n)
    BY <1>4
  <2> DEFINE h == [s \in Upto(n + 1) |->
                     IF s = {} THEN 0 ELSE f[Pick(s)] + g[s \ {Pick(s)}]]
  <2>2. ASSUME NEW s \in Upto(n + 1), s # {}
        PROVE  s \ {Pick(s)} \in Upto(n) /\ f[Pick(s)] \in Int
    BY <1>1, <1>2, <2>2
  <2>3. {} \in Upto(n + 1) /\ h[{}] = 0
    BY <1>1
  <2>4. h \in [Upto(n + 1) -> Int]
    BY <2>2
  <2>5. ASSUME NEW s \in Upto(n) PROVE s \in Upto(n + 1) /\ h[s] = g[s]
    <3>1. s \in Upto(n + 1)
      BY <1>1
    <3>2. CASE s = {}
      BY <2>1, <2>3, <3>2
    <3>3. CASE s # {}
      BY <2>1, <3>1, <3>3
    <3> QED
      BY <3>1, <3>2, <3>3
  <2>6. ASSUME NEW s \in Upto(n + 1) \ {{}}
        PROVE  h[s] = f[Pick(s)] + h[s \ {Pick(s)}]
    <3>1. h[s] = f[Pick(s)] + g[s \ {Pick(s)}]
      OBVIOUS
    <3>2. h[s \ {Pick(s)}] = g[s \ {Pick(s)}]
      BY <2>2, <2>5
    <3> HIDE DEF h
    <3> QED
      BY <3>1, <3>2
  <2>7. Eq(h, n + 1)
    <3> HIDE DEF h
    <3> QED
      BY <2>3, <2>4, <2>6
  <2>8. n + 1 \in Nat
    OBVIOUS
  <2> HIDE DEF h, Eq
  <2> QED
    BY <2>4, <2>7, <2>8
<1>5. Cardinality(S) \in T
  <2>1. Cardinality(S) \in Nat
    BY <1>1
  <2> HIDE DEF T
  <2> QED
    BY <1>3, <1>4, <2>1, CountUp
<1>6. PICK g \in [Upto(Cardinality(S)) -> Int] : Eq(g, Cardinality(S))
  BY <1>5
<1>7. Upto(Cardinality(S)) = SUBSET S
  BY FS_Subset
<1>8. g \in [SUBSET S -> Int] /\ IsSum(g, f, S)
  BY <1>6, <1>7 DEF IsSum
<1> QED
  BY <1>8

\* Sums of the same values are the same.
LEMMA SumsAgree ==
    ASSUME NEW A, NEW B, NEW f, NEW e, NEW g \in [SUBSET A -> Int],
           NEW h \in [SUBSET B -> Int],
           IsSum(g, f, A), IsSum(h, e, B),
           NEW s, s \subseteq A, s \subseteq B, IsFiniteSet(s),
           SameOn(f, e, s)
    PROVE  SameOn(g, h, {s})
<1> DEFINE T == {t \in SUBSET s : g[t] = h[t]}
<1>1. {} \in T
  BY DEF IsSum
<1>2. ASSUME NEW t \in SUBSET s, t # {}, \A x \in t : t \ {x} \in T
      PROVE  t \in T
  <2>1. PICK x : x = CHOOSE y \in t : TRUE
    OBVIOUS
  <2>2. x \in t /\ f[x] = e[x]
    BY <1>2, <2>1 DEF SameOn
  <2>3. g[t] = f[x] + g[t \ {x}]
    BY <1>2, <2>1 DEF IsSum
  <2>4. h[t] = e[x] + h[t \ {x}]
    BY <1>2, <2>1 DEF IsSum
  <2>5. g[t \ {x}] = h[t \ {x}]
    BY <1>2, <2>2
  <2> QED
    BY <2>2, <2>3, <2>4, <2>5
<1>3. s \in T
  <2> HIDE DEF T
  <2> QED
    BY <1>1, <1>2, SetInduction
<1> QED
  BY <1>3 DEF SameOn

\* No order of the elements matters: any of them may be taken out first.
LEMMA SumTakesOut ==
    ASSUME NEW S, IsFiniteSet(S), NEW f, \A x \in S : f[x] \in Int,
           NEW g \in [SUBSET S -> Int], IsSum(g, f, S)
    PROVE  TakesOut(g, f, S)
<1> DEFINE T == {t \in SUBSET S : \A y \in t : g[t] = f[y] + g[t \ {y}]}
<1>1. {} \in T
  OBVIOUS
<1>2. ASSUME NEW t \in SUBSET S, t # {}, \A y \in t : t \ {y} \in T
      PROVE  t \in T
  <2>1. PICK p : p = CHOOSE y \in t : TRUE
    OBVIOUS
  <2>2. p \in t /\ g[t] = f[p] + g[t \ {p}]
    BY <1>2, <2>1 DEF IsSum
  <2>3. ASSUME NEW y \in t PROVE g[t] = f[y] + g[t \ {y}]
    <3>1. CASE y = p
      BY <2>2, <3>1
    <3>2. CASE y # p
      <4>1. PICK r \in SUBSET S : r = (t \ {p}) \ {y} /\ r = (t \ {y}) \ {p}
        OBVIOUS
      <4>2. g[t \ {p}] = f[y] + g[r]
        BY <1>2, <2>2, <3>2, <4>1
      <4>3. g[t \ {y}] = f[p] + g[r]
        BY <1>2, <2>2, <3>2, <4>1
      <4>4. f[p] \in Int /\ f[y] \in Int /\ g[r] \in Int
        BY <2>2, <4>1
      <4> QED
        BY <2>2, <4>2, <4>3, <4>4
    <3> QED
      BY <3>1, <3>2
  <2> QED
    BY <2>3
<1>3. S \in T
  <2> HIDE DEF T
  <2> QED
    BY <1>1, <1>2, SetInduction
<1> QED
  BY <1>3 DEF TakesOut

\* The sum over the empty set, a sum without one of its elements, and sums
\* of the same values.
LEMMA SumOfSet ==
    ASSUME NEW S, IsFiniteSet(S), NEW f, \A x \in S : f[x] \in Int
    PROVE  /\ SumFunctionOnSet(f, S) \in Int
           /\ S = {} => SumFunctionOnSet(f, S) = 0
           /\ \A x \in S : SumFunctionOnSet(f, S) = f[x] + SumFunctionOnSet(f, S \ {x})
           /\ \A e : (\A x \in S : f[x] = e[x]) =>
                     SumFunctionOnSet(f, S) = SumFunctionOnSet(e, S)
<1>1. ASSUME NEW s, NEW e
      PROVE  SumFunctionOnSet(e, s) = (CHOOSE g : IsSum(g, e, s))[s]
  BY DEF SumFunctionOnSet, FoldFunctionOnSet, MapThenFoldSet, IsSum
<1>2. ASSUME NEW s, IsFiniteSet(s), NEW e, \A x \in s : e[x] \in Int
      PROVE  \E g \in [SUBSET s -> Int] :
                IsSum(g, e, s) /\ SumFunctionOnSet(e, s) = g[s]
  <2>1. PICK g : g = CHOOSE h : IsSum(h, e, s)
    OBVIOUS
  <2>2. \E h \in [SUBSET s -> Int] : IsSum(h, e, s)
    BY <1>2, SumExists
  <2>3. IsSum(g, e, s)
    BY <2>1, <2>2
  <2>4. g \in [SUBSET s -> Int]
    <3> DEFINE T == {t \in SUBSET s : g[t] \in Int}
    <3>1. g = [t \in SUBSET s |-> g[t]]
      BY <2>3 DEF IsSum
    <3>2. {} \in T
      BY <2>3 DEF IsSum
    <3>3. ASSUME NEW t \in SUBSET s, t # {}, \A x \in t : t \ {x} \in T
          PROVE  t \in T
      <4>1. PICK p : p = CHOOSE y \in t : TRUE
        OBVIOUS
      <4>2. p \in t /\ g[t] = e[p] + g[t \ {p}]
        BY <2>3, <3>3, <4>1 DEF IsSum
      <4>3. e[p] \in Int /\ g[t \ {p}] \in Int
        BY <1>2, <3>3, <4>2
      <4> QED
        BY <4>2, <4>3
    <3>4. \A t \in SUBSET s : t \in T
      <4> SUFFICES ASSUME NEW t \in SUBSET s PROVE t \in T
        OBVIOUS
      <4>1. IsFiniteSet(t)
        BY <1>2, FS_Subset
      <4>2. \A r \in SUBSET t : r # {} /\ (\A x \in r : r \ {x} \in T) => r \in T
        BY <3>3
      <4> HIDE DEF T
      <4> QED
        BY <3>2, <4>1, <4>2, SetInduction
    <3> QED
      BY <3>1, <3>4
  <2> QED
    BY <1>1, <2>1, <2>3, <2>4
<1>3. PICK g \in [SUBSET S -> Int] : IsSum(g, f, S) /\ SumFunctionOnSet(f, S) = g[S]
  BY <1>2
<1>4. S = {} => g[S] = 0
  BY <1>3 DEF IsSum
<1>5. ASSUME NEW x \in S
      PROVE  SumFunctionOnSet(f, S) = f[x] + SumFunctionOnSet(f, S \ {x})
  <2>1. IsFiniteSet(S \ {x})
    BY FS_RemoveElement
  <2>2. PICK h \in [SUBSET (S \ {x}) -> Int] :
            IsSum(h, f, S \ {x}) /\ SumFunctionOnSet(f, S \ {x}) = h[S \ {x}]
    BY <1>2, <2>1
  <2>3. S \ {x} \subseteq S
    OBVIOUS
  <2>6. SameOn(f, f, S \ {x})
    BY DEF SameOn
  <2>4. SameOn(g, h, {S \ {x}})
    BY <1>3, <2>1, <2>2, <2>3, <2>6, SumsAgree
  <2>5. TakesOut(g, f, S)
    BY <1>3, SumTakesOut
  <2> QED
    BY <1>3, <2>2, <2>4, <2>5 DEF TakesOut, SameOn
<1>6. ASSUME NEW e, \A x \in S : f[x] = e[x]
      PROVE  SumFunctionOnSet(f, S) = SumFunctionOnSet(e, S)
  <2>1. PICK h \in [SUBSET S -> Int] : IsSum(h, e, S) /\ SumFunctionOnSet(e, S) = h[S]
    BY <1>2, <1>6
  <2>4. SameOn(f, e, S)
    BY <1>6 DEF SameOn
  <2>3. SameOn(g, h, {S})
    BY <1>3, <2>1, <2>4, SumsAgree
  <2> QED
    BY <1>3, <2>1, <2>3 DEF SameOn
<1> QED
  BY <1>3, <1>4, <1>5, <1>6

\* The sum of naturals is a natural.
LEMMA SumOfNaturals ==
    ASSUME NEW S, IsFiniteSet(S), NEW f, \A x \in S : f[x] \in Nat
    PROVE  SumFunctionOnSet(f, S) \in Nat
<1> DEFINE T == {s \in SUBSET S : SumFunctionOnSet(f, s) \in Nat}
<1>1. \A s \in SUBSET S : IsFiniteSet(s) /\ \A x \in s : f[x] \in Int
  BY FS_Subset
<1>2. {} \in T
  <2>1. IsFiniteSet({}) /\ \A x \in {} : f[x] \in Int
    BY FS_EmptySet
  <2>2. SumFunctionOnSet(f, {}) = 0
    BY <2>1, SumOfSet
  <2> QED
    BY <2>2
<1>3. ASSUME NEW s \in SUBSET S, s # {}, \A x \in s : s \ {x} \in T
      PROVE  s \in T
  <2>1. PICK x \in s : SumFunctionOnSet(f, s) = f[x] + SumFunctionOnSet(f, s \ {x})
    BY <1>1, <1>3, SumOfSet
  <2>2. f[x] \in Nat /\ SumFunctionOnSet(f, s \ {x}) \in Nat
    BY <1>3
  <2> QED
    BY <2>1, <2>2
<1>4. S \in T
  <2> HIDE DEF T
  <2> QED
    BY <1>2, <1>3, SetInduction
<1> QED
  BY <1>4

\* The sum over two disjoint sets.
LEMMA SumOfUnion ==
    ASSUME NEW A, IsFiniteSet(A), NEW B, IsFiniteSet(B), A \cap B = {},
           NEW f, \A x \in A \cup B : f[x] \in Int
    PROVE  SumFunctionOnSet(f, A \cup B)
             = SumFunctionOnSet(f, A) + SumFunctionOnSet(f, B)
<1> DEFINE T == {s \in SUBSET B : SumFunctionOnSet(f, A \cup s)
                                  = SumFunctionOnSet(f, A) + SumFunctionOnSet(f, s)}
<1>1. SumFunctionOnSet(f, A) \in Int
  BY SumOfSet
<1>2. \A s \in SUBSET B : /\ IsFiniteSet(s) /\ IsFiniteSet(A \cup s)
                          /\ \A x \in A \cup s : f[x] \in Int
  BY FS_Subset, FS_Union
<1>3. {} \in T
  <2>1. A \cup {} = A /\ SumFunctionOnSet(f, {}) = 0
    BY <1>2, SumOfSet
  <2> QED
    BY <1>1, <2>1
<1>4. ASSUME NEW s \in SUBSET B, s # {}, \A x \in s : s \ {x} \in T
      PROVE  s \in T
  <2>1. PICK x \in s : TRUE
    BY <1>4
  <2>2. SumFunctionOnSet(f, s) = f[x] + SumFunctionOnSet(f, s \ {x})
    BY <1>2, SumOfSet
  <2>3. SumFunctionOnSet(f, A \cup s)
          = f[x] + SumFunctionOnSet(f, (A \cup s) \ {x})
    BY <1>2, SumOfSet
  <2>4. (A \cup s) \ {x} = A \cup (s \ {x})
    BY <2>1
  <2>5. SumFunctionOnSet(f, A \cup (s \ {x}))
          = SumFunctionOnSet(f, A) + SumFunctionOnSet(f, s \ {x})
    BY <1>4
  <2>6. f[x] \in Int /\ SumFunctionOnSet(f, s \ {x}) \in Int
    <3>1. s \ {x} \in SUBSET B
      OBVIOUS
    <3> QED
      BY <1>2, <3>1, SumOfSet
  <2>7. PICK a \in Int, b \in Int, c \in Int :
          /\ a = SumFunctionOnSet(f, A) /\ b = f[x]
          /\ c = SumFunctionOnSet(f, s \ {x})
    BY <1>1, <2>6
  <2>8. SumFunctionOnSet(f, A \cup s) = b + (a + c)
    BY <2>3, <2>4, <2>5, <2>7
  <2>9. SumFunctionOnSet(f, s) = b + c
    BY <2>2, <2>7
  <2> QED
    BY <2>7, <2>8, <2>9
<1>5. B \in T
  <2> HIDE DEF T
  <2> QED
    BY <1>3, <1>4, SetInduction
<1> QED
  BY <1>5

\* The sum of zeros.
LEMMA SumOfZeros ==
    ASSUME NEW S, IsFiniteSet(S), NEW f, \A x \in S : f[x] = 0
    PROVE  SumFunctionOnSet(f, S) = 0
<1> DEFINE T == {s \in SUBSET S : SumFunctionOnSet(f, s) = 0}
<1>1. \A s \in SUBSET S : IsFiniteSet(s) /\ \A x \in s : f[x] \in Int
  BY FS_Subset
<1>2. {} \in T
  BY <1>1, SumOfSet
<1>3. ASSUME NEW s \in SUBSET S, s # {}, \A x \in s : s \ {x} \in T
      PROVE  s \in T
  <2>1. PICK x \in s : SumFunctionOnSet(f, s) = f[x] + SumFunctionOnSet(f, s \ {x})
    BY <1>1, <1>3, SumOfSet
  <2> QED
    BY <1>3, <2>1
<1>4. S \in T
  <2> HIDE DEF T
  <2> QED
    BY <1>2, <1>3, SetInduction
<1> QED
  BY <1>4
=============================================================================
