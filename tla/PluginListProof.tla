-------------------------- MODULE PluginListProof ---------------------------
(***************************************************************************)
(* The proofs that the plugins' segments, their list and their count agree   *)
(* as long as the server runs, and that a server that has served leaves none *)
(* behind: for every set of files and whatever their identifiers are.         *)
(***************************************************************************)
EXTENDS PluginList, Induction, FiniteSetTheorems

\* What the list and the count are at each point of main(): the count turns
\* negative after an error, stands for the list up to the pruning and for the
\* table, when there is one, from then on.
CountInv ==
  /\ mpc = "load" => num = Len(list)
  /\ mpc = "loaded" => num \in {Len(list), -Len(list)}
  /\ mpc \in {"load", "loaded"} => table = NoTable
  /\ mpc \in {"select", "serving"} =>
       num = IF table = NoTable THEN Len(list) ELSE Len(table)

\* Every file on the list has been seen, so that none is linked twice, and
\* holds the segments in memory, until they are released.
SegmentInv ==
  /\ IsInjective(list)
  /\ ToSet(list) \subseteq seen
  /\ mpc # "exited" => segs = ToSet(list)
  /\ mpc = "exited" => num <= 0 \/ segs = {}

\* Without a table it is the list itself that is served.
ServedInv == mpc = "serving" /\ table = NoTable => served = list

IInv ==
  /\ mpc \in Points
  /\ list \in Seq(Plugins)
  /\ num \in Int
  /\ CountInv
  /\ SegmentInv
  /\ TableHasBest /\ ServedInv

-----------------------------------------------------------------------------

LEMMA InitIInv == Init => IInv
  BY DEF Init, IInv, CountInv, SegmentInv, TableHasBest, ServedInv, Points, NoTable,
         ToSet, IsInjective

\* Linking a file that has not been seen keeps the list free of repetitions.
LEMMA Linked ==
  ASSUME NEW f \in Plugins, list \in Seq(Plugins), IsInjective(list),
         f \notin ToSet(list)
  PROVE  /\ Append(list, f) \in Seq(Plugins)
         /\ Len(Append(list, f)) = Len(list) + 1
         /\ IsInjective(Append(list, f))
         /\ ToSet(Append(list, f)) = ToSet(list) \cup {f}
<1> DEFINE l == Append(list, f)
<1>1. l \in Seq(Plugins) /\ Len(l) = Len(list) + 1
  OBVIOUS
<1>2. \A i \in 1..Len(list) : l[i] = list[i] /\ l[i] # f
  BY DEF ToSet
<1>3. l[Len(list) + 1] = f /\ Len(list) \in Nat
  OBVIOUS
<1>4. DOMAIN list = 1..Len(list) /\ DOMAIN l = 1..(Len(list) + 1)
  BY <1>1
<1>5. IsInjective(l)
  BY <1>2, <1>3, <1>4 DEF IsInjective
<1>6. ToSet(l) = ToSet(list) \cup {f}
  <2>1. ASSUME NEW x \in ToSet(l) PROVE x \in ToSet(list) \cup {f}
    BY <1>2, <1>3, <1>4 DEF ToSet
  <2>2. ASSUME NEW x \in ToSet(list) PROVE x \in ToSet(l)
    <3>1. PICK i \in 1..Len(list) : x = list[i] BY <1>4 DEF ToSet
    <3>2. l[i] = x /\ i \in DOMAIN l BY <1>2, <1>3, <1>4, <3>1
    <3>3. QED BY <3>2 DEF ToSet
  <2>3. f \in ToSet(l) BY <1>3, <1>4 DEF ToSet
  <2>4. QED BY <2>1, <2>2, <2>3
<1>7. QED BY <1>1, <1>5, <1>6

\* The table and what is served stay right while the list does.
LEMMA TableStays ==
  ASSUME IInv, UNCHANGED <<list, table>>, mpc' = "serving" => mpc = "serving",
         UNCHANGED served
  PROVE  TableHasBest' /\ ServedInv'
<1>1. TableHasBest'
  BY DEF IInv, TableHasBest
<1>2. ServedInv'
  BY DEF IInv, ServedInv
<1>3. QED BY <1>1, <1>2

LEMMA NoTableYet ==
  ASSUME table' = NoTable, mpc' # "serving" PROVE TableHasBest' /\ ServedInv'
  BY DEF TableHasBest, ServedInv

LEMMA LoadFileStep ==
  ASSUME IInv, NEW f \in Files, LoadFile(f) PROVE IInv'
<1> USE DEF IInv, CountInv, SegmentInv, NoTable
<1>1. CASE UNCHANGED <<segs, list, num>>
  BY <1>1, TableStays DEF LoadFile
<1>2. CASE f \in Plugins /\ segs' = segs \cup {f} /\ list' = Append(list, f) /\ num' = num + 1
  <2>1. mpc = "load" /\ mpc' = mpc /\ table' = table /\ seen' = seen \cup {f} /\ f \notin seen
    BY <1>2 DEF LoadFile
  <2>2. /\ list' \in Seq(Plugins) /\ Len(list') = Len(list) + 1
        /\ IsInjective(list') /\ ToSet(list') = ToSet(list) \cup {f}
    BY <1>2, <2>1, Linked
  <2>3. CountInv' BY <1>2, <2>1, <2>2
  <2>4. ToSet(list') \subseteq seen' /\ segs' = ToSet(list') BY <1>2, <2>1, <2>2
  <2>5. SegmentInv' BY <2>1, <2>2, <2>4
  <2>6. num' \in Int BY <1>2
  <2>7. TableHasBest' /\ ServedInv' BY <2>1, NoTableYet
  <2>8. QED BY <2>1, <2>2, <2>3, <2>5, <2>6, <2>7
<1>3. QED BY <1>1, <1>2 DEF LoadFile

-----------------------------------------------------------------------------
(* prune_plugin_list()                                                      *)

\* The loop is a recursive definition, and there is a function it defines.
LEMMA KeptDefined ==
  ASSUME NEW t \in Seq(Plugins)
  PROVE  Kept(t) = [n \in 0..Len(t) |->
                      IF n = 0 THEN <<>>
                      ELSE IF n > 1 /\ Id(t[n]) = Id(t[n - 1]) THEN Kept(t)[n - 1]
                      ELSE Append(Kept(t)[n - 1], t[n])]
<1> DEFINE V == Seq(Plugins)
           N == Len(t)
           v0 == <<>>
           step == [p \in V \X (1..N) |->
                      IF p[2] > 1 /\ Id(t[p[2]]) = Id(t[p[2] - 1]) THEN p[1]
                      ELSE Append(p[1], t[p[2]])]
           loop(g) == [n \in 0..Len(t) |->
                         IF n = 0 THEN <<>>
                         ELSE IF n > 1 /\ Id(t[n]) = Id(t[n - 1]) THEN g[n - 1]
                         ELSE Append(g[n - 1], t[n])]
<1>1. N \in Nat /\ v0 \in V /\ step \in [V \X (1..N) -> V]
  OBVIOUS
<1>2. PICK g \in [0..N -> V] : Computes(g, N, v0, step)
  <2> HIDE DEF V, N, v0, step
  <2>1. QED BY <1>1, Recursion
<1>3. ASSUME NEW n \in 0..N PROVE g[n] = loop(g)[n]
  <2>1. CASE n = 0 BY <2>1, <1>2 DEF Computes
  <2>2. CASE n # 0
    <3>1. n \in 1..N /\ n - 1 \in 0..N BY <2>2
    <3>2. g[n - 1] \in V BY <3>1
    <3>3. g[n] = step[<<g[n - 1], n>>] BY <1>2, <3>1 DEF Computes
    <3>4. step[<<g[n - 1], n>>] =
            IF n > 1 /\ Id(t[n]) = Id(t[n - 1]) THEN g[n - 1] ELSE Append(g[n - 1], t[n])
      BY <3>1, <3>2
    <3> HIDE DEF step
    <3>5. QED BY <2>2, <3>3, <3>4
  <2>3. QED BY <2>1, <2>2
<1>4. g = loop(g)
  <2>1. g = [n \in 0..N |-> g[n]] OBVIOUS
  <2>2. loop(g) = [n \in 0..N |-> loop(g)[n]] OBVIOUS
  <2> HIDE DEF loop
  <2>3. QED BY <1>3, <2>1, <2>2
<1>5. Kept(t) = CHOOSE kept : kept = loop(kept)
  BY DEF Kept
<1> HIDE DEF loop
<1>6. Kept(t) = loop(Kept(t))
  BY <1>4, <1>5
<1>7. QED BY <1>6 DEF loop

\* A sorted list has no repetitions and has every plugin of the list.
LEMMA SortedList ==
  ASSUME list \in Seq(Plugins), NEW t \in SortedLists(list)
  PROVE  /\ t \in Seq(Plugins) /\ ToSet(t) = ToSet(list)
         /\ \A i, j \in 1..Len(t) : i < j => NotAfter(t[i], t[j])
         /\ list # <<>> => Len(t) # 0
<1> DEFINE S == ToSet(list)
           N == Cardinality(S)
<1>1. S \subseteq Plugins /\ IsFiniteSet(S)
  <2>1. S \subseteq Plugins BY DEF ToSet
  <2>2. QED BY <2>1, PluginListAssumption, FS_Subset DEF Files
<1>2. N \in Nat
  BY <1>1, FS_CardinalityType
<1>3. t \in [1..N -> S] /\ \A i, j \in 1..N : i # j => t[i] # t[j]
  BY DEF SortedLists, SetToSeqs
<1>4. t \in Seq(Plugins) /\ Len(t) = N /\ DOMAIN t = 1..N
  BY <1>1, <1>2, <1>3
<1>5. \A i, j \in 1..Len(t) : i < j => NotAfter(t[i], t[j])
  BY DEF SortedLists, IsSorted
<1>6. ASSUME NEW x \in S, x \notin ToSet(t) PROVE FALSE
  <2>1. IsFiniteSet(S \ {x}) /\ Cardinality(S \ {x}) = N - 1
    BY <1>1, <1>6, FS_RemoveElement
  <2>2. IsFiniteSet(1..N) /\ Cardinality(1..N) = N
    BY <1>2, FS_Interval
  <2>3. t \in [1..N -> S \ {x}]
    BY <1>3, <1>4, <1>6 DEF ToSet
  <2> HIDE DEF S, N
  <2>4. \E i, j \in 1..N : i # j /\ t[i] = t[j]
    BY <1>2, <2>1, <2>2, <2>3, FS_PigeonHole
  <2>5. QED BY <1>3, <2>4
<1>7. ToSet(t) = S
  <2>1. ToSet(t) \subseteq S BY <1>3, <1>4 DEF ToSet
  <2>2. QED BY <1>6, <2>1
<1>8. ASSUME list # <<>> PROVE N # 0
  <2>1. S # {} BY <1>8 DEF ToSet
  <2>2. QED BY <1>1, <2>1, FS_EmptySet
<1>9. QED BY <1>4, <1>5, <1>7, <1>8

\* What the loop has kept after n entries: the first, which is the best, of each
\* identifier among them, in the order of the identifiers.
KeptWell(t, k, n) ==
  /\ k \in Seq(Plugins)
  /\ n > 0 <=> Len(k) > 0
  /\ n > 0 => Id(k[Len(k)]) = Id(t[n])
  /\ \A a, b \in 1..Len(k) : a < b => Id(k[a]) < Id(k[b])
  /\ \A j \in 1..n : \E a \in 1..Len(k) : Id(k[a]) = Id(t[j])
  /\ \A a \in 1..Len(k), j \in 1..Len(t) :
       Id(k[a]) = Id(t[j]) => Version(k[a]) >= Version(t[j])

LEMMA KeptStep ==
  ASSUME NEW t \in Seq(Plugins), NEW n \in 0..(Len(t) - 1), NEW k,
         \A i, j \in 1..Len(t) : i < j => NotAfter(t[i], t[j]), KeptWell(t, k, n)
  PROVE  KeptWell(t, IF n + 1 > 1 /\ Id(t[n + 1]) = Id(t[n]) THEN k ELSE Append(k, t[n + 1]), n + 1)
<1> DEFINE x == t[n + 1]
<1>1. n \in Nat /\ n + 1 \in 1..Len(t) /\ x \in Plugins
  OBVIOUS
<1>2. /\ \A i \in 1..Len(t) : Id(t[i]) \in Nat /\ Version(t[i]) \in Nat
      /\ \A i \in 1..Len(k) : Id(k[i]) \in Nat /\ Version(k[i]) \in Nat
  <2>1. k \in Seq(Plugins) BY DEF KeptWell
  <2>2. \A f \in Plugins : Id(f) \in Nat /\ Version(f) \in Nat
    BY PluginListAssumption DEF Id, Version
  <2>3. \A i \in 1..Len(t) : t[i] \in Plugins OBVIOUS
  <2>4. \A i \in 1..Len(k) : k[i] \in Plugins BY <2>1
  <2>5. QED BY <2>2, <2>3, <2>4
<1>3. k \in Seq(Plugins) /\ Len(k) \in Nat
  BY DEF KeptWell
<1>4. CASE n + 1 > 1 /\ Id(x) = Id(t[n])
  <2>1. \A j \in 1..(n + 1) : \E a \in 1..Len(k) : Id(k[a]) = Id(t[j])
    <3> SUFFICES ASSUME NEW j \in 1..(n + 1) PROVE \E a \in 1..Len(k) : Id(k[a]) = Id(t[j])
      OBVIOUS
    <3>1. CASE j = n + 1
      <4>1. n \in 1..n BY <1>1, <1>4
      <4>2. QED BY <1>4, <3>1, <4>1 DEF KeptWell
    <3>2. CASE j # n + 1
      <4>1. j \in 1..n BY <1>1, <3>2
      <4>2. QED BY <4>1 DEF KeptWell
    <3>3. QED BY <3>1, <3>2
  <2>2. n > 0 BY <1>1, <1>4
  <2>3. QED BY <1>1, <1>4, <2>1, <2>2 DEF KeptWell
<1>5. CASE ~(n + 1 > 1 /\ Id(x) = Id(t[n]))
  <2> DEFINE l == Append(k, x)
  <2>1. /\ l \in Seq(Plugins) /\ Len(l) = Len(k) + 1 /\ l[Len(l)] = x
        /\ \A i \in 1..Len(k) : l[i] = k[i]
    BY <1>1, <1>3
  <2> HIDE DEF l
  <2>2. \A j \in 1..n : Id(t[j]) < Id(x)
    <3> SUFFICES ASSUME NEW j \in 1..n PROVE Id(t[j]) < Id(x)
      OBVIOUS
    <3>1. n \in 1..Len(t) /\ j \in 1..Len(t) /\ n + 1 > 1 /\ n < n + 1 BY <1>1
    <3>2. NotAfter(t[n], x) /\ Id(t[n]) # Id(x) BY <1>1, <1>5, <3>1
    <3>3. Id(t[n]) < Id(x) BY <1>1, <1>2, <3>1, <3>2 DEF NotAfter
    <3>4. j = n \/ NotAfter(t[j], t[n]) BY <3>1
    <3>5. Id(t[j]) <= Id(t[n]) BY <1>2, <3>1, <3>4 DEF NotAfter
    <3>6. QED BY <1>1, <1>2, <3>1, <3>3, <3>5
  <2>3. \A a \in 1..Len(k) : Id(k[a]) < Id(x)
    <3> SUFFICES ASSUME NEW a \in 1..Len(k) PROVE Id(k[a]) < Id(x)
      OBVIOUS
    <3>1. n > 0 => Id(k[Len(k)]) < Id(x) BY <1>1, <2>2 DEF KeptWell
    <3>2. CASE n = 0
      <4>1. Len(k) = 0 BY <1>3, <3>2 DEF KeptWell
      <4>2. QED BY <4>1
    <3>3. CASE n > 0
      <4>1. Len(k) \in 1..Len(k) BY <1>3
      <4>2. a = Len(k) \/ Id(k[a]) < Id(k[Len(k)]) BY <1>3, <4>1 DEF KeptWell
      <4>3. QED BY <1>1, <1>2, <3>1, <3>3, <4>1, <4>2
    <3>4. QED BY <1>1, <3>2, <3>3
  <2>4. \A a, b \in 1..Len(l) : a < b => Id(l[a]) < Id(l[b])
    <3> SUFFICES ASSUME NEW a \in 1..Len(l), NEW b \in 1..Len(l), a < b
                 PROVE  Id(l[a]) < Id(l[b])
      OBVIOUS
    <3>1. a \in 1..Len(k) BY <1>3, <2>1
    <3>2. CASE b = Len(l) BY <2>1, <2>3, <3>1, <3>2
    <3>3. CASE b # Len(l)
      <4>1. b \in 1..Len(k)
        <5>1. Len(l) = Len(k) + 1 /\ Len(k) \in Nat BY <1>3, <2>1
        <5>2. QED BY <3>3, <5>1
      <4>2. QED BY <2>1, <3>1, <4>1 DEF KeptWell
    <3>4. QED BY <3>2, <3>3
  <2>5. \A j \in 1..(n + 1) : \E a \in 1..Len(l) : Id(l[a]) = Id(t[j])
    <3> SUFFICES ASSUME NEW j \in 1..(n + 1) PROVE \E a \in 1..Len(l) : Id(l[a]) = Id(t[j])
      OBVIOUS
    <3>1. CASE j = n + 1
      <4>1. Len(l) \in 1..Len(l) BY <1>3, <2>1
      <4>2. QED BY <2>1, <3>1, <4>1
    <3>2. CASE j # n + 1
      <4>1. j \in 1..n BY <1>1, <3>2
      <4>2. PICK a \in 1..Len(k) : Id(k[a]) = Id(t[j]) BY <4>1 DEF KeptWell
      <4>3. a \in 1..Len(l) BY <1>3, <2>1
      <4>4. QED BY <2>1, <4>2, <4>3
    <3>3. QED BY <3>1, <3>2
  <2>6. \A a \in 1..Len(l), j \in 1..Len(t) :
          Id(l[a]) = Id(t[j]) => Version(l[a]) >= Version(t[j])
    <3> SUFFICES ASSUME NEW a \in 1..Len(l), NEW j \in 1..Len(t), Id(l[a]) = Id(t[j])
                 PROVE  Version(l[a]) >= Version(t[j])
      OBVIOUS
    <3>1. CASE a = Len(l)
      <4>1. l[a] = x BY <2>1, <3>1
      <4>2. ~(j \in 1..n) BY <1>1, <1>2, <2>2, <4>1
      <4>3. j = n + 1 \/ NotAfter(x, t[j]) BY <1>1, <4>2
      <4>4. QED BY <1>1, <1>2, <4>1, <4>3 DEF NotAfter
    <3>2. CASE a # Len(l)
      <4>1. a \in 1..Len(k) BY <1>3, <2>1, <3>2
      <4>2. QED BY <2>1, <4>1 DEF KeptWell
    <3>3. QED BY <3>1, <3>2
  <2>7. Len(l) > 0 /\ Id(l[Len(l)]) = Id(t[n + 1])
    BY <1>3, <2>1
  <2>8. KeptWell(t, l, n + 1)
    BY <2>1, <2>4, <2>5, <2>6, <2>7 DEF KeptWell
  <2>9. QED BY <1>5, <2>8 DEF l
<1>6. QED BY <1>4, <1>5

LEMMA TableWell ==
  ASSUME list \in Seq(Plugins), NEW t \in SortedLists(list)
  PROVE  KeptWell(t, FirstOfEach(t), Len(t))
<1>1. /\ t \in Seq(Plugins) /\ Len(t) \in Nat
      /\ \A i, j \in 1..Len(t) : i < j => NotAfter(t[i], t[j])
  BY SortedList
<1> DEFINE S == {n \in 0..Len(t) : KeptWell(t, Kept(t)[n], n)}
<1>2. 0 \in S
  <2>1. Kept(t)[0] = <<>> BY <1>1, KeptDefined
  <2>2. KeptWell(t, <<>>, 0) BY DEF KeptWell
  <2>3. 0 \in 0..Len(t) BY <1>1
  <2>4. QED BY <2>1, <2>2, <2>3
<1>3. ASSUME NEW n \in 0..(Len(t) - 1), n \in S PROVE n + 1 \in S
  <2>1. /\ n + 1 \in 0..Len(t) /\ n + 1 # 0 /\ (n + 1) - 1 = n
    BY <1>1
  <2>2. Kept(t)[n + 1] =
          IF n + 1 > 1 /\ Id(t[n + 1]) = Id(t[n]) THEN Kept(t)[n]
          ELSE Append(Kept(t)[n], t[n + 1])
    BY <1>1, <2>1, KeptDefined
  <2>3. KeptWell(t, Kept(t)[n], n) BY <1>3
  <2>4. KeptWell(t, Kept(t)[n + 1], n + 1)
    BY <1>1, <2>2, <2>3, KeptStep
  <2>5. QED BY <2>1, <2>4
<1>4. Len(t) \in S
  <2> DEFINE N == Len(t)
  <2>1. N \in Nat /\ \A n \in 0..(N - 1) : n \in S => n + 1 \in S
    BY <1>1, <1>3
  <2> HIDE DEF S, N
  <2>2. \A n \in 0..N : n \in S
    BY <1>2, <2>1, IntervalInduction
  <2>3. N \in 0..N BY <2>1
  <2>4. QED BY <2>2, <2>3 DEF N
<1>5. QED BY <1>4 DEF S, FirstOfEach

\* The table that pruning leaves has entries if the list has, and has the best
\* of each plugin, in whatever order qsort() leaves the entries that are equal.
LEMMA TableFilled ==
  ASSUME list \in Seq(Plugins), list # <<>>, NEW t \in SortedLists(list)
  PROVE  FirstOfEach(t) \in Seq(Plugins) /\ FirstOfEach(t) # <<>> /\ Len(FirstOfEach(t)) \in Nat
<1>1. Len(t) > 0
  BY SortedList
<1>2. FirstOfEach(t) \in Seq(Plugins) /\ Len(FirstOfEach(t)) > 0
  BY <1>1, TableWell DEF KeptWell
<1>3. QED BY <1>2

LEMMA TableBest ==
  ASSUME list \in Seq(Plugins), NEW t \in SortedLists(list), table' = FirstOfEach(t), list' = list
  PROVE  TableHasBest'
<1> DEFINE k == FirstOfEach(t)
<1>1. t \in Seq(Plugins) /\ ToSet(t) = ToSet(list) /\ DOMAIN t = 1..Len(t)
  BY SortedList
<1>2. KeptWell(t, k, Len(t))
  BY TableWell
<1>3. k \in Seq(Plugins) /\ DOMAIN k = 1..Len(k) /\ Len(k) \in Nat
  BY <1>2 DEF KeptWell
<1> HIDE DEF k
<1>4. ASSUME NEW f \in ToSet(list)
      PROVE  Cardinality({i \in DOMAIN k : Id(k[i]) = Id(f)}) = 1
  <2>1. PICK j \in 1..Len(t) : t[j] = f BY <1>1 DEF ToSet
  <2>2. PICK a \in 1..Len(k) : Id(k[a]) = Id(f) BY <1>2, <2>1 DEF KeptWell
  <2>3. ASSUME NEW b \in 1..Len(k), Id(k[b]) = Id(f) PROVE b = a
    <3>1. Id(k[a]) \in Nat /\ Id(k[b]) \in Nat BY <1>3, PluginListAssumption DEF Id
    <3>2. ~(Id(k[a]) < Id(k[b])) /\ ~(Id(k[b]) < Id(k[a])) BY <2>2, <2>3, <3>1
    <3>3. ~(a < b) /\ ~(b < a) BY <1>2, <3>2 DEF KeptWell
    <3>4. QED BY <1>3, <3>3
  <2>4. {i \in DOMAIN k : Id(k[i]) = Id(f)} = {a} BY <1>3, <2>2, <2>3
  <2>5. QED BY <2>4, FS_Singleton
<1>5. ASSUME NEW f \in ToSet(k), NEW g \in ToSet(list), Id(f) = Id(g)
      PROVE  Version(f) >= Version(g)
  <2>1. PICK a \in 1..Len(k) : k[a] = f BY <1>3 DEF ToSet
  <2>2. PICK j \in 1..Len(t) : t[j] = g BY <1>1 DEF ToSet
  <2>3. QED BY <1>2, <1>5, <2>1, <2>2 DEF KeptWell
<1>6. QED BY <1>4, <1>5 DEF TableHasBest, k

LEMMA PruneStep == ASSUME IInv, Prune PROVE IInv'
<1> USE DEF IInv, CountInv, SegmentInv, NoTable
<1>1. mpc = "loaded" /\ mpc' = "select" /\ UNCHANGED <<seen, segs, list>>
  BY DEF Prune
<1>2. num = Len(list) /\ list # <<>> /\ table = NoTable
  BY <1>1 DEF Prune
<1>3. SegmentInv' BY <1>1
<1>4. CASE UNCHANGED <<table, num>>
  BY <1>1, <1>2, <1>3, <1>4, NoTableYet DEF Points
<1>5. ASSUME NEW t \in SortedLists(list),
             table' = FirstOfEach(t), num' = Len(FirstOfEach(t))
      PROVE  IInv'
  <2>1. table' # NoTable /\ num' = Len(table') /\ num' \in Int
    BY <1>2, <1>5, TableFilled
  <2>2. CountInv' BY <1>1, <2>1
  <2>3. TableHasBest' BY <1>1, <1>5, TableBest
  <2>4. ServedInv' BY <1>1 DEF ServedInv
  <2>5. QED BY <1>1, <1>3, <2>1, <2>2, <2>3, <2>4 DEF Points
<1>6. QED BY <1>4, <1>5 DEF Prune

LEMMA SelectStep == ASSUME IInv, Select PROVE IInv'
<1> USE DEF IInv, CountInv, SegmentInv, NoTable, Points
<1>1. TableHasBest' BY DEF Select, TableHasBest
<1>2. ServedInv' BY DEF Select, ServedInv
<1>3. QED BY <1>1, <1>2 DEF Select

LEMMA IInvStep == ASSUME IInv, [Next]_listVars PROVE IInv'
<1> USE DEF IInv, CountInv, SegmentInv, NoTable, Points
<1>1. ASSUME NEW f \in Files, LoadFile(f) PROVE IInv' BY <1>1, LoadFileStep
<1>2. CASE LoadEnds BY <1>2, TableStays DEF LoadEnds
<1>3. CASE Prune BY <1>3, PruneStep
<1>4. CASE NothingFound BY <1>4, TableStays DEF NothingFound
<1>5. CASE NoPruning BY <1>5, TableStays DEF NoPruning
<1>6. CASE Select BY <1>6, SelectStep
<1>7. CASE ServerReturns BY <1>7, NoTableYet DEF ServerReturns
<1>8. CASE Release BY <1>8, TableStays DEF Release
<1>9. CASE UNCHANGED listVars BY <1>9, TableStays DEF listVars
<1>10. QED
  BY <1>1, <1>2, <1>3, <1>4, <1>5, <1>6, <1>7, <1>8, <1>9 DEF Next

-----------------------------------------------------------------------------

\* The list, the segments and the count of load_plugins(), prune_plugin_list()
\* and main() stay in step at every point of the server's life.
THEOREM ListInvariance == Spec => []IInv
  BY InitIInv, IInvStep, PTL DEF Spec

\* Whatever the directory holds and wherever reading it stops, every segment
\* in memory is on the list once, and the count main() goes by is right.
THEOREM Accounted == Spec => []ListAccounts
<1>1. IInv => ListAccounts
  BY DEF IInv, CountInv, SegmentInv, ListAccounts
<1>2. QED BY ListInvariance, <1>1, PTL

\* Whichever list the server served from, release_plugins() unloads all that
\* load_plugins() has loaded.
THEOREM Released == Spec => []ReleasedAll
<1>1. IInv => ReleasedAll
  BY DEF IInv, SegmentInv, ReleasedAll
<1>2. QED BY ListInvariance, <1>1, PTL

\* prune_plugin_list() keeps one of each plugin, and of two versions the higher,
\* for any list and whatever qsort() does with those that compare equal.
THEOREM Best == Spec => []TableHasBest
<1>1. IInv => TableHasBest
  BY DEF IInv
<1>2. QED BY ListInvariance, <1>1, PTL

\* find_plugin() returns the first that matches.
LEMMA Found ==
  ASSUME NEW P, NEW l \in Seq(P), NEW tag, NEW ver, NEW exact, HasPlugin(l, tag, ver, exact)
  PROVE  Matches(FindPlugin(l, tag, ver, exact), tag, ver, exact) /\ FindPlugin(l, tag, ver, exact) \in P
<1> DEFINE M == {i \in DOMAIN l : Matches(l[i], tag, ver, exact)}
<1>1. M \subseteq Nat /\ M # {} /\ DOMAIN l = 1..Len(l)
  BY DEF HasPlugin
<1>2. PICK i \in M : \A j \in M : i <= j
  <2> HIDE DEF M
  <2>1. QED BY <1>1, LeastNatural
<1>3. ASSUME NEW j \in 1..(i - 1) PROVE ~Matches(l[j], tag, ver, exact)
  <2>1. j \in DOMAIN l /\ ~(i <= j) BY <1>1, <1>2
  <2>2. QED BY <1>2, <2>1
<1>4. \E k \in DOMAIN l :
        /\ Matches(l[k], tag, ver, exact)
        /\ \A j \in 1..(k - 1) : ~Matches(l[j], tag, ver, exact)
  BY <1>2, <1>3
<1>5. \E k \in DOMAIN l :
        /\ Matches(l[k], tag, ver, exact)
        /\ FindPlugin(l, tag, ver, exact) = l[k]
  BY <1>4 DEF FindPlugin
<1>6. QED BY <1>1, <1>5

\* A server that has not pruned its list finds whatever it has loaded.
THEOREM Serves == Spec => []LoadedServes
<1>1. ASSUME IInv, mpc = "serving", table = NoTable, NEW f \in segs
      PROVE  LET offer == InfoOf(served)
             IN  /\ HasPlugin(offer, Id(f), Version(f), TRUE)
                 /\ FindPlugin(offer, Id(f), Version(f), TRUE) = Info[f]
                 /\ \A v \in 0..Version(f) :
                      LET p == FindPlugin(offer, Id(f), v, FALSE)
                      IN  p.tag = Id(f) /\ p.version >= v
  <2> DEFINE offer == InfoOf(served)
             Offers == [tag : Nat, version : Nat]
  <2>1. served = list /\ segs = ToSet(list) /\ list \in Seq(Plugins)
    BY <1>1 DEF IInv, ServedInv, SegmentInv
  <2>2. f \in Plugins /\ Info[f] \in Offers
    BY <2>1, PluginListAssumption DEF ToSet
  <2>3. offer \in Seq(Offers) /\ DOMAIN offer = 1..Len(list)
    <3>1. DOMAIN list = 1..Len(list) /\ Len(list) \in Nat BY <2>1
    <3>2. \A i \in 1..Len(list) : Info[list[i]] \in Offers BY <2>1, PluginListAssumption
    <3>3. offer = [i \in 1..Len(list) |-> Info[list[i]]] BY <2>1, <3>1 DEF InfoOf
    <3>4. QED BY <3>1, <3>2, <3>3
  <2>4. PICK i \in DOMAIN offer : offer[i] = Info[f]
    BY <2>1, <2>3 DEF InfoOf, ToSet
  <2> HIDE DEF offer
  <2>5. HasPlugin(offer, Id(f), Version(f), TRUE)
    BY <2>4 DEF HasPlugin, Matches, Id, Version
  <2>6. FindPlugin(offer, Id(f), Version(f), TRUE) = Info[f]
    <3> DEFINE p == FindPlugin(offer, Id(f), Version(f), TRUE)
    <3>1. Matches(p, Id(f), Version(f), TRUE) /\ p \in Offers
      BY <2>3, <2>5, Found
    <3> HIDE DEF p
    <3>2. p = Info[f] BY <2>2, <3>1 DEF Matches, Id, Version
    <3>3. QED BY <3>2 DEF p
  <2>7. ASSUME NEW v \in 0..Version(f)
        PROVE  LET p == FindPlugin(offer, Id(f), v, FALSE)
               IN  p.tag = Id(f) /\ p.version >= v
    <3> DEFINE p == FindPlugin(offer, Id(f), v, FALSE)
    <3>1. HasPlugin(offer, Id(f), v, FALSE)
      BY <2>2, <2>4 DEF HasPlugin, Matches, Id, Version
    <3>2. Matches(p, Id(f), v, FALSE)
      BY <2>3, <3>1, Found
    <3>3. QED BY <3>2 DEF Matches
  <2>8. QED BY <2>5, <2>6, <2>7 DEF offer
<1>2. IInv => LoadedServes
  BY <1>1 DEF LoadedServes
<1>3. QED BY ListInvariance, <1>2, PTL
=============================================================================
