------------------------------ MODULE V1Proofs ------------------------------
(***************************************************************************)
(* What V1Editor says of the version 1 profile editor, proved for every    *)
(* schema, every set of files, every change by others and every bound; and *)
(* what V1Resolver says of the version 1 loader and resolver, proved for   *)
(* every project, request and width of an integer.                         *)
(***************************************************************************)
EXTENDS V1Editor, V1Resolver, InductionLemmas

-----------------------------------------------------------------------------
\* Lists.

\* The entries of two lists one after the other.
LEMMA ToSetConcat ==
  ASSUME NEW S, NEW s, NEW t, s \in Seq(S), t \in Seq(S)
  PROVE  s \o t \in Seq(S) /\ ToSet(s \o t) = ToSet(s) \cup ToSet(t)
  <1>1. \A f : ToSet(f) = Range(f)
    BY DEF ToSet, Range
  <1>2. s \o t \in Seq(S) /\ Range(s \o t) = Range(s) \cup Range(t)
    BY RangeConcat
  <1> QED BY ONLY <1>1, <1>2

\* A list is a list of its entries.
LEMMA SeqOfEntries ==
  ASSUME NEW S, NEW s, s \in Seq(S)
  PROVE  s \in Seq(ToSet(s))
  BY DEF ToSet

\* One step of Picked.
PickedStep(list, places, before, n) ==
    before \o (IF n \in places THEN <<list[n]>> ELSE <<>>)

\* What Picked has taken after n entries.
PickedRun(list, places, S, run) ==
    /\ run \in [0..Len(list) -> Seq(S)]
    /\ run[0] = <<>>
    /\ \A n \in 1..Len(list) : run[n] = PickedStep(list, places, run[n - 1], n)
    /\ Picked(list, places) = run[Len(list)]

LEMMA PickedLoop ==
  ASSUME NEW S, NEW list, NEW places, list \in Seq(S)
  PROVE  \E run : PickedRun(list, places, S, run)
  <1>1. PICK N : N = Len(list) /\ N \in Nat
    OBVIOUS
  <1> DEFINE Go(before, n) == PickedStep(list, places, before, n)
             T == Seq(S)
             G == [x \in T \X (1..N) |-> Go(x[1], x[2])]
             Body(f) == [n \in 0..Len(list) |-> IF n = 0 THEN <<>> ELSE Go(f[n - 1], n)]
             Solution == CHOOSE g : g = Body(g)
  <1>2. \A before \in T, n \in 1..N : Go(before, n) \in T
    BY <1>1 DEF PickedStep
  <1>3. G \in [T \X (1..N) -> T] /\ <<>> \in T
    <2> HIDE DEF Go
    <2> QED BY <1>2
  <1>4. PICK f : Recursion(f, N, T, <<>>, G)
    <2>1. PICK e : e = <<>>
      OBVIOUS
    <2> HIDE DEF G, T
    <2>2. \E f : Recursion(f, N, T, e, G)
      BY ONLY <1>1, <1>3, <2>1, RecursionTo
    <2> QED BY <2>1, <2>2
  <1>5. \A n \in 1..N : f[n] = Go(f[n - 1], n)
    <2> SUFFICES ASSUME NEW n \in 1..N PROVE f[n] = Go(f[n - 1], n)
      OBVIOUS
    <2>1. n - 1 \in 0..N
      BY <1>1
    <2> HIDE DEF Go, T
    <2>2. <<f[n - 1], n>> \in T \X (1..N)
      BY <1>4, <2>1 DEF Recursion
    <2> QED BY <1>4, <2>2 DEF Recursion
  <1>6. f = Body(f)
    <2> HIDE DEF Go, T
    <2> QED BY <1>1, <1>4, <1>5 DEF Recursion
  <1>7. Solution = Body(Solution)
    <2> HIDE DEF Body
    <2> QED BY <1>6
  <1>8. Picked(list, places) = Solution[N]
    BY <1>1 DEF Picked, PickedStep
  <1> HIDE DEF Solution, Go
  <1>9. /\ Solution[0] = <<>> /\ \A n \in 1..N : Solution[n] = Go(Solution[n - 1], n)
        /\ Solution = [n \in 0..N |-> Solution[n]]
    BY <1>1, <1>7
  <1>10. \A n \in 0..N : Solution[n] \in T
    <2> DEFINE Good == {n \in Nat : n \in 0..N => Solution[n] \in T}
    <2> HIDE DEF T
    <2>1. 0 \in Good
      BY <1>3, <1>9
    <2>2. ASSUME NEW n \in Nat, n \in Good PROVE n + 1 \in Good
      <3> SUFFICES ASSUME n + 1 \in 0..N PROVE Solution[n + 1] \in T
        OBVIOUS
      <3>1. n \in 0..N /\ n + 1 \in 1..N /\ (n + 1) - 1 = n
        BY <1>1
      <3>2. Solution[n] \in T /\ Solution[n + 1] = Go(Solution[n], n + 1)
        BY <1>9, <2>2, <3>1
      <3> QED BY <1>2, <3>1, <3>2
    <2>3. Nat \subseteq Good
      <3> HIDE DEF Good
      <3> QED BY <2>1, <2>2, Induction
    <2> QED BY <1>1, <2>3
  <1> HIDE DEF T
  <1>11. Solution \in [0..N -> T]
    BY <1>9, <1>10
  <1> QED BY <1>1, <1>8, <1>9, <1>11 DEF PickedRun, Go, T

\* Picked keeps exactly the entries at the places asked for.
LEMMA PickedFacts ==
  ASSUME NEW S, NEW list, NEW places, list \in Seq(S)
  PROVE  /\ Picked(list, places) \in Seq(S)
         /\ ToSet(Picked(list, places)) = {list[i] : i \in DOMAIN list \cap places}
  <1>1. PICK run : PickedRun(list, places, S, run)
    BY PickedLoop
  <1>2. PICK N : N = Len(list) /\ N \in Nat /\ DOMAIN list = 1..N
    OBVIOUS
  <1>3. /\ run \in [0..N -> Seq(S)] /\ run[0] = <<>>
        /\ \A n \in 1..N : run[n] = PickedStep(list, places, run[n - 1], n)
        /\ Picked(list, places) = run[N]
    BY <1>1, <1>2 DEF PickedRun
  <1> DEFINE Taken(n) == {list[i] : i \in (1..n) \cap places}
             Good == {n \in Nat : n \in 0..N => ToSet(run[n]) = Taken(n)}
  <1>4. 0 \in Good
    <2>1. ToSet(run[0]) = {} /\ Taken(0) = {}
      BY <1>3 DEF ToSet
    <2> QED BY <2>1
  <1>5. ASSUME NEW n \in Nat, n \in Good PROVE n + 1 \in Good
    <2> SUFFICES ASSUME n + 1 \in 0..N PROVE ToSet(run[n + 1]) = Taken(n + 1)
      OBVIOUS
    <2>1. n \in 0..N /\ n + 1 \in 1..N /\ (n + 1) - 1 = n
      BY <1>2
    <2>2. run[n + 1] = PickedStep(list, places, run[n], n + 1) /\ run[n] \in Seq(S)
      BY <1>3, <2>1
    <2>3. ToSet(run[n]) = Taken(n)
      BY <1>5, <2>1
    <2>4. CASE n + 1 \in places
      <3>1. run[n + 1] = run[n] \o <<list[n + 1]>>
        BY <2>2, <2>4 DEF PickedStep
      <3>2. ToSet(run[n + 1]) = ToSet(run[n]) \cup {list[n + 1]}
        <4>1. <<list[n + 1]>> \in Seq(S) /\ ToSet(<<list[n + 1]>>) = {list[n + 1]}
          BY <1>2, <2>1 DEF ToSet
        <4>2. PICK a, b : a = run[n] /\ b = <<list[n + 1]>>
          OBVIOUS
        <4>3. a \in Seq(S) /\ b \in Seq(S)
          BY <2>2, <4>1, <4>2
        <4>4. ToSet(a \o b) = ToSet(a) \cup ToSet(b)
          BY ONLY <4>3, ToSetConcat
        <4> QED BY <3>1, <4>1, <4>2, <4>4
      <3>3. Taken(n + 1) = Taken(n) \cup {list[n + 1]}
        BY <2>1, <2>4
      <3> QED BY <2>3, <3>2, <3>3
    <2>5. CASE n + 1 \notin places
      <3>1. run[n + 1] = run[n]
        BY <2>2, <2>5 DEF PickedStep
      <3>2. Taken(n + 1) = Taken(n)
        BY <2>1, <2>5
      <3> QED BY <2>3, <3>1, <3>2
    <2> QED BY <2>4, <2>5
  <1>6. Nat \subseteq Good
    <2> HIDE DEF Good
    <2> QED BY <1>4, <1>5, Induction
  <1>7. ToSet(run[N]) = Taken(N)
    <2>1. N \in Good /\ N \in 0..N
      BY ONLY <1>2, <1>6
    <2> QED BY <2>1
  <1> QED BY <1>2, <1>3, <1>7

-----------------------------------------------------------------------------
\* Menus, rows and views.

Path == Seq(STRING)

\* A category and the categories above it.
Above(path) == {SubSeq(path, 1, i) : i \in 1..Len(path)}

\* A menu list holds the root, and with a menu the one above it.
IsMenuList(menus) ==
    /\ menus \in Seq(Path) /\ Root \in ToSet(menus)
    /\ \A m \in ToSet(menus) : m # Root => Front(m) \in ToSet(menus)

\* ensure_menu_path adds the category and those above it, and nothing else.
LEMMA EnsureMenuPathFacts ==
  ASSUME NEW menus, NEW path, menus \in Seq(Path), path \in Path
  PROVE  /\ EnsureMenuPath(menus, path) \in Seq(Path)
         /\ ToSet(EnsureMenuPath(menus, path)) = ToSet(menus) \cup Above(path)
  <1>1. PICK N : N = Len(path) /\ N \in Nat /\ DOMAIN path = 1..N
    BY DEF Path
  <1>2. PICK list : list = [i \in DOMAIN path |-> SubSeq(path, 1, i)]
    OBVIOUS
  <1>3. PICK places : places = {i \in DOMAIN path : list[i] \notin ToSet(menus)}
    OBVIOUS
  <1>4. \A i \in 1..N : SubSeq(path, 1, i) \in Path
    BY <1>1 DEF Path
  <1>5. list \in [1..N -> Path]
    <2> HIDE DEF Path
    <2> QED BY <1>1, <1>2, <1>4
  <1>6. list \in Seq(Path) /\ DOMAIN list = 1..N
    BY <1>1, <1>5
  <1>7. EnsureMenuPath(menus, path) = menus \o Picked(list, places)
    BY <1>2, <1>3 DEF EnsureMenuPath
  <1>8. PICK new : new = Picked(list, places)
    OBVIOUS
  <1>9. new \in Seq(Path) /\ ToSet(new) = {list[i] : i \in DOMAIN list \cap places}
    BY ONLY <1>6, <1>8, PickedFacts
  <1>10. menus \o new \in Seq(Path) /\ ToSet(menus \o new) = ToSet(menus) \cup ToSet(new)
    BY ONLY <1>9, menus \in Seq(Path), ToSetConcat
  <1>11. ToSet(new) = {list[i] : i \in {k \in 1..N : list[k] \notin ToSet(menus)}}
    BY <1>1, <1>3, <1>6, <1>9
  <1>12. Above(path) = {list[i] : i \in 1..N}
    BY <1>1, <1>2 DEF Above
  <1>13. ToSet(menus) \cup ToSet(new) = ToSet(menus) \cup Above(path)
    BY <1>11, <1>12
  <1> QED BY <1>7, <1>8, <1>10, <1>13

\* So the list stays complete.
LEMMA EnsureMenuPathKeeps ==
  ASSUME NEW menus, NEW path, IsMenuList(menus), path \in Path, path # <<>>
  PROVE  /\ IsMenuList(EnsureMenuPath(menus, path))
         /\ ToSet(menus) \subseteq ToSet(EnsureMenuPath(menus, path))
         /\ path \in ToSet(EnsureMenuPath(menus, path))
  <1>1. PICK N : N = Len(path) /\ N \in Nat /\ N # 0
    BY DEF Path
  <1>2. PICK new : new = EnsureMenuPath(menus, path)
    OBVIOUS
  <1>3. new \in Seq(Path) /\ ToSet(new) = ToSet(menus) \cup Above(path)
    BY <1>2, EnsureMenuPathFacts DEF IsMenuList
  <1>4. path = SubSeq(path, 1, N)
    BY <1>1 DEF Path
  <1>5. path \in Above(path)
    BY <1>1, <1>4 DEF Above
  <1>6. ASSUME NEW m \in Above(path) PROVE Front(m) \in ToSet(new)
    <2>1. PICK i \in 1..N : m = SubSeq(path, 1, i)
      BY <1>1 DEF Above
    <2>2. Len(m) = i
      BY <1>1, <2>1 DEF Path
    <2>3. Front(m) = SubSeq(path, 1, i - 1)
      BY <1>1, <2>1, <2>2 DEF Front, Path
    <2>4. CASE i = 1
      <3>1. Front(m) = Root
        BY <1>1, <2>3, <2>4 DEF Root, Path
      <3> QED BY <1>3, <3>1 DEF IsMenuList
    <2>5. CASE i # 1
      <3>1. i - 1 \in 1..N
        BY <1>1, <2>5
      <3>2. Front(m) \in Above(path)
        BY <1>1, <2>3, <3>1 DEF Above
      <3> QED BY <1>3, <3>2
    <2> QED BY <2>4, <2>5
  <1>7. \A m \in ToSet(new) : m # Root => Front(m) \in ToSet(new)
    BY <1>3, <1>6 DEF IsMenuList
  <1> QED BY <1>2, <1>3, <1>5, <1>7 DEF IsMenuList

\* rebuild_menus after n options.
MenusRun(options, run) ==
    /\ run[0] = <<Root>>
    /\ \A n \in 1..Len(options) : run[n] = EnsureMenuPath(run[n - 1], options[n].category)
    /\ MenusOf(options) = run[Len(options)]

LEMMA MenusLoop ==
  ASSUME NEW S, NEW options, options \in Seq(S), \A o \in S : o.category \in Path
  PROVE  \E run : MenusRun(options, run)
  <1>1. PICK N : N = Len(options) /\ N \in Nat
    OBVIOUS
  <1>0. PICK T, first : T = Seq(Path) /\ first = <<Root>>
    OBVIOUS
  <1> DEFINE Go(before, n) == EnsureMenuPath(before, options[n].category)
             G == [x \in T \X (1..N) |-> Go(x[1], x[2])]
             Body(f) == [n \in 0..Len(options) |-> IF n = 0 THEN <<Root>> ELSE Go(f[n - 1], n)]
             Solution == CHOOSE g : g = Body(g)
  <1>2. ASSUME NEW before \in T, NEW n \in 1..N PROVE Go(before, n) \in T
    <2>1. options[n].category \in Path
      BY <1>1
    <2> QED BY <1>0, <2>1, EnsureMenuPathFacts
  <1>3. G \in [T \X (1..N) -> T]
    <2> HIDE DEF Go
    <2> QED BY <1>2
  <1>4. first \in T
    BY <1>0 DEF Path, Root
  <1>5. PICK f : Recursion(f, N, T, first, G)
    <2> HIDE DEF G
    <2> QED BY ONLY <1>1, <1>3, <1>4, RecursionTo
  <1>6. \A n \in 1..N : f[n] = Go(f[n - 1], n)
    <2> SUFFICES ASSUME NEW n \in 1..N PROVE f[n] = Go(f[n - 1], n)
      OBVIOUS
    <2>1. n - 1 \in 0..N
      BY <1>1
    <2> HIDE DEF Go
    <2>2. <<f[n - 1], n>> \in T \X (1..N)
      BY <1>5, <2>1 DEF Recursion
    <2> QED BY <1>5, <2>2 DEF Recursion
  <1>7. f = Body(f)
    <2> HIDE DEF Go
    <2>1. f \in [0..N -> T] /\ f[0] = <<Root>>
      BY <1>0, <1>5 DEF Recursion
    <2>2. \A n \in 0..N : f[n] = Body(f)[n]
      BY <1>1, <1>6, <2>1
    <2>3. DOMAIN Body(f) = 0..N /\ Body(f) = [n \in 0..N |-> Body(f)[n]]
      BY <1>1
    <2> HIDE DEF Body
    <2> QED BY ONLY <2>1, <2>2, <2>3
  <1>8. Solution = Body(Solution)
    <2> HIDE DEF Body
    <2> QED BY <1>7
  <1>9. MenusOf(options) = Solution[N]
    BY <1>1 DEF MenusOf
  <1> HIDE DEF Solution, Go
  <1>10. Solution[0] = <<Root>> /\ \A n \in 1..N : Solution[n] = Go(Solution[n - 1], n)
    <2> HIDE DEF Go
    <2>1. Solution = [n \in 0..N |-> IF n = 0 THEN <<Root>> ELSE Go(Solution[n - 1], n)]
      BY ONLY <1>1, <1>8
    <2>2. 0 \in 0..N /\ \A n \in 1..N : n \in 0..N /\ n # 0
      BY ONLY <1>1
    <2> QED BY ONLY <2>1, <2>2
  <1> QED BY <1>1, <1>9, <1>10 DEF MenusRun, Go

\* The menus of a schema are a menu list with the category of every option.
LEMMA MenusFacts ==
  ASSUME NEW schema \in Schemas
  PROVE  /\ IsMenuList(Menus[schema])
         /\ \A o \in ToSet(schema.options) : o.category \in ToSet(Menus[schema])
  <1>1. PICK options, S, N : /\ options = schema.options /\ S = ToSet(options)
                             /\ N = Len(options)
    OBVIOUS
  <1>2. options \in Seq(S) /\ \A o \in S : o.category \in Path /\ o.category # <<>>
    BY <1>1, SchemasAssumption DEF Path
  <1>3. N \in Nat /\ DOMAIN options = 1..N /\ \A n \in 1..N : options[n] \in S
    BY <1>1, <1>2
  <1>4. PICK run : MenusRun(options, run)
    BY <1>2, MenusLoop
  <1>5. /\ run[0] = <<Root>> /\ MenusOf(options) = run[N]
        /\ \A n \in 1..N : run[n] = EnsureMenuPath(run[n - 1], options[n].category)
    BY <1>1, <1>4 DEF MenusRun
  <1> DEFINE Has(n) == \A k \in 1..n : options[k].category \in ToSet(run[n])
             Good == {n \in Nat : n \in 0..N => IsMenuList(run[n]) /\ Has(n)}
  <1>6. 0 \in Good
    <2>1. ToSet(<<Root>>) = {Root} /\ <<Root>> \in Seq(Path)
      BY DEF ToSet, Root, Path
    <2>2. IsMenuList(run[0])
      BY <1>5, <2>1 DEF IsMenuList
    <2> QED BY <2>2
  <1>7. ASSUME NEW n \in Nat, n \in Good PROVE n + 1 \in Good
    <2> SUFFICES ASSUME n + 1 \in 0..N PROVE IsMenuList(run[n + 1]) /\ Has(n + 1)
      OBVIOUS
    <2>1. n \in 0..N /\ n + 1 \in 1..N /\ (n + 1) - 1 = n
      BY <1>3
    <2>2. PICK old, new, path : old = run[n] /\ new = run[n + 1] /\ path = options[n + 1].category
      OBVIOUS
    <2>3. new = EnsureMenuPath(old, path)
      BY <1>5, <2>1, <2>2
    <2>4. IsMenuList(old) /\ Has(n)
      BY <1>7, <2>1, <2>2
    <2>5. path \in Path /\ path # <<>>
      BY <1>2, <1>3, <2>1, <2>2
    <2>6. IsMenuList(new) /\ ToSet(old) \subseteq ToSet(new) /\ path \in ToSet(new)
      BY ONLY <2>3, <2>4, <2>5, EnsureMenuPathKeeps
    <2>7. ASSUME NEW k \in 1..(n + 1) PROVE options[k].category \in ToSet(run[n + 1])
      BY <2>2, <2>4, <2>6
    <2> QED BY <2>2, <2>6, <2>7
  <1>8. Nat \subseteq Good
    <2> HIDE DEF Good
    <2> QED BY <1>6, <1>7, Induction
  <1>9. IsMenuList(run[N]) /\ Has(N)
    <2>1. N \in Good /\ N \in 0..N
      BY ONLY <1>3, <1>8
    <2> QED BY <2>1
  <1>10. Menus[schema] = run[N]
    BY <1>1, <1>5 DEF Menus
  <1>11. \A o \in S : \E k \in 1..N : o = options[k]
    BY <1>1, <1>3 DEF ToSet
  <1> QED BY <1>1, <1>9, <1>10, <1>11

\* A row stands for a menu or for an option of the schema.
IsRow(schema, row) ==
    \/ row.kind = "menu" /\ row.menu \in ToSet(Menus[schema])
    \/ row.kind = "option" /\ \E o \in ToSet(schema.options) : row = OptionRow(o)

LEMMA RowsFacts ==
  ASSUME NEW schema \in Schemas
  PROVE  /\ Rows[schema] \in Seq(ToSet(Rows[schema]))
         /\ \A row \in ToSet(Rows[schema]) : IsRow(schema, row)
  <1>1. PICK menus, options : menus = Menus[schema] /\ options = schema.options
    OBVIOUS
  <1>2. menus \in Seq(Path) /\ Root \in ToSet(menus)
    BY <1>1, MenusFacts DEF IsMenuList
  <1>3. menus # <<>>
    BY <1>2 DEF ToSet
  <1>4. PICK rest, m : rest = Tail(menus) /\ m = Len(rest)
    OBVIOUS
  <1>5. rest \in Seq(Path) /\ m \in Nat /\ DOMAIN rest = 1..m /\ Len(menus) = m + 1
    BY <1>2, <1>3, <1>4
  <1>6. \A i \in 1..m : rest[i] \in ToSet(menus)
    <2>1. \A i \in 1..m : i + 1 \in DOMAIN menus /\ rest[i] = menus[i + 1]
      BY <1>2, <1>3, <1>4, <1>5
    <2> QED BY <2>1 DEF ToSet
  <1>7. PICK n : /\ n = Len(options) /\ n \in Nat /\ DOMAIN options = 1..n
                 /\ \A i \in 1..n : options[i] \in ToSet(options)
    <2>1. options \in Seq(ToSet(options))
      BY <1>1, SchemasAssumption
    <2> QED BY <2>1
  <1>8. PICK a, b : /\ a = [i \in 1..m |-> MenuRow(rest[i])]
                    /\ b = [i \in 1..n |-> OptionRow(options[i])]
    OBVIOUS
  <1>9. Rows[schema] = a \o b
    BY <1>1, <1>4, <1>5, <1>7, <1>8 DEF Rows
  <1>10. PICK S : S = {MenuRow(x) : x \in ToSet(menus)} \cup {OptionRow(o) : o \in ToSet(options)}
    OBVIOUS
  <1>11. (\A i \in 1..m : a[i] \in S) /\ (\A i \in 1..n : b[i] \in S)
    BY <1>6, <1>7, <1>8, <1>10
  <1>12. a \in Seq(S) /\ b \in Seq(S)
    BY <1>5, <1>7, <1>8, <1>11
  <1>13. PICK r : r = a \o b
    OBVIOUS
  <1>14. r \in Seq(S)
    BY <1>12, <1>13
  <1>15. r \in Seq(ToSet(r)) /\ \A row \in ToSet(r) : row \in S
    BY <1>14 DEF ToSet
  <1>16. ASSUME NEW row \in S PROVE IsRow(schema, row)
    <2>1. \A x : MenuRow(x).kind = "menu" /\ MenuRow(x).menu = x
      BY DEF MenuRow
    <2>2. \A o : OptionRow(o).kind = "option"
      BY DEF OptionRow
    <2> QED BY <1>1, <1>10, <2>1, <2>2 DEF IsRow
  <1> QED BY <1>9, <1>13, <1>15, <1>16

\* rebuild_view takes exactly the rows that are shown.
LEMMA ViewFacts ==
  ASSUME NEW schema \in Schemas, NEW current, NEW isFlat, NEW f
  PROVE  /\ ViewOf(schema, current, isFlat, f) \in Seq(ToSet(Rows[schema]))
         /\ ToSet(ViewOf(schema, current, isFlat, f)) =
              {row \in ToSet(Rows[schema]) : Shown(schema, row, current, isFlat, f)}
  <1>1. PICK rows, S : rows = Rows[schema] /\ S = ToSet(rows)
    OBVIOUS
  <1>2. rows \in Seq(S)
    BY <1>1, RowsFacts
  <1>3. PICK places : places = {i \in DOMAIN rows : Shown(schema, rows[i], current, isFlat, f)}
    OBVIOUS
  <1>4. ViewOf(schema, current, isFlat, f) = Picked(rows, places)
    BY <1>1, <1>3 DEF ViewOf
  <1>5. Picked(rows, places) \in Seq(S) /\ ToSet(Picked(rows, places)) = {rows[i] : i \in DOMAIN rows \cap places}
    BY ONLY <1>2, PickedFacts
  <1>6. {rows[i] : i \in DOMAIN rows \cap places} = {row \in S : Shown(schema, row, current, isFlat, f)}
    BY <1>1, <1>3 DEF ToSet
  <1> QED BY <1>1, <1>4, <1>5, <1>6

-----------------------------------------------------------------------------
\* Values.

\* Value finds nothing only if no entry names the option.
LEMMA ValueNone ==
  ASSUME NEW S, NEW values, NEW id, values \in Seq(S),
         \A i \in DOMAIN values : values[i][1] # id
  PROVE  Value(values, id) = None
  BY DEF Value

\* Entries of an option that agree are its value.
Agreed(values, id, v) ==
    /\ \E i \in DOMAIN values : values[i][1] = id
    /\ \A i \in DOMAIN values : values[i][1] = id => values[i][2] = v

LEMMA ValueAgreed ==
  ASSUME NEW S, NEW values, NEW id, NEW v, values \in Seq(S), Agreed(values, id, v)
  PROVE  Value(values, id) = v
  <1>1. PICK at, n : at = {i \in DOMAIN values : values[i][1] = id} /\ n = Len(values)
    OBVIOUS
  <1>2. n \in Nat /\ at \in SUBSET (0..n) /\ at # {}
    BY <1>1 DEF Agreed
  <1>3. \E i \in at : \A j \in at : j <= i
    BY ONLY <1>2, GreatestNatural
  <1>4. Value(values, id) = values[CHOOSE i \in at : \A j \in at : j <= i][2]
    BY <1>1, <1>2 DEF Value
  <1> QED BY <1>1, <1>3, <1>4 DEF Agreed

\* Lists with the same entries of an option at the same places agree on it.
SameEntries(a, b, id) ==
    /\ {i \in DOMAIN a : a[i][1] = id} = {i \in DOMAIN b : b[i][1] = id}
    /\ \A i \in DOMAIN a : a[i][1] = id => a[i][2] = b[i][2]

LEMMA ValueSame ==
  ASSUME NEW a, NEW b, NEW id, SameEntries(a, b, id), NEW S, a \in Seq(S)
  PROVE  Value(a, id) = Value(b, id)
  <1>1. PICK at, n : at = {i \in DOMAIN a : a[i][1] = id} /\ n = Len(a)
    OBVIOUS
  <1>0. at = {i \in DOMAIN b : b[i][1] = id} /\ \A i \in at : a[i][2] = b[i][2]
    BY <1>1 DEF SameEntries
  <1>2. CASE at = {}
    BY <1>1, <1>2, <1>0 DEF Value
  <1>3. CASE at # {}
    <2>1. n \in Nat /\ at \in SUBSET (0..n)
      BY <1>1
    <2>2. \E i \in at : \A j \in at : j <= i
      BY ONLY <1>3, <2>1, GreatestNatural
    <2>3. PICK k : k = CHOOSE i \in at : \A j \in at : j <= i
      OBVIOUS
    <2>4. k \in at
      BY <2>2, <2>3
    <2>5. Value(a, id) = a[k][2] /\ Value(b, id) = b[k][2]
      BY <1>1, <1>3, <1>0, <2>3 DEF Value
    <2> QED BY <1>0, <2>4, <2>5
  <1> QED BY <1>2, <1>3

\* A value that is found is that of an entry of the option.
LEMMA ValueFound ==
  ASSUME NEW S, NEW values, NEW id, values \in Seq(S), Value(values, id) # None
  PROVE  \E i \in DOMAIN values : values[i][1] = id /\ values[i][2] = Value(values, id)
  <1>1. PICK at, n : at = {i \in DOMAIN values : values[i][1] = id} /\ n = Len(values)
    OBVIOUS
  <1>2. at # {} /\ n \in Nat /\ at \in SUBSET (0..n)
    BY <1>1 DEF Value
  <1>3. \E i \in at : \A j \in at : j <= i
    BY ONLY <1>2, GreatestNatural
  <1>4. PICK k : k = CHOOSE i \in at : \A j \in at : j <= i
    OBVIOUS
  <1>5. k \in at
    BY <1>3, <1>4
  <1>6. Value(values, id) = values[k][2]
    BY <1>1, <1>2, <1>4 DEF Value
  <1> QED BY <1>1, <1>5, <1>6

\* The list of edits: its entries name options, have values, and agree.
IsEditList(list, schema) ==
    /\ list \in Seq(ToSet(list))
    /\ \A i \in DOMAIN list : list[i][1] \in Ids(schema) /\ list[i][2] # None
    /\ \A i, j \in DOMAIN list : list[i][1] = list[j][1] => list[i][2] = list[j][2]

\* The edits after one more: another value for one option and for no other.
IsEdited(new, old, id, value, schema) ==
    /\ IsEditList(new, schema) /\ new # <<>>
    /\ Value(new, id) = value
    /\ \A x : x # id => Value(new, x) = Value(old, x)

\* set_edit changes the value of the option edited and of no other.
LEMMA SetEditFacts ==
  ASSUME NEW schema, NEW id, NEW value, IsEditList(edits, schema),
         id \in Ids(schema), value # None
  PROVE  IsEdited(SetEdit(id, value), edits, id, value, schema)
  <1>1. PICK S, n : /\ S = ToSet(edits) \cup {<<id, value>>} /\ n = Len(edits)
                    /\ edits \in Seq(ToSet(edits))
    BY DEF IsEditList
  <1>2. edits \in Seq(S) /\ n \in Nat /\ DOMAIN edits = 1..n
    BY <1>1
  <1>3. PICK new, entry : new = SetEdit(id, value) /\ entry = <<id, value>>
    OBVIOUS
  <1>6. entry[1] = id /\ entry[2] = value /\ entry \in S
    BY <1>1, <1>3
  <1>7. \A i \in 1..n : edits[i] \in S
    BY <1>2
  <1>8. /\ \A i \in 1..n : edits[i][1] \in Ids(schema) /\ edits[i][2] # None
        /\ \A i, j \in 1..n : edits[i][1] = edits[j][1] => edits[i][2] = edits[j][2]
    BY <1>2 DEF IsEditList
  <1>4. CASE \E i \in DOMAIN edits : edits[i][1] = id
    <2>1. new = [i \in DOMAIN edits |-> IF edits[i][1] = id THEN entry ELSE edits[i]]
      BY <1>3, <1>4 DEF SetEdit
    <2>2. \A i \in 1..n : new[i] = IF edits[i][1] = id THEN entry ELSE edits[i]
      BY <1>2, <2>1
    <2>12. \A i \in 1..n : new[i] \in S
      BY <1>6, <1>7, <2>2
    <2>13. new \in [1..n -> S]
      BY <1>2, <2>1, <2>12
    <2>14. new \in Seq(S)
      BY <1>2, <2>13
    <2>3. new \in Seq(S) /\ DOMAIN new = 1..n
      BY <2>13, <2>14
    <2>4. new \in Seq(ToSet(new))
      BY <2>3, SeqOfEntries
    <2>5. \A i \in 1..n : IF edits[i][1] = id THEN new[i][1] = id /\ new[i][2] = value
                                              ELSE new[i] = edits[i]
      BY <1>6, <2>2
    <2>15. /\ \A i \in 1..n : new[i][1] \in Ids(schema) /\ new[i][2] # None
           /\ \A i, j \in 1..n : new[i][1] = new[j][1] => new[i][2] = new[j][2]
      BY <1>8, <2>5
    <2>6. IsEditList(new, schema)
      BY <2>3, <2>4, <2>15 DEF IsEditList
    <2>7. \E i \in DOMAIN new : new[i][1] = id
      BY <1>2, <1>4, <2>3, <2>5
    <2>8. \A i \in DOMAIN new : new[i][1] = id => new[i][2] = value
      BY <2>3, <2>5
    <2>9. Value(new, id) = value
      <3>1. Agreed(new, id, value)
        BY <2>7, <2>8 DEF Agreed
      <3> QED BY ONLY <2>14, <3>1, ValueAgreed
    <2>10. ASSUME NEW x, x # id PROVE Value(new, x) = Value(edits, x)
      <3>1. {i \in DOMAIN new : new[i][1] = x} = {i \in DOMAIN edits : edits[i][1] = x}
        BY <1>2, <2>3, <2>5, <2>10
      <3>2. \A i \in DOMAIN new : new[i][1] = x => new[i][2] = edits[i][2]
        BY <1>2, <2>3, <2>5, <2>10
      <3>3. SameEntries(new, edits, x)
        BY ONLY <3>1, <3>2 DEF SameEntries
      <3> QED BY ONLY <2>3, <3>3, ValueSame
    <2>11. new # <<>>
      <3>1. new = <<>> => DOMAIN new = {}
        OBVIOUS
      <3> QED BY <2>7, <3>1
    <2> QED BY <1>3, <2>6, <2>9, <2>10, <2>11 DEF IsEdited
  <1>5. CASE ~\E i \in DOMAIN edits : edits[i][1] = id
    <2>1. new = Append(edits, entry)
      BY <1>3, <1>5 DEF SetEdit
    <2>2. new \in Seq(S)
      BY <1>2, <1>6, <2>1
    <2>3. new \in Seq(S) /\ DOMAIN new = 1..(n + 1)
      BY <1>1, <1>2, <1>6, <2>1, <2>2
    <2>4. new \in Seq(ToSet(new))
      BY <2>3, SeqOfEntries
    <2>5. (\A i \in 1..n : new[i] = edits[i]) /\ new[n + 1] = entry
      BY <1>1, <1>2, <1>6, <2>1
    <2>6. \A i \in 1..(n + 1) : i \in 1..n \/ i = n + 1
      BY <1>2
    <2>7. \A i \in 1..n : edits[i][1] # id /\ edits[i][1] \in Ids(schema) /\ edits[i][2] # None
      BY <1>2, <1>5, <1>8
    <2>8. \A i \in 1..(n + 1) : new[i][1] \in Ids(schema) /\ new[i][2] # None
      BY <1>6, <2>5, <2>6, <2>7
    <2>9. \A i, j \in 1..n : edits[i][1] = edits[j][1] => edits[i][2] = edits[j][2]
      BY <1>8
    <2>10. \A i, j \in 1..(n + 1) : new[i][1] = new[j][1] => new[i][2] = new[j][2]
      BY <1>6, <2>5, <2>6, <2>7, <2>9
    <2>11. IsEditList(new, schema)
      BY <2>3, <2>4, <2>8, <2>10 DEF IsEditList
    <2>12. /\ \E i \in DOMAIN new : new[i][1] = id
           /\ \A i \in DOMAIN new : new[i][1] = id => new[i][2] = value
      BY <1>2, <1>6, <2>3, <2>5, <2>6, <2>7
    <2>13. Value(new, id) = value
      <3>1. Agreed(new, id, value)
        BY <2>12 DEF Agreed
      <3> QED BY ONLY <2>2, <3>1, ValueAgreed
    <2>14. ASSUME NEW x, x # id PROVE Value(new, x) = Value(edits, x)
      <3>1. {i \in DOMAIN new : new[i][1] = x} = {i \in DOMAIN edits : edits[i][1] = x}
        BY <1>2, <1>6, <2>3, <2>5, <2>6, <2>14
      <3>2. \A i \in DOMAIN new : new[i][1] = x => new[i][2] = edits[i][2]
        BY <1>6, <2>3, <2>5, <2>6, <2>14
      <3>3. SameEntries(new, edits, x)
        BY ONLY <3>1, <3>2 DEF SameEntries
      <3> QED BY ONLY <2>3, <3>3, ValueSame
    <2>15. new # <<>>
      <3>1. new = <<>> => DOMAIN new = {}
        OBVIOUS
      <3> QED BY <2>12, <3>1
    <2> QED BY <1>3, <2>11, <2>13, <2>14, <2>15 DEF IsEdited
  <1> QED BY <1>4, <1>5

-----------------------------------------------------------------------------
\* Resolution.

\* The first layer that has a value gives it.
FirstOf(a, b, c, d, e) ==
    CASE a # None -> a
      [] a = None /\ b # None -> b
      [] a = None /\ b = None /\ c # None -> c
      [] a = None /\ b = None /\ c = None /\ d # None -> d
      [] OTHER -> e

LEMMA FirstLayer ==
  ASSUME NEW a, NEW b, NEW c, NEW d, NEW e, NEW id, NEW layers, NEW giving,
         layers = <<a, b, c, d, e>>, Value(e, id) # None,
         giving = {i \in DOMAIN layers : Value(layers[i], id) # None}
  PROVE  Value(layers[CHOOSE i \in giving : \A j \in giving : i <= j], id) =
           FirstOf(Value(a, id), Value(b, id), Value(c, id), Value(d, id), Value(e, id))
  <1>1. /\ DOMAIN layers = 1..5 /\ layers[1] = a /\ layers[2] = b /\ layers[3] = c
        /\ layers[4] = d /\ layers[5] = e
    OBVIOUS
  <1>2. /\ giving \subseteq 1..5 /\ 5 \in giving
        /\ 1 \in giving <=> Value(a, id) # None
        /\ 2 \in giving <=> Value(b, id) # None
        /\ 3 \in giving <=> Value(c, id) # None
        /\ 4 \in giving <=> Value(d, id) # None
    BY <1>1
  <1>3. PICK k : k = CHOOSE i \in giving : \A j \in giving : i <= j
    OBVIOUS
  <1>4. giving \in SUBSET Nat /\ giving # {}
    BY <1>2
  <1>5. \E i \in giving : \A j \in giving : i <= j
    BY ONLY <1>4, LeastNatural
  <1>6. k \in giving /\ \A j \in giving : k <= j
    BY <1>3, <1>5
  <1>7. k \in 1..5
    BY <1>2, <1>6
  <1>8. CASE Value(a, id) # None
    <2>1. k = 1
      BY <1>2, <1>6, <1>7, <1>8
    <2> QED BY <1>1, <1>3, <1>8, <2>1 DEF FirstOf
  <1>9. CASE Value(a, id) = None /\ Value(b, id) # None
    <2>1. k = 2
      BY <1>2, <1>6, <1>7, <1>9
    <2> QED BY <1>1, <1>3, <1>9, <2>1 DEF FirstOf
  <1>10. CASE Value(a, id) = None /\ Value(b, id) = None /\ Value(c, id) # None
    <2>1. k = 3
      BY <1>2, <1>6, <1>7, <1>10
    <2> QED BY <1>1, <1>3, <1>10, <2>1 DEF FirstOf
  <1>11. CASE Value(a, id) = None /\ Value(b, id) = None /\ Value(c, id) = None /\ Value(d, id) # None
    <2>1. k = 4
      BY <1>2, <1>6, <1>7, <1>11
    <2> QED BY <1>1, <1>3, <1>11, <2>1 DEF FirstOf
  <1>12. CASE Value(a, id) = None /\ Value(b, id) = None /\ Value(c, id) = None /\ Value(d, id) = None
    <2>1. k = 5
      BY <1>2, <1>6, <1>7, <1>12
    <2> QED BY <1>1, <1>3, <1>12, <2>1 DEF FirstOf
  <1> QED BY <1>8, <1>9, <1>10, <1>11, <1>12

\* The values of an option in the layers of a project, below the edits.
Below(proj, user, id) ==
    FirstOf(Value(user, id), Value(proj.profile.values, id), Value(TargetValues(proj), id),
            Value(Base(proj).values, id), Value(proj.schema.defaults, id))

LEMMA ResolvedIs ==
  ASSUME NEW proj, NEW user, proj.schema \in Schemas
  PROVE  Resolved(proj, user) = [id \in Ids(proj.schema) |-> Below(proj, user, id)]
  <1>1. PICK a, b, c, d, e, layers :
            /\ a = user /\ b = proj.profile.values /\ c = TargetValues(proj)
            /\ d = Base(proj).values /\ e = proj.schema.defaults
            /\ layers = <<a, b, c, d, e>>
    OBVIOUS
  <1> DEFINE Giving(id) == {i \in DOMAIN layers : Value(layers[i], id) # None}
             At(id) == Value(layers[CHOOSE i \in Giving(id) : \A j \in Giving(id) : i <= j], id)
  <1>2. Resolved(proj, user) = [id \in Ids(proj.schema) |-> At(id)]
    BY <1>1 DEF Resolved
  <1>3. ASSUME NEW id \in Ids(proj.schema) PROVE At(id) = Below(proj, user, id)
    <2>1. Value(e, id) # None
      BY <1>1, SchemasAssumption DEF Ids
    <2>2. PICK giving : giving = Giving(id)
      OBVIOUS
    <2>3. giving = {i \in DOMAIN layers : Value(layers[i], id) # None}
      BY <2>2
    <2>4. layers = <<a, b, c, d, e>>
      BY <1>1
    <2>5. Value(layers[CHOOSE i \in giving : \A j \in giving : i <= j], id) =
            FirstOf(Value(a, id), Value(b, id), Value(c, id), Value(d, id), Value(e, id))
      BY ONLY <2>1, <2>3, <2>4, FirstLayer
    <2> QED BY <1>1, <2>2, <2>5 DEF Below
  <1> HIDE DEF At
  <1> QED BY <1>2, <1>3

\* An edit changes the value of its option only.
LEMMA EditedConfig ==
  ASSUME NEW id, NEW value, project.schema \in Schemas, IsEditList(edits, project.schema),
         config = Resolved(project, edits), id \in Ids(project.schema), value # None
  PROVE  Resolved(project, SetEdit(id, value)) = [config EXCEPT ![id] = value]
  <1>1. PICK new, old : new = SetEdit(id, value) /\ old = edits
    OBVIOUS
  <1>2. Value(new, id) = value /\ \A x : x # id => Value(new, x) = Value(old, x)
    <2>1. IsEdited(SetEdit(id, value), edits, id, value, project.schema)
      BY SetEditFacts
    <2> QED BY <1>1, <2>1 DEF IsEdited
  <1>3. Resolved(project, new) = [x \in Ids(project.schema) |-> Below(project, new, x)]
    BY ResolvedIs
  <1>4. config = [x \in Ids(project.schema) |-> Below(project, old, x)]
    BY <1>1, ResolvedIs
  <1>5. Below(project, new, id) = value
    BY <1>2 DEF Below, FirstOf
  <1>6. \A x : x # id => Below(project, new, x) = Below(project, old, x)
    BY <1>2 DEF Below
  <1> QED BY <1>1, <1>3, <1>4, <1>5, <1>6

\* An edit that candidate_block_reason lets through resolves.
LEMMA EditResolves ==
  ASSUME NEW id, NEW value, project.schema \in Schemas, IsEditList(edits, project.schema),
         EditsResolve, id \in Ids(project.schema), value # None, ~CandidateBlocked(id, value)
  PROVE  Resolves(project, SetEdit(id, value))
  <1>1. PICK values, deps : values = [config EXCEPT ![id] = value] /\ deps = project.schema.deps
    OBVIOUS
  <1>2. Resolved(project, SetEdit(id, value)) = values
    BY <1>1, EditedConfig DEF EditsResolve
  <1>3. /\ project.profile # Absent
        /\ \A d \in deps : Active(config[d.from]) =>
              /\ d.kind = "requires" => Active(config[d.to])
              /\ d.kind = "conflicts" => ~Active(config[d.to])
    BY <1>1 DEF EditsResolve, Resolves
  <1>4. \A d \in deps : d.from # d.to /\ d.from \in Ids(project.schema) /\ d.to \in Ids(project.schema)
    BY <1>1, SchemasAssumption
  <1>5. DOMAIN config = Ids(project.schema)
    <2>1. config = [x \in Ids(project.schema) |-> Below(project, edits, x)]
      BY ResolvedIs DEF EditsResolve
    <2> QED BY <2>1
  <1>6. values[id] = value /\ \A x \in Ids(project.schema) : x # id => values[x] = config[x]
    BY <1>1, <1>5
  <1>7. /\ Active(value) => /\ ~Outgoing(id, "requires", FALSE)
                            /\ ~Outgoing(id, "conflicts", TRUE)
                            /\ ~Incoming(id, "conflicts")
        /\ ~Active(value) => ~Incoming(id, "requires")
    BY DEF CandidateBlocked
  <1>8. \A x : Active(x) \in BOOLEAN
    BY DEF Active
  <1>9. ASSUME NEW d \in deps, Active(values[d.from])
        PROVE  /\ d.kind = "requires" => Active(values[d.to])
               /\ d.kind = "conflicts" => ~Active(values[d.to])
    <2>1. CASE d.from = id
      <3>1. values[d.from] = value /\ values[d.to] = config[d.to]
        BY <1>4, <1>6, <2>1
      <3>2. d.kind = "requires" => Active(config[d.to])
        BY <1>1, <1>7, <1>8, <1>9, <2>1, <3>1 DEF Outgoing
      <3>3. d.kind = "conflicts" => ~Active(config[d.to])
        BY <1>1, <1>7, <1>8, <1>9, <2>1, <3>1 DEF Outgoing
      <3> QED BY <3>1, <3>2, <3>3
    <2>2. CASE d.from # id /\ d.to = id
      <3>1. values[d.from] = config[d.from] /\ values[d.to] = value
        BY <1>4, <1>6, <2>2
      <3>2. d.kind = "requires" => Active(value)
        BY <1>1, <1>7, <1>9, <2>2, <3>1 DEF Incoming
      <3>3. d.kind = "conflicts" => ~Active(value)
        BY <1>1, <1>7, <1>9, <2>2, <3>1 DEF Incoming
      <3> QED BY <3>1, <3>2, <3>3
    <2>3. CASE d.from # id /\ d.to # id
      <3>1. values[d.from] = config[d.from] /\ values[d.to] = config[d.to]
        BY <1>4, <1>6, <2>3
      <3> QED BY <1>3, <1>9, <3>1
    <2> QED BY <2>1, <2>2, <2>3
  <1> QED BY <1>1, <1>2, <1>3, <1>9 DEF Resolves

-----------------------------------------------------------------------------
\* The inductive invariant.

\* The files of the project are files, whoever writes them.
IsDisk(d) ==
    /\ DOMAIN d = Paths \cup {"base", "schema", "layout"}
    /\ d.schema \in Schemas
    /\ \A x \in Paths \cup {"base"} : IsFile(d[x])

FilesAreTyped == IsDisk(disk) /\ changes \in Nat

\* What the loader made sure of still holds of the project in memory.
IsLoadedFile(f, proj) ==
    /\ IsFile(f) /\ f.k = "file"
    /\ \A i \in DOMAIN f.values : f.values[i][1] \in Ids(proj.schema)
    /\ f.base # None => proj.base # Absent

IsLoaded(proj) ==
    /\ proj.schema \in Schemas
    /\ IsLoadedFile(proj.profile, proj)
    /\ proj.base # Absent => IsLoadedFile(proj.base, proj)

ScreenIsTyped ==
    /\ selected \in Nat
    /\ view \in Seq(ToSet(Rows[project.schema]))

\* While no one else writes, the files differ from the project in memory only
\* by the profile, and between the two steps of a save not even by that.
DiskFollows ==
    changes = 0 =>
        /\ disk.schema = project.schema /\ disk.base = project.base
        /\ OwnFile => disk["config/other"] = Absent
        /\ pc = "reload" => disk[ProfilePath] = SavedProfile

ModelInvariant ==
    /\ FilesAreTyped
    /\ IsLoaded(project)
    /\ IsEditList(edits, project.schema)
    /\ EditsResolve
    /\ UnsavedIsDirty
    /\ DiskFollows

Screen == ScreenIsTyped /\ ViewIsCurrent

EditorInvariant == ModelInvariant /\ Screen

-----------------------------------------------------------------------------
\* What is written.

\* Two lists of which the second has nothing for an option.
LEMMA ValueFirst ==
  ASSUME NEW S, NEW a, NEW b, NEW id, a \in Seq(S), b \in Seq(S),
         \A i \in DOMAIN b : b[i][1] # id
  PROVE  Value(a \o b, id) = Value(a, id)
  <1>1. PICK m, n, r : m = Len(a) /\ n = Len(b) /\ r = a \o b
    OBVIOUS
  <1>2. /\ m \in Nat /\ n \in Nat /\ r \in Seq(S)
        /\ DOMAIN a = 1..m /\ DOMAIN b = 1..n /\ DOMAIN r = 1..(m + n)
    BY <1>1
  <1>3. /\ \A i \in 1..m : r[i] = a[i]
        /\ \A i \in 1..(m + n) : i \notin 1..m => i - m \in 1..n /\ r[i] = b[i - m]
    BY <1>1, <1>2
  <1>4. {i \in DOMAIN r : r[i][1] = id} = {i \in DOMAIN a : a[i][1] = id}
    <2>1. \A i \in 1..(m + n) : r[i][1] = id => i \in 1..m /\ a[i][1] = id
      BY <1>2, <1>3
    <2>2. \A i \in 1..m : i \in 1..(m + n)
      BY <1>2
    <2> QED BY <1>2, <1>3, <2>1, <2>2
  <1>5. \A i \in DOMAIN r : r[i][1] = id => r[i][2] = a[i][2]
    BY <1>2, <1>3
  <1>6. r \in Seq(S)
    BY <1>2
  <1>7. Value(r, id) = Value(a, id)
    <2>1. SameEntries(r, a, id)
      BY ONLY <1>4, <1>5 DEF SameEntries
    <2> QED BY ONLY <1>6, <2>1, ValueSame
  <1> QED BY <1>1, <1>7

\* The entry build_profile_toml writes for an entry of the profile.
KeptEntry(e, list) == IF Value(list, e[1]) = None THEN e ELSE <<e[1], Value(list, e[1])>>

\* The values it writes: those kept, then the edits of other options.
Written(old, list) ==
    [i \in DOMAIN old |-> KeptEntry(old[i], list)]
        \o Picked(list, {i \in DOMAIN list : Value(old, list[i][1]) = None})

\* An edit list gives an option the value of any of its entries.
LEMMA EditValue ==
  ASSUME NEW list, NEW schema, IsEditList(list, schema), NEW i \in DOMAIN list
  PROVE  Value(list, list[i][1]) = list[i][2] /\ list[i][2] # None
  <1>1. PICK id, v : id = list[i][1] /\ v = list[i][2]
    OBVIOUS
  <1>2. Agreed(list, id, v)
    BY <1>1 DEF Agreed, IsEditList
  <1>3. PICK S : S = ToSet(list) /\ list \in Seq(S)
    BY DEF IsEditList
  <1>4. Value(list, id) = v
    BY ONLY <1>2, <1>3, ValueAgreed
  <1> QED BY <1>1, <1>4 DEF IsEditList

\* What it writes has the value of the edit for an option that is edited, and
\* the value of the profile for any other, also if an option is listed twice.
LEMMA WrittenFacts ==
  ASSUME NEW old, NEW list, NEW schema, old \in Seq(ToSet(old)),
         \A i \in DOMAIN old : old[i][1] \in Ids(schema) /\ old[i][2] # None,
         IsEditList(list, schema)
  PROVE  /\ Written(old, list) \in Seq(ToSet(Written(old, list)))
         /\ \A e \in ToSet(Written(old, list)) : e[1] \in Ids(schema) /\ e[2] # None
         /\ \A id : Value(Written(old, list), id) =
                IF Value(list, id) # None THEN Value(list, id) ELSE Value(old, id)
  <1>1. PICK kept, places, more :
            /\ kept = [i \in DOMAIN old |-> KeptEntry(old[i], list)]
            /\ places = {i \in DOMAIN list : Value(old, list[i][1]) = None}
            /\ more = Picked(list, places)
    OBVIOUS
  <1>2. Written(old, list) = kept \o more
    BY <1>1 DEF Written
  <1>3. PICK m : m = Len(old) /\ m \in Nat /\ DOMAIN old = 1..m
    OBVIOUS
  <1>4. PICK S : S = {kept[i] : i \in 1..m} \cup ToSet(list)
    OBVIOUS
  <1>5. kept \in Seq(S) /\ DOMAIN kept = 1..m
    <2>1. kept \in [1..m -> S]
      BY <1>1, <1>3, <1>4
    <2> QED BY <1>3, <2>1
  <1>6. list \in Seq(S)
    BY <1>4 DEF IsEditList
  <1>7. more \in Seq(S) /\ ToSet(more) = {list[i] : i \in DOMAIN list \cap places}
    BY ONLY <1>1, <1>6, PickedFacts
  <1>8. \A i \in 1..m : /\ kept[i][1] = old[i][1]
                        /\ kept[i][2] = IF Value(list, old[i][1]) = None THEN old[i][2]
                                        ELSE Value(list, old[i][1])
    <2>1. \A e : KeptEntry(e, list)[1] = e[1] /\
                 KeptEntry(e, list)[2] = IF Value(list, e[1]) = None THEN e[2] ELSE Value(list, e[1])
      BY DEF KeptEntry
    <2> QED BY <1>1, <1>3, <2>1
  <1>9. \A i \in DOMAIN list : Value(list, list[i][1]) = list[i][2] /\ list[i][2] # None
    BY EditValue
  <1>10. \A e \in ToSet(more) : /\ \E i \in DOMAIN list : e = list[i]
                                /\ Value(old, e[1]) = None
    BY <1>1, <1>7
  <1>11. PICK w : w = kept \o more
    OBVIOUS
  <1>12. w \in Seq(S) /\ ToSet(w) = ToSet(kept) \cup ToSet(more)
    BY ONLY <1>5, <1>7, <1>11, ToSetConcat
  <1>13. w \in Seq(ToSet(w))
    BY ONLY <1>12, SeqOfEntries
  <1>14. \A e \in ToSet(w) : e[1] \in Ids(schema) /\ e[2] # None
    <2>1. \A i \in 1..m : kept[i][1] \in Ids(schema) /\ kept[i][2] # None
      BY <1>3, <1>8
    <2>2. \A e \in ToSet(kept) : e[1] \in Ids(schema) /\ e[2] # None
      BY <1>5, <2>1 DEF ToSet
    <2>3. \A e \in ToSet(more) : e[1] \in Ids(schema) /\ e[2] # None
      BY <1>10 DEF IsEditList
    <2> QED BY <1>12, <2>2, <2>3
  <1>15. ASSUME NEW id, Value(list, id) # None PROVE Value(w, id) = Value(list, id)
    <2>1. PICK v : v = Value(list, id)
      OBVIOUS
    <2>2. PICK k \in DOMAIN list : list[k][1] = id
      BY <1>6, <1>15, ValueFound
    <2>3. ASSUME NEW e \in ToSet(w), e[1] = id PROVE e[2] = v
      <3>1. CASE e \in ToSet(kept)
        BY <1>3, <1>5, <1>8, <1>15, <2>1, <2>3, <3>1 DEF ToSet
      <3>2. CASE e \in ToSet(more)
        BY <1>9, <1>10, <2>1, <2>3, <3>2
      <3> QED BY <1>12, <3>1, <3>2
    <2>4. \E e \in ToSet(w) : e[1] = id
      <3>1. CASE Value(old, id) = None
        <4>1. k \in DOMAIN list \cap places
          BY <1>1, <2>2, <3>1
        <4>2. list[k] \in ToSet(more)
          BY <1>7, <4>1
        <4> QED BY <1>12, <2>2, <4>2
      <3>2. CASE Value(old, id) # None
        <4>1. PICK i \in DOMAIN old : old[i][1] = id
          BY <3>2, ValueFound
        <4>2. kept[i] \in ToSet(kept) /\ kept[i][1] = id
          BY <1>3, <1>5, <1>8, <4>1 DEF ToSet
        <4> QED BY <1>12, <4>2
      <3> QED BY <3>1, <3>2
    <2>5. Agreed(w, id, v)
      BY <2>3, <2>4 DEF Agreed, ToSet
    <2>6. Value(w, id) = v
      BY ONLY <1>13, <2>5, ValueAgreed
    <2> QED BY <2>1, <2>6
  <1>16. ASSUME NEW id, Value(list, id) = None PROVE Value(w, id) = Value(old, id)
    <2>1. \A i \in DOMAIN more : more[i][1] # id
      <3>1. \A e \in ToSet(more) : e[1] # id
        BY <1>9, <1>10, <1>16
      <3> QED BY <3>1 DEF ToSet
    <2>2. Value(kept \o more, id) = Value(kept, id)
      BY ONLY <1>5, <1>7, <2>1, ValueFirst
    <2>3. {i \in DOMAIN kept : kept[i][1] = id} = {i \in DOMAIN old : old[i][1] = id}
      BY <1>3, <1>5, <1>8
    <2>4. \A i \in DOMAIN kept : kept[i][1] = id => kept[i][2] = old[i][2]
      BY <1>5, <1>8, <1>16
    <2>5. kept \in Seq(S)
      BY <1>5
    <2>6. Value(kept, id) = Value(old, id)
      <3>1. SameEntries(kept, old, id)
        BY ONLY <2>3, <2>4 DEF SameEntries
      <3> QED BY ONLY <2>5, <3>1, ValueSame
    <2> QED BY <1>11, <2>2, <2>6
  <1> QED BY <1>2, <1>11, <1>13, <1>14, <1>15, <1>16

\* The file of a save, as a file the loader accepts and as the layer it is.
IsSaved(f, proj, list) ==
    /\ IsLoadedFile(f, proj)
    /\ f.base = proj.profile.base
    /\ f.target = IF proj.profile.target # None THEN proj.profile.target ELSE Target
    /\ \A id : Value(f.values, id) =
            IF Value(list, id) # None THEN Value(list, id) ELSE Value(proj.profile.values, id)

LEMMA SavedProfileFacts ==
  ASSUME IsLoaded(project), IsEditList(edits, project.schema)
  PROVE  IsSaved(SavedProfile, project, edits)
  <1>1. PICK old, list, schema, w, t :
            /\ old = project.profile.values /\ list = edits /\ schema = project.schema
            /\ w = Written(old, list)
            /\ t = IF project.profile.target # None THEN project.profile.target ELSE Target
    OBVIOUS
  <1>2. SavedProfile = File(project.profile.base, t, w)
    BY <1>1 DEF SavedProfile, Written, KeptEntry
  <1>3. IsFile(project.profile) /\ project.profile.k = "file"
    BY DEF IsLoaded, IsLoadedFile
  <1>4. project.profile # Absent /\ project.profile # Torn
    BY <1>3 DEF Absent, Torn
  <1>5. old \in Seq(ToSet(old)) /\ \A i \in DOMAIN old : old[i][2] # None
    BY <1>1, <1>3, <1>4 DEF IsFile
  <1>6. \A i \in DOMAIN old : old[i][1] \in Ids(schema)
    BY <1>1 DEF IsLoaded, IsLoadedFile
  <1>7. \A i \in DOMAIN old : old[i][1] \in Ids(schema) /\ old[i][2] # None
    BY <1>5, <1>6
  <1>8. IsEditList(list, schema)
    BY <1>1
  <1>9. /\ w \in Seq(ToSet(w))
        /\ \A e \in ToSet(w) : e[1] \in Ids(schema) /\ e[2] # None
        /\ \A id : Value(w, id) = IF Value(list, id) # None THEN Value(list, id) ELSE Value(old, id)
    <2>2. old \in Seq(ToSet(old))
      BY <1>5
    <2> QED BY ONLY <1>1, <1>7, <1>8, <2>2, WrittenFacts
  <1>10. PICK f : f = SavedProfile
    OBVIOUS
  <1>11. f.k = "file" /\ f.base = project.profile.base /\ f.target = t /\ f.values = w
         /\ f = File(f.base, f.target, f.values)
    BY <1>2, <1>10 DEF File
  <1>12. \A i \in DOMAIN w : w[i] \in ToSet(w)
    BY DEF ToSet
  <1>13. IsFile(f)
    BY <1>9, <1>11, <1>12 DEF IsFile
  <1>14. f.base # None => project.base # Absent
    BY <1>11 DEF IsLoaded, IsLoadedFile
  <1>15. IsLoadedFile(f, project)
    BY <1>1, <1>9, <1>11, <1>12, <1>13, <1>14 DEF IsLoadedFile
  <1>16. \A id : Value(f.values, id) =
            IF Value(edits, id) # None THEN Value(edits, id) ELSE Value(project.profile.values, id)
    BY <1>1, <1>9, <1>11
  <1> QED BY <1>1, <1>10, <1>11, <1>15, <1>16 DEF IsSaved

\* A project with that file for its profile resolves, without edits, to what
\* the project in memory resolves to with them.
LEMMA SavedResolvesSame ==
  ASSUME NEW f, NEW new, IsLoaded(project), IsSaved(f, project, edits),
         new.schema = project.schema, new.base = project.base, new.profile = f
  PROVE  Resolved(new, <<>>) = Resolved(project, edits)
  <1>1. Base(new) = Base(project)
    BY DEF Base, IsSaved
  <1>2. TargetValues(new) = TargetValues(project)
    BY <1>1 DEF TargetValues, IsSaved
  <1>3. \A id : Value(<<>>, id) = None
    BY DEF Value
  <1>4. ASSUME NEW id PROVE Below(new, <<>>, id) = Below(project, edits, id)
    <2>1. PICK a, b, c, d, e :
              /\ a = Value(edits, id) /\ b = Value(project.profile.values, id)
              /\ c = Value(TargetValues(project), id) /\ d = Value(Base(project).values, id)
              /\ e = Value(project.schema.defaults, id)
      OBVIOUS
    <2>2. Value(new.profile.values, id) = IF a # None THEN a ELSE b
      BY <2>1 DEF IsSaved
    <2>3. Below(new, <<>>, id) = FirstOf(None, IF a # None THEN a ELSE b, c, d, e)
      BY <1>1, <1>2, <1>3, <2>1, <2>2 DEF Below
    <2>4. Below(project, edits, id) = FirstOf(a, b, c, d, e)
      BY <2>1 DEF Below
    <2>5. FirstOf(None, IF a # None THEN a ELSE b, c, d, e) = FirstOf(a, b, c, d, e)
      BY DEF FirstOf
    <2> QED BY <2>3, <2>4, <2>5
  <1>5. Resolved(new, <<>>) = [id \in Ids(project.schema) |-> Below(new, <<>>, id)]
    BY ResolvedIs DEF IsLoaded
  <1>6. Resolved(project, edits) = [id \in Ids(project.schema) |-> Below(project, edits, id)]
    BY ResolvedIs DEF IsLoaded
  <1> QED BY <1>4, <1>5, <1>6
-----------------------------------------------------------------------------
\* Loading.

\* What is loaded comes from the files.
LEMMA LoadedFrom ==
  ASSUME NEW d, IsDisk(d)
  PROVE  /\ Loaded(d).schema = d.schema /\ Loaded(d).base = d.base
         /\ Loaded(d).path = None <=> Found(d) = {}
         /\ Found(d) = {} => Loaded(d).profile = Absent
         /\ Found(d) # {} => /\ Loaded(d).path \in Found(d)
                             /\ Loaded(d).profile = d[Loaded(d).path]
  <1>1. Found(d) \subseteq Paths
    BY DEF Found, Directory, Paths
  <1>2. \A p \in Paths : p # None
    BY DEF Paths, None
  <1>3. PICK path : path = IF Found(d) = {} THEN None ELSE CHOOSE p \in Found(d) : TRUE
    OBVIOUS
  <1>4. Found(d) # {} => path \in Found(d)
    BY <1>3
  <1>5. Loaded(d) = [schema |-> d.schema, profile |-> IF path = None THEN Absent ELSE d[path],
                     base |-> d.base, path |-> path]
    BY <1>3 DEF Loaded
  <1>6. Found(d) = {} <=> path = None
    BY <1>1, <1>2, <1>3, <1>4
  <1> QED BY <1>4, <1>5, <1>6

\* A load that succeeds leaves a project the editor can work on.
LEMMA LoadedFacts ==
  ASSUME NEW d, IsDisk(d), Loads(d)
  PROVE  /\ Loaded(d).profile # Absent => IsLoaded(Loaded(d))
         /\ IsLoaded(EnsureProfile(Loaded(d)))
         /\ EnsureProfile(Loaded(d)).schema = d.schema
         /\ EnsureProfile(Loaded(d)).base = d.base
         /\ EnsureProfile(Loaded(d)).path = Loaded(d).path
  <1>1. PICK new : new = Loaded(d)
    OBVIOUS
  <1>2. /\ new.schema = d.schema /\ new.base = d.base
        /\ Found(d) = {} => new.profile = Absent
        /\ Found(d) # {} => new.path \in Found(d) /\ new.profile = d[new.path]
    BY <1>1, LoadedFrom
  <1>3. new.schema \in Schemas
    BY <1>2 DEF IsDisk
  <1>4. Found(d) \subseteq Paths
    BY DEF Found, Directory, Paths
  <1>5. ASSUME NEW f, f \in {d[path] : path \in Found(d)} \cup ({d.base} \ {Absent})
        PROVE  IsLoadedFile(f, new)
    <2>1. IsFile(f)
      BY <1>4, <1>5 DEF IsDisk
    <2>2. /\ f.k = "file" /\ \A i \in DOMAIN f.values : f.values[i][1] \in Ids(d.schema)
          /\ f.base # None => d.base # Absent
      BY <1>5 DEF Loads
    <2> QED BY <1>2, <2>1, <2>2 DEF IsLoadedFile
  <1>6. new.profile # Absent => IsLoadedFile(new.profile, new)
    BY <1>2, <1>5
  <1>7. new.base # Absent => IsLoadedFile(new.base, new)
    BY <1>2, <1>5
  <1>8. new.profile # Absent => IsLoaded(new)
    BY <1>3, <1>6, <1>7 DEF IsLoaded
  <1>9. CASE new.profile # Absent
    <2>1. EnsureProfile(new) = new
      BY <1>9 DEF EnsureProfile
    <2> QED BY <1>1, <1>2, <1>8, <1>9, <2>1
  <1>10. CASE new.profile = Absent
    <2>1. PICK f : f = File(None, Target, <<>>)
      OBVIOUS
    <2>2. PICK e : e = EnsureProfile(new)
      OBVIOUS
    <2>3. new = [schema |-> new.schema, profile |-> new.profile, base |-> new.base, path |-> new.path]
      BY <1>1 DEF Loaded
    <2>4. e.schema = new.schema /\ e.profile = f /\ e.base = new.base /\ e.path = new.path
      BY <1>10, <2>1, <2>2, <2>3 DEF EnsureProfile
    <2>5. f.k = "file" /\ f.values = <<>> /\ f.base = None /\ f = File(f.base, f.target, f.values)
      BY <2>1 DEF File
    <2>6. IsFile(f)
      BY <2>5 DEF IsFile
    <2>7. IsLoadedFile(f, e)
      BY <2>5, <2>6 DEF IsLoadedFile
    <2>8. e.base # Absent => IsLoadedFile(e.base, e)
      BY <1>7, <2>4 DEF IsLoadedFile
    <2>9. IsLoaded(e)
      BY <1>3, <2>4, <2>7, <2>8 DEF IsLoaded
    <2> QED BY <1>1, <1>2, <1>8, <1>10, <2>2, <2>4, <2>9
  <1> QED BY <1>9, <1>10

-----------------------------------------------------------------------------
\* The screen.

\* A view that was rebuilt is current, whatever the selection was.
LEMMA BuiltView ==
  ASSUME NEW schema \in Schemas, project'.schema = schema,
         menu' \in ToSet(Menus[schema]), flat' => menu' = Root,
         view' = ViewOf(schema, menu', flat', filters'),
         selected' \in Nat, selected' < Len(view') \/ (view' = <<>> /\ selected' = 0)
  PROVE  Screen'
  <1>1. view' \in Seq(ToSet(Rows[schema]))
    BY ViewFacts
  <1>2. ScreenIsTyped'
    BY <1>1 DEF ScreenIsTyped
  <1>3. ViewIsCurrent'
    BY DEF ViewIsCurrent
  <1> QED BY <1>2, <1>3 DEF Screen

LEMMA ClampFacts ==
  ASSUME NEW S, NEW rows, rows \in Seq(S), NEW index, index \in Nat
  PROVE  /\ Clamp(index, rows) \in Nat
         /\ Clamp(index, rows) < Len(rows) \/ (rows = <<>> /\ Clamp(index, rows) = 0)
  <1>1. Len(rows) \in Nat /\ (rows # <<>> => Len(rows) > 0)
    OBVIOUS
  <1> QED BY <1>1 DEF Clamp

LEMMA FirstOptionFacts ==
  ASSUME NEW S, NEW rows, rows \in Seq(S)
  PROVE  /\ FirstOption(rows) \in Nat
         /\ FirstOption(rows) < Len(rows) \/ (rows = <<>> /\ FirstOption(rows) = 0)
  <1>1. PICK n, at : n = Len(rows) /\ at = {i \in DOMAIN rows : rows[i].kind = "option"}
    OBVIOUS
  <1>2. n \in Nat /\ DOMAIN rows = 1..n /\ (rows # <<>> => n > 0) /\ at \subseteq 1..n
    BY <1>1
  <1>3. CASE at = {}
    BY <1>1, <1>2, <1>3 DEF FirstOption
  <1>4. CASE at # {}
    <2>1. at \in SUBSET Nat /\ at # {}
      BY <1>2, <1>4
    <2>2. \E i \in at : \A j \in at : i <= j
      BY ONLY <2>1, LeastNatural
    <2>3. PICK k : k = CHOOSE i \in at : \A j \in at : i <= j
      OBVIOUS
    <2>4. k \in at
      BY <2>2, <2>3
    <2>5. FirstOption(rows) = k - 1
      BY <1>1, <1>4, <2>3 DEF FirstOption
    <2> QED BY <1>1, <1>2, <2>4, <2>5
  <1> QED BY <1>3, <1>4

LEMMA RebuildViewKeeps ==
  ASSUME NEW schema \in Schemas, NEW current, NEW isFlat, NEW f, NEW index \in Nat,
         current \in ToSet(Menus[schema]), isFlat => current = Root,
         RebuildView(schema, current, isFlat, f, index), project'.schema = schema
  PROVE  Screen'
  <1>1. menu' = current /\ flat' = isFlat /\ filters' = f
    BY DEF RebuildView
  <1>2. view' = ViewOf(schema, menu', flat', filters')
    BY <1>1 DEF RebuildView
  <1>3. PICK rows, S : rows = view' /\ S = ToSet(Rows[schema])
    OBVIOUS
  <1>4. rows \in Seq(S)
    BY <1>2, <1>3, ViewFacts
  <1>5. selected' = Clamp(index, rows)
    BY <1>3 DEF RebuildView
  <1>6. /\ Clamp(index, rows) \in Nat
        /\ Clamp(index, rows) < Len(rows) \/ (rows = <<>> /\ Clamp(index, rows) = 0)
    BY ONLY <1>4, index \in Nat, ClampFacts
  <1> QED BY <1>1, <1>2, <1>3, <1>5, <1>6, BuiltView

LEMMA CommandRebuildKeeps ==
  ASSUME NEW current, NEW isFlat, NEW f, project.schema \in Schemas,
         current \in ToSet(Menus[project.schema]), isFlat => current = Root,
         CommandRebuild(current, isFlat, f), UNCHANGED project
  PROVE  Screen'
  <1>0. PICK schema : schema = project.schema
    OBVIOUS
  <1>1. menu' = current /\ flat' = isFlat /\ filters' = f
    BY DEF CommandRebuild
  <1>2. view' = ViewOf(schema, menu', flat', filters')
    BY <1>0, <1>1 DEF CommandRebuild
  <1>3. PICK rows, S : rows = view' /\ S = ToSet(Rows[schema])
    OBVIOUS
  <1>4. rows \in Seq(S)
    BY <1>0, <1>2, <1>3, ViewFacts
  <1>5. selected' = FirstOption(rows)
    BY <1>3 DEF CommandRebuild
  <1>6. /\ FirstOption(rows) \in Nat
        /\ FirstOption(rows) < Len(rows) \/ (rows = <<>> /\ FirstOption(rows) = 0)
    BY ONLY <1>4, FirstOptionFacts
  <1>7. schema \in Schemas /\ project'.schema = schema
    BY <1>0
  <1>8. menu' \in ToSet(Menus[schema]) /\ (flat' => menu' = Root)
    BY <1>0, <1>1
  <1> QED BY <1>2, <1>3, <1>5, <1>6, <1>7, <1>8, BuiltView

\* rebuild_menus finds a menu also in a schema that changed.
LEMMA RefreshRowsKeeps ==
  ASSUME NEW proj, proj.schema \in Schemas, Screen, RefreshRows(proj), project' = proj
  PROVE  Screen'
  <1>1. PICK schema, current : schema = proj.schema /\ current = KeptMenu(schema)
    OBVIOUS
  <1>2. schema \in Schemas /\ project'.schema = schema
    BY <1>1
  <1>3. Root \in ToSet(Menus[schema])
    BY <1>2, MenusFacts DEF IsMenuList
  <1>4. current \in ToSet(Menus[schema]) /\ (flat => current = Root)
    BY <1>1, <1>3 DEF KeptMenu, Screen, ViewIsCurrent
  <1>5. RebuildView(schema, current, flat, filters, selected)
    BY <1>1 DEF RefreshRows
  <1>6. selected \in Nat
    BY DEF Screen, ScreenIsTyped
  <1> QED BY <1>2, <1>4, <1>5, <1>6, RebuildViewKeeps

LEMMA SameScreen ==
  ASSUME Screen, UNCHANGED <<menu, flat, filters, view, selected, project>>, pc # "closed"
  PROVE  Screen'
  BY DEF Screen, ScreenIsTyped, ViewIsCurrent

\* The selected row is a row of the schema that is shown.
LEMMA SelectedRowFacts ==
  ASSUME IsLoaded(project), Screen, pc # "closed", SelectedRow.kind \in {"menu", "option"}
  PROVE  /\ IsRow(project.schema, SelectedRow)
         /\ Shown(project.schema, SelectedRow, menu, flat, filters)
  <1>1. PICK schema, S, n : schema = project.schema /\ S = ToSet(Rows[schema]) /\ n = Len(view)
    OBVIOUS
  <1>2. schema \in Schemas
    BY <1>1 DEF IsLoaded
  <1>3. view \in Seq(S) /\ selected \in Nat /\ n \in Nat /\ DOMAIN view = 1..n
    BY <1>1 DEF Screen, ScreenIsTyped
  <1>4. view = ViewOf(schema, menu, flat, filters)
    BY <1>1 DEF Screen, ViewIsCurrent
  <1>5. selected < n
    BY <1>1 DEF SelectedRow
  <1>6. SelectedRow = view[selected + 1] /\ selected + 1 \in DOMAIN view
    BY <1>1, <1>3, <1>5 DEF SelectedRow
  <1>7. SelectedRow \in ToSet(view)
    BY <1>6 DEF ToSet
  <1>8. ToSet(view) = {row \in S : Shown(schema, row, menu, flat, filters)}
    BY <1>1, <1>2, <1>4, ViewFacts
  <1>9. SelectedRow \in S /\ Shown(schema, SelectedRow, menu, flat, filters)
    BY <1>7, <1>8
  <1> QED BY <1>1, <1>2, <1>9, RowsFacts

LEMMA MoveKeepsScreen ==
  ASSUME Screen, Move
  PROVE  Screen'
  <1>1. PICK n, key : n = Len(view) /\ key \in Keys /\ selected' = Moved(key)
    BY DEF Move
  <1>2. n \in Nat /\ selected \in Nat /\ (view # <<>> => n > 0) /\ (view = <<>> => n = 0)
    BY <1>1 DEF Screen, ScreenIsTyped
  <1>3. selected < n \/ (view = <<>> /\ selected = 0)
    BY <1>1 DEF Screen, ViewIsCurrent
  <1>4. Moved(key) \in Nat /\ (Moved(key) < n \/ (view = <<>> /\ Moved(key) = 0))
    <2>1. PageStep \in Nat /\ PageStep > 0
      BY PageStepAssumption
    <2>2. CASE key = "down"
      BY <1>1, <1>2, <1>3, <2>2 DEF Moved
    <2>3. CASE key = "up"
      BY <1>1, <1>2, <1>3, <2>3 DEF Moved
    <2>4. CASE key = "page_down"
      BY <1>1, <1>2, <1>3, <2>1, <2>4 DEF Moved
    <2>5. CASE key = "page_up"
      BY <1>1, <1>2, <1>3, <2>1, <2>5 DEF Moved
    <2>6. CASE key = "home"
      BY <1>1, <1>2, <1>3, <2>6 DEF Moved
    <2>7. CASE key = "end"
      BY <1>1, <1>2, <1>3, <2>7 DEF Moved
    <2> QED BY <1>1, <2>2, <2>3, <2>4, <2>5, <2>6, <2>7 DEF Keys
  <1>5. UNCHANGED <<menu, flat, filters, view, project, pc>>
    BY DEF Move, Same, model
  <1> QED BY <1>1, <1>4, <1>5 DEF Screen, ScreenIsTyped, ViewIsCurrent

\* A menu that is entered exists, and none is entered in the flat view.
LEMMA EnterMenuKeepsScreen ==
  ASSUME IsLoaded(project), Screen, EnterMenu
  PROVE  Screen'
  <1>1. pc = "run" /\ SelectedRow.kind = "menu" /\ UNCHANGED project
    BY DEF EnterMenu, Same, model
  <1>2. /\ IsRow(project.schema, SelectedRow)
        /\ Shown(project.schema, SelectedRow, menu, flat, filters)
    BY <1>1, SelectedRowFacts
  <1>3. PICK schema, current : schema = project.schema /\ current = SelectedRow.menu
    OBVIOUS
  <1>4. current \in ToSet(Menus[schema])
    BY <1>1, <1>2, <1>3 DEF IsRow
  <1>5. ~flat
    BY <1>1, <1>2 DEF Shown
  <1>6. schema \in Schemas /\ project'.schema = schema
    BY <1>1, <1>3 DEF IsLoaded
  <1>7. RebuildView(schema, current, flat, filters, 0)
    BY <1>3 DEF EnterMenu
  <1> QED BY <1>4, <1>5, <1>6, <1>7, RebuildViewKeeps

\* The menu above a menu exists.
LEMMA GoParentMenuKeepsScreen ==
  ASSUME IsLoaded(project), Screen, GoParentMenu
  PROVE  Screen'
  <1>1. menu # Root /\ UNCHANGED project
    BY DEF GoParentMenu, Same, model
  <1>2. PICK schema, current : schema = project.schema /\ current = Front(menu)
    OBVIOUS
  <1>3. schema \in Schemas /\ project'.schema = schema
    BY <1>1, <1>2 DEF IsLoaded
  <1>4. menu \in ToSet(Menus[schema]) /\ ~flat
    BY <1>1, <1>2 DEF Screen, ViewIsCurrent
  <1>5. current \in ToSet(Menus[schema])
    BY <1>1, <1>2, <1>3, <1>4, MenusFacts DEF IsMenuList
  <1>6. RebuildView(schema, current, flat, filters, 0)
    BY <1>2 DEF GoParentMenu
  <1> QED BY <1>3, <1>4, <1>5, <1>6, RebuildViewKeeps

LEMMA FiltersKeepScreen ==
  ASSUME IsLoaded(project), Screen,
         SetView \/ SetFilter \/ CommandFilter \/ ClearFilters
  PROVE  Screen'
  <1>1. /\ menu \in ToSet(Menus[project.schema]) /\ (flat => menu = Root)
        /\ project.schema \in Schemas
    BY DEF Screen, ViewIsCurrent, IsLoaded
  <1>2. Root \in ToSet(Menus[project.schema])
    BY <1>1, MenusFacts DEF IsMenuList
  <1>3. UNCHANGED project
    BY DEF SetView, SetFilter, CommandFilter, ClearFilters, Same, model
  <1>4. CASE SetView
    <2>1. PICK isFlat \in BOOLEAN : CommandRebuild(Root, isFlat, filters)
      BY <1>4 DEF SetView
    <2> QED BY <1>1, <1>2, <1>3, <2>1, CommandRebuildKeeps
  <1>5. CASE SetFilter
    <2>1. PICK f : CommandRebuild(menu, flat, f)
      BY <1>5 DEF SetFilter
    <2> QED BY <1>1, <1>3, <2>1, CommandRebuildKeeps
  <1>6. CASE CommandFilter
    <2>1. PICK f : CommandRebuild(menu, flat, f)
      BY <1>6 DEF CommandFilter
    <2> QED BY <1>1, <1>3, <2>1, CommandRebuildKeeps
  <1>7. CASE ClearFilters
    <2>1. \/ RebuildView(project.schema, menu, flat, NoFilters, 0)
          \/ CommandRebuild(menu, flat, NoFilters)
      BY <1>7 DEF ClearFilters
    <2>2. CASE CommandRebuild(menu, flat, NoFilters)
      BY <1>1, <1>3, <2>2, CommandRebuildKeeps
    <2>3. CASE RebuildView(project.schema, menu, flat, NoFilters, 0)
      <3>1. PICK schema : schema = project.schema
        OBVIOUS
      <3>2. /\ schema \in Schemas /\ menu \in ToSet(Menus[schema]) /\ (flat => menu = Root)
            /\ RebuildView(schema, menu, flat, NoFilters, 0) /\ project'.schema = schema
        BY <1>1, <1>3, <2>3, <3>1
      <3> QED BY ONLY <3>2, RebuildViewKeeps
    <2> QED BY <2>1, <2>2, <2>3
  <1> QED BY <1>4, <1>5, <1>6, <1>7

-----------------------------------------------------------------------------
\* Search.

LEMMA SelectedIndexType ==
  ASSUME IsLoaded(project), Screen
  PROVE  SelectedIndex \in 0..Len(Rows[project.schema])
  <1>1. PICK rows, n : rows = Rows[project.schema] /\ n = Len(rows)
    OBVIOUS
  <1>2. rows \in Seq(ToSet(rows)) /\ n \in Nat /\ DOMAIN rows = 1..n
    <2>1. rows \in Seq(ToSet(rows))
      BY <1>1, RowsFacts DEF IsLoaded
    <2> QED BY <1>1, <2>1
  <1>3. CASE ~(selected < Len(view))
    BY <1>1, <1>2, <1>3 DEF SelectedIndex
  <1>4. CASE selected < Len(view)
    <2>1. view \in Seq(ToSet(rows)) /\ selected \in Nat
      BY <1>1 DEF Screen, ScreenIsTyped
    <2>2. view[selected + 1] \in ToSet(rows)
      BY <1>4, <2>1
    <2>3. \E i \in DOMAIN rows : rows[i] = view[selected + 1]
      BY <2>2 DEF ToSet
    <2>4. SelectedIndex = CHOOSE i \in DOMAIN rows : rows[i] = view[selected + 1]
      BY <1>1, <1>4 DEF SelectedIndex
    <2>5. SelectedIndex \in DOMAIN rows
      BY <2>3, <2>4
    <2> QED BY <1>1, <1>2, <2>5
  <1> QED BY <1>3, <1>4

LEMMA MinFacts ==
  ASSUME NEW n, n \in Nat, NEW S, S \subseteq 1..n, S # {}
  PROVE  Min(S) \in S /\ \A x \in S : Min(S) <= x
  <1>1. S \in SUBSET Nat /\ S # {}
    OBVIOUS
  <1>2. \E i \in S : \A j \in S : i <= j
    BY ONLY <1>1, LeastNatural
  <1>3. PICK k : k = Min(S)
    OBVIOUS
  <1>4. k = CHOOSE x \in S : \A y \in S : x <= y
    BY <1>3 DEF Min
  <1>5. k \in S /\ \A y \in S : k <= y
    BY <1>2, <1>4
  <1> QED BY <1>3, <1>5

LEMMA MaxFacts ==
  ASSUME NEW n, n \in Nat, NEW S, S \subseteq 1..n, S # {}
  PROVE  Max(S) \in S
  <1>1. S \in SUBSET (0..n) /\ S # {}
    OBVIOUS
  <1>2. \E i \in S : \A j \in S : j <= i
    BY ONLY <1>1, n \in Nat, GreatestNatural
  <1>3. \E i \in S : \A j \in S : i >= j
    BY <1>1, <1>2
  <1>4. PICK k : k = Max(S)
    OBVIOUS
  <1>5. k = CHOOSE x \in S : \A y \in S : x >= y
    BY <1>4 DEF Max
  <1>6. k \in S
    BY <1>3, <1>5
  <1> QED BY <1>4, <1>6

\* search_jump lands on a match; the next key on the one at the least distance.
LEMMA BestMatchFacts ==
  ASSUME IsLoaded(project), Screen, NEW text, Matching(text) # {}, NEW direction \in {1, -1}
  PROVE  /\ BestMatch(text, direction) \in Matching(text)
         /\ \A i \in Matching(text) :
              Distance(SelectedIndex, i) <= Distance(SelectedIndex, BestMatch(text, 1)) =>
                i = BestMatch(text, 1)
  <1>1. PICK at, s, n : /\ at = Matching(text) /\ s = SelectedIndex
                        /\ n = Len(Rows[project.schema])
    OBVIOUS
  <1>2. Rows[project.schema] \in Seq(ToSet(Rows[project.schema]))
    BY RowsFacts DEF IsLoaded
  <1>3. n \in Nat /\ DOMAIN Rows[project.schema] = 1..n
    BY <1>1, <1>2
  <1>4. s \in 0..n
    BY <1>1, SelectedIndexType
  <1>5. at \subseteq 1..n /\ at # {}
    BY <1>1, <1>3 DEF Matching
  <1>6. PICK up, down : /\ up = IF \E i \in at : i > s THEN {i \in at : i > s} ELSE at
                        /\ down = IF \E i \in at : i < s THEN {i \in at : i < s} ELSE at
    OBVIOUS
  <1>7. up \subseteq 1..n /\ up # {} /\ up \subseteq at
    BY <1>5, <1>6
  <1>8. down \subseteq 1..n /\ down # {} /\ down \subseteq at
    BY <1>5, <1>6
  <1>9. BestMatch(text, 1) = Min(up) /\ BestMatch(text, -1) = Max(down)
    BY <1>1, <1>6 DEF BestMatch
  <1>10. Min(up) \in up /\ \A x \in up : Min(up) <= x
    BY ONLY <1>3, <1>7, MinFacts
  <1>11. Max(down) \in down
    BY ONLY <1>3, <1>8, MaxFacts
  <1>12. BestMatch(text, direction) \in Matching(text)
    BY <1>1, <1>7, <1>8, <1>9, <1>10, <1>11
  <1>13. PICK best : best = BestMatch(text, 1) /\ best \in up /\ \A x \in up : best <= x
    BY <1>9, <1>10
  <1>14. \A i : Distance(s, i) = IF i > s THEN i - s ELSE i + n - s
    BY <1>1 DEF Distance
  <1>15. ASSUME NEW i \in at, Distance(s, i) <= Distance(s, best) PROVE i = best
    <2>1. i \in 1..n /\ best \in 1..n
      BY <1>5, <1>7, <1>13
    <2>2. CASE i > s
      <3>1. i \in up /\ best > s
        BY <1>6, <1>13, <2>2
      <3>2. best <= i
        BY <1>13, <3>1
      <3>3. i - s <= best - s
        BY <1>14, <1>15, <2>2, <3>1
      <3> QED BY <1>4, <2>1, <3>2, <3>3
    <2>3. CASE ~(i > s) /\ best > s
      <3>1. i + n - s <= best - s
        BY <1>14, <1>15, <2>3
      <3> QED BY <1>3, <1>4, <2>1, <3>1
    <2>4. CASE ~(i > s) /\ ~(best > s)
      <3>1. i + n - s <= best + n - s
        BY <1>14, <1>15, <2>4
      <3>2. i \in up
        BY <1>6, <1>13, <2>4
      <3>3. best <= i
        BY <1>13, <3>2
      <3> QED BY <1>3, <1>4, <2>1, <3>1, <3>3
    <2> QED BY <2>2, <2>3, <2>4
  <1> QED BY <1>1, <1>12, <1>13, <1>15

\* select_row_index leaves a current view, in the menu of the row, and selects
\* the row if it is there.
IsLanding(to, row) ==
    /\ to.menu \in ToSet(Menus[project.schema])
    /\ flat => to.menu = Root
    /\ to.view = ViewOf(project.schema, to.menu, flat, filters)
    /\ to.selected \in Nat
    /\ to.selected < Len(to.view) \/ (to.view = <<>> /\ to.selected = 0)
    /\ OptionVisible(Option(project.schema, row.id), filters) => to.view[to.selected + 1] = row

LEMMA SelectRowFacts ==
  ASSUME IsLoaded(project), Screen, NEW index \in DOMAIN Rows[project.schema],
         Rows[project.schema][index].kind = "option"
  PROVE  IsLanding(SelectRow(index), Rows[project.schema][index])
  <1>1. PICK schema, row, current, rows :
            /\ schema = project.schema /\ row = Rows[schema][index]
            /\ current = IF flat THEN menu ELSE row.menu
            /\ rows = ViewOf(schema, current, flat, filters)
    OBVIOUS
  <1>2. schema \in Schemas /\ selected \in Nat
    BY <1>1 DEF IsLoaded, Screen, ScreenIsTyped
  <1>3. row \in ToSet(Rows[schema]) /\ row.kind = "option"
    BY <1>1 DEF ToSet
  <1>4. IsRow(schema, row)
    BY <1>2, <1>3, RowsFacts
  <1>5. PICK o \in ToSet(schema.options) : row = OptionRow(o)
    BY <1>3, <1>4 DEF IsRow
  <1>6. row.menu = o.category
    BY <1>5 DEF OptionRow
  <1>7. row.menu \in ToSet(Menus[schema])
    BY <1>2, <1>6, MenusFacts
  <1>8. current \in ToSet(Menus[schema]) /\ (flat => current = Root)
    BY <1>1, <1>7 DEF Screen, ViewIsCurrent
  <1>9. PICK S : S = ToSet(Rows[schema])
    OBVIOUS
  <1>10. rows \in Seq(S) /\ ToSet(rows) = {r \in S : Shown(schema, r, current, flat, filters)}
    BY <1>1, <1>2, <1>9, ViewFacts
  <1>11. PICK to : to = SelectRow(index)
    OBVIOUS
  <1>12. /\ to.menu = current /\ to.view = rows
         /\ to.selected = IF row \in ToSet(rows)
                          THEN (CHOOSE i \in DOMAIN rows : rows[i] = row) - 1
                          ELSE Clamp(selected, rows)
    BY <1>1, <1>11 DEF SelectRow
  <1>13. CASE row \in ToSet(rows)
    <2>1. \E i \in DOMAIN rows : rows[i] = row
      BY <1>13 DEF ToSet
    <2>2. PICK k : k = CHOOSE i \in DOMAIN rows : rows[i] = row
      OBVIOUS
    <2>3. k \in DOMAIN rows /\ rows[k] = row
      BY <2>1, <2>2
    <2>4. to.selected = k - 1
      BY <1>12, <1>13, <2>2
    <2>5. k \in 1..Len(rows) /\ Len(rows) \in Nat
      BY <1>10, <2>3
    <2>6. to.selected \in Nat /\ to.selected < Len(rows) /\ to.selected + 1 = k
      BY <2>4, <2>5
    <2> QED BY <1>1, <1>8, <1>11, <1>12, <2>3, <2>6 DEF IsLanding
  <1>14. CASE row \notin ToSet(rows)
    <2>1. to.selected = Clamp(selected, rows)
      BY <1>12, <1>14
    <2>2. /\ Clamp(selected, rows) \in Nat
          /\ Clamp(selected, rows) < Len(rows) \/ (rows = <<>> /\ Clamp(selected, rows) = 0)
      BY <1>2, <1>10, ClampFacts
    <2>3. ~OptionVisible(Option(schema, row.id), filters)
      <3>1. ~Shown(schema, row, current, flat, filters)
        BY <1>3, <1>9, <1>10, <1>14
      <3>2. flat \/ row.menu = current
        BY <1>1
      <3> QED BY <1>3, <3>1, <3>2 DEF Shown
    <2> QED BY <1>1, <1>8, <1>11, <1>12, <2>1, <2>2, <2>3 DEF IsLanding
  <1> QED BY <1>13, <1>14

LEMMA SearchKeepsScreen ==
  ASSUME IsLoaded(project), Screen, NEW text, NEW direction \in {1, -1}, SearchJump(text, direction)
  PROVE  Screen'
  <1>1. PICK to : to = Landed(text, direction)
    OBVIOUS
  <1>2. /\ menu' = to.menu /\ view' = to.view /\ selected' = to.selected
        /\ flat' = flat /\ filters' = filters /\ project' = project /\ pc = "run" /\ pc' = pc
    BY <1>1 DEF SearchJump, model
  <1>3. CASE text # "" /\ Matching(text) # {}
    <2>1. PICK index : index = BestMatch(text, direction)
      OBVIOUS
    <2>2. index \in Matching(text)
      BY <1>3, <2>1, BestMatchFacts
    <2>3. index \in DOMAIN Rows[project.schema] /\ Rows[project.schema][index].kind = "option"
      BY <2>2 DEF Matching
    <2>4. to = SelectRow(index)
      BY <1>1, <1>3, <2>1 DEF Landed
    <2>5. IsLanding(to, Rows[project.schema][index])
      BY <2>3, <2>4, SelectRowFacts
    <2>6. PICK schema : schema = project.schema /\ schema \in Schemas /\ project'.schema = schema
      BY <1>2 DEF IsLoaded
    <2>7. /\ menu' \in ToSet(Menus[schema]) /\ (flat' => menu' = Root)
          /\ view' = ViewOf(schema, menu', flat', filters')
          /\ selected' \in Nat /\ (selected' < Len(view') \/ (view' = <<>> /\ selected' = 0))
      BY <1>2, <2>5, <2>6 DEF IsLanding
    <2> QED BY <2>6, <2>7, BuiltView
  <1>4. CASE ~(text # "" /\ Matching(text) # {})
    <2>1. to = [menu |-> menu, view |-> view, selected |-> selected]
      BY <1>1, <1>4 DEF Landed
    <2>2. UNCHANGED <<menu, flat, filters, view, selected, project>>
      BY <1>2, <2>1
    <2> QED BY <1>2, <2>2, SameScreen
  <1> QED BY <1>3, <1>4

\* The next key reaches the match that follows.
LEMMA NextReachesFollows ==
  ASSUME IsLoaded(project), Screen
  PROVE  NextReaches
  <1> SUFFICES ASSUME search # "", NEW i \in Matching(search),
                      \A j \in Matching(search) :
                          Distance(SelectedIndex, i) <= Distance(SelectedIndex, j),
                      OptionVisible(Option(project.schema, Rows[project.schema][i].id), filters)
               PROVE  Landed(search, 1).view[Landed(search, 1).selected + 1] = Rows[project.schema][i]
    BY DEF NextReaches
  <1>1. Matching(search) # {}
    OBVIOUS
  <1>2. PICK best : best = BestMatch(search, 1)
    OBVIOUS
  <1>3. /\ best \in Matching(search)
        /\ \A x \in Matching(search) :
             Distance(SelectedIndex, x) <= Distance(SelectedIndex, best) => x = best
    BY <1>1, <1>2, BestMatchFacts
  <1>4. i = best
    BY <1>3
  <1>5. Landed(search, 1) = SelectRow(i)
    BY <1>1, <1>2, <1>4 DEF Landed
  <1>6. i \in DOMAIN Rows[project.schema] /\ Rows[project.schema][i].kind = "option"
    BY DEF Matching
  <1>7. IsLanding(SelectRow(i), Rows[project.schema][i])
    BY <1>6, SelectRowFacts
  <1> QED BY <1>5, <1>7 DEF IsLanding

-----------------------------------------------------------------------------
\* Every step keeps the invariant.

LEMMA InitKeeps ==
  ASSUME Init
  PROVE  EditorInvariant
  <1>1. IsDisk(disk)
    BY DisksAssumption DEF Init, IsDisk
  <1>2. PICK new : new = Loaded(disk)
    OBVIOUS
  <1>3. project = EnsureProfile(new) /\ Loads(disk) /\ Resolves(project, <<>>)
    BY <1>2 DEF Init
  <1>4. /\ IsLoaded(project) /\ project.schema = disk.schema /\ project.base = disk.base
        /\ project.path = new.path
    BY <1>1, <1>2, <1>3, LoadedFacts
  <1>5. FilesAreTyped
    BY <1>1 DEF FilesAreTyped, Init
  <1>6. edits = <<>> /\ config = Resolved(project, <<>>)
    BY DEF Init
  <1>7. IsEditList(edits, project.schema)
    BY <1>6 DEF IsEditList
  <1>8. EditsResolve
    BY <1>3, <1>6 DEF EditsResolve
  <1>9. UnsavedIsDirty
    BY DEF Init, UnsavedIsDirty
  <1>10. OwnFile => disk["config/other"] = Absent
    <2> SUFFICES ASSUME OwnFile, disk["config/other"] # Absent PROVE FALSE
      OBVIOUS
    <2>1. Directory(disk) = {"config/p", "config/other"}
      BY DEF OwnFile, Directory
    <2>2. "config/other" \in Found(disk)
      BY <2>1 DEF Found
    <2>3. new.path \in Found(disk) /\ new.path # None
      BY <1>1, <1>2, <2>2, LoadedFrom
    <2>4. new.path = "config/p"
      BY <1>4, <2>3 DEF OwnFile, ProfilePath
    <2> QED BY <1>3, <2>2, <2>3, <2>4 DEF Loads
  <1>11. DiskFollows
    BY <1>4, <1>10 DEF DiskFollows, Init
  <1>12. PICK schema : schema = project.schema
    OBVIOUS
  <1>13. /\ schema \in Schemas /\ menu = Root /\ flat = FALSE /\ selected = 0
         /\ view = ViewOf(schema, menu, flat, filters)
    BY <1>4, <1>12 DEF Init, IsLoaded
  <1>14. Root \in ToSet(Menus[schema])
    BY <1>13, MenusFacts DEF IsMenuList
  <1>15. view \in Seq(ToSet(Rows[schema]))
    BY <1>13, ViewFacts
  <1>16. 0 < Len(view) \/ view = <<>>
    BY <1>15
  <1>17. Screen
    BY <1>12, <1>13, <1>14, <1>15, <1>16 DEF Screen, ScreenIsTyped, ViewIsCurrent
  <1> QED BY <1>4, <1>5, <1>7, <1>8, <1>9, <1>11, <1>17 DEF EditorInvariant, ModelInvariant

\* Others write files; the project in memory does not follow.
LEMMA ChangeKeeps ==
  ASSUME EditorInvariant, Change
  PROVE  EditorInvariant'
  <1>1. PICK c \in Changes : disk' = [disk EXCEPT ![c.path] = c.content]
    BY DEF Change
  <1>2. /\ UNCHANGED <<pc, project, edits, config, dirty, created, outcome>>
        /\ UNCHANGED <<menu, flat, filters, view, selected>>
        /\ changes' = changes + 1 /\ pc # "closed"
    BY DEF Change, model, screen
  <1>3. IsDisk(disk) /\ changes \in Nat
    BY DEF EditorInvariant, ModelInvariant, FilesAreTyped
  <1>4. DOMAIN disk' = DOMAIN disk /\ \A x \in DOMAIN disk : disk'[x] = IF x = c.path THEN c.content ELSE disk[x]
    BY <1>1
  <1>5. disk'["schema"] \in Schemas
    BY <1>3, <1>4, DisksAssumption DEF IsDisk
  <1>6. \A x \in Paths \cup {"base"} : IsFile(disk'[x])
    BY <1>3, <1>4, DisksAssumption DEF IsDisk
  <1>7. IsDisk(disk')
    BY <1>3, <1>4, <1>5, <1>6 DEF IsDisk
  <1>8. FilesAreTyped' /\ changes' # 0
    BY <1>2, <1>3, <1>7 DEF FilesAreTyped
  <1>9. DiskFollows'
    BY <1>8 DEF DiskFollows
  <1>10. Screen'
    BY <1>2, SameScreen DEF EditorInvariant
  <1>11. IsLoaded(project)' /\ IsEditList(edits, project.schema)' /\ EditsResolve' /\ UnsavedIsDirty'
    BY <1>2 DEF EditorInvariant, ModelInvariant, EditsResolve, UnsavedIsDirty
  <1> QED BY <1>8, <1>9, <1>10, <1>11 DEF EditorInvariant, ModelInvariant

\* A step that leaves files and model alone.
LEMMA SameModel ==
  ASSUME EditorInvariant, UNCHANGED <<files, model>>, pc = "run",
         pc' = "run" \/ (pc' = "closed" /\ (outcome' = "discarded" \/ ~dirty))
  PROVE  ModelInvariant'
  <1>1. UNCHANGED <<disk, changes, project, edits, config, dirty, created>>
    BY DEF files, model
  <1>2. FilesAreTyped' /\ IsLoaded(project)' /\ IsEditList(edits, project.schema)' /\ EditsResolve'
    BY <1>1 DEF EditorInvariant, ModelInvariant, FilesAreTyped, EditsResolve
  <1>3. DiskFollows'
    BY <1>1 DEF EditorInvariant, ModelInvariant, DiskFollows, OwnFile
  <1>4. UnsavedIsDirty'
    BY <1>1 DEF EditorInvariant, ModelInvariant, UnsavedIsDirty
  <1> QED BY <1>2, <1>3, <1>4 DEF ModelInvariant

\* An edit is refused, or resolves and shows.
LEMMA ApplyValueEditKeeps ==
  ASSUME EditorInvariant, NEW id, NEW value, id \in Ids(project.schema), value # None,
         ApplyValueEdit(id, value), pc = "run", UNCHANGED <<pc, files>>
  PROVE  EditorInvariant'
  <1>0. project.schema \in Schemas /\ IsEditList(edits, project.schema) /\ EditsResolve
    BY DEF EditorInvariant, ModelInvariant, IsLoaded
  <1>1. CASE CandidateBlocked(id, value)
    <2>1. UNCHANGED <<model, screen>>
      BY <1>1 DEF ApplyValueEdit
    <2>2. ModelInvariant'
      BY <2>1, SameModel
    <2>3. Screen'
      BY <2>1, SameScreen DEF EditorInvariant, model, screen
    <2> QED BY <2>2, <2>3 DEF EditorInvariant
  <1>2. CASE ~CandidateBlocked(id, value)
    <2>1. edits' = SetEdit(id, value) /\ UNCHANGED <<project, created>>
      BY <1>2 DEF ApplyValueEdit
    <2>2. Resolves(project, edits')
      BY <1>0, <1>2, <2>1, EditResolves
    <2>3. config' = Resolved(project, edits') /\ dirty' = TRUE /\ RefreshRows(project)
      BY <1>2, <2>2 DEF ApplyValueEdit
    <2>4. IsEdited(edits', edits, id, value, project.schema)
      BY <1>0, <2>1, SetEditFacts
    <2>5. IsEditList(edits, project.schema)'
      BY <2>1, <2>4 DEF IsEdited
    <2>6. EditsResolve'
      BY <2>1, <2>2, <2>3 DEF EditsResolve
    <2>7. UnsavedIsDirty'
      BY <2>3 DEF UnsavedIsDirty
    <2>8. FilesAreTyped' /\ DiskFollows'
      BY <2>1 DEF files, EditorInvariant, ModelInvariant, FilesAreTyped, DiskFollows, OwnFile
    <2>9. Screen'
      BY <1>0, <2>1, <2>3, RefreshRowsKeeps DEF EditorInvariant
    <2>10. IsLoaded(project)'
      BY <2>1 DEF EditorInvariant, ModelInvariant
    <2> QED BY <2>5, <2>6, <2>7, <2>8, <2>9, <2>10 DEF EditorInvariant, ModelInvariant
  <1> QED BY <1>1, <1>2

LEMMA EditKeeps ==
  ASSUME EditorInvariant, Edit
  PROVE  EditorInvariant'
  <1>1. PICK o : o = Option(project.schema, SelectedRow.id)
    OBVIOUS
  <1>2. pc = "run" /\ SelectedRow.kind = "option" /\ PromptEdit(o) /\ UNCHANGED <<pc, files>>
    BY <1>1 DEF Edit
  <1>3. IsRow(project.schema, SelectedRow)
    BY <1>2, SelectedRowFacts DEF EditorInvariant, ModelInvariant
  <1>4. \E x \in ToSet(project.schema.options) : x.id = SelectedRow.id
    BY <1>2, <1>3 DEF IsRow, OptionRow
  <1>5. o \in ToSet(project.schema.options)
    BY <1>1, <1>4 DEF Option
  <1>6. o.id \in Ids(project.schema) /\ (o.type = "enum" => None \notin o.values)
    BY <1>5, SchemasAssumption DEF Ids, EditorInvariant, ModelInvariant, IsLoaded
  <1>7. PICK value : value # None /\ ApplyValueEdit(o.id, value)
    <2>1. CASE o.type = "bool" /\ ToggleBool(o)
      <3>1. "0" # None /\ "1" # None
        BY DEF None
      <3> QED BY <2>1, <3>1 DEF ToggleBool
    <2>2. CASE o.type = "enum" /\ PromptEnum(o)
      BY <1>6, <2>2 DEF PromptEnum
    <2>3. CASE o.type = "int" /\ PromptTypedValue(o)
      BY <2>3 DEF PromptTypedValue
    <2> QED BY <1>2, <2>1, <2>2, <2>3 DEF PromptEdit
  <1>8. PICK id : id = o.id
    OBVIOUS
  <1>9. id \in Ids(project.schema) /\ ApplyValueEdit(id, value)
    BY <1>6, <1>7, <1>8
  <1> QED BY <1>2, <1>7, <1>9, ApplyValueEditKeeps

\* A save up to the write: done, refused by the user, or cut off.
LEMMA SaveProfileKeeps ==
  ASSUME EditorInvariant, NEW quit, SaveProfile(quit), pc = "run"
  PROVE  EditorInvariant'
  <1>1. /\ IsLoaded(project) /\ IsEditList(edits, project.schema) /\ EditsResolve
        /\ IsDisk(disk) /\ changes \in Nat /\ UnsavedIsDirty /\ DiskFollows /\ Screen
    BY DEF EditorInvariant, ModelInvariant, FilesAreTyped
  <1>2. Resolves(project, edits) /\ config = Resolved(project, edits)
    BY <1>1 DEF EditsResolve
  <1>3. UNCHANGED <<changes, project, edits, dirty, created>>
    BY DEF SaveProfile
  <1>4. config' = Resolved(project, edits) /\ RefreshRows(project)
    BY <1>2 DEF SaveProfile
  <1>5. PICK content :
            /\ content \in {SavedProfile, Torn, disk[ProfilePath]}
            /\ \/ disk' = disk /\ content = disk[ProfilePath]
               \/ disk' = [disk EXCEPT ![ProfilePath] = content]
            /\ \/ pc' = "reload" /\ content = SavedProfile
               \/ pc' = "run"
    <2>1. \/ disk' = [disk EXCEPT ![ProfilePath] = SavedProfile] /\ pc' = "reload"
          \/ pc' = "run" /\ (disk' = disk \/ disk' = [disk EXCEPT ![ProfilePath] = Torn])
      BY <1>2 DEF SaveProfile
    <2> QED BY <2>1
  <1>6. ProfilePath \in Paths
    BY DEF ProfilePath, Paths
  <1>7. IsSaved(SavedProfile, project, edits)
    BY <1>1, SavedProfileFacts
  <1>8. IsFile(content)
    BY <1>1, <1>5, <1>6, <1>7 DEF IsSaved, IsLoadedFile, IsDisk, IsFile
  <1>9. /\ DOMAIN disk' = DOMAIN disk /\ disk'[ProfilePath] = content
        /\ \A x \in DOMAIN disk : x # ProfilePath => disk'[x] = disk[x]
    BY <1>1, <1>5, <1>6 DEF IsDisk
  <1>10. disk'.schema = disk.schema /\ disk'.base = disk.base /\ disk'.layout = disk.layout
         /\ disk'["config/other"] = disk["config/other"]
    BY <1>1, <1>9 DEF IsDisk, Paths, ProfilePath
  <1>11. \A x \in Paths \cup {"base"} : IsFile(disk'[x])
    BY <1>1, <1>8, <1>9 DEF IsDisk
  <1>12. FilesAreTyped'
    BY <1>1, <1>3, <1>9, <1>10, <1>11 DEF IsDisk, FilesAreTyped
  <1>13. SavedProfile' = SavedProfile
    BY <1>3 DEF SavedProfile
  <1>14. DiskFollows'
    BY <1>1, <1>3, <1>5, <1>9, <1>10, <1>13 DEF DiskFollows, OwnFile, ProfilePath
  <1>15. UnsavedIsDirty'
    BY <1>1, <1>3, <1>5 DEF UnsavedIsDirty
  <1>16. EditsResolve'
    BY <1>2, <1>3, <1>4 DEF EditsResolve
  <1>17. Screen'
    BY <1>1, <1>3, <1>4, RefreshRowsKeeps DEF IsLoaded
  <1>18. IsLoaded(project)' /\ IsEditList(edits, project.schema)'
    BY <1>1, <1>3
  <1> QED BY <1>12, <1>14, <1>15, <1>16, <1>17, <1>18 DEF EditorInvariant, ModelInvariant

\* The load after the write takes the file over, or leaves all as it was.
LEMMA ReloadKeeps ==
  ASSUME EditorInvariant, Reload
  PROVE  EditorInvariant'
  <1>1. /\ IsLoaded(project) /\ IsEditList(edits, project.schema) /\ EditsResolve
        /\ IsDisk(disk) /\ changes \in Nat /\ UnsavedIsDirty /\ DiskFollows /\ Screen
    BY DEF EditorInvariant, ModelInvariant, FilesAreTyped
  <1>2. /\ pc = "reload" /\ UNCHANGED <<disk, changes>>
        /\ pc' = IF quitting /\ ~dirty' THEN "closed" ELSE "run"
    BY DEF Reload, files
  <1>3. CASE ~Reloads
    <2>1. UNCHANGED <<project, edits, config, dirty, created, menu, flat, filters, view, selected>>
      BY <1>3 DEF Reload, model
    <2>2. Screen'
      BY <1>1, <1>2, <2>1, SameScreen
    <2>3. FilesAreTyped' /\ IsLoaded(project)' /\ IsEditList(edits, project.schema)' /\ EditsResolve'
      BY <1>1, <1>2, <2>1 DEF FilesAreTyped, EditsResolve
    <2>4. DiskFollows'
      BY <1>1, <1>2, <2>1 DEF DiskFollows, OwnFile
    <2>5. UnsavedIsDirty'
      BY <1>1, <1>2, <2>1 DEF UnsavedIsDirty
    <2> QED BY <2>2, <2>3, <2>4, <2>5 DEF EditorInvariant, ModelInvariant
  <1>4. CASE Reloads
    <2>1. PICK new : new = Loaded(disk)
      OBVIOUS
    <2>2. /\ project' = new /\ edits' = <<>> /\ dirty' = FALSE /\ created' = FALSE
          /\ config' = Resolved(new, <<>>) /\ RefreshRows(new)
      BY <1>4, <2>1 DEF Reload
    <2>3. Loads(disk) /\ Resolves(new, <<>>)
      BY <1>4, <2>1 DEF Reloads
    <2>4. new.profile # Absent
      BY <2>3 DEF Resolves
    <2>5. IsLoaded(new)
      BY <1>1, <2>1, <2>3, <2>4, LoadedFacts
    <2>6. new.schema = disk.schema /\ new.base = disk.base
      BY <1>1, <2>1, LoadedFrom
    <2>7. OwnFile' => disk["config/other"] = Absent
      <3> SUFFICES ASSUME OwnFile', disk["config/other"] # Absent PROVE FALSE
        OBVIOUS
      <3>1. Directory(disk) = {"config/p", "config/other"}
        BY <1>2 DEF OwnFile, Directory
      <3>2. "config/other" \in Found(disk)
        BY <3>1 DEF Found
      <3>3. new.path \in Found(disk) /\ new.path # None
        BY <1>1, <2>1, <3>2, LoadedFrom
      <3>4. new.path = "config/p"
        BY <2>2, <3>3 DEF OwnFile, ProfilePath
      <3> QED BY <2>3, <3>2, <3>3, <3>4 DEF Loads
    <2>8. DiskFollows'
      BY <1>2, <2>2, <2>6, <2>7 DEF DiskFollows
    <2>9. FilesAreTyped' /\ IsLoaded(project)'
      BY <1>1, <1>2, <2>2, <2>5 DEF FilesAreTyped
    <2>10. IsEditList(edits, project.schema)'
      BY <2>2 DEF IsEditList
    <2>11. EditsResolve'
      BY <2>2, <2>3 DEF EditsResolve
    <2>12. UnsavedIsDirty'
      BY <2>2 DEF UnsavedIsDirty
    <2>13. Screen'
      BY <1>1, <2>2, <2>5, RefreshRowsKeeps DEF IsLoaded
    <2> QED BY <2>8, <2>9, <2>10, <2>11, <2>12, <2>13 DEF EditorInvariant, ModelInvariant
  <1> QED BY <1>3, <1>4

LEMMA QuitKeeps ==
  ASSUME EditorInvariant, Quit
  PROVE  EditorInvariant'
  <1>1. pc = "run"
    BY DEF Quit
  <1>2. ASSUME NEW how, Close(how), how = "discarded" \/ ~dirty PROVE EditorInvariant'
    <2>1. /\ UNCHANGED <<files, model>> /\ pc' = "closed" /\ outcome' = how
          /\ menu' = Root /\ flat' = FALSE /\ view' = <<>> /\ selected' = 0
      BY <1>2 DEF Close
    <2>2. ModelInvariant'
      BY <1>1, <1>2, <2>1, SameModel
    <2>3. project' = project /\ project.schema \in Schemas
      BY <2>1 DEF model, EditorInvariant, ModelInvariant, IsLoaded
    <2>4. Root \in ToSet(Menus[project.schema])
      BY <2>3, MenusFacts DEF IsMenuList
    <2>5. Screen'
      BY <2>1, <2>3, <2>4 DEF Screen, ScreenIsTyped, ViewIsCurrent
    <2> QED BY <2>2, <2>5 DEF EditorInvariant
  <1>3. CASE ~dirty /\ Close("quit")
    BY <1>2, <1>3
  <1>4. CASE dirty /\ Close("discarded")
    BY <1>2, <1>4
  <1>5. CASE UNCHANGED <<pc, files, model, quitting, screen>>
    <2>1. ModelInvariant'
      BY <1>1, <1>5, SameModel
    <2>2. Screen'
      BY <1>1, <1>5, SameScreen DEF EditorInvariant, model, screen
    <2> QED BY <2>1, <2>2 DEF EditorInvariant
  <1>6. CASE SaveProfile(TRUE)
    BY <1>1, <1>6, SaveProfileKeeps
  <1> QED BY <1>3, <1>4, <1>5, <1>6 DEF Quit

LEMMA StepKeeps ==
  ASSUME EditorInvariant, [Next]_vars
  PROVE  EditorInvariant'
  <1>0. IsLoaded(project) /\ Screen
    BY DEF EditorInvariant, ModelInvariant
  <1>1. CASE Change
    BY <1>1, ChangeKeeps
  <1>2. CASE Edit
    BY <1>2, EditKeeps
  <1>3. CASE Save
    BY <1>3, SaveProfileKeeps DEF Save
  <1>4. CASE Reload
    BY <1>4, ReloadKeeps
  <1>5. CASE Quit
    BY <1>5, QuitKeeps
  <1>6. ASSUME pc = "run", Same, Screen' PROVE EditorInvariant'
    <2>1. ModelInvariant'
      BY <1>6, SameModel DEF Same
    <2> QED BY <1>6, <2>1 DEF EditorInvariant
  <1>7. CASE Move
    BY <1>0, <1>6, <1>7, MoveKeepsScreen DEF Move
  <1>8. CASE EnterMenu
    BY <1>0, <1>6, <1>8, EnterMenuKeepsScreen DEF EnterMenu
  <1>9. CASE GoParentMenu
    BY <1>0, <1>6, <1>9, GoParentMenuKeepsScreen DEF GoParentMenu
  <1>10. CASE SetView \/ SetFilter \/ CommandFilter \/ ClearFilters
    <2>1. pc = "run" /\ Same
      BY <1>10 DEF SetView, SetFilter, CommandFilter, ClearFilters
    <2> QED BY <1>0, <1>6, <1>10, <2>1, FiltersKeepScreen
  <1>11. CASE SetSearch \/ SearchNext \/ SearchPrevious
    <2>1. PICK text : SearchJump(text, 1) \/ SearchJump(text, -1)
      BY <1>11 DEF SetSearch, SearchNext, SearchPrevious
    <2>2. pc = "run" /\ Same
      BY <2>1 DEF SearchJump, Same
    <2>3. Screen'
      BY <1>0, <2>1, SearchKeepsScreen
    <2> QED BY <1>6, <2>2, <2>3
  <1>12. CASE UNCHANGED vars
    <2>1. /\ UNCHANGED <<disk, changes, project, edits, config, dirty, created, pc, outcome>>
          /\ UNCHANGED <<menu, flat, filters, view, selected>>
      BY <1>12 DEF vars, files, model, screen
    <2>2. SavedProfile' = SavedProfile
      BY <2>1 DEF SavedProfile
    <2>3. FilesAreTyped' /\ IsLoaded(project)' /\ IsEditList(edits, project.schema)' /\ EditsResolve'
      BY <2>1 DEF EditorInvariant, ModelInvariant, FilesAreTyped, EditsResolve
    <2>4. UnsavedIsDirty' /\ DiskFollows'
      BY <2>1, <2>2 DEF EditorInvariant, ModelInvariant, UnsavedIsDirty, DiskFollows, OwnFile
    <2>5. Screen'
      BY <1>0, <2>1 DEF Screen, ScreenIsTyped, ViewIsCurrent
    <2> QED BY <2>3, <2>4, <2>5 DEF EditorInvariant, ModelInvariant
  <1> QED BY <1>1, <1>2, <1>3, <1>4, <1>5, <1>7, <1>8, <1>9, <1>10, <1>11, <1>12 DEF Next

\* With no one else writing, the load after a write takes over exactly what
\* the screen showed.
LEMMA ReloadTakesOver ==
  ASSUME EditorInvariant, Reload, changes = 0, OwnFile
  PROVE  outcome' = "saved" /\ config' = config /\ edits' = <<>>
  <1>1. /\ IsLoaded(project) /\ IsEditList(edits, project.schema)
        /\ Resolves(project, edits) /\ config = Resolved(project, edits)
        /\ IsDisk(disk)
    BY DEF EditorInvariant, ModelInvariant, FilesAreTyped, EditsResolve
  <1>2. /\ disk.schema = project.schema /\ disk.base = project.base
        /\ disk["config/other"] = Absent /\ disk["config/p"] = SavedProfile
    BY DEF EditorInvariant, ModelInvariant, DiskFollows, Reload, ProfilePath
  <1>3. PICK f, new : f = SavedProfile /\ new = Loaded(disk)
    OBVIOUS
  <1>4. IsSaved(f, project, edits)
    BY <1>1, <1>3, SavedProfileFacts
  <1>5. IsLoadedFile(f, project) /\ f # Absent
    BY <1>4 DEF IsSaved, IsLoadedFile, Absent
  <1>6. Found(disk) = {"config/p"}
    <2>1. Directory(disk) = {"config/p", "config/other"}
      BY DEF OwnFile, Directory
    <2> QED BY <1>2, <1>3, <1>5, <2>1 DEF Found
  <1>7. new.schema = project.schema /\ new.base = project.base /\ new.profile = f
    BY <1>1, <1>2, <1>3, <1>6, LoadedFrom
  <1>8. Loads(disk)
    <2>1. ASSUME NEW x \in {disk[path] : path \in Found(disk)} \cup ({disk.base} \ {Absent})
          PROVE  IsLoadedFile(x, project)
      BY <1>1, <1>2, <1>3, <1>5, <1>6 DEF IsLoaded
    <2>2. \A p, q \in Found(disk) : p = q
      BY <1>6
    <2> QED BY <1>2, <2>1, <2>2 DEF Loads, IsLoadedFile
  <1>9. Resolved(new, <<>>) = Resolved(project, edits)
    BY <1>1, <1>4, <1>7, SavedResolvesSame
  <1>10. Resolves(new, <<>>)
    BY <1>1, <1>5, <1>7, <1>9 DEF Resolves
  <1>11. Reloads
    BY <1>3, <1>8, <1>10 DEF Reloads
  <1>12. outcome' = "saved" /\ edits' = <<>> /\ config' = Resolved(new, <<>>)
    BY <1>3, <1>11 DEF Reload
  <1> QED BY <1>1, <1>9, <1>12

-----------------------------------------------------------------------------
\* What is proved of the editor.

\* Everything below follows from the invariant, which holds in every state.
THEOREM EditorInvariantHolds == Spec => []EditorInvariant
<1>1. Init => EditorInvariant
  BY InitKeeps
<1>2. EditorInvariant /\ [Next]_vars => EditorInvariant'
  BY StepKeeps
<1> QED BY <1>1, <1>2, PTL DEF Spec

\* The check of candidate_block_reason against the values now resolved is
\* enough: every edit it lets through resolves, and the screen shows it.
THEOREM EditsResolveHolds == Spec => []EditsResolve
<1>1. EditorInvariant => EditsResolve
  BY DEF EditorInvariant, ModelInvariant
<1> QED BY <1>1, EditorInvariantHolds, PTL

\* No edit and no new profile is left behind without a word.
THEOREM UnsavedHolds == Spec => []UnsavedIsDirty
<1>1. EditorInvariant => UnsavedIsDirty
  BY DEF EditorInvariant, ModelInvariant
<1> QED BY <1>1, EditorInvariantHolds, PTL

\* The rows, the menu and the selection on the screen are those of the loaded
\* schema, after any order of edits, searches, filters and reloads.
THEOREM ViewHolds == Spec => []ViewIsCurrent
<1>1. EditorInvariant => ViewIsCurrent
  BY DEF EditorInvariant, Screen
<1> QED BY <1>1, EditorInvariantHolds, PTL

\* The next key of a search always reaches the match that follows.
THEOREM NextReachesHolds == Spec => []NextReaches
<1>1. EditorInvariant => NextReaches
  BY NextReachesFollows DEF EditorInvariant, ModelInvariant
<1> QED BY <1>1, EditorInvariantHolds, PTL

\* A save brings back what the screen showed.
THEOREM SaveHolds == Spec => SaveKeepsScreen
<1>1. ASSUME EditorInvariant, [Next]_vars
      PROVE  [pc = "reload" /\ pc' # "reload" /\ changes = 0 /\ OwnFile =>
                outcome' = "saved" /\ config' = config /\ edits' = <<>>]_vars
  <2> SUFFICES ASSUME Next, pc = "reload", pc' # "reload", changes = 0, OwnFile
               PROVE  outcome' = "saved" /\ config' = config /\ edits' = <<>>
    BY <1>1
  <2>1. ~Change
    BY DEF Change
  <2>2. Reload
    BY <2>1 DEF Next, Edit, Save, Quit, Move, EnterMenu, GoParentMenu, SetView, SetFilter,
                CommandFilter, ClearFilters, SetSearch, SearchNext, SearchPrevious, SearchJump
  <2> QED BY <1>1, <2>2, ReloadTakesOver
<1> QED BY <1>1, EditorInvariantHolds, PTL DEF Spec, SaveKeepsScreen

-----------------------------------------------------------------------------
\* Version 1 projects: what the loader has read so far.

IsList(s) == s \in Seq(ToSet(s))

IsOption(o) ==
    /\ o = [id |-> o.id, type |-> o.type, default |-> o.default, range |-> o.range,
            choices |-> o.choices, deps |-> o.deps, aliases |-> o.aliases,
            visible |-> o.visible, category |-> o.category, owner |-> o.owner,
            since |-> o.since, stability |-> o.stability, deprecated |-> o.deprecated,
            replacedBy |-> o.replacedBy, emit |-> o.emit]
    /\ IsList(o.deps)
    /\ IsValue(o.default)
IsSection(s) == s = [name |-> s.name, fields |-> s.fields] /\ IsList(s.fields)
IsSelection(s) ==
    /\ s = [output |-> s.output, sections |-> s.sections]
    /\ IsList(s.sections)
    /\ \A i \in DOMAIN s.sections : IsSection(s.sections[i])
IsProfile(p) ==
    /\ p = [name |-> p.name, base |-> p.base, target |-> p.target, values |-> p.values]
    /\ IsList(p.values)
IsTarget(t) ==
    /\ t = [name |-> t.name, arch |-> t.arch, board |-> t.board, level |-> t.level,
            values |-> t.values]
    /\ IsList(t.values)

ProjectShape ==
    /\ tree = [name |-> tree.name, version |-> tree.version, imports |-> tree.imports,
               options |-> tree.options, selections |-> tree.selections,
               profiles |-> tree.profiles, targets |-> tree.targets]
    /\ IsList(tree.imports) /\ IsList(tree.options) /\ IsList(tree.selections)
    /\ IsList(tree.profiles) /\ IsList(tree.targets)
    /\ \A i \in DOMAIN tree.options : IsOption(tree.options[i])
    /\ \A i \in DOMAIN tree.selections : IsSelection(tree.selections[i])
    /\ \A i \in DOMAIN tree.profiles : IsProfile(tree.profiles[i])
    /\ \A i \in DOMAIN tree.targets : IsTarget(tree.targets[i])

ImportsKnown == \A i \in DOMAIN tree.imports : tree.imports[i] \in DOMAIN input.files
OneOptionPerId ==
    \A i, j \in DOMAIN tree.options : tree.options[i].id = tree.options[j].id => i = j

\* A value is stored under the id of an option that accepts it, a field of a
\* template names an option that emits to it.
ValueKnown(v) ==
    v.id \in OptionIds /\ Accepts(FindOption(v.id), v.value) /\ IsValue(v.value)
ValuesKnown(members) ==
    \A i \in DOMAIN members : \A k \in DOMAIN members[i].values :
        ValueKnown(members[i].values[k])
FieldKnown(f) == f.id \in OptionIds /\ "selection" \in FindOption(f.id).emit
FieldsKnown(s) ==
    \A k \in DOMAIN s.sections : \A f \in DOMAIN s.sections[k].fields :
        FieldKnown(s.sections[k].fields[f])
SelectionsKnown == \A i \in DOMAIN tree.selections : FieldsKnown(tree.selections[i])

\* The table of an option is open: its last line has not been read.
Typing == stage = "options" /\ line > 0 /\ table = "option"
DefaultsAccepted ==
    /\ Typing => tree.options # <<>>
    /\ \A i \in DOMAIN tree.options :
          (Typing /\ i = Len(tree.options)) \/ Accepts(tree.options[i], tree.options[i].default)

AliasesOk ==
    \A i \in DOMAIN tree.options : \A j \in DOMAIN tree.options[i].aliases : AliasOk(i, j)
LinksOk == \A i \in DOMAIN tree.profiles : LinkOk(tree.profiles[i])

\* Which parts of the project are still empty, and which have been validated.
Early == {"root", "project", "options", "stability"}
Late == {"links"} \cup AfterLoad
PartsInOrder ==
    /\ stage \in Early \cup {"selections", "profiles", "targets", "failed"} \cup Late
    /\ stage \in Early => tree.selections = <<>>
    /\ stage \in Early \cup {"selections"} => tree.profiles = <<>>
    /\ stage \in Early \cup {"selections", "profiles"} => tree.targets = <<>>
    /\ stage \in {"selections", "profiles", "targets"} \cup Late => AliasesOk
    /\ stage \in AfterLoad => LinksOk

\* The document that is read has its element in the project.
ReadingInto ==
    /\ file \in Nat \ {0} /\ line \in Nat
    /\ line > 0 => stage \in DOMAIN Follows \cup {"failed"}
    /\ stage = "project" => input.place \in {"root", "config"}
    /\ stage \in DOMAIN Follows /\ line > 0 => file <= Len(Docs)
    /\ stage = "selections" /\ line > 0 =>
          /\ tree.selections # <<>>
          /\ table = "section" => Selection.sections # <<>>
    /\ stage = "profiles" /\ line > 0 => tree.profiles # <<>>
    /\ stage = "targets" /\ line > 0 => tree.targets # <<>>

ProjectInv ==
    /\ IsInput(input) /\ ProjectShape /\ ImportsKnown /\ OneOptionPerId
    /\ ValuesKnown(tree.profiles) /\ ValuesKnown(tree.targets) /\ SelectionsKnown
LoadInv == ProjectInv /\ DefaultsAccepted /\ PartsInOrder /\ ReadingInto

-----------------------------------------------------------------------------
\* Lists.

LEMMA ListFacts ==
  ASSUME NEW s, IsList(s)
  PROVE  /\ Len(s) \in Nat /\ DOMAIN s = 1..Len(s)
         /\ \A i \in 1..Len(s) : s[i] \in ToSet(s)
         /\ \A x \in ToSet(s) : \E i \in 1..Len(s) : s[i] = x
         /\ s = <<>> <=> Len(s) = 0
  <1>1. PICK S : S = ToSet(s) /\ s \in Seq(S)
    BY DEF IsList
  <1>2. Len(s) \in Nat /\ DOMAIN s = 1..Len(s) /\ (s = <<>> <=> Len(s) = 0)
    BY <1>1
  <1> QED BY <1>2 DEF ToSet

LEMMA ListOf ==
  ASSUME NEW S, NEW s, s \in Seq(S)
  PROVE  IsList(s)
  BY DEF IsList, ToSet

LEMMA ListEmpty == IsList(<<>>) /\ Len(<<>>) = 0 /\ ToSet(<<>>) = {}
  BY DEF IsList, ToSet

LEMMA ListMade ==
  ASSUME NEW n \in Nat, NEW f, f = [i \in 1..n |-> f[i]]
  PROVE  IsList(f) /\ Len(f) = n /\ DOMAIN f = 1..n
  <1>1. PICK S : S = {f[i] : i \in 1..n}
    OBVIOUS
  <1>2. f \in [1..n -> S]
    BY <1>1
  <1>3. f \in Seq(S) /\ Len(f) = n
    BY <1>2
  <1> QED BY <1>2, <1>3, ListOf

LEMMA ListAppend ==
  ASSUME NEW s, NEW x, IsList(s)
  PROVE  /\ IsList(Append(s, x)) /\ Len(Append(s, x)) = Len(s) + 1
         /\ DOMAIN Append(s, x) = 1..(Len(s) + 1)
         /\ \A i \in 1..Len(s) : Append(s, x)[i] = s[i]
         /\ Append(s, x)[Len(s) + 1] = x
  <1>1. PICK S : S = ToSet(s) \cup {x}
    OBVIOUS
  <1>2. s \in Seq(S) /\ x \in S
    BY <1>1 DEF IsList
  <1>3. PICK n : n = Len(s)
    OBVIOUS
  <1>4. /\ n \in Nat /\ Append(s, x) \in Seq(S) /\ Len(Append(s, x)) = n + 1
        /\ \A i \in 1..n : Append(s, x)[i] = s[i]
        /\ Append(s, x)[n + 1] = x
    BY <1>2, <1>3
  <1>5. DOMAIN Append(s, x) = 1..(n + 1)
    BY <1>4
  <1>6. IsList(Append(s, x))
    BY <1>4, ListOf
  <1> QED BY <1>3, <1>4, <1>5, <1>6

LEMMA ListConcat ==
  ASSUME NEW s, NEW t, IsList(s), IsList(t)
  PROVE  /\ IsList(s \o t) /\ Len(s \o t) = Len(s) + Len(t)
         /\ \A i \in 1..Len(s) : (s \o t)[i] = s[i]
         /\ \A i \in 1..Len(t) : (s \o t)[Len(s) + i] = t[i]
  <1>1. PICK S : S = ToSet(s) \cup ToSet(t)
    OBVIOUS
  <1>2. s \in Seq(S) /\ t \in Seq(S)
    BY <1>1 DEF IsList
  <1>3. PICK m, n : m = Len(s) /\ n = Len(t)
    OBVIOUS
  <1>4. /\ m \in Nat /\ n \in Nat /\ s \o t \in Seq(S) /\ Len(s \o t) = m + n
        /\ \A i \in 1..m : (s \o t)[i] = s[i]
        /\ \A i \in 1..n : (s \o t)[m + i] = t[i]
    BY <1>2, <1>3
  <1>5. IsList(s \o t)
    BY <1>4, ListOf
  <1> QED BY <1>3, <1>4, <1>5

LEMMA ListExcept ==
  ASSUME NEW s, NEW k, NEW x, NEW r, IsList(s), k \in 1..Len(s), r = [s EXCEPT ![k] = x]
  PROVE  /\ IsList(r) /\ Len(r) = Len(s) /\ DOMAIN r = 1..Len(s)
         /\ r[k] = x /\ \A i \in 1..Len(s) : i # k => r[i] = s[i]
  <1>1. Len(s) \in Nat /\ DOMAIN s = 1..Len(s)
    BY ListFacts
  <1>2. r = [i \in 1..Len(s) |-> r[i]] /\ r[k] = x /\ \A i \in 1..Len(s) : i # k => r[i] = s[i]
    BY <1>1
  <1>3. IsList(r) /\ Len(r) = Len(s) /\ DOMAIN r = 1..Len(s)
    BY <1>1, <1>2, ListMade
  <1> QED BY <1>2, <1>3

\* The last member of a list.
LEMMA LastOf ==
  ASSUME NEW s, IsList(s), s # <<>>
  PROVE  Len(s) \in 1..Len(s) /\ Last(s) = s[Len(s)]
  BY ListFacts DEF Last

\* The first of the places that fit.
LEMMA FirstFacts ==
  ASSUME NEW P \in SUBSET Nat, P # {}
  PROVE  First(P) \in P /\ \A j \in P : First(P) <= j
  <1>1. \E i \in P : \A j \in P : i <= j
    BY LeastNatural
  <1> QED BY <1>1, Zenon DEF First

\* Where ids differ, the option found under an id is the one that has it.
LEMMA FindOptionFacts ==
  ASSUME ProjectShape, NEW id \in OptionIds
  PROVE  \E i \in DOMAIN tree.options :
            /\ tree.options[i].id = id /\ FindOption(id) = tree.options[i]
            /\ \A j \in DOMAIN tree.options : tree.options[j].id = id => i <= j
  <1> DEFINE P == {i \in DOMAIN tree.options : tree.options[i].id = id}
  <1>1. Len(tree.options) \in Nat /\ DOMAIN tree.options = 1..Len(tree.options)
    BY ListFacts DEF ProjectShape
  <1>2. P \in SUBSET Nat /\ P # {}
    <2>1. PICK o \in ToSet(tree.options) : o.id = id
      BY DEF OptionIds
    <2>2. PICK i \in 1..Len(tree.options) : tree.options[i] = o
      BY <2>1, ListFacts DEF ProjectShape
    <2> QED BY <1>1, <2>1, <2>2
  <1>3. First(P) \in P /\ \A j \in P : First(P) <= j
    <2> HIDE DEF P
    <2> QED BY <1>2, FirstFacts
  <1>4. FindOption(id) = tree.options[First(P)]
    BY DEF FindOption
  <1> HIDE DEF First
  <1> QED BY <1>3, <1>4

LEMMA OptionIdsFacts ==
  ASSUME ProjectShape
  PROVE  \A id : id \in OptionIds <=> \E i \in DOMAIN tree.options : tree.options[i].id = id
  <1>1. /\ DOMAIN tree.options = 1..Len(tree.options)
        /\ \A i \in 1..Len(tree.options) : tree.options[i] \in ToSet(tree.options)
        /\ \A x \in ToSet(tree.options) : \E i \in 1..Len(tree.options) : tree.options[i] = x
    BY ListFacts DEF ProjectShape
  <1>2. \A id : id \in OptionIds <=> \E o \in ToSet(tree.options) : o.id = id
    BY DEF OptionIds
  <1> QED BY ONLY <1>1, <1>2

LEMMA FindOptionIs ==
  ASSUME ProjectShape, OneOptionPerId, NEW i \in DOMAIN tree.options
  PROVE  tree.options[i].id \in OptionIds /\ FindOption(tree.options[i].id) = tree.options[i]
  <1>1. tree.options[i].id \in OptionIds
    BY OptionIdsFacts
  <1>2. PICK j \in DOMAIN tree.options :
            tree.options[j].id = tree.options[i].id /\ FindOption(tree.options[i].id) = tree.options[j]
    BY <1>1, FindOptionFacts
  <1>3. j = i
    BY <1>2 DEF OneOptionPerId
  <1> QED BY <1>1, <1>2, <1>3

-----------------------------------------------------------------------------
\* Reading one line.

LEMMA ParsedIsValue ==
  ASSUME NEW type, NEW t
  PROVE  ParseAs(type, t) = Bad \/ IsValue(ParseAs(type, t))
  <1>1. \A n : \A kind \in {"bool", "int", "uint", "float", "empty"} : IsValue(MakeValue(kind, n, ""))
    BY DEF IsValue, MakeValue
  <1>2. \A s : \A kind \in {"string", "enum", "path"} : IsValue(MakeValue(kind, 0, s))
    BY DEF IsValue, MakeValue
  <1>3. ParseBoolToken(t) = Bad \/ IsValue(ParseBoolToken(t))
    BY <1>1 DEF ParseBoolToken
  <1>4. ParseUint(t) = Bad \/ IsValue(ParseUint(t))
    <2>1. PICK m : m = t.n % 2^Width
      OBVIOUS
    <2>2. ParseUint(t) \in {Bad, MakeValue("uint", m, "")}
      BY <2>1, Zenon DEF ParseUint
    <2> QED BY <1>1, <2>2
  <1>5. ParseHexUint(t) = Bad \/ IsValue(ParseHexUint(t))
    <2>1. PICK m : m = t.n % 2^Width
      OBVIOUS
    <2>2. ParseHexUint(t) \in {ParseUint(t), MakeValue("uint", m, "")}
      BY <2>1, Zenon DEF ParseHexUint
    <2> QED BY <1>1, <1>4, <2>2
  <1>6. ParseInt(t) = Bad \/ IsValue(ParseInt(t))
    <2>1. PICK m, n : m = Signed(t.n % 2^Width) /\ n = Signed((-Signed((-t.n) % 2^Width)) % 2^Width)
      OBVIOUS
    <2>2. ParseInt(t) \in {Bad, MakeValue("int", m, ""), MakeValue("int", n, "")}
      BY <2>1, Zenon DEF ParseInt
    <2> QED BY <1>1, <2>2
  <1>7. ParseFloat(t) = Bad \/ IsValue(ParseFloat(t))
    BY <1>1 DEF ParseFloat
  <1>8. \A kind \in {"string", "enum", "path"} : ParseQuoted(kind, t) = Bad \/ IsValue(ParseQuoted(kind, t))
    BY <1>2 DEF ParseQuoted
  <1>9. type \in {"string", "enum", "path"} => KindOf[type] = type
    BY DEF KindOf
  <1> HIDE DEF IsValue
  <1> QED BY <1>3, <1>4, <1>5, <1>6, <1>7, <1>8, <1>9 DEF ParseAs

LEMMA StringsList ==
  ASSUME IsList(Field.texts)
  PROVE  IsList(Strings) /\ DOMAIN Strings = DOMAIN Field.texts
  <1>1. Len(Field.texts) \in Nat /\ DOMAIN Field.texts = 1..Len(Field.texts)
    BY ListFacts
  <1>2. Strings = [i \in 1..Len(Field.texts) |-> Strings[i]]
    BY <1>1 DEF Strings
  <1> QED BY <1>1, <1>2, ListMade

\* A line of an option keeps what is known of the option.
LEMMA OptionFieldKeeps ==
  ASSUME NEW o, IsOption(o), IsList(Field.texts), OptionFieldOk(o)
  PROVE  IsOption(WithOptionField(o)) /\ WithOptionField(o).id = o.id
  <1>1. IsList(Strings) /\ DOMAIN Strings = 1..Len(Strings) /\ Len(Strings) \in Nat
    BY StringsList, ListFacts
  <1>2. ASSUME NEW k \in DependencyKinds, NEW d, d = [i \in DOMAIN Strings |-> [kind |-> k, id |-> Strings[i]]]
        PROVE  IsList(o.deps \o d)
    <2>1. IsList(d)
      BY <1>1, <1>2, ListMade
    <2> QED BY <2>1, ListConcat DEF IsOption
  <1>3. Field.key = "default" => IsValue(ParseAs(o.type, Text))
    <2> SUFFICES ASSUME Field.key = "default" PROVE IsValue(ParseAs(o.type, Text))
      OBVIOUS
    <2>1. ParseAs(o.type, Text) # Bad
      BY DEF OptionFieldOk, Extension, DependencyKinds
    <2> QED BY <2>1, ParsedIsValue
  <1>4. IsOption(WithMetadata(o)) /\ WithMetadata(o).id = o.id
    BY DEF WithMetadata, IsOption
  <1>5. CASE Field.key \in DependencyKinds
    <2>1. PICK d : d = [i \in DOMAIN Strings |-> [kind |-> Field.key, id |-> Strings[i]]]
      OBVIOUS
    <2>2. WithOptionField(o) = [o EXCEPT !.deps = @ \o d]
      BY <1>5, <2>1 DEF WithOptionField, DependencyKinds
    <2>3. IsList(o.deps \o d)
      BY <1>2, <1>5, <2>1
    <2>4. PICK x : x = o.deps \o d
      OBVIOUS
    <2>5. WithOptionField(o) = [o EXCEPT !.deps = x] /\ IsList(x)
      BY <2>2, <2>3, <2>4
    <2> QED BY <2>5 DEF IsOption
  <1>6. CASE Field.key = "default"
    <2>1. PICK x : x = ParseAs(o.type, Text)
      OBVIOUS
    <2>2. WithOptionField(o) = [o EXCEPT !.default = x] /\ IsValue(x)
      BY <1>3, <1>6, <2>1 DEF WithOptionField, DependencyKinds
    <2> QED BY <2>2 DEF IsOption
  <1>7. CASE Field.key \in {"type", "range", "choices"}
    <2>1. PICK x, y, z : /\ x = Text.s /\ y = [i \in 1..2 |-> ParseAs(o.type, Field.texts[i])]
                         /\ z = o.choices \o Strings
      OBVIOUS
    <2>2. WithOptionField(o) \in {[o EXCEPT !.type = x], [o EXCEPT !.range = y], [o EXCEPT !.choices = z]}
      BY <1>7, <2>1 DEF WithOptionField, DependencyKinds
    <2> QED BY <2>2 DEF IsOption
  <1>8. CASE Field.key \notin DependencyKinds \cup {"default", "type", "range", "choices"}
    BY <1>4, <1>8 DEF WithOptionField
  <1> QED BY <1>5, <1>6, <1>7, <1>8

\* The lines of the documents that are read.
LEMMA LineFacts ==
  ASSUME IsInput(input), ProjectShape, ImportsKnown, ReadingInto, stage \in {"project", "options"},
         line > 0, AtLine
  PROVE  /\ IsList(Field.texts)
         /\ stage = "project" /\ Field.key = "imports" =>
               \A i \in DOMAIN Field.texts : Field.texts[i].s \in DOMAIN input.files
  <1>1. stage \in DOMAIN Follows
    BY DEF Follows
  <1>2. file \in 1..Len(Docs)
    <2>1. Len(Docs) \in Nat
      <3>1. CASE stage = "project"
        BY <3>1 DEF Docs
      <3>2. CASE stage = "options"
        <4>1. Docs = [i \in DOMAIN tree.imports |-> input.files[tree.imports[i]]]
          BY <3>2 DEF Docs
        <4>2. DOMAIN tree.imports = 1..Len(tree.imports) /\ Len(tree.imports) \in Nat
          BY ListFacts DEF ProjectShape
        <4> QED BY <4>1, <4>2, ListMade
      <3> QED BY <3>1, <3>2
    <2> QED BY <1>1, <2>1 DEF ReadingInto
  <1>3. IsDocument(Docs[file])
    <2>1. CASE stage = "project"
      <3>1. Docs[file] = input.project[input.place]
        BY <1>2, <2>1 DEF Docs
      <3> QED BY <2>1, <3>1 DEF IsInput, ReadingInto
    <2>2. CASE stage = "options"
      <3>1. Docs = [i \in DOMAIN tree.imports |-> input.files[tree.imports[i]]]
        BY <2>2 DEF Docs
      <3>2. DOMAIN tree.imports = 1..Len(tree.imports) /\ Len(tree.imports) \in Nat
        BY ListFacts DEF ProjectShape
      <3>3. Len(Docs) = Len(tree.imports)
        BY <3>1, <3>2, ListMade
      <3>4. Docs[file] = input.files[tree.imports[file]] /\ tree.imports[file] \in DOMAIN input.files
        BY <1>2, <3>1, <3>2, <3>3 DEF ImportsKnown
      <3> QED BY <3>4 DEF IsInput
    <2> QED BY <2>1, <2>2
  <1>4. Field \in ToSet(Docs[file].lines)
    <2>1. line \in 1..Len(Docs[file].lines) /\ IsList(Docs[file].lines)
      BY <1>3 DEF AtLine, IsDocument, IsList
    <2> QED BY <2>1, ListFacts DEF Field
  <1>5. IsList(Field.texts)
    BY <1>3, <1>4 DEF IsDocument, IsList
  <1>6. ASSUME stage = "project", Field.key = "imports"
        PROVE  \A i \in DOMAIN Field.texts : Field.texts[i].s \in DOMAIN input.files
    <2>1. Docs[file] = input.project[input.place]
      BY <1>2, <1>6 DEF Docs
    <2>2. Docs[file] \in {input.project.root, input.project.config}
      BY <1>6, <2>1 DEF ReadingInto
    <2>3. IsInput(input)
      OBVIOUS
    <2>4. \A doc \in {input.project.root, input.project.config} : \A l \in ToSet(doc.lines) :
              l.key = "imports" => \A i \in DOMAIN l.texts : l.texts[i].s \in DOMAIN input.files
      BY <2>3, Zenon DEF IsInput
    <2> QED BY <1>4, <1>6, <2>2, <2>4, Zenon
  <1> QED BY <1>5, <1>6

-----------------------------------------------------------------------------
\* What a step of the loader keeps.

\* What is said of values, fields and aliases depends on the options only.
LEMMA SameOptions ==
  ASSUME tree'.options = tree.options
  PROVE  /\ OptionIds' = OptionIds
         /\ \A id : FindOption(id)' = FindOption(id)
         /\ \A v : ValueKnown(v)' <=> ValueKnown(v)
         /\ \A f : FieldKnown(f)' <=> FieldKnown(f)
         /\ OneOptionPerId' <=> OneOptionPerId
         /\ AliasesOk' <=> AliasesOk
         /\ (Typing' <=> Typing) => (DefaultsAccepted' <=> DefaultsAccepted)
  <1>1. OptionIds' = OptionIds
    BY DEF OptionIds
  <1>2. ASSUME NEW id PROVE FindOption(id)' = FindOption(id)
    BY Zenon DEF FindOption
  <1>3. ASSUME NEW v PROVE ValueKnown(v)' <=> ValueKnown(v)
    <2>1. FindOption(v.id)' = FindOption(v.id)
      BY <1>2
    <2> QED BY <1>1, <2>1 DEF ValueKnown
  <1>4. ASSUME NEW f PROVE FieldKnown(f)' <=> FieldKnown(f)
    <2>1. FindOption(f.id)' = FindOption(f.id)
      BY <1>2
    <2> QED BY <1>1, <2>1 DEF FieldKnown
  <1>5. OneOptionPerId' <=> OneOptionPerId
    BY DEF OneOptionPerId
  <1>6. AliasesOk' <=> AliasesOk
    <2>1. ASSUME NEW alias PROVE AliasOwners(alias)' = AliasOwners(alias)
      <3> SUFFICES ASSUME NEW p PROVE p \in AliasOwners(alias)' <=> p \in AliasOwners(alias)
        BY Zenon DEF AliasOwners
      <3> QED BY DEF AliasOwners
    <2>2. ASSUME NEW i, NEW j PROVE AliasOk(i, j)' <=> AliasOk(i, j)
      BY <1>1, <2>1 DEF AliasOk
    <2> QED BY <2>2 DEF AliasesOk
  <1>7. (Typing' <=> Typing) => (DefaultsAccepted' <=> DefaultsAccepted)
    <2>1. PICK s : s = tree.options
      OBVIOUS
    <2>2. DefaultsAccepted <=>
            /\ Typing => s # <<>>
            /\ \A i \in DOMAIN s : (Typing /\ i = Len(s)) \/ Accepts(s[i], s[i].default)
      BY <2>1, Zenon DEF DefaultsAccepted
    <2>3. DefaultsAccepted' <=>
            /\ Typing' => s # <<>>
            /\ \A i \in DOMAIN s : (Typing' /\ i = Len(s)) \/ Accepts(s[i], s[i].default)
      BY <2>1, Zenon DEF DefaultsAccepted
    <2> QED BY <2>2, <2>3
  <1> QED BY <1>1, <1>2, <1>3, <1>4, <1>5, <1>6, <1>7

LEMMA SameProject ==
  ASSUME ProjectInv, tree' = tree, IsInput(input'), input'.files = input.files
  PROVE  ProjectInv'
  <1>1. /\ \A v : ValueKnown(v)' <=> ValueKnown(v)
        /\ \A f : FieldKnown(f)' <=> FieldKnown(f)
        /\ OneOptionPerId' <=> OneOptionPerId
    BY SameOptions
  <1>2. ProjectShape'
    BY DEF ProjectInv, ProjectShape
  <1>3. ImportsKnown'
    BY DEF ProjectInv, ImportsKnown
  <1>4. ValuesKnown(tree.profiles)' /\ ValuesKnown(tree.targets)'
    BY <1>1 DEF ProjectInv, ValuesKnown
  <1>5. SelectionsKnown'
    BY <1>1 DEF ProjectInv, SelectionsKnown, FieldsKnown
  <1> QED BY <1>1, <1>2, <1>3, <1>4, <1>5 DEF ProjectInv

LEMMA EmptyProjectInv ==
  (IsInput(input) /\ tree = EmptyProject) =>
    (ProjectInv /\ AliasesOk /\ (~Typing => DefaultsAccepted))
  <1> SUFFICES ASSUME IsInput(input), tree = EmptyProject
               PROVE  ProjectInv /\ AliasesOk /\ (~Typing => DefaultsAccepted)
    OBVIOUS
  <1>1. ProjectShape
    BY ListEmpty DEF ProjectShape, EmptyProject
  <1>2. ImportsKnown /\ OneOptionPerId /\ AliasesOk /\ (~Typing => DefaultsAccepted)
    BY DEF EmptyProject, ImportsKnown, OneOptionPerId, AliasesOk, DefaultsAccepted
  <1>3. ValuesKnown(tree.profiles) /\ ValuesKnown(tree.targets) /\ SelectionsKnown
    BY DEF EmptyProject, ValuesKnown, SelectionsKnown
  <1> QED BY <1>1, <1>2, <1>3 DEF ProjectInv

LEMMA FailKeeps ==
  ASSUME LoadInv, NEW message, Fail(message)
  PROVE  LoadInv'
  <1>1. tree' = EmptyProject /\ input' = input /\ stage' = "failed" /\ file' = file /\ line' = line
    BY DEF Fail
  <1>2. IsInput(input')
    BY <1>1 DEF LoadInv, ProjectInv
  <1>3. ~Typing'
    BY <1>1 DEF Typing
  <1>4. ProjectInv' /\ AliasesOk' /\ DefaultsAccepted'
    <2>1. (IsInput(input) /\ tree = EmptyProject) =>
            (ProjectInv /\ AliasesOk /\ (~Typing => DefaultsAccepted))
      BY EmptyProjectInv
    <2>2. (IsInput(input) /\ tree = EmptyProject)' =>
            (ProjectInv /\ AliasesOk /\ (~Typing => DefaultsAccepted))'
      BY EmptyProjectInv, PTL
    <2> QED BY <1>1, <1>2, <1>3, <2>2
  <1>5. PartsInOrder'
    BY <1>1 DEF PartsInOrder, Early, Late, AfterLoad
  <1>6. ReadingInto'
    BY <1>1 DEF LoadInv, ReadingInto, Follows
  <1> QED BY <1>4, <1>5, <1>6 DEF LoadInv

\* One of the lists of the project is replaced.
LEMMA SelectionsReplaced ==
  ASSUME ProjectInv, NEW s, IsList(s), \A i \in DOMAIN s : IsSelection(s[i]) /\ FieldsKnown(s[i]),
         tree' = [tree EXCEPT !.selections = s], input' = input
  PROVE  ProjectInv' /\ tree'.options = tree.options /\ tree'.selections = s
         /\ tree'.profiles = tree.profiles /\ tree'.targets = tree.targets /\ tree'.imports = tree.imports
  <1>1. tree' = [name |-> tree.name, version |-> tree.version, imports |-> tree.imports,
               options |-> tree.options, selections |-> s,
               profiles |-> tree.profiles, targets |-> tree.targets]
    BY DEF ProjectInv, ProjectShape
  <1>2. /\ \A v : ValueKnown(v)' <=> ValueKnown(v)
        /\ \A f : FieldKnown(f)' <=> FieldKnown(f)
        /\ OneOptionPerId' <=> OneOptionPerId
    BY <1>1, SameOptions
  <1>3. ProjectShape'
    BY <1>1 DEF ProjectInv, ProjectShape
  <1>4. ImportsKnown' /\ IsInput(input)'
    BY <1>1 DEF ProjectInv, ImportsKnown
  <1>5. ValuesKnown(tree.profiles)' /\ ValuesKnown(tree.targets)'
    BY <1>1, <1>2 DEF ProjectInv, ValuesKnown
  <1>6. SelectionsKnown'
    BY <1>1, <1>2 DEF SelectionsKnown, FieldsKnown
  <1> QED BY <1>1, <1>2, <1>3, <1>4, <1>5, <1>6 DEF ProjectInv

LEMMA ProfilesReplaced ==
  ASSUME ProjectInv, NEW p, IsList(p), \A i \in DOMAIN p : IsProfile(p[i]), ValuesKnown(p),
         tree' = [tree EXCEPT !.profiles = p], input' = input
  PROVE  ProjectInv' /\ tree'.options = tree.options /\ tree'.selections = tree.selections
         /\ tree'.profiles = p /\ tree'.targets = tree.targets /\ tree'.imports = tree.imports
  <1>1. tree' = [name |-> tree.name, version |-> tree.version, imports |-> tree.imports,
               options |-> tree.options, selections |-> tree.selections,
               profiles |-> p, targets |-> tree.targets]
    BY DEF ProjectInv, ProjectShape
  <1>2. /\ \A v : ValueKnown(v)' <=> ValueKnown(v)
        /\ \A f : FieldKnown(f)' <=> FieldKnown(f)
        /\ OneOptionPerId' <=> OneOptionPerId
    BY <1>1, SameOptions
  <1>3. ProjectShape'
    BY <1>1 DEF ProjectInv, ProjectShape
  <1>4. ImportsKnown' /\ IsInput(input)'
    BY <1>1 DEF ProjectInv, ImportsKnown
  <1>5. ValuesKnown(tree.profiles)' /\ ValuesKnown(tree.targets)'
    BY <1>1, <1>2 DEF ProjectInv, ValuesKnown
  <1>6. SelectionsKnown'
    BY <1>1, <1>2 DEF ProjectInv, SelectionsKnown, FieldsKnown
  <1> QED BY <1>1, <1>2, <1>3, <1>4, <1>5, <1>6 DEF ProjectInv

LEMMA TargetsReplaced ==
  ASSUME ProjectInv, NEW t, IsList(t), \A i \in DOMAIN t : IsTarget(t[i]), ValuesKnown(t),
         tree' = [tree EXCEPT !.targets = t], input' = input
  PROVE  ProjectInv' /\ tree'.options = tree.options /\ tree'.selections = tree.selections
         /\ tree'.profiles = tree.profiles /\ tree'.targets = t /\ tree'.imports = tree.imports
  <1>1. tree' = [name |-> tree.name, version |-> tree.version, imports |-> tree.imports,
               options |-> tree.options, selections |-> tree.selections,
               profiles |-> tree.profiles, targets |-> t]
    BY DEF ProjectInv, ProjectShape
  <1>2. /\ \A v : ValueKnown(v)' <=> ValueKnown(v)
        /\ \A f : FieldKnown(f)' <=> FieldKnown(f)
        /\ OneOptionPerId' <=> OneOptionPerId
    BY <1>1, SameOptions
  <1>3. ProjectShape'
    BY <1>1 DEF ProjectInv, ProjectShape
  <1>4. ImportsKnown' /\ IsInput(input)'
    BY <1>1 DEF ProjectInv, ImportsKnown
  <1>5. ValuesKnown(tree.profiles)' /\ ValuesKnown(tree.targets)'
    BY <1>1, <1>2 DEF ProjectInv, ValuesKnown
  <1>6. SelectionsKnown'
    BY <1>1, <1>2 DEF ProjectInv, SelectionsKnown, FieldsKnown
  <1> QED BY <1>1, <1>2, <1>3, <1>4, <1>5, <1>6 DEF ProjectInv

\* The options are replaced while nothing refers to them.
LEMMA OptionsReplaced ==
  ASSUME ProjectInv, NEW s, IsList(s), \A i \in DOMAIN s : IsOption(s[i]),
         \A i, j \in DOMAIN s : s[i].id = s[j].id => i = j,
         tree.selections = <<>>, tree.profiles = <<>>, tree.targets = <<>>,
         tree' = [tree EXCEPT !.options = s], input' = input
  PROVE  ProjectInv' /\ tree'.options = s /\ tree'.selections = <<>> /\ tree'.profiles = <<>>
         /\ tree'.targets = <<>> /\ tree'.imports = tree.imports
  <1>1. tree' = [name |-> tree.name, version |-> tree.version, imports |-> tree.imports,
               options |-> s, selections |-> tree.selections,
               profiles |-> tree.profiles, targets |-> tree.targets]
    BY DEF ProjectInv, ProjectShape
  <1>2. OneOptionPerId'
    BY <1>1 DEF OneOptionPerId
  <1>3. ProjectShape'
    BY <1>1 DEF ProjectInv, ProjectShape
  <1>4. ImportsKnown' /\ IsInput(input)'
    BY <1>1 DEF ProjectInv, ImportsKnown
  <1>5. ValuesKnown(tree.profiles)' /\ ValuesKnown(tree.targets)' /\ SelectionsKnown'
    BY <1>1 DEF ValuesKnown, SelectionsKnown
  <1> QED BY <1>1, <1>2, <1>3, <1>4, <1>5 DEF ProjectInv

-----------------------------------------------------------------------------
\* The steps of the loader.

\* A new element at the end of a list of the project.
LEMMA Appended ==
  ASSUME NEW s, NEW x, IsList(s), NEW P, \A i \in DOMAIN s : s[i] \in P, x \in P
  PROVE  /\ IsList(Append(s, x)) /\ Append(s, x) # <<>>
         /\ \A i \in DOMAIN Append(s, x) : Append(s, x)[i] \in P
  <1>1. Len(s) \in Nat /\ DOMAIN s = 1..Len(s)
    BY ListFacts
  <1>2. PICK r, n : r = Append(s, x) /\ n = Len(s)
    OBVIOUS
  <1>3. /\ IsList(r) /\ Len(r) = n + 1 /\ DOMAIN r = 1..(n + 1)
        /\ \A i \in 1..n : r[i] = s[i]
        /\ r[n + 1] = x
    BY <1>2, ListAppend
  <1>4. \A i \in 1..(n + 1) : i \in 1..n \/ i = n + 1
    BY <1>1, <1>2
  <1>5. \A i \in DOMAIN r : r[i] \in P
    BY <1>1, <1>2, <1>3, <1>4
  <1>6. r # <<>>
    BY <1>1, <1>2, <1>3, ListFacts
  <1> QED BY <1>2, <1>3, <1>5, <1>6

LEMMA FindConfigRootKeeps ==
  ASSUME LoadInv, FindConfigRoot
  PROVE  LoadInv'
  <1>1. PICK place : place \in {"root", "config"} /\ input' = [input EXCEPT !.place = place]
    BY DEF FindConfigRoot
  <1>2. /\ stage = "root" /\ stage' = "project" /\ tree' = tree /\ file' = file /\ line' = line
        /\ table' = table
    BY DEF FindConfigRoot
  <1>3. IsInput(input)
    BY DEF LoadInv, ProjectInv
  <1>4. input' = [place |-> place, project |-> input.project, files |-> input.files,
                  selections |-> input.selections, profiles |-> input.profiles,
                  targets |-> input.targets, internal |-> input.internal, request |-> input.request]
    BY <1>1, <1>3 DEF IsInput
  <1>5. IsInput(input') /\ input'.files = input.files /\ input'.place = place
    BY <1>3, <1>4 DEF IsInput
  <1>6. ProjectInv'
    BY <1>2, <1>5, SameProject DEF LoadInv
  <1>7. ~Typing /\ ~Typing'
    BY <1>2 DEF Typing
  <1>8. DefaultsAccepted'
    BY <1>2, <1>7, SameOptions DEF LoadInv
  <1>9. PartsInOrder'
    BY <1>2 DEF LoadInv, PartsInOrder, Early, Late, AfterLoad
  <1>10. ReadingInto'
    <2>1. file \in Nat \ {0} /\ line = 0
      BY <1>2 DEF LoadInv, ReadingInto, Follows
    <2> QED BY <1>1, <1>2, <1>5, <2>1 DEF ReadingInto
  <1> QED BY <1>6, <1>8, <1>9, <1>10 DEF LoadInv

LEMMA DocsList ==
  ASSUME IsInput(input), ProjectShape, stage \in DOMAIN Follows
  PROVE  IsList(Docs) /\ Len(Docs) \in Nat
  <1>1. stage \in {"project", "options", "selections", "profiles", "targets"}
    BY DEF Follows
  <1>2. CASE stage = "project"
    <2>1. PICK x : x = input.project[input.place]
      OBVIOUS
    <2>2. Docs = Append(<<>>, x)
      BY <1>2, <2>1 DEF Docs
    <2> QED BY <2>2, ListEmpty, ListAppend, ListFacts
  <1>3. CASE stage = "options"
    <2>1. Docs = [i \in DOMAIN tree.imports |-> input.files[tree.imports[i]]]
      BY <1>3 DEF Docs
    <2>2. DOMAIN tree.imports = 1..Len(tree.imports) /\ Len(tree.imports) \in Nat
      BY ListFacts DEF ProjectShape
    <2> QED BY <2>1, <2>2, ListMade
  <1>4. CASE stage \in {"selections", "profiles", "targets"}
    <2>1. Docs \in {input.selections, input.profiles, input.targets}
      BY <1>4 DEF Docs
    <2>2. IsList(Docs)
      BY <2>1 DEF IsInput, IsList
    <2> QED BY <2>2, ListFacts
  <1> QED BY <1>1, <1>2, <1>3, <1>4

\* An element that has just been opened has nothing in it.
LEMMA NewElements ==
  /\ IsSelection(NewSelection) /\ FieldsKnown(NewSelection)
  /\ IsProfile(NewProfile) /\ NewProfile.values = <<>>
  /\ IsTarget(NewTarget) /\ NewTarget.values = <<>>
  /\ \A id : IsOption(NewOption(id)) /\ NewOption(id).id = id
  <1>1. IsSelection(NewSelection) /\ FieldsKnown(NewSelection)
    BY ListEmpty DEF NewSelection, IsSelection, FieldsKnown
  <1>2. IsProfile(NewProfile) /\ NewProfile.values = <<>>
    BY ListEmpty DEF NewProfile, IsProfile
  <1>3. IsTarget(NewTarget) /\ NewTarget.values = <<>>
    BY ListEmpty DEF NewTarget, IsTarget
  <1>4. IsValue(Empty)
    BY DEF IsValue, Empty, MakeValue
  <1>5. ASSUME NEW id PROVE IsOption(NewOption(id)) /\ NewOption(id).id = id
    BY <1>4, ListEmpty DEF NewOption, IsOption
  <1> QED BY <1>1, <1>2, <1>3, <1>5

LEMMA OpenKeeps ==
  ASSUME LoadInv, Open
  PROVE  LoadInv'
  <1>1. CASE ~Docs[file].ok
    BY <1>1, FailKeeps DEF Open
  <1>2. CASE Docs[file].ok
    <2>1. /\ stage \in DOMAIN Follows /\ file <= Len(Docs) /\ line = 0 /\ line' = 1 /\ table' = "none"
          /\ input' = input /\ stage' = stage /\ file' = file
          /\ tree' =
                CASE stage = "selections" -> [tree EXCEPT !.selections = Append(@, NewSelection)]
                  [] stage = "profiles" -> [tree EXCEPT !.profiles = Append(@, NewProfile)]
                  [] stage = "targets" -> [tree EXCEPT !.targets = Append(@, NewTarget)]
                  [] OTHER -> tree
      BY <1>2, Zenon DEF Open, Fail
    <2>2. ProjectInv /\ ProjectShape
      BY DEF LoadInv, ProjectInv
    <2>3. ~Typing /\ ~Typing'
      BY <2>1 DEF Typing
    <2>4. /\ ProjectInv' /\ tree'.options = tree.options /\ tree'.imports = tree.imports
          /\ stage = "selections" => tree'.selections # <<>> /\ tree'.profiles = tree.profiles /\ tree'.targets = tree.targets
          /\ stage = "profiles" => tree'.profiles # <<>> /\ tree'.targets = tree.targets
          /\ stage = "targets" => tree'.targets # <<>>
          /\ stage \notin {"selections", "profiles", "targets"} => tree' = tree
      <3>1. CASE stage = "selections"
        <4>1. PICK s, P : s = Append(tree.selections, NewSelection) /\ P = ToSet(tree.selections) \cup {NewSelection}
          OBVIOUS
        <4>2. IsList(tree.selections) /\ \A i \in DOMAIN tree.selections :
                IsSelection(tree.selections[i]) /\ FieldsKnown(tree.selections[i])
          BY <2>2 DEF ProjectShape, ProjectInv, SelectionsKnown
        <4>3. IsList(s) /\ s # <<>> /\ \A i \in DOMAIN s : IsSelection(s[i]) /\ FieldsKnown(s[i])
          <5> DEFINE Q == {x \in P : IsSelection(x) /\ FieldsKnown(x)}
          <5>1. \A i \in DOMAIN tree.selections : tree.selections[i] \in P
            BY <4>1, <4>2, ListFacts
          <5>2. NewSelection \in Q /\ \A i \in DOMAIN tree.selections : tree.selections[i] \in Q
            BY <4>1, <4>2, <5>1, NewElements
          <5>3. IsList(s) /\ s # <<>> /\ \A i \in DOMAIN s : s[i] \in Q
            <6> HIDE DEF Q
            <6> QED BY <4>1, <4>2, <5>2, Appended
          <5> QED BY <5>3
        <4>4. tree' = [tree EXCEPT !.selections = s]
          BY <2>1, <3>1, <4>1
        <4> QED BY <2>1, <2>2, <3>1, <4>3, <4>4, SelectionsReplaced
      <3>2. CASE stage = "profiles"
        <4>1. PICK s, P : s = Append(tree.profiles, NewProfile) /\ P = ToSet(tree.profiles) \cup {NewProfile}
          OBVIOUS
        <4>2. IsList(tree.profiles) /\ \A i \in DOMAIN tree.profiles :
                IsProfile(tree.profiles[i]) /\ \A k \in DOMAIN tree.profiles[i].values : ValueKnown(tree.profiles[i].values[k])
          BY <2>2 DEF ProjectShape, ProjectInv, ValuesKnown
        <4>3. IsList(s) /\ s # <<>> /\ \A i \in DOMAIN s : IsProfile(s[i]) /\ \A k \in DOMAIN s[i].values : ValueKnown(s[i].values[k])
          <5> DEFINE Q == {x \in P : IsProfile(x) /\ \A k \in DOMAIN x.values : ValueKnown(x.values[k])}
          <5>1. \A i \in DOMAIN tree.profiles : tree.profiles[i] \in P
            BY <4>1, <4>2, ListFacts
          <5>2. NewProfile \in Q /\ \A i \in DOMAIN tree.profiles : tree.profiles[i] \in Q
            BY <4>1, <4>2, <5>1, NewElements
          <5>3. IsList(s) /\ s # <<>> /\ \A i \in DOMAIN s : s[i] \in Q
            <6> HIDE DEF Q
            <6> QED BY <4>1, <4>2, <5>2, Appended
          <5> QED BY <5>3
        <4>4. tree' = [tree EXCEPT !.profiles = s]
          BY <2>1, <3>2, <4>1
        <4>5. ValuesKnown(s)
          BY <4>3 DEF ValuesKnown
        <4> QED BY <2>1, <2>2, <3>2, <4>3, <4>4, <4>5, ProfilesReplaced
      <3>3. CASE stage = "targets"
        <4>1. PICK s, P : s = Append(tree.targets, NewTarget) /\ P = ToSet(tree.targets) \cup {NewTarget}
          OBVIOUS
        <4>2. IsList(tree.targets) /\ \A i \in DOMAIN tree.targets :
                IsTarget(tree.targets[i]) /\ \A k \in DOMAIN tree.targets[i].values : ValueKnown(tree.targets[i].values[k])
          BY <2>2 DEF ProjectShape, ProjectInv, ValuesKnown
        <4>3. IsList(s) /\ s # <<>> /\ \A i \in DOMAIN s : IsTarget(s[i]) /\ \A k \in DOMAIN s[i].values : ValueKnown(s[i].values[k])
          <5> DEFINE Q == {x \in P : IsTarget(x) /\ \A k \in DOMAIN x.values : ValueKnown(x.values[k])}
          <5>1. \A i \in DOMAIN tree.targets : tree.targets[i] \in P
            BY <4>1, <4>2, ListFacts
          <5>2. NewTarget \in Q /\ \A i \in DOMAIN tree.targets : tree.targets[i] \in Q
            BY <4>1, <4>2, <5>1, NewElements
          <5>3. IsList(s) /\ s # <<>> /\ \A i \in DOMAIN s : s[i] \in Q
            <6> HIDE DEF Q
            <6> QED BY <4>1, <4>2, <5>2, Appended
          <5> QED BY <5>3
        <4>4. tree' = [tree EXCEPT !.targets = s]
          BY <2>1, <3>3, <4>1
        <4>5. ValuesKnown(s)
          BY <4>3 DEF ValuesKnown
        <4> QED BY <2>1, <2>2, <3>3, <4>3, <4>4, <4>5, TargetsReplaced
      <3>4. CASE stage \notin {"selections", "profiles", "targets"}
        <4>1. tree' = tree
          BY <2>1, <3>4
        <4>2. IsInput(input')
          BY <2>1, <2>2 DEF ProjectInv
        <4>3. ProjectInv'
          BY <2>1, <2>2, <4>1, <4>2, SameProject
        <4> QED BY <3>4, <4>1, <4>3
      <3> QED BY <3>1, <3>2, <3>3, <3>4
    <2>5. DefaultsAccepted' /\ (AliasesOk' <=> AliasesOk)
      BY <2>3, <2>4, SameOptions DEF LoadInv
    <2>6. PartsInOrder'
      BY <2>1, <2>4, <2>5 DEF LoadInv, PartsInOrder, Early, Late, AfterLoad, Follows
    <2>7. Docs' = Docs
      BY <2>1, <2>4 DEF Docs
    <2>8. ReadingInto'
      BY <2>1, <2>4, <2>7 DEF LoadInv, ReadingInto
    <2> QED BY <2>4, <2>5, <2>6, <2>8 DEF LoadInv
  <1> QED BY <1>1, <1>2

\* A step within a part that leaves the project alone.
LEMMA LineKeeps ==
  ASSUME LoadInv, tree' = tree, input' = input, stage' = stage, file' = file,
         line \in Nat, line > 0, line' = line + 1,
         ~Typing' /\ (~Typing \/ \A i \in DOMAIN tree.options : Accepts(tree.options[i], tree.options[i].default)),
         stage = "selections" => (table' = "section" => table = "section")
  PROVE  LoadInv'
  <1>1. IsInput(input')
    BY DEF LoadInv, ProjectInv
  <1>2. ProjectInv'
    BY <1>1, SameProject DEF LoadInv
  <1>3. DefaultsAccepted' /\ (AliasesOk' <=> AliasesOk)
    <2>1. AliasesOk' <=> AliasesOk
      BY SameOptions
    <2>2. \A i \in DOMAIN tree.options : Accepts(tree.options[i], tree.options[i].default)
      BY DEF LoadInv, DefaultsAccepted
    <2>3. \A i \in DOMAIN tree'.options : Accepts(tree'.options[i], tree'.options[i].default)
      BY <2>2
    <2> QED BY <2>1, <2>3 DEF DefaultsAccepted
  <1>4. LinksOk' <=> LinksOk
    BY DEF LinksOk, LinkOk, Names
  <1>5. PartsInOrder'
    BY <1>3, <1>4 DEF LoadInv, PartsInOrder
  <1>6. Docs' = Docs /\ Selection' = Selection
    BY DEF Docs, Selection
  <1>7. ReadingInto'
    BY <1>6 DEF LoadInv, ReadingInto
  <1> QED BY <1>2, <1>3, <1>5, <1>7 DEF LoadInv

LEMMA EndPartKeeps ==
  ASSUME LoadInv, EndPart
  PROVE  LoadInv'
  <1>1. /\ stage \in DOMAIN Follows /\ file = Len(Docs) + 1 /\ stage' = Follows[stage] /\ file' = 1
        /\ line' = line /\ table' = table /\ tree' = tree /\ input' = input
    BY DEF EndPart
  <1>2. IsInput(input) /\ ProjectShape
    BY DEF LoadInv, ProjectInv
  <1>3. line = 0
    <2>1. Len(Docs) \in Nat
      BY <1>1, <1>2, DocsList
    <2> QED BY <1>1, <2>1 DEF LoadInv, ReadingInto
  <1>4. ProjectInv'
    BY <1>1, <1>2, SameProject DEF LoadInv
  <1>5. ~Typing /\ ~Typing'
    BY <1>1, <1>3 DEF Typing
  <1>6. DefaultsAccepted' /\ (AliasesOk' <=> AliasesOk)
    BY <1>1, <1>5, SameOptions DEF LoadInv
  <1>7. PartsInOrder'
    BY <1>1, <1>6 DEF LoadInv, PartsInOrder, Early, Late, AfterLoad, Follows
  <1>8. ReadingInto'
    BY <1>1, <1>3 DEF LoadInv, ReadingInto, Follows
  <1> QED BY <1>4, <1>6, <1>7, <1>8 DEF LoadInv

\* The elements of a part are finished and the next one is read.
LEMMA CloseKeeps ==
  ASSUME LoadInv, stage \in DOMAIN Follows, stage' = stage, file' = file + 1, line' = 0,
         input' = input, table' = table, tree'.options = tree.options, tree'.imports = tree.imports,
         tree'.selections = tree.selections,
         stage # "profiles" => tree'.profiles = tree.profiles,
         stage # "targets" => tree'.targets = tree.targets,
         ProjectInv', Typing => \A i \in DOMAIN tree.options : Accepts(tree.options[i], tree.options[i].default)
  PROVE  LoadInv'
  <1>1. ~Typing'
    BY DEF Typing
  <1>2. AliasesOk' <=> AliasesOk
    BY SameOptions
  <1>3. \A i \in DOMAIN tree.options : Accepts(tree.options[i], tree.options[i].default)
    BY DEF LoadInv, DefaultsAccepted
  <1>4. DefaultsAccepted'
    <2>1. \A i \in DOMAIN tree'.options : Accepts(tree'.options[i], tree'.options[i].default)
      BY <1>3
    <2> QED BY <1>1, <2>1 DEF DefaultsAccepted
  <1>5. PartsInOrder'
    BY <1>2 DEF LoadInv, PartsInOrder, Early, Late, AfterLoad, Follows
  <1>6. ReadingInto'
    BY DEF LoadInv, ReadingInto
  <1> QED BY <1>4, <1>5, <1>6 DEF LoadInv

LEMMA ProjectLineKeeps ==
  ASSUME LoadInv, ProjectLine
  PROVE  LoadInv'
  <1>1. stage = "project" /\ line > 0 /\ line \in Nat /\ AtLine /\ ~Typing
    BY DEF ProjectLine, Reading, LoadInv, ReadingInto, Typing
  <1>2. /\ IsList(Field.texts)
        /\ Field.key = "imports" => \A i \in DOMAIN Field.texts : Field.texts[i].s \in DOMAIN input.files
    BY <1>1, LineFacts DEF LoadInv, ProjectInv
  <1>3. CASE NextLine /\ UNCHANGED tree
    <2>1. ~Typing'
      BY <1>1, <1>3 DEF Typing, NextLine
    <2> QED BY <1>1, <1>3, <2>1, LineKeeps DEF NextLine
  <1>4. CASE NextLine /\ ProjectFieldOk /\ tree' = WithProjectField
    <2>1. /\ stage' = "project" /\ input' = input /\ file' = file /\ line' = line + 1
      BY <1>1, <1>4 DEF NextLine
    <2>2. ProjectShape /\ IsInput(input)
      BY DEF LoadInv, ProjectInv
    <2>3. PICK m : IsList(m) /\ (\A i \in DOMAIN m : m[i] \in DOMAIN input.files) /\
                   \E name, version : tree' = [name |-> name, version |-> version, imports |-> m,
                       options |-> tree.options, selections |-> tree.selections,
                       profiles |-> tree.profiles, targets |-> tree.targets]
      <3>1. tree = [name |-> tree.name, version |-> tree.version, imports |-> tree.imports,
               options |-> tree.options, selections |-> tree.selections,
               profiles |-> tree.profiles, targets |-> tree.targets]
        BY <2>2 DEF ProjectShape
      <3>2. IsList(tree.imports) /\ \A i \in DOMAIN tree.imports : tree.imports[i] \in DOMAIN input.files
        BY <2>2 DEF ProjectShape, LoadInv, ProjectInv, ImportsKnown
      <3>3. CASE Field.key = "imports"
        <4>1. IsList(Strings) /\ \A i \in DOMAIN Strings : Strings[i] \in DOMAIN input.files
          BY <1>2, <3>3, StringsList DEF Strings
        <4>2. PICK m : m = tree.imports \o Strings
          OBVIOUS
        <4>3. IsList(m) /\ \A i \in DOMAIN m : m[i] \in DOMAIN input.files
          <5>1. PICK S : S = DOMAIN input.files
            OBVIOUS
          <5>2. tree.imports \in Seq(S) /\ Strings \in Seq(S)
            <6>1. Len(tree.imports) \in Nat /\ Len(Strings) \in Nat
              BY <3>2, <4>1, ListFacts
            <6> QED BY <3>2, <4>1, <5>1 DEF IsList
          <5>3. m \in Seq(S)
            BY <4>2, <5>2
          <5> QED BY <5>1, <5>3, ListOf
        <4>4. tree' = [tree EXCEPT !.imports = m]
          BY <1>4, <3>3, <4>2 DEF WithProjectField
        <4> QED BY <3>1, <4>3, <4>4
      <3>4. CASE Field.key # "imports"
        <4>1. PICK x : x = Text.s
          OBVIOUS
        <4>2. tree' \in {tree, [tree EXCEPT !.name = x], [tree EXCEPT !.version = 1]}
          BY <1>4, <3>4, <4>1 DEF WithProjectField
        <4> QED BY <3>1, <3>2, <4>2
      <3> QED BY <3>3, <3>4
    <2>4. /\ tree'.imports = m /\ tree'.options = tree.options /\ tree'.selections = tree.selections
          /\ tree'.profiles = tree.profiles /\ tree'.targets = tree.targets
          /\ tree' = [name |-> tree'.name, version |-> tree'.version, imports |-> tree'.imports,
               options |-> tree'.options, selections |-> tree'.selections,
               profiles |-> tree'.profiles, targets |-> tree'.targets]
      BY <2>3
    <2>5. ProjectShape'
      BY <2>2, <2>3, <2>4 DEF ProjectShape
    <2>6. ImportsKnown' /\ IsInput(input)'
      BY <2>1, <2>2, <2>3, <2>4 DEF ImportsKnown
    <2>7. /\ \A v : ValueKnown(v)' <=> ValueKnown(v)
          /\ \A f : FieldKnown(f)' <=> FieldKnown(f)
          /\ OneOptionPerId' <=> OneOptionPerId
      BY <2>4, SameOptions
    <2>8. ValuesKnown(tree.profiles)' /\ ValuesKnown(tree.targets)'
      BY <2>4, <2>7 DEF LoadInv, ProjectInv, ValuesKnown
    <2>9. SelectionsKnown'
      BY <2>4, <2>7 DEF LoadInv, ProjectInv, SelectionsKnown, FieldsKnown
    <2>10. ProjectInv'
      BY <2>5, <2>6, <2>7, <2>8, <2>9 DEF LoadInv, ProjectInv
    <2>11. ~Typing'
      BY <2>1 DEF Typing
    <2>12. DefaultsAccepted' /\ (AliasesOk' <=> AliasesOk)
      BY <1>1, <2>4, <2>11, SameOptions DEF LoadInv
    <2>13. PartsInOrder'
      BY <1>1, <2>1, <2>4 DEF LoadInv, PartsInOrder, Early, Late, AfterLoad
    <2>14. Docs' = Docs
      BY <1>1, <2>1 DEF Docs
    <2>15. ReadingInto'
      BY <1>1, <2>1, <2>14 DEF LoadInv, ReadingInto
    <2> QED BY <2>10, <2>12, <2>13, <2>15 DEF LoadInv
  <1> QED BY <1>3, <1>4, FailKeeps, Zenon DEF ProjectLine

LEMMA CloseProjectKeeps ==
  ASSUME LoadInv, CloseProject
  PROVE  LoadInv'
  <1>1. CASE \E m : Fail(m)
    BY <1>1, FailKeeps
  <1>2. CASE CloseInto(tree)
    <2>1. /\ stage = "project" /\ stage' = stage /\ file' = file + 1 /\ line' = 0
          /\ input' = input /\ table' = table /\ tree' = tree /\ ~Typing
      BY <1>2 DEF CloseProject, CloseInto, Reading, Typing
    <2>2. ProjectInv'
      BY <2>1, SameProject DEF LoadInv, ProjectInv
    <2> QED BY <2>1, <2>2, CloseKeeps DEF Follows
  <1> QED BY <1>1, <1>2, Zenon DEF CloseProject

\* Options.

LEMMA OptionTableKeeps ==
  ASSUME LoadInv, OptionTable
  PROVE  LoadInv'
  <1>1. /\ stage = "options" /\ line > 0 /\ line \in Nat /\ ProjectShape /\ ProjectInv
        /\ tree.selections = <<>> /\ tree.profiles = <<>> /\ tree.targets = <<>>
    BY DEF OptionTable, Reading, LoadInv, ReadingInto, ProjectInv, PartsInOrder, Early
  <1>2. ASSUME OptionFinished
        PROVE  \A i \in DOMAIN tree.options : Accepts(tree.options[i], tree.options[i].default)
    <2>1. Typing => tree.options # <<>>
      BY DEF LoadInv, DefaultsAccepted
    <2>2. CASE Typing
      <3>1. Last(tree.options) = tree.options[Len(tree.options)]
        BY DEF Last
      <3>2. Accepts(Last(tree.options), Last(tree.options).default)
        BY <1>2, <2>2 DEF OptionFinished, Typing
      <3> QED BY <3>1, <3>2 DEF LoadInv, DefaultsAccepted
    <2>3. CASE ~Typing
      BY <2>3 DEF LoadInv, DefaultsAccepted
    <2> QED BY <2>2, <2>3
  <1>3. CASE OptionFinished /\ table' = "none" /\ NextLine /\ UNCHANGED tree
    <2>1. ~Typing'
      BY <1>3 DEF Typing
    <2> QED BY <1>1, <1>2, <1>3, <2>1, LineKeeps DEF NextLine
  <1>4. CASE /\ OptionFinished /\ Text.s \in ValidIds \ OptionIds
             /\ tree' = [tree EXCEPT !.options = Append(@, NewOption(Text.s))]
             /\ table' = "option" /\ NextLine
    <2>1. PICK x, s, n : x = NewOption(Text.s) /\ s = Append(tree.options, x) /\ n = Len(tree.options)
      OBVIOUS
    <2>2. IsOption(x) /\ x.id \notin OptionIds
      BY <1>4, <2>1, NewElements
    <2>3. IsList(tree.options) /\ n \in Nat /\ DOMAIN tree.options = 1..n
      BY <1>1, <2>1, ListFacts DEF ProjectShape
    <2>4. /\ IsList(s) /\ Len(s) = n + 1 /\ DOMAIN s = 1..(n + 1)
          /\ \A i \in 1..n : s[i] = tree.options[i]
          /\ s[n + 1] = x
      BY <2>1, <2>3, ListAppend
    <2>5. \A i \in 1..n : tree.options[i].id # x.id
      BY <1>1, <2>2, <2>3, OptionIdsFacts
    <2>6. \A i \in DOMAIN s : IsOption(s[i])
      BY <1>1, <2>2, <2>3, <2>4 DEF ProjectShape
    <2>7. \A i, j \in DOMAIN s : s[i].id = s[j].id => i = j
      <3>1. \A i, j \in 1..n : tree.options[i].id = tree.options[j].id => i = j
        BY <1>1, <2>3 DEF ProjectInv, OneOptionPerId
      <3>2. \A i \in 1..(n + 1) : i \in 1..n \/ i = n + 1
        BY <2>3
      <3> QED BY <2>4, <2>5, <3>1, <3>2
    <2>8. tree' = [tree EXCEPT !.options = s] /\ input' = input
      BY <1>4, <2>1 DEF NextLine
    <2>9. /\ ProjectInv' /\ tree'.options = s /\ tree'.selections = <<>> /\ tree'.profiles = <<>>
          /\ tree'.targets = <<>> /\ tree'.imports = tree.imports
      BY <1>1, <2>4, <2>6, <2>7, <2>8, OptionsReplaced
    <2>10. stage' = stage /\ line' = line + 1 /\ file' = file /\ Typing'
      BY <1>1, <1>4 DEF NextLine, Typing
    <2>11. DefaultsAccepted'
      <3>1. s # <<>>
        BY <2>3, <2>4, ListFacts
      <3>2. \A i \in 1..n : Accepts(s[i], s[i].default)
        BY <1>2, <1>4, <2>3, <2>4
      <3>3. \A i \in DOMAIN s : i = Len(s) \/ Accepts(s[i], s[i].default)
        BY <2>3, <2>4, <3>2
      <3> QED BY <2>9, <2>10, <3>1, <3>3 DEF DefaultsAccepted
    <2>12. PartsInOrder'
      BY <1>1, <2>9, <2>10 DEF LoadInv, PartsInOrder, Early, Late, AfterLoad
    <2>13. Docs' = Docs
      BY <1>1, <2>8, <2>9, <2>10 DEF Docs
    <2>14. ReadingInto'
      BY <1>1, <2>10, <2>13 DEF LoadInv, ReadingInto
    <2> QED BY <2>9, <2>11, <2>12, <2>14 DEF LoadInv
  <1> QED BY <1>3, <1>4, FailKeeps, Zenon DEF OptionTable

LEMMA OptionLineKeeps ==
  ASSUME LoadInv, OptionLine
  PROVE  LoadInv'
  <1>1. /\ stage = "options" /\ line > 0 /\ line \in Nat /\ ProjectShape /\ ProjectInv /\ AtLine
        /\ tree.selections = <<>> /\ tree.profiles = <<>> /\ tree.targets = <<>>
    BY DEF OptionLine, Reading, LoadInv, ReadingInto, ProjectInv, PartsInOrder, Early
  <1>2. CASE /\ table = "option" /\ OptionFieldOk(Last(tree.options))
             /\ tree' = [tree EXCEPT !.options[Len(tree.options)] = WithOptionField(@)]
             /\ NextLine /\ UNCHANGED table
    <2>1. Typing /\ tree.options # <<>>
      BY <1>1, <1>2 DEF Typing, LoadInv, DefaultsAccepted
    <2>2. PICK n, o, x, s : /\ n = Len(tree.options) /\ o = tree.options[n] /\ x = WithOptionField(o)
                            /\ s = [tree.options EXCEPT ![n] = x]
      OBVIOUS
    <2>3. /\ IsList(tree.options) /\ n \in Nat /\ DOMAIN tree.options = 1..n /\ n \in 1..n
          /\ o = Last(tree.options)
      BY <1>1, <2>1, <2>2, ListFacts, LastOf DEF ProjectShape
    <2>4. IsOption(x) /\ x.id = o.id
      <3>1. IsOption(o)
        BY <1>1, <2>2, <2>3 DEF ProjectShape
      <3>2. IsList(Field.texts)
        BY <1>1, LineFacts DEF LoadInv, ProjectInv
      <3> QED BY <1>2, <2>2, <2>3, <3>1, <3>2, OptionFieldKeeps
    <2>5. /\ IsList(s) /\ Len(s) = n /\ DOMAIN s = 1..n
          /\ s[n] = x /\ \A i \in 1..n : i # n => s[i] = tree.options[i]
      <3>1. PICK list : list = tree.options
        OBVIOUS
      <3>2. /\ IsList(list) /\ n \in Nat /\ DOMAIN list = 1..n /\ n \in 1..n
            /\ n = Len(list) /\ n \in 1..Len(list) /\ s = [list EXCEPT ![n] = x]
        BY <2>2, <2>3, <3>1
      <3>3. /\ IsList(s) /\ Len(s) = n /\ DOMAIN s = 1..n
            /\ s[n] = x /\ \A i \in 1..n : i # n => s[i] = list[i]
        BY ONLY <3>2, ListExcept
      <3> QED BY <3>1, <3>2, <3>3
    <2>6. \A i \in DOMAIN s : IsOption(s[i]) /\ s[i].id = tree.options[i].id
      BY <1>1, <2>2, <2>3, <2>4, <2>5 DEF ProjectShape
    <2>7. \A i, j \in DOMAIN s : s[i].id = s[j].id => i = j
      BY <1>1, <2>3, <2>5, <2>6 DEF ProjectInv, OneOptionPerId
    <2>8. tree' = [tree EXCEPT !.options = s] /\ input' = input
      BY <1>2, <2>2 DEF NextLine
    <2>9. /\ ProjectInv' /\ tree'.options = s /\ tree'.selections = <<>> /\ tree'.profiles = <<>>
          /\ tree'.targets = <<>> /\ tree'.imports = tree.imports
      BY <1>1, <2>5, <2>6, <2>7, <2>8, OptionsReplaced
    <2>10. stage' = stage /\ line' = line + 1 /\ file' = file /\ Typing'
      BY <1>1, <1>2 DEF NextLine, Typing
    <2>11. DefaultsAccepted'
      <3>1. s # <<>>
        BY <2>3, <2>5, ListFacts
      <3>2. \A i \in 1..n : i = n \/ Accepts(tree.options[i], tree.options[i].default)
        BY <2>2, <2>3 DEF LoadInv, DefaultsAccepted
      <3>3. \A i \in DOMAIN s : i = Len(s) \/ Accepts(s[i], s[i].default)
        BY <2>3, <2>5, <3>2
      <3> QED BY <2>9, <2>10, <3>1, <3>3 DEF DefaultsAccepted
    <2>12. PartsInOrder'
      BY <1>1, <2>9, <2>10 DEF LoadInv, PartsInOrder, Early, Late, AfterLoad
    <2>13. Docs' = Docs
      BY <1>1, <2>8, <2>9, <2>10 DEF Docs
    <2>14. ReadingInto'
      BY <1>1, <2>10, <2>13 DEF LoadInv, ReadingInto
    <2> QED BY <2>9, <2>11, <2>12, <2>14 DEF LoadInv
  <1> QED BY <1>2, FailKeeps, Zenon DEF OptionLine

LEMMA CloseOptionsKeeps ==
  ASSUME LoadInv, CloseOptions
  PROVE  LoadInv'
  <1>1. CASE \E m : Fail(m)
    BY <1>1, FailKeeps
  <1>2. CASE OptionFinished /\ CloseInto(tree)
    <2>1. /\ stage = "options" /\ stage' = stage /\ file' = file + 1 /\ line' = 0
          /\ input' = input /\ table' = table /\ tree' = tree
      BY <1>2 DEF CloseOptions, CloseInto, Reading
    <2>2. ProjectInv'
      BY <2>1, SameProject DEF LoadInv, ProjectInv
    <2>3. Typing => \A i \in DOMAIN tree.options : Accepts(tree.options[i], tree.options[i].default)
      <3>1. Typing => tree.options # <<>>
        BY DEF LoadInv, DefaultsAccepted
      <3>2. Last(tree.options) = tree.options[Len(tree.options)]
        BY DEF Last
      <3>3. Typing => Accepts(Last(tree.options), Last(tree.options).default)
        BY <1>2 DEF OptionFinished, Typing
      <3> QED BY <3>1, <3>2, <3>3 DEF LoadInv, DefaultsAccepted
    <2> QED BY <2>1, <2>2, <2>3, CloseKeeps DEF Follows
  <1> QED BY <1>1, <1>2, Zenon DEF CloseOptions

\* The validations between the parts change nothing in the project.
LEMMA ValidateKeeps ==
  ASSUME LoadInv, input' = input, tree' = tree, line' = line, file' \in Nat \ {0},
         stage \notin DOMAIN Follows \cup {"failed"}, stage' \notin {"options", "project"},
         PartsInOrder'
  PROVE  LoadInv'
  <1>1. IsInput(input')
    BY DEF LoadInv, ProjectInv
  <1>2. ProjectInv'
    BY <1>1, SameProject DEF LoadInv
  <1>3. ~Typing /\ ~Typing'
    BY DEF Typing, Follows
  <1>4. DefaultsAccepted'
    BY <1>3, SameOptions DEF LoadInv
  <1>5. line = 0
    BY DEF LoadInv, ReadingInto
  <1>6. ReadingInto'
    BY <1>5 DEF ReadingInto
  <1> QED BY <1>2, <1>4, <1>6 DEF LoadInv

LEMMA ValidateOptionKeeps ==
  ASSUME LoadInv, ValidateOption
  PROVE  LoadInv'
  <1>1. CASE \E m : Fail(m)
    BY <1>1, FailKeeps
  <1>2. CASE /\ file' = file + 1 /\ UNCHANGED <<input, stage, line, tree>>
    <2>0. stage = "stability" /\ file \in Nat \ {0}
      BY DEF ValidateOption, LoadInv, ReadingInto
    <2>1. stage = "stability" /\ file' \in Nat \ {0}
      BY <1>2, <2>0
    <2>2. PartsInOrder'
      BY <1>2, <2>1 DEF LoadInv, PartsInOrder, Early, Late, AfterLoad
    <2> QED BY <1>2, <2>1, <2>2, ValidateKeeps DEF Follows
  <1> QED BY <1>1, <1>2, Zenon DEF ValidateOption

LEMMA ValidateAliasesKeeps ==
  ASSUME LoadInv, ValidateAliases
  PROVE  LoadInv'
  <1>1. CASE \E m : Fail(m)
    BY <1>1, FailKeeps
  <1>2. CASE AliasesOk /\ stage' = "selections" /\ file' = 1 /\ UNCHANGED <<input, line, tree>>
    <2>1. stage = "stability"
      BY DEF ValidateAliases
    <2>2. AliasesOk'
      BY <1>2, SameOptions
    <2>3. PartsInOrder'
      BY <1>2, <2>1, <2>2 DEF LoadInv, PartsInOrder, Early, Late, AfterLoad
    <2> QED BY <1>2, <2>1, <2>3, ValidateKeeps DEF Follows
  <1> QED BY <1>1, <1>2, Zenon DEF ValidateAliases, AliasesOk

LEMMA ValidateLinksKeeps ==
  ASSUME LoadInv, ValidateLinks
  PROVE  LoadInv'
  <1>1. CASE \E m : Fail(m)
    BY <1>1, FailKeeps
  <1>2. CASE LinksOk /\ stage' = "loaded" /\ UNCHANGED <<input, file, line, tree>>
    <2>1. stage = "links" /\ file' \in Nat \ {0}
      BY <1>2 DEF ValidateLinks, LoadInv, ReadingInto
    <2>2. AliasesOk' /\ LinksOk'
      <3>1. AliasesOk' <=> AliasesOk
        BY <1>2, SameOptions
      <3>2. LinksOk'
        BY <1>2 DEF LinksOk, LinkOk, Names
      <3> QED BY <2>1, <3>1, <3>2 DEF LoadInv, PartsInOrder, Late
    <2>3. PartsInOrder'
      BY <1>2, <2>1, <2>2 DEF LoadInv, PartsInOrder, Early, Late, AfterLoad
    <2> QED BY <1>2, <2>1, <2>3, ValidateKeeps DEF Follows
  <1> QED BY <1>1, <1>2, Zenon DEF ValidateLinks, LinksOk

\* Selection templates.

\* A step that changes the last template.
LEMMA SelectionStep ==
  ASSUME LoadInv, stage = "selections", line > 0, NEW s, IsSelection(s), FieldsKnown(s),
         tree' = WithSelection(s), input' = input, stage' = stage, file' = file, line' = line + 1,
         table' = "section" => s.sections # <<>>
  PROVE  LoadInv'
  <1>1. ProjectInv /\ ProjectShape /\ tree.selections # <<>> /\ line \in Nat
    BY DEF LoadInv, ProjectInv, ReadingInto
  <1>2. PICK n, r : n = Len(tree.selections) /\ r = [tree.selections EXCEPT ![n] = s]
    OBVIOUS
  <1>3. IsList(tree.selections) /\ n \in Nat /\ DOMAIN tree.selections = 1..n /\ n \in 1..n
    BY <1>1, <1>2, ListFacts, LastOf DEF ProjectShape
  <1>4. /\ IsList(r) /\ Len(r) = n /\ DOMAIN r = 1..n
        /\ r[n] = s /\ \A i \in 1..n : i # n => r[i] = tree.selections[i]
    <2>1. PICK list : list = tree.selections
      OBVIOUS
    <2>2. /\ IsList(list) /\ n \in Nat /\ DOMAIN list = 1..n /\ n \in 1..n
            /\ n = Len(list) /\ n \in 1..Len(list) /\ r = [list EXCEPT ![n] = s]
      BY <1>2, <1>3, <2>1
    <2>3. /\ IsList(r) /\ Len(r) = n /\ DOMAIN r = 1..n
          /\ r[n] = s /\ \A i \in 1..n : i # n => r[i] = list[i]
      BY ONLY <2>2, ListExcept
    <2> QED BY <2>1, <2>2, <2>3
  <1>5. \A i \in DOMAIN r : IsSelection(r[i]) /\ FieldsKnown(r[i])
    BY <1>1, <1>3, <1>4 DEF ProjectInv, ProjectShape, SelectionsKnown
  <1>6. tree' = [tree EXCEPT !.selections = r]
    BY <1>2 DEF WithSelection
  <1>7. ProjectInv' /\ tree'.options = tree.options /\ tree'.selections = r
        /\ tree'.profiles = tree.profiles /\ tree'.targets = tree.targets /\ tree'.imports = tree.imports
    BY <1>1, <1>4, <1>5, <1>6, SelectionsReplaced
  <1>8. ~Typing /\ ~Typing'
    BY DEF Typing
  <1>9. DefaultsAccepted' /\ (AliasesOk' <=> AliasesOk)
    BY <1>7, <1>8, SameOptions DEF LoadInv
  <1>10. PartsInOrder'
    BY <1>7, <1>9 DEF LoadInv, PartsInOrder, Early, Late, AfterLoad
  <1>11. Docs' = Docs
    BY DEF Docs
  <1>12. Selection' = s /\ r # <<>>
    BY <1>3, <1>4, <1>7, ListFacts DEF Selection, Last
  <1>13. ReadingInto'
    BY <1>1, <1>7, <1>11, <1>12 DEF LoadInv, ReadingInto
  <1> QED BY <1>7, <1>9, <1>10, <1>13 DEF LoadInv

LEMMA SelectionFacts ==
  ASSUME LoadInv, stage = "selections", line > 0
  PROVE  IsSelection(Selection) /\ FieldsKnown(Selection)
  <1>1. ProjectInv /\ ProjectShape /\ tree.selections # <<>> /\ line \in Nat
    BY DEF LoadInv, ProjectInv, ReadingInto
  <1>2. Len(tree.selections) \in DOMAIN tree.selections /\ Selection = tree.selections[Len(tree.selections)]
    BY <1>1, ListFacts, LastOf DEF ProjectShape, Selection
  <1> QED BY <1>1, <1>2 DEF ProjectShape, ProjectInv, SelectionsKnown

LEMMA SelectionTableKeeps ==
  ASSUME LoadInv, SelectionTable
  PROVE  LoadInv'
  <1>1. stage = "selections" /\ line > 0 /\ line \in Nat
    BY DEF SelectionTable, Reading, LoadInv, ReadingInto
  <1>2. CASE table' = "selection" /\ UNCHANGED tree /\ NextLine
    <2>1. ~Typing /\ ~Typing'
      BY <1>1, <1>2 DEF Typing, NextLine
    <2> QED BY <1>1, <1>2, <2>1, LineKeeps DEF NextLine
  <1>3. CASE /\ tree' = WithSelection([Selection EXCEPT !.sections =
                                    Append(@, [name |-> Text.s, fields |-> <<>>])])
             /\ NextLine
    <2>1. IsSelection(Selection) /\ FieldsKnown(Selection)
      BY <1>1, SelectionFacts
    <2>2. PICK x, r, s, n : /\ x = [name |-> Text.s, fields |-> <<>>] /\ r = Append(Selection.sections, x)
                            /\ s = [Selection EXCEPT !.sections = r] /\ n = Len(Selection.sections)
      OBVIOUS
    <2>3. /\ n \in Nat /\ DOMAIN Selection.sections = 1..n
          /\ IsList(r) /\ Len(r) = n + 1 /\ DOMAIN r = 1..(n + 1)
          /\ \A i \in 1..n : r[i] = Selection.sections[i]
          /\ r[n + 1] = x
      BY <2>1, <2>2, ListFacts, ListAppend DEF IsSelection
    <2>4. IsSection(x) /\ x.fields = <<>>
      BY <2>2, ListEmpty DEF IsSection
    <2>5. \A i \in 1..(n + 1) : i \in 1..n \/ i = n + 1
      BY <2>3
    <2>6. s = [output |-> Selection.output, sections |-> r]
      BY <2>1, <2>2 DEF IsSelection
    <2>7. IsSelection(s)
      <3>1. \A i \in DOMAIN r : IsSection(r[i])
        BY <2>1, <2>3, <2>4, <2>5 DEF IsSelection
      <3> QED BY <2>3, <2>6, <3>1 DEF IsSelection
    <2>8. FieldsKnown(s)
      <3>1. \A f \in DOMAIN x.fields : FALSE
        BY <2>4
      <3>2. \A k \in DOMAIN Selection.sections : \A f \in DOMAIN Selection.sections[k].fields :
                FieldKnown(Selection.sections[k].fields[f])
        BY <2>1 DEF FieldsKnown
      <3> QED BY <2>3, <2>5, <2>6, <3>1, <3>2 DEF FieldsKnown
    <2>9. s.sections # <<>>
      BY <2>3, <2>6, ListFacts
    <2>10. tree' = WithSelection(s)
      BY <1>3, <2>2
    <2> QED BY <1>1, <1>3, <2>7, <2>8, <2>9, <2>10, SelectionStep DEF NextLine
  <1> QED BY <1>2, <1>3, FailKeeps, Zenon DEF SelectionTable

LEMMA SelectionLineKeeps ==
  ASSUME LoadInv, SelectionLine
  PROVE  LoadInv'
  <1>1. stage = "selections" /\ line > 0 /\ line \in Nat
    BY DEF SelectionLine, Reading, LoadInv, ReadingInto
  <1>2. IsSelection(Selection) /\ FieldsKnown(Selection)
    BY <1>1, SelectionFacts
  <1>3. CASE table' = table /\ UNCHANGED tree /\ NextLine
    <2>1. ~Typing /\ ~Typing'
      BY <1>1, <1>3 DEF Typing, NextLine
    <2> QED BY <1>1, <1>3, <2>1, LineKeeps DEF NextLine
  <1>4. CASE /\ table = "selection" /\ table' = table
             /\ tree' = WithSelection([Selection EXCEPT !.output = Text.s]) /\ NextLine
    <2>1. PICK s : s = [Selection EXCEPT !.output = Text.s]
      OBVIOUS
    <2>2. s = [output |-> Text.s, sections |-> Selection.sections]
      BY <1>2, <2>1 DEF IsSelection
    <2>3. IsSelection(s) /\ FieldsKnown(s)
      BY <1>2, <2>2 DEF IsSelection, FieldsKnown
    <2>4. tree' = WithSelection(s)
      BY <1>4, <2>1
    <2> QED BY <1>1, <1>4, <2>3, <2>4, SelectionStep DEF NextLine
  <1>5. CASE /\ table = "section" /\ SectionFieldOk /\ ~Extension /\ table' = table
             /\ tree' = WithSelection([Selection EXCEPT
                                !.sections[Len(Selection.sections)].fields =
                                    Append(@, [name |-> Field.key, id |-> Text.s])])
             /\ NextLine
    <2>1. Selection.sections # <<>>
      BY <1>1, <1>5 DEF LoadInv, ReadingInto
    <2>2. PICK f : f = [name |-> Field.key, id |-> Text.s]
      OBVIOUS
    <2>3. FieldKnown(f)
      BY <1>5, <2>2 DEF SectionFieldOk, FieldKnown
    <2>4. PICK n, old : n = Len(Selection.sections) /\ old = Selection.sections[n]
      OBVIOUS
    <2>5. IsList(Selection.sections) /\ n \in Nat /\ DOMAIN Selection.sections = 1..n /\ n \in 1..n
      BY <1>2, <2>1, <2>4, ListFacts, LastOf DEF IsSelection
    <2>6. IsSection(old)
      BY <1>2, <2>4, <2>5 DEF IsSelection
    <2>7. PICK g, x : g = Append(old.fields, f) /\ x = [old EXCEPT !.fields = g]
      OBVIOUS
    <2>8. PICK m : m = Len(old.fields)
      OBVIOUS
    <2>9. /\ m \in Nat /\ DOMAIN old.fields = 1..m
          /\ IsList(g) /\ DOMAIN g = 1..(m + 1)
          /\ \A i \in 1..m : g[i] = old.fields[i]
          /\ g[m + 1] = f
      BY <2>6, <2>7, <2>8, ListFacts, ListAppend DEF IsSection
    <2>10. x = [name |-> old.name, fields |-> g]
      BY <2>6, <2>7 DEF IsSection
    <2>11. IsSection(x)
      BY <2>9, <2>10 DEF IsSection
    <2>12. \A i \in DOMAIN x.fields : FieldKnown(x.fields[i])
      <3>1. \A i \in 1..(m + 1) : i \in 1..m \/ i = m + 1
        BY <2>9
      <3>2. \A i \in DOMAIN old.fields : FieldKnown(old.fields[i])
        BY <1>2, <2>4, <2>5 DEF FieldsKnown
      <3> QED BY <2>3, <2>9, <2>10, <3>1, <3>2
    <2>13. PICK r, s : r = [Selection.sections EXCEPT ![n] = x] /\ s = [Selection EXCEPT !.sections = r]
      OBVIOUS
    <2>14. /\ IsList(r) /\ Len(r) = n /\ DOMAIN r = 1..n
           /\ r[n] = x /\ \A i \in 1..n : i # n => r[i] = Selection.sections[i]
      <3>1. PICK list : list = Selection.sections
        OBVIOUS
      <3>2. /\ IsList(list) /\ n \in Nat /\ DOMAIN list = 1..n /\ n \in 1..n
            /\ n = Len(list) /\ n \in 1..Len(list) /\ r = [list EXCEPT ![n] = x]
        BY <2>4, <2>5, <2>13, <3>1
      <3>3. /\ IsList(r) /\ Len(r) = n /\ DOMAIN r = 1..n
            /\ r[n] = x /\ \A i \in 1..n : i # n => r[i] = list[i]
        BY ONLY <3>2, ListExcept
      <3> QED BY <3>1, <3>2, <3>3
    <2>15. s = [output |-> Selection.output, sections |-> r]
      BY <1>2, <2>13 DEF IsSelection
    <2>16. IsSelection(s)
      BY <1>2, <2>5, <2>11, <2>14, <2>15 DEF IsSelection
    <2>17. FieldsKnown(s)
      BY <1>2, <2>5, <2>12, <2>14, <2>15 DEF FieldsKnown
    <2>18. tree' = WithSelection(s)
      BY <1>5, <2>2, <2>4, <2>7, <2>13
    <2>19. s.sections # <<>>
      BY <2>5, <2>14, <2>15, ListFacts
    <2> QED BY <1>1, <1>5, <2>16, <2>17, <2>18, <2>19, SelectionStep DEF NextLine
  <1> QED BY <1>3, <1>4, <1>5, FailKeeps, Zenon DEF SelectionLine

LEMMA CloseSelectionKeeps ==
  ASSUME LoadInv, CloseSelection
  PROVE  LoadInv'
  <1>1. CASE \E m : Fail(m)
    BY <1>1, FailKeeps
  <1>2. CASE CloseInto(tree)
    <2>1. /\ stage = "selections" /\ stage' = stage /\ file' = file + 1 /\ line' = 0
          /\ input' = input /\ table' = table /\ tree' = tree /\ ~Typing
      BY <1>2 DEF CloseSelection, CloseInto, Reading, Typing
    <2>2. ProjectInv'
      BY <2>1, SameProject DEF LoadInv, ProjectInv
    <2> QED BY <2>1, <2>2, CloseKeeps DEF Follows
  <1> QED BY <1>1, <1>2, Zenon DEF CloseSelection

\* Profiles and targets.

\* A value that is stored goes to an option that accepts it.
LEMMA NewValueKnown ==
  ASSUME ProjectInv, ValueOk
  PROVE  ValueKnown(NewValue)
  <1>1. ProjectShape
    BY DEF ProjectInv
  <1>2. PICK id, v : id = Canonical(Field.key) /\ v = ParseAs(FindOption(id).type, Text)
    OBVIOUS
  <1>3. id # Null /\ v # Bad /\ Accepts(FindOption(id), v)
    BY <1>2 DEF ValueOk
  <1>4. NewValue = [id |-> id, value |-> v]
    BY <1>2 DEF NewValue
  <1>5. IsValue(v)
    BY <1>2, <1>3, ParsedIsValue
  <1>6. id \in OptionIds
    <2>1. CASE Field.key \in OptionIds
      BY <1>2, <2>1 DEF Canonical
    <2>2. CASE Field.key \notin OptionIds
      <3>1. Cardinality(AliasOwners(Field.key)) = 1
        BY <1>2, <1>3, <2>2 DEF Canonical
      <3>2. AliasOwners(Field.key) # {}
        BY <3>1, FS_EmptySet
      <3>3. PICK p : p = CHOOSE q \in AliasOwners(Field.key) : TRUE
        OBVIOUS
      <3>4. p \in AliasOwners(Field.key)
        BY <3>2, <3>3
      <3>5. p[1] \in DOMAIN tree.options
        BY <3>4 DEF AliasOwners
      <3>6. id = tree.options[p[1]].id
        BY <1>2, <2>2, <3>1, <3>3 DEF Canonical
      <3> QED BY <1>1, <3>5, <3>6, OptionIdsFacts
    <2> QED BY <2>1, <2>2
  <1> QED BY <1>3, <1>4, <1>5, <1>6 DEF ValueKnown

\* A member with one value more.
LEMMA MemberAppend ==
  ASSUME NEW values, IsList(values), \A k \in DOMAIN values : ValueKnown(values[k]),
         NEW v, ValueKnown(v), NEW r, r = Append(values, v)
  PROVE  IsList(r) /\ \A k \in DOMAIN r : ValueKnown(r[k])
  <1>1. PICK n : n = Len(values)
    OBVIOUS
  <1>2. /\ n \in Nat /\ DOMAIN values = 1..n
        /\ IsList(r) /\ DOMAIN r = 1..(n + 1)
        /\ \A i \in 1..n : r[i] = values[i]
        /\ r[n + 1] = v
    BY <1>1, ListFacts, ListAppend
  <1>3. \A i \in 1..(n + 1) : i \in 1..n \/ i = n + 1
    BY <1>2
  <1> QED BY <1>2, <1>3

\* A step that changes the last profile.
LEMMA LastProfile ==
  ASSUME LoadInv, stage = "profiles", line > 0
  PROVE  LET n == Len(tree.profiles)  p == tree.profiles[n] IN
         /\ n \in DOMAIN tree.profiles /\ IsProfile(p)
         /\ \A k \in DOMAIN p.values : ValueKnown(p.values[k])
  <1>1. ProjectInv /\ ProjectShape /\ tree.profiles # <<>> /\ line \in Nat
    BY DEF LoadInv, ProjectInv, ReadingInto
  <1>2. Len(tree.profiles) \in DOMAIN tree.profiles
    BY <1>1, ListFacts, LastOf DEF ProjectShape
  <1> QED BY <1>1, <1>2 DEF ProjectShape, ProjectInv, ValuesKnown

LEMMA ProfileReplaced ==
  ASSUME LoadInv, stage = "profiles", line > 0, NEW p, IsProfile(p),
         \A k \in DOMAIN p.values : ValueKnown(p.values[k]),
         tree' = [tree EXCEPT !.profiles[Len(tree.profiles)] = p], input' = input
  PROVE  /\ ProjectInv' /\ tree'.options = tree.options /\ tree'.selections = tree.selections
         /\ tree'.profiles # <<>> /\ tree'.targets = tree.targets /\ tree'.imports = tree.imports
  <1>1. ProjectInv /\ ProjectShape /\ tree.profiles # <<>> /\ line \in Nat
    BY DEF LoadInv, ProjectInv, ReadingInto
  <1>2. PICK list, n, r : list = tree.profiles /\ n = Len(list) /\ r = [list EXCEPT ![n] = p]
    OBVIOUS
  <1>3. IsList(list) /\ n \in Nat /\ DOMAIN list = 1..n /\ n \in 1..n
    BY <1>1, <1>2, ListFacts, LastOf DEF ProjectShape
  <1>4. /\ IsList(r) /\ Len(r) = n /\ DOMAIN r = 1..n
        /\ r[n] = p /\ \A i \in 1..n : i # n => r[i] = list[i]
    <2>1. n = Len(list) /\ n \in 1..Len(list) /\ r = [list EXCEPT ![n] = p]
      BY <1>2, <1>3
    <2> QED BY ONLY <1>3, <2>1, ListExcept
  <1>5. \A i \in DOMAIN r : IsProfile(r[i])
    BY <1>1, <1>2, <1>3, <1>4 DEF ProjectShape
  <1>6. ValuesKnown(r)
    BY <1>1, <1>2, <1>3, <1>4 DEF ProjectInv, ValuesKnown
  <1>7. tree' = [tree EXCEPT !.profiles = r]
    BY <1>2
  <1>8. r # <<>>
    BY <1>3, <1>4, ListFacts
  <1> QED BY <1>1, <1>4, <1>5, <1>6, <1>7, <1>8, ProfilesReplaced

LEMMA LastTarget ==
  ASSUME LoadInv, stage = "targets", line > 0
  PROVE  LET n == Len(tree.targets)  t == tree.targets[n] IN
         /\ n \in DOMAIN tree.targets /\ IsTarget(t)
         /\ \A k \in DOMAIN t.values : ValueKnown(t.values[k])
  <1>1. ProjectInv /\ ProjectShape /\ tree.targets # <<>> /\ line \in Nat
    BY DEF LoadInv, ProjectInv, ReadingInto
  <1>2. Len(tree.targets) \in DOMAIN tree.targets
    BY <1>1, ListFacts, LastOf DEF ProjectShape
  <1> QED BY <1>1, <1>2 DEF ProjectShape, ProjectInv, ValuesKnown

LEMMA TargetReplaced ==
  ASSUME LoadInv, stage = "targets", line > 0, NEW t, IsTarget(t),
         \A k \in DOMAIN t.values : ValueKnown(t.values[k]),
         tree' = [tree EXCEPT !.targets[Len(tree.targets)] = t], input' = input
  PROVE  /\ ProjectInv' /\ tree'.options = tree.options /\ tree'.selections = tree.selections
         /\ tree'.profiles = tree.profiles /\ tree'.targets # <<>> /\ tree'.imports = tree.imports
  <1>1. ProjectInv /\ ProjectShape /\ tree.targets # <<>> /\ line \in Nat
    BY DEF LoadInv, ProjectInv, ReadingInto
  <1>2. PICK list, n, r : list = tree.targets /\ n = Len(list) /\ r = [list EXCEPT ![n] = t]
    OBVIOUS
  <1>3. IsList(list) /\ n \in Nat /\ DOMAIN list = 1..n /\ n \in 1..n
    BY <1>1, <1>2, ListFacts, LastOf DEF ProjectShape
  <1>4. /\ IsList(r) /\ Len(r) = n /\ DOMAIN r = 1..n
        /\ r[n] = t /\ \A i \in 1..n : i # n => r[i] = list[i]
    <2>1. n = Len(list) /\ n \in 1..Len(list) /\ r = [list EXCEPT ![n] = t]
      BY <1>2, <1>3
    <2> QED BY ONLY <1>3, <2>1, ListExcept
  <1>5. \A i \in DOMAIN r : IsTarget(r[i])
    BY <1>1, <1>2, <1>3, <1>4 DEF ProjectShape
  <1>6. ValuesKnown(r)
    BY <1>1, <1>2, <1>3, <1>4 DEF ProjectInv, ValuesKnown
  <1>7. tree' = [tree EXCEPT !.targets = r]
    BY <1>2
  <1>8. r # <<>>
    BY <1>3, <1>4, ListFacts
  <1> QED BY <1>1, <1>4, <1>5, <1>6, <1>7, <1>8, TargetsReplaced

\* A value line: the project changed as the lemmas above say.
LEMMA MemberValueKeeps ==
  ASSUME LoadInv, stage \in {"profiles", "targets"}, line > 0,
         ProjectInv', tree'.options = tree.options, tree'.selections = tree.selections,
         stage = "profiles" => tree'.profiles # <<>> /\ tree'.targets = tree.targets,
         stage = "targets" => tree'.targets # <<>>,
         input' = input, stage' = stage, file' = file, line' = line + 1
  PROVE  LoadInv'
  <1>1. ~Typing /\ ~Typing'
    BY DEF Typing
  <1>2. DefaultsAccepted' /\ (AliasesOk' <=> AliasesOk)
    BY <1>1, SameOptions DEF LoadInv
  <1>3. PartsInOrder'
    BY <1>2 DEF LoadInv, PartsInOrder, Early, Late, AfterLoad
  <1>4. Docs' = Docs
    BY DEF Docs
  <1>5. ReadingInto'
    BY <1>4 DEF LoadInv, ReadingInto
  <1> QED BY <1>2, <1>3, <1>5 DEF LoadInv

LEMMA MemberTableKeeps ==
  ASSUME LoadInv, ProfileTable \/ TargetTable
  PROVE  LoadInv'
  <1>1. PICK part, tables : part \in {"profiles", "targets"} /\ MemberTable(part, tables)
    BY DEF ProfileTable, TargetTable
  <1>2. stage = part /\ line > 0 /\ line \in Nat
    BY <1>1 DEF MemberTable, Reading, LoadInv, ReadingInto
  <1>3. CASE \E m : Fail(m)
    BY <1>3, FailKeeps
  <1>4. CASE NextLine /\ UNCHANGED tree
    <2>1. ~Typing /\ ~Typing'
      BY <1>1, <1>2, <1>4 DEF Typing, NextLine
    <2> QED BY <1>1, <1>2, <1>4, <2>1, LineKeeps DEF NextLine
  <1> QED BY <1>1, <1>3, <1>4, Zenon DEF MemberTable

LEMMA ProfileLineKeeps ==
  ASSUME LoadInv, ProfileLine
  PROVE  LoadInv'
  <1>1. stage = "profiles" /\ line > 0 /\ line \in Nat
    BY DEF ProfileLine, MemberLine, Reading, LoadInv, ReadingInto
  <1>2. CASE \E m : Fail(m)
    BY <1>2, FailKeeps
  <1>3. CASE NextLine /\ UNCHANGED tree
    <2>1. ~Typing /\ ~Typing'
      BY <1>1, <1>3 DEF Typing, NextLine
    <2> QED BY <1>1, <1>3, <2>1, LineKeeps DEF NextLine
  <1>4. CASE /\ ValueOk
             /\ AppendValue([tree EXCEPT !.profiles[Len(tree.profiles)].values = Append(@, NewValue)])
    <2>1. ValueKnown(NewValue)
      BY <1>4, NewValueKnown DEF LoadInv
    <2>2. PICK old : /\ old = tree.profiles[Len(tree.profiles)] /\ IsProfile(old)
                     /\ \A k \in DOMAIN old.values : ValueKnown(old.values[k])
      BY <1>1, LastProfile
    <2>3. PICK v, r, p : v = NewValue /\ r = Append(old.values, v) /\ p = [old EXCEPT !.values = r]
      OBVIOUS
    <2>4. IsList(r) /\ \A k \in DOMAIN r : ValueKnown(r[k])
      BY <2>1, <2>2, <2>3, MemberAppend DEF IsProfile
    <2>5. p = [name |-> old.name, base |-> old.base, target |-> old.target, values |-> r]
      BY <2>2, <2>3 DEF IsProfile
    <2>6. IsProfile(p) /\ \A k \in DOMAIN p.values : ValueKnown(p.values[k])
      BY <2>4, <2>5 DEF IsProfile
    <2>7. /\ tree' = [tree EXCEPT !.profiles[Len(tree.profiles)] = p]
          /\ input' = input /\ stage' = stage /\ file' = file /\ line' = line + 1
      BY <1>4, <2>2, <2>3 DEF AppendValue
    <2>8. /\ ProjectInv' /\ tree'.options = tree.options /\ tree'.selections = tree.selections
          /\ tree'.profiles # <<>> /\ tree'.targets = tree.targets
      BY <1>1, <2>6, <2>7, ProfileReplaced
    <2> QED BY <1>1, <2>7, <2>8, MemberValueKeeps
  <1> QED BY <1>2, <1>3, <1>4, Zenon DEF ProfileLine, MemberLine

LEMMA TargetLineKeeps ==
  ASSUME LoadInv, TargetLine
  PROVE  LoadInv'
  <1>1. stage = "targets" /\ line > 0 /\ line \in Nat
    BY DEF TargetLine, MemberLine, Reading, LoadInv, ReadingInto
  <1>2. CASE \E m : Fail(m)
    BY <1>2, FailKeeps
  <1>3. CASE NextLine /\ UNCHANGED tree
    <2>1. ~Typing /\ ~Typing'
      BY <1>1, <1>3 DEF Typing, NextLine
    <2> QED BY <1>1, <1>3, <2>1, LineKeeps DEF NextLine
  <1>4. CASE /\ ValueOk
             /\ AppendValue([tree EXCEPT !.targets[Len(tree.targets)].values = Append(@, NewValue)])
    <2>1. ValueKnown(NewValue)
      BY <1>4, NewValueKnown DEF LoadInv
    <2>2. PICK old : /\ old = tree.targets[Len(tree.targets)] /\ IsTarget(old)
                     /\ \A k \in DOMAIN old.values : ValueKnown(old.values[k])
      BY <1>1, LastTarget
    <2>3. PICK v, r, p : v = NewValue /\ r = Append(old.values, v) /\ p = [old EXCEPT !.values = r]
      OBVIOUS
    <2>4. IsList(r) /\ \A k \in DOMAIN r : ValueKnown(r[k])
      BY <2>1, <2>2, <2>3, MemberAppend DEF IsTarget
    <2>5. p = [name |-> old.name, arch |-> old.arch, board |-> old.board, level |-> old.level, values |-> r]
      BY <2>2, <2>3 DEF IsTarget
    <2>6. IsTarget(p) /\ \A k \in DOMAIN p.values : ValueKnown(p.values[k])
      BY <2>4, <2>5 DEF IsTarget
    <2>7. /\ tree' = [tree EXCEPT !.targets[Len(tree.targets)] = p]
          /\ input' = input /\ stage' = stage /\ file' = file /\ line' = line + 1
      BY <1>4, <2>2, <2>3 DEF AppendValue
    <2>8. /\ ProjectInv' /\ tree'.options = tree.options /\ tree'.selections = tree.selections
          /\ tree'.profiles = tree.profiles /\ tree'.targets # <<>>
      BY <1>1, <2>6, <2>7, TargetReplaced
    <2> QED BY <1>1, <2>7, <2>8, MemberValueKeeps
  <1> QED BY <1>2, <1>3, <1>4, Zenon DEF TargetLine, MemberLine

LEMMA CloseProfileKeeps ==
  ASSUME LoadInv, CloseProfile
  PROVE  LoadInv'
  <1>1. CASE \E m : Fail(m)
    BY <1>1, FailKeeps
  <1>2. CASE CloseInto([tree EXCEPT !.profiles[Len(tree.profiles)] =
                [@ EXCEPT !.name = local.name, !.base = local.base, !.target = local.target]])
    <2>1. /\ stage = "profiles" /\ stage' = stage /\ file' = file + 1 /\ line' = 0 /\ line > 0
          /\ input' = input /\ table' = table /\ ~Typing
      BY <1>2 DEF CloseProfile, CloseInto, Reading, Typing
    <2>2. PICK old : /\ old = tree.profiles[Len(tree.profiles)] /\ IsProfile(old)
                     /\ \A k \in DOMAIN old.values : ValueKnown(old.values[k])
      BY <2>1, LastProfile
    <2>3. PICK p : p = [old EXCEPT !.name = local.name, !.base = local.base, !.target = local.target]
      OBVIOUS
    <2>4. p = [name |-> local.name, base |-> local.base, target |-> local.target, values |-> old.values]
      BY <2>2, <2>3 DEF IsProfile
    <2>5. IsProfile(p) /\ \A k \in DOMAIN p.values : ValueKnown(p.values[k])
      BY <2>2, <2>4 DEF IsProfile
    <2>6. tree' = [tree EXCEPT !.profiles[Len(tree.profiles)] = p]
      BY <1>2, <2>2, <2>3 DEF CloseInto
    <2>7. /\ ProjectInv' /\ tree'.options = tree.options /\ tree'.selections = tree.selections
          /\ tree'.targets = tree.targets /\ tree'.imports = tree.imports
      BY <2>1, <2>5, <2>6, ProfileReplaced
    <2> QED BY <2>1, <2>7, CloseKeeps DEF Follows
  <1> QED BY <1>1, <1>2, Zenon DEF CloseProfile

LEMMA CloseTargetKeeps ==
  ASSUME LoadInv, CloseTarget
  PROVE  LoadInv'
  <1>1. CASE \E m : Fail(m)
    BY <1>1, FailKeeps
  <1>2. CASE CloseInto([tree EXCEPT !.targets[Len(tree.targets)] =
                [@ EXCEPT !.name = local.name, !.arch = local.arch,
                          !.board = local.board, !.level = local.level]])
    <2>1. /\ stage = "targets" /\ stage' = stage /\ file' = file + 1 /\ line' = 0 /\ line > 0
          /\ input' = input /\ table' = table /\ ~Typing
      BY <1>2 DEF CloseTarget, CloseInto, Reading, Typing
    <2>2. PICK old : /\ old = tree.targets[Len(tree.targets)] /\ IsTarget(old)
                     /\ \A k \in DOMAIN old.values : ValueKnown(old.values[k])
      BY <2>1, LastTarget
    <2>3. PICK p : p = [old EXCEPT !.name = local.name, !.arch = local.arch,
                                   !.board = local.board, !.level = local.level]
      OBVIOUS
    <2>4. p = [name |-> local.name, arch |-> local.arch, board |-> local.board, level |-> local.level,
               values |-> old.values]
      BY <2>2, <2>3 DEF IsTarget
    <2>5. IsTarget(p) /\ \A k \in DOMAIN p.values : ValueKnown(p.values[k])
      BY <2>2, <2>4 DEF IsTarget
    <2>6. tree' = [tree EXCEPT !.targets[Len(tree.targets)] = p]
      BY <1>2, <2>2, <2>3 DEF CloseInto
    <2>7. /\ ProjectInv' /\ tree'.options = tree.options /\ tree'.selections = tree.selections
          /\ tree'.profiles = tree.profiles /\ tree'.imports = tree.imports
      BY <2>1, <2>5, <2>6, TargetReplaced
    <2> QED BY <2>1, <2>7, CloseKeeps DEF Follows
  <1> QED BY <1>1, <1>2, Zenon DEF CloseTarget

LEMMA LoadInitInv == LoadInit => LoadInv
  <1> SUFFICES ASSUME LoadInit PROVE LoadInv
    OBVIOUS
  <1>1. IsInput(input)
    BY InputsAssumption, Zenon DEF LoadInit
  <1>2. tree = EmptyProject /\ stage = "root" /\ file = 1 /\ line = 0
    BY DEF LoadInit
  <1>3. ~Typing
    BY <1>2 DEF Typing
  <1>4. ProjectInv /\ DefaultsAccepted
    BY <1>1, <1>2, <1>3, EmptyProjectInv
  <1>5. PartsInOrder
    BY <1>2 DEF PartsInOrder, Early, Late, AfterLoad, EmptyProject
  <1>6. ReadingInto
    BY <1>2 DEF ReadingInto, Follows
  <1> QED BY <1>4, <1>5, <1>6 DEF LoadInv

LEMMA LoadNextKeeps ==
  ASSUME LoadInv, LoadNext
  PROVE  LoadInv'
  BY FindConfigRootKeeps, OpenKeeps, EndPartKeeps, ProjectLineKeeps, CloseProjectKeeps,
     OptionTableKeeps, OptionLineKeeps, CloseOptionsKeeps, ValidateOptionKeeps, ValidateAliasesKeeps,
     SelectionTableKeeps, SelectionLineKeeps, CloseSelectionKeeps, MemberTableKeeps,
     ProfileLineKeeps, CloseProfileKeeps, TargetLineKeeps, CloseTargetKeeps, ValidateLinksKeeps,
     Zenon DEF LoadNext

-----------------------------------------------------------------------------
\* Version 1 projects: how far the resolver has come.

BeforeChain == Early \cup {"selections", "profiles", "targets", "links", "loaded", "edges",
                           "cycles", "lint", "seed"}
Layering == {"bases", "target", "profile", "user", "check", "resolved"}

\* The chain consists of profiles of the project.
ChainInv ==
    /\ turn \in Nat \ {0} /\ pos \in Nat \ {0}
    /\ IsList(chain)
    /\ \A i \in DOMAIN chain : \E j \in DOMAIN tree.profiles : chain[i] = tree.profiles[j]
    /\ stage \in BeforeChain => chain = <<>>
    /\ stage \in {"chain", "bases"} => chain # <<>>
    /\ stage = "bases" => turn \in 1..Len(chain)

\* The search: frames are a path of nodes being visited, a node that was left has
\* nothing but such nodes behind it, and those nodes have no cycle.
EdgesKnown ==
    /\ IsList(edges)
    /\ \A k \in DOMAIN edges : edges[k].from \in OptionIds /\ edges[k].to \in OptionIds
    /\ stage \in Early \cup {"selections", "profiles", "targets", "links", "loaded"} =>
          edges = <<>>
    /\ stage \in BeforeChain \ {"cycles"} => frames = <<>>

Leads(j) == edges[j].kind # "conflicts"
Goes(x, y) == \E k \in DOMAIN edges : Leads(k) /\ edges[k].from = x /\ edges[k].to = y
Left == {id \in OptionIds : colors[id] = 2}
FramesOnPath ==
    /\ colors \in [OptionIds -> {0, 1, 2}]
    /\ IsList(frames)
    /\ \A i \in DOMAIN frames :
          /\ frames[i] = [node |-> frames[i].node, edge |-> frames[i].edge]
          /\ frames[i].node \in OptionIds /\ frames[i].edge \in Nat \ {0}
          /\ colors[frames[i].node] = 1
    /\ \A id \in OptionIds : colors[id] = 1 => \E i \in DOMAIN frames : frames[i].node = id
    /\ \A i, j \in DOMAIN frames : frames[i].node = frames[j].node => i = j
    /\ \A i \in DOMAIN frames : i + 1 \in DOMAIN frames =>
          Goes(frames[i].node, frames[i + 1].node)
FramesLooked ==
    \A i \in DOMAIN frames : \A j \in DOMAIN edges :
        j < frames[i].edge /\ Leads(j) /\ edges[j].from = frames[i].node =>
            \/ colors[edges[j].to] = 2
            \/ i + 1 \in DOMAIN frames /\ edges[j].to = frames[i + 1].node
LeftIsClosed ==
    \A j \in DOMAIN edges : Leads(j) /\ edges[j].from \in Left => edges[j].to \in Left
Ends(S) == \E x \in S : \A y \in S : ~Goes(x, y)
LeftIsAcyclic == \A S \in SUBSET Left : S # {} => Ends(S)
RootsSeen == \A i \in DOMAIN Options : i < turn => colors[Options[i].id] # 0
SearchInv ==
    stage = "cycles" =>
        FramesOnPath /\ FramesLooked /\ LeftIsClosed /\ LeftIsAcyclic /\ RootsSeen

\* The config: layers from the k-th on down are in it, of the k-th the values
\* before p.
DefaultOf(id) == Slot(FindOption(id).default, "default")
GivenBefore(values, p, id) ==
    {i \in 1..(p - 1) : i \in DOMAIN values /\ values[i].id = id}
LastGiven(values, p, id) ==
    values[CHOOSE i \in GivenBefore(values, p, id) : \A j \in GivenBefore(values, p, id) : j <= i]
GivingBelow(k, id) == {i \in DOMAIN Layers : k < i /\ Gives(Layers[i].values, id)}
FromBelow(k, id) ==
    LET layer == Layers[First(GivingBelow(k, id))]
    IN  IF GivingBelow(k, id) = {} THEN DefaultOf(id)
        ELSE Slot(Given(layer.values, id).value, layer.source)
Content(k, p, id) ==
    IF k \in DOMAIN Layers /\ GivenBefore(Layers[k].values, p, id) # {}
    THEN Slot(LastGiven(Layers[k].values, p, id).value, Layers[k].source)
    ELSE FromBelow(k, id)

First2 == IF chain = <<>> THEN 1 ELSE 2
LayerNow ==
    CASE stage = "bases" -> turn + 1 + Len(TargetLayers)
      [] stage = "target" -> First2 + Len(TargetLayers)
      [] stage = "profile" -> First2
      [] stage = "user" -> 1
      [] OTHER -> 0
Idle ==
    \/ stage = "bases" /\ turn = 1
    \/ stage = "target" /\ RightTarget = Null
    \/ stage = "profile" /\ chain = <<>>
    \/ stage \in {"check", "resolved"}

SeededIds == {Options[i].id : i \in {j \in DOMAIN Options : j < turn}}
ConfigInv ==
    /\ stage \in BeforeChain \ {"seed"} => resolved = <<>>
    /\ stage = "seed" => resolved = [id \in SeededIds |-> DefaultOf(id)]
    /\ stage = "chain" => resolved = [id \in OptionIds |-> DefaultOf(id)]
    /\ stage \in Layering => resolved = [id \in OptionIds |-> Content(LayerNow, pos, id)]
    /\ Idle => pos = 1
    /\ \A id \in DOMAIN resolved : IsValue(resolved[id].value)

CheckedInv ==
    stage \in {"check", "resolved"} =>
        \A i \in DOMAIN Options : stage = "resolved" \/ i < turn =>
            \A k \in DOMAIN Options[i].deps : ~Broken(resolved, Options[i], Options[i].deps[k])

NoErrorYet == stage # "failed" => error = NoError
ResolveInv ==
    LoadInv /\ ChainInv /\ EdgesKnown /\ SearchInv /\ ConfigInv /\ CheckedInv /\ NoErrorYet

-----------------------------------------------------------------------------
\* The steps of the resolver.

Reads == Early \cup {"selections", "profiles", "targets", "links"}
Refusals == {"unknown resolved option", "invalid resolved value", "unknown base profile",
             "unknown target", "dependency not satisfied", "conflict active", "dependency cycle"}

\* The resolver is at work only after the load, and its messages are its own.
LEMMA LoadStages ==
  ASSUME LoadNext
  PROVE  /\ stage \in Reads
         /\ \/ stage' \in Reads \cup {"loaded"} /\ error' = error
            \/ stage' = "failed" /\ error'.what \notin Refusals
  <1> DEFINE Goal == /\ stage \in Reads
                     /\ \/ stage' \in Reads \cup {"loaded"} /\ error' = error
                        \/ stage' = "failed" /\ error'.what \notin Refusals
  <1> USE DEF Reads, Early
  <1>1. ASSUME NEW m, m \notin Refusals, Fail(m), stage \in Reads PROVE Goal
    BY <1>1 DEF Fail
  <1>2. ASSUME stage' = stage, error' = error, stage \in Reads PROVE Goal
    BY <1>2
  <1>3. CASE FindConfigRoot
    BY <1>3 DEF FindConfigRoot
  <1>4. CASE Open
    <2>1. stage \in Reads
      BY <1>4 DEF Open, Follows
    <2>2. Fail("parse error") \/ (stage' = stage /\ error' = error)
      BY <1>4 DEF Open
    <2> QED BY <1>1, <1>2, <2>1, <2>2 DEF Refusals
  <1>5. CASE EndPart
    BY <1>5 DEF EndPart, Follows
  <1>6. CASE ProjectLine
    <2>1. stage \in Reads
      BY <1>6 DEF ProjectLine, Reading
    <2>2. \/ Fail("expected project table") \/ Fail("invalid project field")
          \/ stage' = stage /\ error' = error
      BY <1>6 DEF ProjectLine, NextLine
    <2> QED BY <1>1, <1>2, <2>1, <2>2 DEF Refusals
  <1>7. CASE CloseProject
    <2>1. stage \in Reads
      BY <1>7 DEF CloseProject, Reading
    <2>2. \/ Fail("project name and schema_version are required")
          \/ stage' = stage /\ error' = error
      BY <1>7 DEF CloseProject, CloseInto
    <2> QED BY <1>1, <1>2, <2>1, <2>2 DEF Refusals
  <1>8. CASE OptionTable
    <2>1. stage \in Reads
      BY <1>8 DEF OptionTable, Reading
    <2>2. \/ Fail("option without type or with an invalid default")
          \/ Fail("invalid option id") \/ Fail("duplicate option id")
          \/ stage' = stage /\ error' = error
      BY <1>8 DEF OptionTable, NextLine
    <2> QED BY <1>1, <1>2, <2>1, <2>2 DEF Refusals
  <1>9. CASE OptionLine
    <2>1. stage \in Reads
      BY <1>9 DEF OptionLine, Reading
    <2>2. \/ Fail("expected option table") \/ Fail("invalid option field")
          \/ stage' = stage /\ error' = error
      BY <1>9 DEF OptionLine, NextLine
    <2> QED BY <1>1, <1>2, <2>1, <2>2 DEF Refusals
  <1>10. CASE CloseOptions
    <2>1. stage \in Reads
      BY <1>10 DEF CloseOptions, Reading
    <2>2. \/ Fail("option without type or with an invalid default")
          \/ stage' = stage /\ error' = error
      BY <1>10 DEF CloseOptions, CloseInto
    <2> QED BY <1>1, <1>2, <2>1, <2>2 DEF Refusals
  <1>11. CASE ValidateOption
    <2>1. stage \in Reads
      BY <1>11 DEF ValidateOption
    <2>2. Fail("invalid option metadata") \/ (stage' = stage /\ error' = error)
      BY <1>11 DEF ValidateOption
    <2> QED BY <1>1, <1>2, <2>1, <2>2 DEF Refusals
  <1>12. CASE ValidateAliases
    <2>1. stage \in Reads
      BY <1>12 DEF ValidateAliases
    <2>2. Fail("invalid deprecated alias") \/ (stage' = "selections" /\ error' = error)
      BY <1>12 DEF ValidateAliases
    <2> QED BY <1>1, <2>1, <2>2 DEF Refusals
  <1>13. CASE SelectionTable
    <2>1. stage \in Reads
      BY <1>13 DEF SelectionTable, Reading
    <2>2. \/ Fail("unknown, invalid or duplicate selection section")
          \/ stage' = stage /\ error' = error
      BY <1>13 DEF SelectionTable, NextLine
    <2> QED BY <1>1, <1>2, <2>1, <2>2 DEF Refusals
  <1>14. CASE SelectionLine
    <2>1. stage \in Reads
      BY <1>14 DEF SelectionLine, Reading
    <2>2. Fail("invalid selection field") \/ (stage' = stage /\ error' = error)
      BY <1>14 DEF SelectionLine, NextLine
    <2> QED BY <1>1, <1>2, <2>1, <2>2 DEF Refusals
  <1>15. CASE CloseSelection
    <2>1. stage \in Reads
      BY <1>15 DEF CloseSelection, Reading
    <2>2. Fail("incomplete selection template") \/ (stage' = stage /\ error' = error)
      BY <1>15 DEF CloseSelection, CloseInto
    <2> QED BY <1>1, <1>2, <2>1, <2>2 DEF Refusals
  <1>16. ASSUME NEW part \in {"profiles", "targets"}, NEW tables, MemberTable(part, tables)
         PROVE  Goal
    <2>1. stage \in Reads
      BY <1>16 DEF MemberTable, Reading
    <2>2. Fail("unknown table") \/ (stage' = stage /\ error' = error)
      BY <1>16 DEF MemberTable, NextLine
    <2> QED BY <1>1, <1>2, <2>1, <2>2 DEF Refusals
  <1>17. ASSUME NEW part \in {"profiles", "targets"}, NEW ok, NEW p, MemberLine(part, ok, p)
         PROVE  Goal
    <2>1. stage \in Reads
      BY <1>17 DEF MemberLine, Reading
    <2>2. Fail("invalid field or value") \/ (stage' = stage /\ error' = error)
      BY <1>17 DEF MemberLine, NextLine, AppendValue
    <2> QED BY <1>1, <1>2, <2>1, <2>2 DEF Refusals
  <1>18. CASE CloseProfile
    <2>1. stage \in Reads
      BY <1>18 DEF CloseProfile, Reading
    <2>2. Fail("profile name missing or duplicate") \/ (stage' = stage /\ error' = error)
      BY <1>18 DEF CloseProfile, CloseInto
    <2> QED BY <1>1, <1>2, <2>1, <2>2 DEF Refusals
  <1>19. CASE CloseTarget
    <2>1. stage \in Reads
      BY <1>19 DEF CloseTarget, Reading
    <2>2. Fail("target name missing or duplicate") \/ (stage' = stage /\ error' = error)
      BY <1>19 DEF CloseTarget, CloseInto
    <2> QED BY <1>1, <1>2, <2>1, <2>2 DEF Refusals
  <1>20. CASE ValidateLinks
    <2>1. stage \in Reads
      BY <1>20 DEF ValidateLinks
    <2>2. Fail("unknown base profile or target") \/ (stage' = "loaded" /\ error' = error)
      BY <1>20 DEF ValidateLinks
    <2> QED BY <1>1, <2>1, <2>2 DEF Refusals
  <1>21. CASE ProfileTable \/ TargetTable
    BY <1>16, <1>21 DEF ProfileTable, TargetTable
  <1>22. CASE ProfileLine \/ TargetLine
    BY <1>17, <1>22, Zenon DEF ProfileLine, TargetLine
  <1> HIDE DEF Goal
  <1> QED BY <1>3, <1>4, <1>5, <1>6, <1>7, <1>8, <1>9, <1>10, <1>11, <1>12, <1>13, <1>14,
             <1>15, <1>18, <1>19, <1>20, <1>21, <1>22, Zenon DEF LoadNext, Goal

\* Nothing is loaded any more.
SameLoad == UNCHANGED <<input, file, line, table, tree>>

LEMMA LoadSame ==
  ASSUME LoadInv, SameLoad, stage \in AfterLoad, stage' \in AfterLoad \cup {"failed"}
  PROVE  LoadInv'
  <1>1. tree' = tree /\ input' = input /\ file' = file /\ line' = line /\ table' = table
    BY DEF SameLoad
  <1>2. ~Typing /\ ~Typing'
    BY DEF Typing, AfterLoad
  <1>3. ProjectInv'
    BY <1>1, SameProject DEF LoadInv, ProjectInv
  <1>4. DefaultsAccepted' /\ (AliasesOk' <=> AliasesOk)
    BY <1>1, <1>2, SameOptions DEF LoadInv
  <1>5. PartsInOrder'
    <2>1. LinksOk' <=> LinksOk
      BY <1>1 DEF LinksOk, LinkOk, Names
    <2>2. AliasesOk /\ LinksOk
      BY DEF LoadInv, PartsInOrder, Late
    <2>3. stage' \in Late \cup {"failed"} /\ stage' \notin Early
              /\ stage' \notin {"selections", "profiles"}
      BY DEF Late, AfterLoad, Early
    <2> QED BY <1>4, <2>1, <2>2, <2>3 DEF PartsInOrder
  <1>6. ReadingInto'
    BY <1>1 DEF LoadInv, ReadingInto, Follows, AfterLoad
  <1> QED BY <1>3, <1>4, <1>5, <1>6 DEF LoadInv

\* The loader leaves the variables of the resolver alone.
LEMMA LoadLeaves ==
  ASSUME ResolveInv, Load
  PROVE  ResolveInv'
  <1>1. LoadNext /\ UNCHANGED <<edges, colors, frames, chain, resolved, turn, pos>>
    BY DEF Load, resolveVars
  <1>2. LoadInv'
    BY <1>1, LoadNextKeeps DEF ResolveInv
  <1>3. /\ stage \in Reads
        /\ \/ stage' \in Reads \cup {"loaded"} /\ error' = error
           \/ stage' = "failed"
    BY <1>1, LoadStages
  <1>4. chain = <<>> /\ edges = <<>> /\ frames = <<>> /\ resolved = <<>>
    BY <1>3 DEF ResolveInv, ChainInv, EdgesKnown, ConfigInv, Reads, BeforeChain, Early
  <1>5. ChainInv'
    BY <1>1, <1>3, <1>4, ListEmpty DEF ResolveInv, ChainInv, Reads, BeforeChain, Early
  <1>6. EdgesKnown'
    BY <1>1, <1>4, ListEmpty DEF EdgesKnown
  <1>7. SearchInv' /\ CheckedInv'
    BY <1>3 DEF SearchInv, CheckedInv, Reads, Early
  <1>8. ConfigInv'
    <2>1. resolved' = <<>>
      BY <1>1, <1>4
    <2>2. DOMAIN resolved' = {}
      BY <2>1
    <2>3. stage' \notin Layering \cup {"seed", "chain"}
      BY <1>3 DEF Reads, Early, Layering
    <2>4. ~Idle'
      BY <2>3 DEF Idle, Layering
    <2> QED BY <2>1, <2>2, <2>3, <2>4 DEF ConfigInv
  <1>9. NoErrorYet'
    BY <1>3 DEF ResolveInv, NoErrorYet, Reads, Early
  <1> QED BY <1>2, <1>5, <1>6, <1>7, <1>8, <1>9 DEF ResolveInv

Resolving ==
    \/ Start \/ AddEdges \/ EdgesBuilt
    \/ VisitRoot \/ FollowEdge \/ LeaveNode \/ NoCycle \/ Lint
    \/ Seed \/ Seeded \/ PushBase \/ ChainBuilt
    \/ ApplyBase \/ NextBase \/ BasesApplied
    \/ ApplyTarget \/ TargetApplied \/ ApplyProfile \/ ProfileApplied
    \/ ApplyUser \/ UserApplied \/ CheckOption \/ Publish
Rejected == \E m : Reject(m)

LEMMA RejectedFacts ==
  ASSUME Rejected
  PROVE  SameLoad /\ stage' = "failed" /\ resolved' = <<>> /\ error'.at = stage
         /\ UNCHANGED <<edges, colors, frames, chain, turn, pos>>
  BY DEF Rejected, Reject, SameLoad

\* Applying a value either goes on or is refused.
LEMMA ApplyValueFacts ==
  ASSUME NEW values, NEW source, ApplyValue(values, source)
  PROVE  \/ Rejected
         \/ /\ pos <= Len(values)
            /\ values[pos].id \in OptionIds /\ Accepts(FindOption(values[pos].id), values[pos].value)
            /\ resolved' = [resolved EXCEPT ![values[pos].id] = Slot(values[pos].value, source)]
            /\ pos' = pos + 1 /\ stage' = stage /\ error' = error /\ SameLoad
            /\ UNCHANGED <<edges, colors, frames, chain, turn>>
  <1>1. \/ Reject("unknown resolved option") \/ Reject("invalid resolved value")
        \/ /\ pos <= Len(values)
           /\ values[pos].id \in OptionIds /\ Accepts(FindOption(values[pos].id), values[pos].value)
           /\ resolved' = [resolved EXCEPT ![values[pos].id] = Slot(values[pos].value, source)]
           /\ pos' = pos + 1 /\ Stay
           /\ UNCHANGED <<edges, colors, frames, chain, turn>>
    BY Zenon DEF ApplyValue
  <1>2. Stay => stage' = stage /\ error' = error /\ SameLoad
    BY DEF Stay, loadVars, SameLoad
  <1> QED BY <1>1, <1>2, Zenon DEF Rejected

\* The course of the resolver, and that it never loads.
LEMMA Course ==
  ASSUME Resolving
  PROVE  /\ SameLoad /\ stage \in AfterLoad \ {"resolved"}
         /\ \/ Rejected
            \/ /\ error' = error
               /\ \/ stage' = stage /\ stage # "loaded"
                  \/ stage = "loaded" /\ stage' = "edges"
                  \/ stage = "edges" /\ stage' = "cycles" /\ EdgesBuilt
                  \/ stage = "cycles" /\ stage' = "lint" /\ NoCycle
                  \/ stage = "lint" /\ stage' = "seed"
                  \/ stage = "seed" /\ stage' \in {"chain", "target"} /\ Seeded
                  \/ stage = "chain" /\ stage' = "bases" /\ ChainBuilt
                  \/ stage = "bases" /\ stage' = "target"
                  \/ stage = "target" /\ stage' = "profile"
                  \/ stage = "profile" /\ stage' = "user"
                  \/ stage = "user" /\ stage' = "check"
                  \/ stage = "check" /\ stage' = "resolved"
  <1> DEFINE Goal ==
         /\ SameLoad /\ stage \in AfterLoad \ {"resolved"}
         /\ \/ Rejected
            \/ /\ error' = error
               /\ \/ stage' = stage /\ stage # "loaded"
                  \/ stage = "loaded" /\ stage' = "edges"
                  \/ stage = "edges" /\ stage' = "cycles" /\ EdgesBuilt
                  \/ stage = "cycles" /\ stage' = "lint" /\ NoCycle
                  \/ stage = "lint" /\ stage' = "seed"
                  \/ stage = "seed" /\ stage' \in {"chain", "target"} /\ Seeded
                  \/ stage = "chain" /\ stage' = "bases" /\ ChainBuilt
                  \/ stage = "bases" /\ stage' = "target"
                  \/ stage = "target" /\ stage' = "profile"
                  \/ stage = "profile" /\ stage' = "user"
                  \/ stage = "user" /\ stage' = "check"
                  \/ stage = "check" /\ stage' = "resolved"
  <1>1. ASSUME stage \in AfterLoad \ {"resolved"}, Rejected PROVE Goal
    BY <1>1, RejectedFacts
  <1>2. ASSUME stage \in AfterLoad \ {"resolved", "loaded"}, Stay PROVE Goal
    BY <1>2 DEF Stay, loadVars, SameLoad
  <1>3. ASSUME NEW s, Goto(s)
        PROVE  SameLoad /\ stage' = s /\ error' = error
    BY <1>3 DEF Goto, SameLoad
  <1>4. ASSUME NEW values, NEW source, ApplyValue(values, source), stage \in AfterLoad \ {"resolved", "loaded"}
        PROVE  Goal
    BY <1>4, <1>1, ApplyValueFacts
  <1>5. CASE Start
    BY <1>3, <1>5 DEF Start, AfterLoad
  <1>6. CASE EdgesBuilt
    <2>1. stage = "edges" /\ Goto("cycles")
      BY <1>6, Zenon DEF EdgesBuilt
    <2> QED BY <1>3, <1>6, <2>1 DEF AfterLoad
  <1>7. CASE NoCycle
    <2>1. stage = "cycles" /\ Goto("lint")
      BY <1>7, Zenon DEF NoCycle
    <2> QED BY <1>3, <1>7, <2>1 DEF AfterLoad
  <1>8. CASE Lint
    <2>1. stage = "lint" /\ (Goto("seed") \/ Rejected)
      BY <1>8, Zenon DEF Lint, Rejected
    <2> QED BY <1>1, <1>3, <2>1 DEF AfterLoad
  <1>9. CASE Seeded
    <2>1. stage = "seed" /\ (Goto("target") \/ Goto("chain") \/ Rejected)
      BY <1>9, Zenon DEF Seeded, Rejected
    <2> QED BY <1>1, <1>3, <1>9, <2>1 DEF AfterLoad
  <1>10. CASE ChainBuilt
    <2>1. stage = "chain" /\ stage' = "bases" /\ error' = error /\ SameLoad
      BY <1>10 DEF ChainBuilt, SameLoad
    <2> QED BY <1>10, <2>1 DEF AfterLoad
  <1>11. CASE BasesApplied
    <2>1. stage = "bases" /\ Goto("target")
      BY <1>11, Zenon DEF BasesApplied
    <2> QED BY <1>3, <2>1 DEF AfterLoad
  <1>12. CASE TargetApplied
    <2>1. stage = "target" /\ Goto("profile")
      BY <1>12, Zenon DEF TargetApplied
    <2> QED BY <1>3, <2>1 DEF AfterLoad
  <1>13. CASE ProfileApplied
    <2>1. stage = "profile" /\ Goto("user")
      BY <1>13, Zenon DEF ProfileApplied
    <2> QED BY <1>3, <2>1 DEF AfterLoad
  <1>14. CASE UserApplied
    <2>1. stage = "user" /\ Goto("check")
      BY <1>14, Zenon DEF UserApplied
    <2> QED BY <1>3, <2>1 DEF AfterLoad
  <1>15. CASE Publish
    <2>1. stage = "check" /\ Goto("resolved")
      BY <1>15, Zenon DEF Publish
    <2> QED BY <1>3, <2>1 DEF AfterLoad
  <1>16. CASE AddEdges \/ VisitRoot \/ FollowEdge \/ LeaveNode
    <2>1. stage \in {"edges", "cycles"}
      BY <1>16, Zenon DEF AddEdges, VisitRoot, FollowEdge, LeaveNode, Searching
    <2>2. Stay \/ Rejected
      BY <1>16, Zenon DEF AddEdges, VisitRoot, FollowEdge, LeaveNode, Rejected
    <2> QED BY <1>1, <1>2, <2>1, <2>2 DEF AfterLoad
  <1>17. CASE Seed \/ PushBase \/ NextBase \/ CheckOption
    <2>1. stage \in {"seed", "chain", "bases", "check"}
      BY <1>17, Zenon DEF Seed, PushBase, NextBase, CheckOption
    <2>2. Stay \/ Rejected
      BY <1>17, Zenon DEF Seed, PushBase, NextBase, CheckOption, Rejected
    <2> QED BY <1>1, <1>2, <2>1, <2>2 DEF AfterLoad
  <1>18. CASE ApplyBase \/ ApplyProfile \/ ApplyUser
    <2>1. stage \in {"bases", "profile", "user"}
      BY <1>18, Zenon DEF ApplyBase, ApplyProfile, ApplyUser
    <2>2. \E values, source : ApplyValue(values, source)
      BY <1>18, Zenon DEF ApplyBase, ApplyProfile, ApplyUser
    <2> QED BY <1>4, <2>1, <2>2, Zenon DEF AfterLoad
  <1>19. CASE ApplyTarget
    <2>1. stage = "target" /\ (Rejected \/ \E values, source : ApplyValue(values, source))
      BY <1>19, Zenon DEF ApplyTarget, Rejected
    <2>2. stage \in AfterLoad \ {"resolved", "loaded"}
      BY <2>1 DEF AfterLoad
    <2> QED BY <1>1, <1>4, <2>1, <2>2, Zenon
  <1> HIDE DEF Goal
  <1> QED BY <1>5, <1>6, <1>7, <1>8, <1>9, <1>10, <1>11, <1>12, <1>13, <1>14, <1>15, <1>16,
             <1>17, <1>18, <1>19, Zenon DEF Resolving, Goal

-----------------------------------------------------------------------------
\* The chain of profiles.

\* A name of a list of members is the name of the member that is found.
LEMMA FindFacts ==
  ASSUME NEW list, IsList(list), NEW name \in Names(list)
  PROVE  \E j \in DOMAIN list : Find(list, name) = list[j] /\ list[j].name = name
  <1> DEFINE P == {i \in DOMAIN list : list[i].name = name}
  <1>1. P \in SUBSET Nat /\ P # {}
    BY ListFacts DEF Names
  <1>2. First(P) \in P
    <2> HIDE DEF P
    <2> QED BY <1>1, FirstFacts
  <1>3. Find(list, name) = list[First(P)]
    BY DEF Find
  <1> HIDE DEF First
  <1> QED BY <1>2, <1>3

LEMMA ChainFacts ==
  ASSUME LoadInv, ChainInv
  PROVE  /\ Len(chain) \in Nat /\ DOMAIN chain = 1..Len(chain) /\ (chain = <<>> <=> Len(chain) = 0)
         /\ \A i \in 1..Len(chain) : IsProfile(chain[i]) /\ IsList(chain[i].values)
         /\ \A i \in 1..Len(chain) : \A k \in DOMAIN chain[i].values : ValueKnown(chain[i].values[k])
         /\ stage \in AfterLoad => \A i \in 1..Len(chain) : LinkOk(chain[i])
  <1>1. Len(chain) \in Nat /\ DOMAIN chain = 1..Len(chain) /\ (chain = <<>> <=> Len(chain) = 0)
    BY ListFacts DEF ChainInv
  <1>2. \A i \in 1..Len(chain) : \E j \in DOMAIN tree.profiles : chain[i] = tree.profiles[j]
    BY <1>1 DEF ChainInv
  <1>3. \A j \in DOMAIN tree.profiles : IsProfile(tree.profiles[j]) /\ IsList(tree.profiles[j].values)
    BY DEF LoadInv, ProjectInv, ProjectShape, IsProfile
  <1>4. \A j \in DOMAIN tree.profiles : \A k \in DOMAIN tree.profiles[j].values : ValueKnown(tree.profiles[j].values[k])
    BY DEF LoadInv, ProjectInv, ValuesKnown
  <1>5. stage \in AfterLoad => \A j \in DOMAIN tree.profiles : LinkOk(tree.profiles[j])
    BY DEF LoadInv, PartsInOrder, LinksOk
  <1>6. ASSUME NEW i \in 1..Len(chain)
        PROVE  /\ IsProfile(chain[i]) /\ IsList(chain[i].values)
               /\ \A k \in DOMAIN chain[i].values : ValueKnown(chain[i].values[k])
               /\ stage \in AfterLoad => LinkOk(chain[i])
    <2>1. PICK j \in DOMAIN tree.profiles : chain[i] = tree.profiles[j]
      BY <1>2
    <2> QED BY <1>3, <1>4, <1>5, <2>1
  <1> QED BY <1>1, <1>6

LEMMA ChainSame ==
  ASSUME ChainInv, chain' = chain, tree' = tree, turn' \in Nat \ {0}, pos' \in Nat \ {0},
         stage' \in BeforeChain => stage \in BeforeChain,
         stage' \in {"chain", "bases"} => stage \in {"chain", "bases"},
         stage' = "bases" => turn' \in 1..Len(chain)
  PROVE  ChainInv'
  BY DEF ChainInv

LEMMA ChainKeeps ==
  ASSUME ResolveInv, Resolving
  PROVE  ChainInv'
  <1> USE DEF AfterLoad, BeforeChain, Early
  <1>1. ChainInv /\ LoadInv /\ turn \in Nat \ {0} /\ pos \in Nat \ {0}
    BY DEF ResolveInv, ChainInv
  <1>2. tree' = tree /\ stage \in AfterLoad \ {"resolved"}
    BY Course DEF SameLoad
  <1>3. CASE Rejected
    BY <1>1, <1>2, <1>3, RejectedFacts, ChainSame
  <1>4. stage' \in BeforeChain => stage \in BeforeChain
    BY Course, RejectedFacts
  <1>5. ASSUME Stay, UNCHANGED chain, turn' \in {turn, turn + 1}, pos' = pos, stage # "bases"
        PROVE  ChainInv'
    <2>1. stage' = stage
      BY <1>5 DEF Stay, loadVars
    <2> QED BY <1>1, <1>2, <1>4, <1>5, <2>1, ChainSame
  <1>6. CASE AddEdges \/ VisitRoot \/ FollowEdge \/ LeaveNode \/ Seed \/ CheckOption
    <2>1. stage \in {"edges", "cycles", "seed", "check"}
      BY <1>6, Zenon DEF AddEdges, VisitRoot, FollowEdge, LeaveNode, Seed, CheckOption, Searching
    <2>2. Rejected \/ (Stay /\ UNCHANGED chain /\ turn' \in {turn, turn + 1} /\ pos' = pos)
      <3>1. CASE AddEdges
        BY <3>1 DEF AddEdges, Rejected
      <3>2. CASE VisitRoot
        BY <3>2 DEF VisitRoot
      <3>3. CASE FollowEdge
        BY <3>3 DEF FollowEdge, Rejected
      <3>4. CASE LeaveNode
        BY <3>4 DEF LeaveNode
      <3>5. CASE Seed
        BY <3>5 DEF Seed, Rejected
      <3>6. CASE CheckOption
        BY <3>6 DEF CheckOption, Rejected
      <3> QED BY <1>6, <3>1, <3>2, <3>3, <3>4, <3>5, <3>6
    <2> QED BY <1>3, <1>5, <2>1, <2>2
  <1>7. ASSUME NEW s, Goto(s), s \notin {"chain", "bases"}, UNCHANGED chain
        PROVE  ChainInv'
    <2>1. stage' = s /\ turn' = 1 /\ pos' = 1
      BY <1>7 DEF Goto
    <2> QED BY <1>1, <1>2, <1>4, <1>7, <2>1, ChainSame
  <1>8. CASE Start \/ EdgesBuilt \/ NoCycle \/ Lint \/ BasesApplied \/ TargetApplied
             \/ ProfileApplied \/ UserApplied \/ Publish
    <2>1. Rejected \/ (UNCHANGED chain /\ \E s \in {"edges", "cycles", "lint", "seed", "target", "profile", "user", "check", "resolved"} : Goto(s))
      <3>1. CASE Start
        BY <3>1 DEF Start
      <3>2. CASE EdgesBuilt
        BY <3>2 DEF EdgesBuilt
      <3>3. CASE NoCycle
        BY <3>3 DEF NoCycle
      <3>4. CASE Lint
        BY <3>4 DEF Lint, Rejected
      <3>5. CASE BasesApplied
        BY <3>5 DEF BasesApplied
      <3>6. CASE TargetApplied
        BY <3>6 DEF TargetApplied
      <3>7. CASE ProfileApplied
        BY <3>7 DEF ProfileApplied
      <3>8. CASE UserApplied
        BY <3>8 DEF UserApplied
      <3>9. CASE Publish
        BY <3>9 DEF Publish
      <3> QED BY <1>8, <3>1, <3>2, <3>3, <3>4, <3>5, <3>6, <3>7, <3>8, <3>9
    <2> QED BY <1>3, <1>7, <2>1
  <1>9. ASSUME NEW values, NEW source, ApplyValue(values, source)
        PROVE  ChainInv'
    <2>1. CASE Rejected
      BY <1>3, <2>1
    <2>2. CASE pos' = pos + 1 /\ stage' = stage /\ chain' = chain /\ turn' = turn
      <3>1. stage = "bases" => turn \in 1..Len(chain)
        BY <1>1 DEF ChainInv
      <3> QED BY <1>1, <1>2, <1>4, <2>2, <3>1, ChainSame
    <2> QED BY <1>9, <2>1, <2>2, ApplyValueFacts
  <1>10. CASE ApplyBase \/ ApplyProfile \/ ApplyUser \/ ApplyTarget
    <2>1. Rejected \/ \E values, source : ApplyValue(values, source)
      BY <1>10, Zenon DEF ApplyBase, ApplyProfile, ApplyUser, ApplyTarget, Rejected
    <2> QED BY <1>3, <1>9, <2>1, Zenon
  <1>11. CASE Seeded
    <2>1. \/ Rejected
          \/ Goto("target") /\ UNCHANGED chain
          \/ /\ Request.profile \in Names(tree.profiles)
             /\ chain' = <<Profile(Request.profile)>>
             /\ Goto("chain")
      BY <1>11 DEF Seeded, Rejected
    <2>2. CASE Goto("target") /\ UNCHANGED chain
      BY <1>7, <2>2
    <2>3. CASE /\ Request.profile \in Names(tree.profiles)
               /\ chain' = <<Profile(Request.profile)>>
               /\ Goto("chain")
      <3>1. PICK p : p = Profile(Request.profile)
        OBVIOUS
      <3>2. PICK j \in DOMAIN tree.profiles : p = tree.profiles[j]
        BY <1>1, <2>3, <3>1, FindFacts DEF Profile, LoadInv, ProjectInv, ProjectShape
      <3>3. chain' = <<p>> /\ IsList(<<p>>) /\ DOMAIN <<p>> = 1..1 /\ <<p>>[1] = p /\ <<p>> # <<>>
        <4>1. <<p>> \in Seq({p})
          OBVIOUS
        <4>2. IsList(<<p>>)
          BY <4>1, ListOf
        <4>3. chain' = <<p>>
          BY <2>3, <3>1
        <4> QED BY <4>2, <4>3
      <3>4. stage' = "chain" /\ turn' = 1 /\ pos' = 1
        BY <2>3 DEF Goto
      <3> QED BY <1>2, <3>2, <3>3, <3>4 DEF ChainInv
    <2> QED BY <1>3, <2>1, <2>2, <2>3
  <1>12. CASE PushBase
    <2>1. \/ Rejected
          \/ /\ Last(chain).base \in Names(tree.profiles)
             /\ chain' = Append(chain, Profile(Last(chain).base))
             /\ Stay /\ UNCHANGED <<turn, pos>> /\ stage = "chain"
      BY <1>12 DEF PushBase, Rejected
    <2>2. CASE /\ Last(chain).base \in Names(tree.profiles)
               /\ chain' = Append(chain, Profile(Last(chain).base))
               /\ Stay /\ UNCHANGED <<turn, pos>> /\ stage = "chain"
      <3>1. PICK p : p = Profile(Last(chain).base)
        OBVIOUS
      <3>2. PICK j \in DOMAIN tree.profiles : p = tree.profiles[j]
        BY <1>1, <2>2, <3>1, FindFacts DEF Profile, LoadInv, ProjectInv, ProjectShape
      <3>3. IsList(chain) /\ Len(chain) \in Nat /\ DOMAIN chain = 1..Len(chain)
        BY <1>1, ListFacts DEF ChainInv
      <3>4. PICK r : r = Append(chain, p)
        OBVIOUS
      <3>5. /\ IsList(r) /\ Len(r) = Len(chain) + 1 /\ DOMAIN r = 1..(Len(chain) + 1)
            /\ \A i \in 1..Len(chain) : r[i] = chain[i]
            /\ r[Len(chain) + 1] = p
        BY <3>3, <3>4, ListAppend
      <3>6. \A i \in DOMAIN r : \E k \in DOMAIN tree.profiles : r[i] = tree.profiles[k]
        <4> SUFFICES ASSUME NEW i \in DOMAIN r
                     PROVE  \E k \in DOMAIN tree.profiles : r[i] = tree.profiles[k]
          OBVIOUS
        <4>1. i \in 1..Len(chain) \/ i = Len(chain) + 1
          BY <3>3, <3>5
        <4> QED BY <1>1, <3>2, <3>3, <3>5, <4>1 DEF ChainInv
      <3>7. stage' = "chain" /\ r # <<>>
        BY <2>2, <3>3, <3>5, ListFacts DEF Stay, loadVars
      <3>8. chain' = r
        BY <2>2, <3>1, <3>4
      <3> QED BY <1>1, <1>2, <2>2, <3>5, <3>6, <3>7, <3>8 DEF ChainInv
    <2> QED BY <1>3, <2>1, <2>2
  <1>13. CASE ChainBuilt
    <2>1. stage = "chain" /\ stage' = "bases" /\ turn' = Len(chain) /\ pos' = 1 /\ chain' = chain
      BY <1>13 DEF ChainBuilt
    <2>2. Len(chain) \in Nat \ {0}
      BY <1>1, <2>1, ListFacts DEF ChainInv
    <2> QED BY <1>1, <1>2, <1>4, <2>1, <2>2, ChainSame
  <1>14. CASE NextBase
    <2>1. stage = "bases" /\ stage' = "bases" /\ turn > 1 /\ turn' = turn - 1 /\ pos' = 1 /\ chain' = chain
      BY <1>14 DEF NextBase, Stay, loadVars
    <2>2. turn \in 1..Len(chain) /\ Len(chain) \in Nat
      BY <1>1, <2>1, ListFacts DEF ChainInv
    <2> QED BY <1>1, <1>2, <1>4, <2>1, <2>2, ChainSame
  <1> QED BY <1>6, <1>8, <1>10, <1>11, <1>12, <1>13, <1>14, Zenon DEF Resolving

-----------------------------------------------------------------------------
\* The search for cycles.

\* What runs in each stage.
LEMMA Acting ==
  ASSUME Resolving
  PROVE  /\ stage = "loaded" => Start
         /\ stage = "edges" => AddEdges \/ EdgesBuilt
         /\ stage = "cycles" => VisitRoot \/ FollowEdge \/ LeaveNode \/ NoCycle
         /\ stage = "lint" => Lint
         /\ stage = "seed" => Seed \/ Seeded
         /\ stage = "chain" => PushBase \/ ChainBuilt
         /\ stage = "bases" => ApplyBase \/ NextBase \/ BasesApplied
         /\ stage = "target" => ApplyTarget \/ TargetApplied
         /\ stage = "profile" => ApplyProfile \/ ProfileApplied
         /\ stage = "user" => ApplyUser \/ UserApplied
         /\ stage = "check" => CheckOption \/ Publish
  <1>1. /\ Start => stage = "loaded"
        /\ AddEdges => stage = "edges"
        /\ EdgesBuilt => stage = "edges"
        /\ VisitRoot => stage = "cycles"
        /\ FollowEdge => stage = "cycles"
        /\ LeaveNode => stage = "cycles"
        /\ NoCycle => stage = "cycles"
        /\ Lint => stage = "lint"
    BY Zenon DEF Start, AddEdges, EdgesBuilt, VisitRoot, FollowEdge, LeaveNode, NoCycle, Lint, Searching
  <1>2. /\ Seed => stage = "seed"
        /\ Seeded => stage = "seed"
        /\ PushBase => stage = "chain"
        /\ ChainBuilt => stage = "chain"
        /\ ApplyBase => stage = "bases"
        /\ NextBase => stage = "bases"
        /\ BasesApplied => stage = "bases"
    BY Zenon DEF Seed, Seeded, PushBase, ChainBuilt, ApplyBase, NextBase, BasesApplied
  <1>3. /\ ApplyTarget => stage = "target"
        /\ TargetApplied => stage = "target"
        /\ ApplyProfile => stage = "profile"
        /\ ProfileApplied => stage = "profile"
        /\ ApplyUser => stage = "user"
        /\ UserApplied => stage = "user"
        /\ CheckOption => stage = "check"
        /\ Publish => stage = "check"
    BY Zenon DEF ApplyTarget, TargetApplied, ApplyProfile, ProfileApplied, ApplyUser, UserApplied,
       CheckOption, Publish
  <1> QED BY <1>1, <1>2, <1>3 DEF Resolving

LEMMA EdgesOfOption ==
  ASSUME ResolveInv, AddEdges, ~Rejected
  PROVE  LET es == EdgesOf(OptionAt(turn)) IN
         /\ edges' = edges \o es /\ IsList(es)
         /\ \A k \in DOMAIN es : es[k].from \in OptionIds /\ es[k].to \in OptionIds
  <1>1. ProjectShape /\ turn \in Nat \ {0} /\ turn <= Len(tree.options)
    BY DEF ResolveInv, LoadInv, ProjectInv, ChainInv, AddEdges, Options
  <1>2. turn \in DOMAIN tree.options
    BY <1>1, ListFacts DEF ProjectShape
  <1>3. PICK o, es : o = OptionAt(turn) /\ es = EdgesOf(o)
    OBVIOUS
  <1>4. o = tree.options[turn]
    BY <1>3 DEF OptionAt, Options
  <1>5. IsOption(o) /\ o.id \in OptionIds
    BY <1>1, <1>2, <1>4, OptionIdsFacts DEF ProjectShape
  <1>6. Len(o.deps) \in Nat /\ DOMAIN o.deps = 1..Len(o.deps)
    BY <1>5, ListFacts DEF IsOption
  <1>7. /\ DOMAIN es = DOMAIN o.deps
        /\ es = [i \in DOMAIN o.deps |-> es[i]]
        /\ \A k \in DOMAIN o.deps : es[k].from = o.id
    BY <1>3 DEF EdgesOf
  <1>8. IsList(es)
    BY <1>6, <1>7, ListMade
  <1>9. \A e \in ToSet(es) : e.to \in OptionIds \ {e.from}
    BY <1>3 DEF AddEdges, Rejected
  <1>10. \A k \in DOMAIN es : es[k] \in ToSet(es)
    BY <1>8, ListFacts
  <1>11. edges' = edges \o es
    BY <1>3 DEF AddEdges, Rejected
  <1> QED BY <1>3, <1>5, <1>7, <1>8, <1>9, <1>10, <1>11

LEMMA EdgesKeep ==
  ASSUME ResolveInv, Resolving
  PROVE  EdgesKnown'
  <1>1. EdgesKnown /\ ResolveInv
    BY DEF ResolveInv
  <1>2. OptionIds' = OptionIds /\ stage \in AfterLoad \ {"resolved"}
    BY Course, SameOptions DEF SameLoad
  <1>3. stage' \in AfterLoad \cup {"failed"} /\ stage' # "loaded"
    BY Course, RejectedFacts DEF AfterLoad
  <1>4. ASSUME edges' = edges, stage' \in {"loaded", "edges", "lint", "seed"} => frames' = <<>>
        PROVE  EdgesKnown'
    <2>1. /\ IsList(edges')
          /\ \A k \in DOMAIN edges' : edges'[k].from \in OptionIds' /\ edges'[k].to \in OptionIds'
      BY <1>1, <1>2, <1>4 DEF EdgesKnown
    <2>2. stage' \in BeforeChain \ {"cycles"} => stage' \in {"loaded", "edges", "lint", "seed"}
      BY <1>3 DEF AfterLoad, BeforeChain, Early
    <2>3. stage' \notin Early \cup {"selections", "profiles", "targets", "links", "loaded"}
      BY <1>3 DEF AfterLoad, Early
    <2> QED BY <1>4, <2>1, <2>2, <2>3 DEF EdgesKnown
  <1>5. CASE Rejected
    BY <1>4, <1>5, RejectedFacts
  <1>6. stage \in {"loaded", "edges", "lint", "seed"} => frames = <<>>
    BY <1>1 DEF EdgesKnown, BeforeChain
  <1>7. CASE ~Rejected /\ stage \in {"loaded", "lint", "seed"}
    <2>1. edges' = edges /\ frames' = frames
      <3>1. CASE Start
        BY <3>1 DEF Start
      <3>2. CASE Lint
        BY <1>7, <3>2 DEF Lint, Rejected
      <3>3. CASE Seed
        BY <1>7, <3>3 DEF Seed, Rejected
      <3>4. CASE Seeded
        BY <1>7, <3>4 DEF Seeded, Rejected
      <3> QED BY <1>7, <3>1, <3>2, <3>3, <3>4, Acting
    <2> QED BY <1>4, <1>6, <1>7, <2>1
  <1>8. CASE EdgesBuilt
    <2>1. edges' = edges /\ frames' = frames
      BY <1>8 DEF EdgesBuilt
    <2> QED BY <1>4, <1>6, <1>8, <2>1 DEF EdgesBuilt
  <1>9. CASE AddEdges /\ ~Rejected
    <2>1. PICK es : es = EdgesOf(OptionAt(turn))
      OBVIOUS
    <2>2. /\ edges' = edges \o es /\ IsList(es)
          /\ \A k \in DOMAIN es : es[k].from \in OptionIds /\ es[k].to \in OptionIds
      BY <1>1, <1>9, <2>1, EdgesOfOption
    <2>3. PICK m, n, all : m = Len(edges) /\ n = Len(es) /\ all = edges \o es
      OBVIOUS
    <2>4. IsList(edges) /\ m \in Nat /\ n \in Nat /\ DOMAIN edges = 1..m /\ DOMAIN es = 1..n
      BY <1>1, <2>2, <2>3, ListFacts DEF EdgesKnown
    <2>5. /\ IsList(all) /\ Len(all) = m + n
          /\ \A i \in 1..m : all[i] = edges[i]
          /\ \A i \in 1..n : all[m + i] = es[i]
      BY <2>2, <2>3, <2>4, ListConcat
    <2>6. DOMAIN all = 1..(m + n)
      BY <2>5, ListFacts
    <2>7. \A k \in DOMAIN all : all[k].from \in OptionIds /\ all[k].to \in OptionIds
      <3> SUFFICES ASSUME NEW k \in 1..(m + n)
                   PROVE  all[k].from \in OptionIds /\ all[k].to \in OptionIds
        BY <2>6
      <3>1. CASE k \in 1..m
        BY <1>1, <2>4, <2>5, <3>1 DEF EdgesKnown
      <3>2. CASE k \notin 1..m
        <4>1. k - m \in 1..n /\ m + (k - m) = k
          BY <2>4, <3>2
        <4> QED BY <2>2, <2>4, <2>5, <4>1
      <3> QED BY <3>1, <3>2
    <2>8. stage = "edges" /\ stage' = "edges" /\ frames' = frames
      BY <1>9 DEF AddEdges, Rejected, Stay, loadVars
    <2> QED BY <1>2, <1>6, <2>2, <2>3, <2>5, <2>7, <2>8 DEF EdgesKnown, Early
  <1>10. CASE ~Rejected /\ stage = "cycles"
    <2>1. edges' = edges
      <3>1. CASE VisitRoot
        BY <3>1 DEF VisitRoot
      <3>2. CASE FollowEdge
        BY <1>10, <3>2 DEF FollowEdge, Rejected
      <3>3. CASE LeaveNode
        BY <3>3 DEF LeaveNode
      <3>4. CASE NoCycle
        BY <3>4 DEF NoCycle
      <3> QED BY <1>10, <3>1, <3>2, <3>3, <3>4, Acting
    <2>2. stage' = "cycles" \/ (stage' = "lint" /\ NoCycle)
      BY <1>10, Course
    <2>3. NoCycle => frames' = <<>>
      BY DEF NoCycle
    <2> QED BY <1>4, <2>1, <2>2, <2>3
  <1>11. CASE ~Rejected /\ stage \in {"chain", "bases", "target", "profile", "user", "check"}
    <2>1. edges' = edges
      <3>1. CASE PushBase \/ ChainBuilt \/ NextBase \/ BasesApplied
        BY <1>11, <3>1 DEF PushBase, ChainBuilt, NextBase, BasesApplied, Rejected
      <3>2. ASSUME NEW values, NEW source, ApplyValue(values, source) PROVE edges' = edges
        BY <1>11, <3>2, ApplyValueFacts
      <3>3. CASE ApplyBase \/ ApplyProfile \/ ApplyUser \/ ApplyTarget
        <4>1. \E values, source : ApplyValue(values, source)
          BY <1>11, <3>3, Zenon DEF ApplyBase, ApplyProfile, ApplyUser, ApplyTarget, Rejected
        <4> QED BY <3>2, <4>1
      <3>4. CASE TargetApplied \/ ProfileApplied \/ UserApplied \/ CheckOption \/ Publish
        BY <1>11, <3>4 DEF TargetApplied, ProfileApplied, UserApplied, CheckOption, Publish, Rejected
      <3> QED BY <1>11, <3>1, <3>3, <3>4, Acting
    <2>2. stage' \notin {"loaded", "edges", "lint", "seed"}
      BY <1>11, Course
    <2> QED BY <1>4, <2>1, <2>2
  <1>12. stage = "edges" => AddEdges \/ EdgesBuilt
    BY Acting
  <1> QED BY <1>2, <1>5, <1>7, <1>8, <1>9, <1>10, <1>11, <1>12 DEF AfterLoad

LEMMA ListFront ==
  ASSUME NEW s, IsList(s), s # <<>>
  PROVE  /\ IsList(Front(s)) /\ Len(Front(s)) = Len(s) - 1
         /\ DOMAIN Front(s) = 1..(Len(s) - 1)
         /\ \A i \in 1..(Len(s) - 1) : Front(s)[i] = s[i]
  <1>1. PICK S, n : S = ToSet(s) /\ n = Len(s) /\ s \in Seq(S)
    BY DEF IsList
  <1>2. n \in Nat \ {0} /\ Front(s) = SubSeq(s, 1, n - 1)
    BY <1>1 DEF Front
  <1>3. PICK r : r = SubSeq(s, 1, n - 1)
    OBVIOUS
  <1>4. r \in Seq(S) /\ Len(r) = n - 1 /\ \A i \in 1..(n - 1) : r[i] = s[i]
    BY <1>1, <1>2, <1>3
  <1>5. IsList(r) /\ DOMAIN r = 1..(n - 1)
    BY <1>2, <1>4, ListOf
  <1> QED BY <1>1, <1>2, <1>3, <1>4, <1>5

LEMMA ListOne == \A x : IsList(<<x>>) /\ Len(<<x>>) = 1 /\ DOMAIN <<x>> = 1..1 /\ <<x>>[1] = x /\ <<x>> # <<>>
  <1> SUFFICES ASSUME NEW x
               PROVE  IsList(<<x>>) /\ Len(<<x>>) = 1 /\ DOMAIN <<x>> = 1..1 /\ <<x>>[1] = x /\ <<x>> # <<>>
    OBVIOUS
  <1>1. <<x>> \in Seq({x})
    OBVIOUS
  <1>2. IsList(<<x>>)
    BY <1>1, ListOf
  <1> QED BY <1>2

LEMMA PairFacts ==
  ASSUME EdgesKnown, NEW x, NEW y
  PROVE  <<x, y>> \in FollowedPairs <=> Goes(x, y)
  <1>1. /\ DOMAIN edges = 1..Len(edges)
        /\ \A i \in 1..Len(edges) : edges[i] \in ToSet(edges)
        /\ \A e \in ToSet(edges) : \E i \in 1..Len(edges) : edges[i] = e
    BY ListFacts DEF EdgesKnown
  <1>2. <<x, y>> \in FollowedPairs <=> \E e \in ToSet(edges) : e.kind # "conflicts" /\ e.from = x /\ e.to = y
    BY DEF FollowedPairs
  <1> QED BY ONLY <1>1, <1>2 DEF Goes, Leads

\* The search starts with nothing visited.
LEMMA SearchStarts ==
  ASSUME ResolveInv, EdgesBuilt
  PROVE  SearchInv'
  <1>1. /\ colors' = [id \in OptionIds |-> 0] /\ frames' = <<>> /\ turn' = 1 /\ edges' = edges
        /\ tree' = tree
    BY DEF EdgesBuilt, Goto, ResolveInv, EdgesKnown, BeforeChain
  <1>2. OptionIds' = OptionIds
    BY <1>1, SameOptions
  <1>3. ProjectShape /\ EdgesKnown
    BY DEF ResolveInv, LoadInv, ProjectInv
  <1>4. Left' = {}
    BY <1>1, <1>2 DEF Left
  <1>5. FramesOnPath'
    BY <1>1, <1>2, ListEmpty DEF FramesOnPath
  <1>6. FramesLooked' /\ LeftIsClosed' /\ LeftIsAcyclic'
    BY <1>1, <1>4 DEF FramesLooked, LeftIsClosed, LeftIsAcyclic
  <1>7. RootsSeen'
    <2>1. DOMAIN tree.options = 1..Len(tree.options)
      BY <1>3, ListFacts DEF ProjectShape
    <2> QED BY <1>1, <2>1 DEF RootsSeen, Options
  <1> QED BY <1>5, <1>6, <1>7 DEF SearchInv

\* A step of the search that leaves no node.
LEMMA SameLeft ==
  ASSUME LeftIsClosed, LeftIsAcyclic, Left' = Left, edges' = edges
  PROVE  LeftIsClosed' /\ LeftIsAcyclic'
  <1>1. \A x, y : Goes(x, y)' <=> Goes(x, y)
    BY DEF Goes, Leads
  <1>2. LeftIsClosed'
    BY DEF LeftIsClosed, Leads
  <1>3. LeftIsAcyclic'
    <2>1. \A S : Ends(S)' <=> Ends(S)
      BY <1>1 DEF Ends
    <2> QED BY <2>1 DEF LeftIsAcyclic
  <1> QED BY <1>2, <1>3

\* A node that was not visited is visited now.
LEMMA NodeVisited ==
  ASSUME colors \in [OptionIds -> {0, 1, 2}], OptionIds' = OptionIds, NEW n \in OptionIds, colors[n] = 0,
         colors' = [colors EXCEPT ![n] = 1]
  PROVE  /\ colors' \in [OptionIds' -> {0, 1, 2}] /\ Left' = Left /\ colors'[n] = 1
         /\ \A id \in OptionIds : id # n => colors'[id] = colors[id]
  BY DEF Left

LEMMA VisitRootKeeps ==
  ASSUME ResolveInv, VisitRoot
  PROVE  SearchInv'
  <1>1. /\ stage = "cycles" /\ frames = <<>> /\ turn <= Len(Options) /\ turn' = turn + 1
        /\ edges' = edges /\ tree' = tree
    BY DEF VisitRoot, Stay, loadVars
  <1>2. /\ FramesOnPath /\ LeftIsClosed /\ LeftIsAcyclic /\ RootsSeen /\ EdgesKnown /\ ProjectShape
        /\ turn \in Nat \ {0}
    BY <1>1 DEF ResolveInv, SearchInv, LoadInv, ProjectInv, ChainInv
  <1>3. OptionIds' = OptionIds /\ \A x, y : Goes(x, y)' <=> Goes(x, y)
    BY <1>1, SameOptions DEF Goes, Leads
  <1>4. PICK id : id = OptionAt(turn).id
    OBVIOUS
  <1>5. turn \in DOMAIN tree.options /\ DOMAIN tree.options = 1..Len(tree.options) /\ id = tree.options[turn].id
    BY <1>1, <1>2, <1>4, ListFacts DEF ProjectShape, OptionAt, Options
  <1>6. id \in OptionIds
    BY <1>2, <1>5, OptionIdsFacts
  <1>7. \A i \in DOMAIN tree.options : tree.options[i].id \in OptionIds
    BY <1>2, OptionIdsFacts
  <1>8. \A x \in OptionIds : colors[x] # 1
    BY <1>1, <1>2 DEF FramesOnPath
  <1>9. CASE /\ colors[id] = 0
             /\ colors' = [colors EXCEPT ![id] = 1]
             /\ frames' = <<[node |-> id, edge |-> 1]>>
    <2>1. PICK f : f = [node |-> id, edge |-> 1]
      OBVIOUS
    <2>2. /\ colors' \in [OptionIds' -> {0, 1, 2}] /\ Left' = Left /\ colors'[id] = 1
          /\ \A x \in OptionIds : x # id => colors'[x] = colors[x]
      BY <1>2, <1>3, <1>6, <1>9, NodeVisited DEF FramesOnPath
    <2>3. frames' = <<f>> /\ IsList(frames') /\ DOMAIN frames' = 1..1 /\ frames'[1] = f
      BY <1>9, <2>1, ListOne
    <2>4. FramesOnPath'
      BY <1>3, <1>6, <1>8, <2>1, <2>2, <2>3 DEF FramesOnPath
    <2>5. FramesLooked'
      <3>1. DOMAIN edges = 1..Len(edges) /\ Len(edges) \in Nat
        BY <1>2, ListFacts DEF EdgesKnown
      <3>2. \A i \in DOMAIN frames' : \A j \in DOMAIN edges' : ~(j < frames'[i].edge)
        BY <1>1, <2>1, <2>3, <3>1
      <3> QED BY <3>2 DEF FramesLooked
    <2>6. LeftIsClosed' /\ LeftIsAcyclic'
      BY <1>1, <1>2, <2>2, SameLeft
    <2>7. RootsSeen'
      <3> SUFFICES ASSUME NEW i \in DOMAIN tree.options, i < turn + 1
                   PROVE  colors'[tree.options[i].id] # 0
        BY <1>1 DEF RootsSeen, Options
      <3>1. i = turn \/ i < turn
        BY <1>2, <1>5
      <3> QED BY <1>2, <1>5, <1>7, <2>2, <3>1 DEF RootsSeen, Options
    <2> QED BY <2>4, <2>5, <2>6, <2>7 DEF SearchInv
  <1>10. CASE colors[id] # 0 /\ colors' = colors /\ frames' = frames
    <2>1. Left' = Left
      BY <1>3, <1>10 DEF Left
    <2>2. LeftIsClosed' /\ LeftIsAcyclic'
      BY <1>1, <1>2, <2>1, SameLeft
    <2>3. FramesOnPath' /\ FramesLooked'
      BY <1>1, <1>2, <1>3, <1>10 DEF FramesOnPath, FramesLooked
    <2>4. RootsSeen'
      <3> SUFFICES ASSUME NEW i \in DOMAIN tree.options, i < turn + 1
                   PROVE  colors[tree.options[i].id] # 0
        BY <1>1, <1>10 DEF RootsSeen, Options
      <3>1. i = turn \/ i < turn
        BY <1>2, <1>5
      <3> QED BY <1>2, <1>5, <1>10, <3>1 DEF RootsSeen, Options
    <2> QED BY <2>2, <2>3, <2>4 DEF SearchInv
  <1>11. \/ colors[id] = 0 /\ colors' = [colors EXCEPT ![id] = 1] /\ frames' = <<[node |-> id, edge |-> 1]>>
         \/ colors[id] # 0 /\ colors' = colors /\ frames' = frames
    BY <1>4 DEF VisitRoot
  <1> QED BY <1>9, <1>10, <1>11

\* The frame on top.
LEMMA TopFacts ==
  ASSUME EdgesKnown, FramesOnPath, frames # <<>>
  PROVE  LET n == Len(frames) IN
         /\ n \in Nat \ {0} /\ DOMAIN frames = 1..n /\ Top = frames[n]
         /\ Top = [node |-> Top.node, edge |-> Top.edge]
         /\ Top.node \in OptionIds /\ Top.edge \in Nat \ {0} /\ colors[Top.node] = 1
         /\ DOMAIN edges = 1..Len(edges) /\ Len(edges) \in Nat
  <1>1. PICK n : n = Len(frames)
    OBVIOUS
  <1>2. n \in Nat \ {0} /\ DOMAIN frames = 1..n /\ Top = frames[n] /\ n \in DOMAIN frames
    BY <1>1, ListFacts, LastOf DEF FramesOnPath, Top
  <1>3. DOMAIN edges = 1..Len(edges) /\ Len(edges) \in Nat
    BY ListFacts DEF EdgesKnown
  <1> QED BY <1>1, <1>2, <1>3 DEF FramesOnPath

\* The frame on top looks at its next edge.
LEMMA Advanced ==
  ASSUME EdgesKnown, FramesOnPath, FramesLooked, frames # <<>>, Top.edge <= Len(edges),
         NEW g, g = WithTop([Top EXCEPT !.edge = @ + 1])
  PROVE  LET n == Len(frames)  e == edges[Top.edge] IN
         /\ IsList(g) /\ Len(g) = n /\ DOMAIN g = 1..n
         /\ g[n] = [node |-> Top.node, edge |-> Top.edge + 1]
         /\ \A i \in 1..n : i # n => g[i] = frames[i]
         /\ \A i \in 1..n : g[i].node = frames[i].node
         /\ \A j \in DOMAIN edges : j < g[n].edge /\ Leads(j) /\ edges[j].from = Top.node =>
               colors[edges[j].to] = 2 \/ (j = Top.edge /\ Followed(Top.edge))
  <1>1. PICK n, t : n = Len(frames) /\ t = Top
    OBVIOUS
  <1>2. /\ n \in Nat \ {0} /\ DOMAIN frames = 1..n /\ t = frames[n]
        /\ t = [node |-> t.node, edge |-> t.edge]
        /\ t.node \in OptionIds /\ t.edge \in Nat \ {0} /\ colors[t.node] = 1
        /\ DOMAIN edges = 1..Len(edges) /\ Len(edges) \in Nat
    BY <1>1, TopFacts
  <1>3. PICK x : x = [node |-> t.node, edge |-> t.edge + 1]
    OBVIOUS
  <1>4. g = [frames EXCEPT ![n] = x]
    <2>1. [t EXCEPT !.edge = @ + 1] = x
      BY <1>2, <1>3
    <2> QED BY <1>1, <2>1 DEF WithTop
  <1>5. IsList(frames) /\ n \in 1..Len(frames)
    BY <1>1, <1>2 DEF FramesOnPath
  <1>6. /\ IsList(g) /\ Len(g) = n /\ DOMAIN g = 1..n
        /\ g[n] = x /\ \A i \in 1..n : i # n => g[i] = frames[i]
    <2>1. PICK list : list = frames
      OBVIOUS
    <2>2. /\ IsList(list) /\ n \in Nat /\ DOMAIN list = 1..n /\ n \in 1..n
          /\ n = Len(list) /\ n \in 1..Len(list) /\ g = [list EXCEPT ![n] = x]
      BY <1>1, <1>2, <1>4, <1>5, <2>1
    <2>3. /\ IsList(g) /\ Len(g) = n /\ DOMAIN g = 1..n
          /\ g[n] = x /\ \A i \in 1..n : i # n => g[i] = list[i]
      BY ONLY <2>2, ListExcept
    <2> QED BY <2>1, <2>3
  <1>7. \A i \in 1..n : g[i].node = frames[i].node
    BY <1>2, <1>3, <1>6
  <1>8. \A j \in DOMAIN edges : j < g[n].edge /\ Leads(j) /\ edges[j].from = t.node =>
               colors[edges[j].to] = 2 \/ (j = t.edge /\ Followed(t.edge))
    <2> SUFFICES ASSUME NEW j \in DOMAIN edges, j < t.edge + 1, Leads(j), edges[j].from = t.node
                 PROVE  colors[edges[j].to] = 2 \/ (j = t.edge /\ Followed(t.edge))
      BY <1>3, <1>6
    <2>1. j = t.edge \/ j < t.edge
      BY <1>2
    <2>2. CASE j = t.edge
      BY <1>1, <2>2 DEF Followed, Leads
    <2>3. CASE j < t.edge
      BY <1>2, <2>3 DEF FramesLooked
    <2> QED BY <2>1, <2>2, <2>3
  <1> QED BY <1>1, <1>3, <1>6, <1>7, <1>8

LEMMA EdgeSkipped ==
  ASSUME EdgesKnown, FramesOnPath, FramesLooked, LeftIsClosed, LeftIsAcyclic, RootsSeen,
         frames # <<>>, Top.edge <= Len(edges), ~Followed(Top.edge) \/ colors[edges[Top.edge].to] = 2,
         frames' = WithTop([Top EXCEPT !.edge = @ + 1]),
         tree' = tree, edges' = edges, colors' = colors, turn' = turn
  PROVE  FramesOnPath' /\ FramesLooked' /\ LeftIsClosed' /\ LeftIsAcyclic' /\ RootsSeen'
  <1>1. OptionIds' = OptionIds /\ \A y, z : Goes(y, z)' <=> Goes(y, z)
    BY SameOptions DEF Goes, Leads
  <1>2. Left' = Left
    BY <1>1 DEF Left
  <1>3. PICK n, g : n = Len(frames) /\ g = frames'
    OBVIOUS
  <1>4. /\ IsList(g) /\ DOMAIN g = 1..n
        /\ g[n] = [node |-> Top.node, edge |-> Top.edge + 1]
        /\ \A i \in 1..n : i # n => g[i] = frames[i]
        /\ \A i \in 1..n : g[i].node = frames[i].node
        /\ \A j \in DOMAIN edges : j < g[n].edge /\ Leads(j) /\ edges[j].from = Top.node =>
              colors[edges[j].to] = 2 \/ (j = Top.edge /\ Followed(Top.edge))
    BY <1>3, Advanced
  <1>5. /\ n \in Nat \ {0} /\ DOMAIN frames = 1..n /\ Top = frames[n]
        /\ Top.node \in OptionIds /\ Top.edge \in Nat \ {0} /\ colors[Top.node] = 1
    BY <1>3, TopFacts
  <1>6. FramesOnPath'
    <2>1. \A i \in 1..n : /\ g[i] = [node |-> g[i].node, edge |-> g[i].edge]
                          /\ g[i].node \in OptionIds /\ g[i].edge \in Nat \ {0}
                          /\ colors[g[i].node] = 1
      BY <1>4, <1>5 DEF FramesOnPath
    <2>2. /\ \A id \in OptionIds : colors[id] = 1 => \E i \in 1..n : g[i].node = id
          /\ \A i, j \in 1..n : g[i].node = g[j].node => i = j
      BY <1>4, <1>5 DEF FramesOnPath
    <2>3. ASSUME NEW i \in 1..n, i + 1 \in 1..n PROVE Goes(g[i].node, g[i + 1].node)
      <3>1. Goes(frames[i].node, frames[i + 1].node)
        BY <1>5, <2>3 DEF FramesOnPath
      <3>2. g[i].node = frames[i].node /\ g[i + 1].node = frames[i + 1].node
        BY <1>4, <2>3
      <3> QED BY ONLY <3>1, <3>2
    <2>4. FramesOnPath' <=>
            /\ colors \in [OptionIds -> {0, 1, 2}]
            /\ IsList(g)
            /\ \A i \in DOMAIN g :
                  /\ g[i] = [node |-> g[i].node, edge |-> g[i].edge]
                  /\ g[i].node \in OptionIds /\ g[i].edge \in Nat \ {0}
                  /\ colors[g[i].node] = 1
            /\ \A id \in OptionIds : colors[id] = 1 => \E i \in DOMAIN g : g[i].node = id
            /\ \A i, j \in DOMAIN g : g[i].node = g[j].node => i = j
            /\ \A i \in DOMAIN g : i + 1 \in DOMAIN g => Goes(g[i].node, g[i + 1].node)
      <3>1. g = frames' /\ colors' = colors
        BY <1>3
      <3> QED BY ONLY <1>1, <3>1 DEF FramesOnPath
    <2>5. colors \in [OptionIds -> {0, 1, 2}]
      BY DEF FramesOnPath
    <2> QED BY ONLY <1>4, <2>1, <2>2, <2>3, <2>4, <2>5
  <1>7. FramesLooked'
    <2> SUFFICES ASSUME NEW i \in 1..n, NEW j \in DOMAIN edges, j < g[i].edge, Leads(j), edges[j].from = g[i].node
                 PROVE  \/ colors[edges[j].to] = 2
                        \/ i + 1 \in DOMAIN g /\ edges[j].to = g[i + 1].node
      BY <1>3, <1>4 DEF FramesLooked, Leads
    <2>1. CASE i = n
      BY <1>4, <1>5, <2>1
    <2>2. CASE i # n
      BY <1>4, <1>5, <2>2 DEF FramesLooked
    <2> QED BY <2>1, <2>2
  <1>8. LeftIsClosed' /\ LeftIsAcyclic'
    BY <1>2, SameLeft
  <1>9. RootsSeen'
    BY DEF RootsSeen, Options
  <1> QED BY <1>6, <1>7, <1>8, <1>9

LEMMA EdgeTaken ==
  ASSUME EdgesKnown, FramesOnPath, FramesLooked, LeftIsClosed, LeftIsAcyclic, RootsSeen, ProjectShape,
         frames # <<>>, Top.edge <= Len(edges), Followed(Top.edge), colors[edges[Top.edge].to] = 0,
         frames' = Append(WithTop([Top EXCEPT !.edge = @ + 1]), [node |-> edges[Top.edge].to, edge |-> 1]),
         colors' = [colors EXCEPT ![edges[Top.edge].to] = 1],
         tree' = tree, edges' = edges, turn' = turn
  PROVE  FramesOnPath' /\ FramesLooked' /\ LeftIsClosed' /\ LeftIsAcyclic' /\ RootsSeen'
  <1>1. OptionIds' = OptionIds /\ \A y, z : Goes(y, z)' <=> Goes(y, z)
    BY SameOptions DEF Goes, Leads
  <1>2. PICK n, g, to, x, r : /\ n = Len(frames) /\ g = WithTop([Top EXCEPT !.edge = @ + 1])
                              /\ to = edges[Top.edge].to /\ x = [node |-> to, edge |-> 1] /\ r = frames'
    OBVIOUS
  <1>3. /\ IsList(g) /\ Len(g) = n /\ DOMAIN g = 1..n
        /\ g[n] = [node |-> Top.node, edge |-> Top.edge + 1]
        /\ \A i \in 1..n : i # n => g[i] = frames[i]
        /\ \A i \in 1..n : g[i].node = frames[i].node
        /\ \A j \in DOMAIN edges : j < g[n].edge /\ Leads(j) /\ edges[j].from = Top.node =>
              colors[edges[j].to] = 2 \/ (j = Top.edge /\ Followed(Top.edge))
    BY <1>2, Advanced
  <1>4. /\ n \in Nat \ {0} /\ DOMAIN frames = 1..n /\ Top = frames[n]
        /\ Top.node \in OptionIds /\ Top.edge \in Nat \ {0} /\ colors[Top.node] = 1
        /\ DOMAIN edges = 1..Len(edges) /\ Len(edges) \in Nat
    BY <1>2, TopFacts
  <1>5. Top.edge \in DOMAIN edges /\ to \in OptionIds
    BY <1>2, <1>4 DEF EdgesKnown
  <1>6. /\ IsList(r) /\ DOMAIN r = 1..(n + 1)
        /\ \A i \in 1..n : r[i] = g[i]
        /\ r[n + 1] = x
    <2>1. r = Append(g, x)
      BY <1>2
    <2> QED BY <1>3, <2>1, ListAppend
  <1>7. /\ colors' \in [OptionIds' -> {0, 1, 2}] /\ Left' = Left /\ colors'[to] = 1
        /\ \A id \in OptionIds : id # to => colors'[id] = colors[id]
    BY <1>1, <1>2, <1>5, NodeVisited DEF FramesOnPath
  <1>8. Goes(Top.node, to)
    BY <1>2, <1>5 DEF Followed, Leads, Goes
  <1>9. PICK f, c, d : f = frames /\ c = colors /\ d = colors'
    OBVIOUS
  <1>10. /\ n \in Nat \ {0} /\ to \in OptionIds /\ c[to] = 0 /\ d[to] = 1
         /\ \A id \in OptionIds : id # to => d[id] = c[id]
         /\ \A i \in 1..n : f[i] = [node |-> f[i].node, edge |-> f[i].edge]
         /\ \A i \in 1..n : f[i].node \in OptionIds /\ f[i].edge \in Nat \ {0} /\ c[f[i].node] = 1
         /\ \A id \in OptionIds : c[id] = 1 => \E i \in 1..n : f[i].node = id
         /\ \A i, j \in 1..n : f[i].node = f[j].node => i = j
         /\ \A i \in 1..n : i + 1 \in 1..n => Goes(f[i].node, f[i + 1].node)
    <2>1. c[to] = 0 /\ d[to] = 1 /\ \A id \in OptionIds : id # to => d[id] = c[id]
      BY <1>2, <1>7, <1>9
    <2>2. FramesOnPath <=>
            /\ c \in [OptionIds -> {0, 1, 2}]
            /\ IsList(f)
            /\ \A i \in DOMAIN f :
                  /\ f[i] = [node |-> f[i].node, edge |-> f[i].edge]
                  /\ f[i].node \in OptionIds /\ f[i].edge \in Nat \ {0}
                  /\ c[f[i].node] = 1
            /\ \A id \in OptionIds : c[id] = 1 => \E i \in DOMAIN f : f[i].node = id
            /\ \A i, j \in DOMAIN f : f[i].node = f[j].node => i = j
            /\ \A i \in DOMAIN f : i + 1 \in DOMAIN f => Goes(f[i].node, f[i + 1].node)
      BY ONLY <1>9 DEF FramesOnPath
    <2>3. DOMAIN f = 1..n /\ n \in Nat \ {0} /\ to \in OptionIds /\ FramesOnPath
      BY <1>4, <1>5, <1>9
    <2> QED BY ONLY <2>1, <2>2, <2>3
  <1>11. /\ \A i \in 1..n : r[i] = g[i] /\ r[i].node = f[i].node
         /\ \A i \in 1..n : i # n => r[i] = f[i]
         /\ r[n + 1] = [node |-> to, edge |-> 1] /\ r[n] = [node |-> f[n].node, edge |-> Top.edge + 1]
         /\ Top.edge \in Nat \ {0} /\ Goes(f[n].node, to)
    <2>1. n \in 1..n /\ f[n] = Top /\ f = frames
      BY <1>4, <1>9
    <2>2. \A i \in 1..n : r[i] = g[i] /\ r[i].node = f[i].node
      BY ONLY <1>3, <1>6, <2>1
    <2>3. \A i \in 1..n : i # n => r[i] = f[i]
      BY ONLY <1>3, <1>6, <2>1
    <2>4. r[n + 1] = [node |-> to, edge |-> 1]
      BY ONLY <1>2, <1>6
    <2>5. r[n] = [node |-> f[n].node, edge |-> Top.edge + 1]
      BY ONLY <1>3, <1>6, <2>1
    <2>6. Top.edge \in Nat \ {0} /\ Goes(f[n].node, to)
      BY <1>4, <1>8, <2>1
    <2> QED BY ONLY <2>2, <2>3, <2>4, <2>5, <2>6
  <1>12. \A i \in 1..n : r[i].node # to
    BY ONLY <1>10, <1>11
  <1>13. \A i \in 1..(n + 1) : i \in 1..n \/ i = n + 1
    BY <1>4
  <1>14. FramesOnPath'
    <2>2. ASSUME NEW i \in 1..(n + 1)
          PROVE  /\ r[i] = [node |-> r[i].node, edge |-> r[i].edge]
                 /\ r[i].node \in OptionIds /\ r[i].edge \in Nat \ {0}
                 /\ d[r[i].node] = 1
      <3>1. CASE i = n + 1
        BY ONLY <1>10, <1>11, <3>1
      <3>2. CASE i = n
        BY ONLY <1>10, <1>11, <1>12, <3>2
      <3>3. CASE i \in 1..n /\ i # n
        BY ONLY <1>10, <1>11, <1>12, <3>3
      <3> QED BY ONLY <1>13, <2>2, <3>1, <3>2, <3>3
    <2>3. ASSUME NEW id \in OptionIds, d[id] = 1
          PROVE  \E i \in 1..(n + 1) : r[i].node = id
      <3>1. CASE id = to
        <4>1. n + 1 \in 1..(n + 1) /\ r[n + 1].node = id
          BY ONLY <1>10, <1>11, <3>1
        <4> QED BY ONLY <4>1
      <3>2. CASE id # to
        <4>1. PICK i \in 1..n : f[i].node = id
          BY ONLY <1>10, <2>3, <3>2
        <4>2. i \in 1..(n + 1) /\ r[i].node = id
          BY ONLY <1>10, <1>11, <4>1
        <4> QED BY ONLY <4>2
      <3> QED BY <3>1, <3>2
    <2>4. ASSUME NEW i \in 1..(n + 1), NEW j \in 1..(n + 1), r[i].node = r[j].node
          PROVE  i = j
      <3>1. r[n + 1].node = to
        BY ONLY <1>11
      <3>2. i \in 1..n /\ j \in 1..n => i = j
        BY ONLY <1>10, <1>11, <2>4
      <3>3. ~(i \in 1..n /\ j = n + 1) /\ ~(j \in 1..n /\ i = n + 1)
        BY ONLY <1>12, <2>4, <3>1
      <3> QED BY ONLY <1>13, <2>4, <3>2, <3>3
    <2>5. ASSUME NEW i \in 1..(n + 1), i + 1 \in 1..(n + 1)
          PROVE  Goes(r[i].node, r[i + 1].node)
      <3>1. i \in 1..n /\ i + 1 \in Nat
        BY ONLY <1>10, <2>5
      <3>2. CASE i = n
        BY ONLY <1>11, <3>1, <3>2
      <3>3. CASE i # n
        <4>1. i + 1 \in 1..n
          BY ONLY <1>10, <3>1, <3>3
        <4>2. r[i].node = f[i].node /\ r[i + 1].node = f[i + 1].node
          BY ONLY <1>11, <3>1, <4>1
        <4> QED BY ONLY <1>10, <3>1, <4>1, <4>2
      <3> QED BY <3>2, <3>3
    <2>6. FramesOnPath' <=>
            /\ d \in [OptionIds -> {0, 1, 2}]
            /\ IsList(r)
            /\ \A i \in DOMAIN r :
                  /\ r[i] = [node |-> r[i].node, edge |-> r[i].edge]
                  /\ r[i].node \in OptionIds /\ r[i].edge \in Nat \ {0}
                  /\ d[r[i].node] = 1
            /\ \A id \in OptionIds : d[id] = 1 => \E i \in DOMAIN r : r[i].node = id
            /\ \A i, j \in DOMAIN r : r[i].node = r[j].node => i = j
            /\ \A i \in DOMAIN r : i + 1 \in DOMAIN r => Goes(r[i].node, r[i + 1].node)
      <3>1. r = frames' /\ d = colors' /\ OptionIds' = OptionIds /\ \A y, z : Goes(y, z)' <=> Goes(y, z)
        BY <1>1, <1>2, <1>9
      <3> QED BY ONLY <3>1 DEF FramesOnPath
    <2>7. d \in [OptionIds -> {0, 1, 2}] /\ IsList(r) /\ DOMAIN r = 1..(n + 1)
      BY <1>1, <1>6, <1>7, <1>9
    <2> QED BY ONLY <2>2, <2>3, <2>4, <2>5, <2>6, <2>7
  <1>15. FramesLooked'
    <2>1. ASSUME NEW i \in 1..(n + 1), NEW j \in DOMAIN edges, j < r[i].edge, Leads(j),
                 edges[j].from = r[i].node
          PROVE  \/ d[edges[j].to] = 2
                 \/ i + 1 \in 1..(n + 1) /\ edges[j].to = r[i + 1].node
      <3>1. edges[j].to \in OptionIds /\ j \in Nat \ {0}
        BY <1>4 DEF EdgesKnown
      <3>2. c[edges[j].to] = 2 => d[edges[j].to] = 2
        BY ONLY <1>10, <3>1
      <3>3. CASE i = n + 1
        BY ONLY <1>11, <2>1, <3>1, <3>3
      <3>4. CASE i = n
        <4>1. j < g[n].edge /\ edges[j].from = Top.node
          <5>1. r[n] = g[n] /\ r[n].node = f[n].node /\ f[n] = Top
            BY <1>4, <1>9, <1>11
          <5> QED BY ONLY <2>1, <3>4, <5>1
        <4>2. c[edges[j].to] = 2 \/ j = Top.edge
          BY <1>3, <1>9, <2>1, <4>1
        <4>3. j = Top.edge => edges[j].to = r[n + 1].node
          <5>1. edges[Top.edge].to = to
            BY <1>2
          <5>2. r[n + 1].node = to
            BY ONLY <1>11
          <5> QED BY ONLY <5>1, <5>2
        <4> QED BY ONLY <1>10, <3>2, <3>4, <4>2, <4>3
      <3>5. CASE i \in 1..n /\ i # n
        <4>1. i + 1 \in 1..n /\ i + 1 \in 1..(n + 1)
          BY ONLY <1>10, <3>5
        <4>2. r[i] = f[i] /\ r[i + 1].node = f[i + 1].node
          BY ONLY <1>11, <3>5, <4>1
        <4>3. c[edges[j].to] = 2 \/ edges[j].to = f[i + 1].node
          BY <1>4, <1>9, <2>1, <3>5, <4>2 DEF FramesLooked
        <4> QED BY ONLY <3>2, <4>1, <4>2, <4>3
      <3> QED BY ONLY <1>13, <2>1, <3>3, <3>4, <3>5
    <2>2. FramesLooked' <=>
            \A i \in DOMAIN r : \A j \in DOMAIN edges :
                j < r[i].edge /\ Leads(j) /\ edges[j].from = r[i].node =>
                    \/ d[edges[j].to] = 2
                    \/ i + 1 \in DOMAIN r /\ edges[j].to = r[i + 1].node
      <3>1. r = frames' /\ d = colors' /\ edges' = edges
        BY <1>2, <1>9
      <3> QED BY ONLY <3>1 DEF FramesLooked, Leads
    <2>3. DOMAIN r = 1..(n + 1)
      BY <1>6
    <2> QED BY ONLY <2>1, <2>2, <2>3
  <1>16. LeftIsClosed' /\ LeftIsAcyclic'
    BY <1>7, SameLeft
  <1>17. RootsSeen'
    <2>1. \A i \in DOMAIN tree.options : tree.options[i].id \in OptionIds
      BY OptionIdsFacts
    <2> QED BY <1>7, <2>1 DEF RootsSeen, Options
  <1> QED BY <1>14, <1>15, <1>16, <1>17

\* A node is left when nothing but left nodes is behind it.
LEMMA LeaveNodeKeeps ==
  ASSUME ResolveInv, LeaveNode
  PROVE  SearchInv'
  <1>1. /\ stage = "cycles" /\ frames # <<>> /\ Top.edge > Len(edges) /\ turn' = turn
        /\ colors' = [colors EXCEPT ![Top.node] = 2] /\ frames' = Front(frames)
        /\ edges' = edges /\ tree' = tree
    BY DEF LeaveNode, Searching, Stay, loadVars
  <1>2. /\ FramesOnPath /\ FramesLooked /\ LeftIsClosed /\ LeftIsAcyclic /\ RootsSeen /\ EdgesKnown
        /\ ProjectShape
    BY <1>1 DEF ResolveInv, SearchInv, LoadInv, ProjectInv
  <1>3. OptionIds' = OptionIds /\ \A x, y : Goes(x, y)' <=> Goes(x, y)
    BY <1>1, SameOptions DEF Goes, Leads
  <1>4. PICK n, t, f, r, c, d : /\ n = Len(frames) /\ t = Top.node /\ f = frames /\ r = frames'
                                /\ c = colors /\ d = colors'
    OBVIOUS
  <1>5. /\ n \in Nat \ {0} /\ DOMAIN f = 1..n /\ Top = f[n]
        /\ t \in OptionIds /\ Top.edge \in Nat \ {0} /\ c[t] = 1 /\ f[n].node = t
        /\ DOMAIN edges = 1..Len(edges) /\ Len(edges) \in Nat
    BY <1>1, <1>2, <1>4, TopFacts
  <1>6. FramesOnPath <=>
            /\ c \in [OptionIds -> {0, 1, 2}]
            /\ IsList(f)
            /\ \A i \in DOMAIN f :
                  /\ f[i] = [node |-> f[i].node, edge |-> f[i].edge]
                  /\ f[i].node \in OptionIds /\ f[i].edge \in Nat \ {0}
                  /\ c[f[i].node] = 1
            /\ \A id \in OptionIds : c[id] = 1 => \E i \in DOMAIN f : f[i].node = id
            /\ \A i, j \in DOMAIN f : f[i].node = f[j].node => i = j
            /\ \A i \in DOMAIN f : i + 1 \in DOMAIN f => Goes(f[i].node, f[i + 1].node)
    BY ONLY <1>4 DEF FramesOnPath
  <1>7. /\ c \in [OptionIds -> {0, 1, 2}] /\ IsList(f) /\ f # <<>>
        /\ \A i \in 1..n : f[i] = [node |-> f[i].node, edge |-> f[i].edge]
        /\ \A i \in 1..n : f[i].node \in OptionIds /\ f[i].edge \in Nat \ {0} /\ c[f[i].node] = 1
        /\ \A id \in OptionIds : c[id] = 1 => \E i \in 1..n : f[i].node = id
        /\ \A i, j \in 1..n : f[i].node = f[j].node => i = j
        /\ \A i \in 1..n : i + 1 \in 1..n => Goes(f[i].node, f[i + 1].node)
    <2>1. f # <<>>
      BY <1>1, <1>4
    <2>2. FramesOnPath
      BY <1>2
    <2>3. DOMAIN f = 1..n
      BY <1>5
    <2> QED BY ONLY <1>6, <2>1, <2>2, <2>3
  <1>8. /\ IsList(r) /\ DOMAIN r = 1..(n - 1) /\ \A i \in 1..(n - 1) : r[i] = f[i]
    <2>1. r = Front(f) /\ n = Len(f)
      BY <1>1, <1>4
    <2>2. IsList(f) /\ f # <<>>
      BY <1>7
    <2>3. /\ IsList(Front(f)) /\ DOMAIN Front(f) = 1..(Len(f) - 1)
          /\ \A i \in 1..(Len(f) - 1) : Front(f)[i] = f[i]
      BY ONLY <2>2, ListFront
    <2> QED BY ONLY <2>1, <2>3
  <1>9. /\ d \in [OptionIds -> {0, 1, 2}] /\ d[t] = 2 /\ \A id \in OptionIds : id # t => d[id] = c[id]
    BY <1>1, <1>4, <1>5, <1>7
  <1>10. \A i \in 1..(n - 1) : i \in 1..n /\ i # n /\ f[i].node # t
    BY ONLY <1>5, <1>7
  <1>11. FramesOnPath'
    <2>1. ASSUME NEW i \in 1..(n - 1)
          PROVE  /\ r[i] = [node |-> r[i].node, edge |-> r[i].edge]
                 /\ r[i].node \in OptionIds /\ r[i].edge \in Nat \ {0}
                 /\ d[r[i].node] = 1
      <3>1. r[i] = f[i] /\ i \in 1..n /\ f[i].node # t
        BY ONLY <1>8, <1>10, <2>1
      <3>2. f[i] = [node |-> f[i].node, edge |-> f[i].edge]
        BY ONLY <1>7, <3>1
      <3>3. f[i].node \in OptionIds /\ f[i].edge \in Nat \ {0} /\ c[f[i].node] = 1
        BY ONLY <1>7, <3>1
      <3>4. d[f[i].node] = c[f[i].node]
        BY ONLY <1>9, <3>1, <3>3
      <3> QED BY ONLY <3>1, <3>2, <3>3, <3>4
    <2>2. ASSUME NEW id \in OptionIds, d[id] = 1 PROVE \E i \in 1..(n - 1) : r[i].node = id
      <3>1. id # t /\ c[id] = 1
        BY ONLY <1>5, <1>9, <2>2
      <3>2. PICK i \in 1..n : f[i].node = id
        BY ONLY <1>7, <2>2, <3>1
      <3>3. i \in 1..(n - 1) /\ r[i].node = id
        BY ONLY <1>5, <1>8, <3>1, <3>2
      <3> QED BY ONLY <3>3
    <2>3. \A i, j \in 1..(n - 1) : r[i].node = r[j].node => i = j
      BY ONLY <1>7, <1>8, <1>10
    <2>4. ASSUME NEW i \in 1..(n - 1), i + 1 \in 1..(n - 1) PROVE Goes(r[i].node, r[i + 1].node)
      <3>1. r[i] = f[i] /\ r[i + 1] = f[i + 1] /\ i \in 1..n /\ i + 1 \in 1..n
        BY ONLY <1>8, <1>10, <2>4
      <3> QED BY ONLY <1>7, <3>1
    <2>5. FramesOnPath' <=>
            /\ d \in [OptionIds -> {0, 1, 2}]
            /\ IsList(r)
            /\ \A i \in DOMAIN r :
                  /\ r[i] = [node |-> r[i].node, edge |-> r[i].edge]
                  /\ r[i].node \in OptionIds /\ r[i].edge \in Nat \ {0}
                  /\ d[r[i].node] = 1
            /\ \A id \in OptionIds : d[id] = 1 => \E i \in DOMAIN r : r[i].node = id
            /\ \A i, j \in DOMAIN r : r[i].node = r[j].node => i = j
            /\ \A i \in DOMAIN r : i + 1 \in DOMAIN r => Goes(r[i].node, r[i + 1].node)
      BY ONLY <1>3, <1>4 DEF FramesOnPath
    <2> QED BY ONLY <1>8, <1>9, <2>1, <2>2, <2>3, <2>4, <2>5
  <1>12. \A id : id \in Left <=> id \in OptionIds /\ c[id] = 2
    BY <1>4 DEF Left
  <1>13. t \notin Left /\ \A id : id \in Left' <=> id \in Left \/ id = t
    <2>1. \A id : id \in Left' <=> id \in OptionIds /\ d[id] = 2
      BY <1>3, <1>4 DEF Left
    <2> QED BY <1>5, <1>9, <1>12, <2>1
  <1>14. ASSUME NEW j \in DOMAIN edges, Leads(j), edges[j].from = t PROVE edges[j].to \in Left
    <2>1. j < f[n].edge /\ n \in DOMAIN f /\ ~(n + 1 \in DOMAIN f)
      BY <1>1, <1>5
    <2>2. c[edges[j].to] = 2
      BY <1>2, <1>4, <1>5, <1>14, <2>1 DEF FramesLooked
    <2>3. edges[j].to \in OptionIds
      BY <1>2 DEF EdgesKnown
    <2> QED BY <1>12, <2>2, <2>3
  <1>15. LeftIsClosed'
    <2> SUFFICES ASSUME NEW j \in DOMAIN edges, Leads(j), edges[j].from \in Left'
                 PROVE  edges[j].to \in Left'
      BY <1>1 DEF LeftIsClosed, Leads
    <2>1. CASE edges[j].from = t
      BY <1>13, <1>14, <2>1
    <2>2. CASE edges[j].from \in Left
      BY <1>2, <1>13, <2>2 DEF LeftIsClosed
    <2> QED BY <1>13, <2>1, <2>2
  <1>16. LeftIsAcyclic'
    <2>1. \A y : Goes(t, y) => y \in Left
      BY <1>14 DEF Goes
    <2>2. \A x \in Left : ~Goes(x, t)
      BY <1>2, <1>13 DEF Goes, LeftIsClosed
    <2>3. ASSUME NEW S \in SUBSET Left', S # {} PROVE \E x \in S : \A y \in S : ~Goes(x, y)
      <3>1. CASE S \ {t} = {}
        BY <1>13, <2>1, <2>3, <3>1
      <3>2. CASE S \ {t} # {}
        <4>1. S \ {t} \in SUBSET Left
          BY <1>13
        <4>2. PICK x \in S \ {t} : \A y \in S \ {t} : ~Goes(x, y)
          BY <1>2, <3>2, <4>1 DEF LeftIsAcyclic, Ends
        <4> QED BY <2>2, <4>1, <4>2
      <3> QED BY <3>1, <3>2
    <2>4. \A S : Ends(S)' <=> \E x \in S : \A y \in S : ~Goes(x, y)
      BY <1>3 DEF Ends
    <2> QED BY <2>3, <2>4 DEF LeftIsAcyclic
  <1>17. FramesLooked'
    <2>1. ASSUME NEW i \in 1..(n - 1), NEW j \in DOMAIN edges, j < r[i].edge, Leads(j),
                 edges[j].from = r[i].node
          PROVE  \/ d[edges[j].to] = 2
                 \/ i + 1 \in 1..(n - 1) /\ edges[j].to = r[i + 1].node
      <3>1. edges[j].to \in OptionIds
        BY <1>2 DEF EdgesKnown
      <3>2. r[i] = f[i] /\ i \in 1..n /\ i + 1 \in 1..n
        BY ONLY <1>5, <1>8, <1>10, <2>1
      <3>3. c[edges[j].to] = 2 \/ edges[j].to = f[i + 1].node
        BY <1>2, <1>4, <1>5, <2>1, <3>2 DEF FramesLooked
      <3>4. CASE edges[j].to = t
        BY <1>9, <3>4
      <3>5. CASE edges[j].to # t
        <4>1. d[edges[j].to] = c[edges[j].to]
          BY <1>9, <3>1, <3>5
        <4>2. i + 1 = n \/ (i + 1 \in 1..(n - 1) /\ r[i + 1] = f[i + 1])
          BY ONLY <1>5, <1>8, <3>2
        <4> QED BY ONLY <1>5, <3>3, <3>5, <4>1, <4>2
      <3> QED BY <3>4, <3>5
    <2>2. FramesLooked' <=>
            \A i \in DOMAIN r : \A j \in DOMAIN edges :
                j < r[i].edge /\ Leads(j) /\ edges[j].from = r[i].node =>
                    \/ d[edges[j].to] = 2
                    \/ i + 1 \in DOMAIN r /\ edges[j].to = r[i + 1].node
      BY ONLY <1>1, <1>4 DEF FramesLooked, Leads
    <2> QED BY ONLY <1>8, <2>1, <2>2
  <1>18. RootsSeen'
    <2>1. \A i \in DOMAIN tree.options : tree.options[i].id \in OptionIds
      BY <1>2, OptionIdsFacts
    <2> QED BY <1>1, <1>2, <1>4, <1>9, <2>1 DEF RootsSeen, Options
  <1> QED BY <1>11, <1>15, <1>16, <1>17, <1>18 DEF SearchInv

LEMMA FollowEdgeKeeps ==
  ASSUME ResolveInv, FollowEdge, ~Rejected
  PROVE  SearchInv'
  <1>1. /\ stage = "cycles" /\ frames # <<>> /\ Top.edge <= Len(edges) /\ turn' = turn
        /\ edges' = edges /\ tree' = tree
    BY DEF FollowEdge, Searching, Stay, loadVars, Rejected
  <1>2. /\ FramesOnPath /\ FramesLooked /\ LeftIsClosed /\ LeftIsAcyclic /\ RootsSeen /\ EdgesKnown
        /\ ProjectShape
    BY <1>1 DEF ResolveInv, SearchInv, LoadInv, ProjectInv
  <1>3. \/ /\ ~Followed(Top.edge) \/ colors[edges[Top.edge].to] = 2
           /\ frames' = WithTop([Top EXCEPT !.edge = @ + 1])
           /\ colors' = colors
        \/ /\ Followed(Top.edge) /\ colors[edges[Top.edge].to] = 0
           /\ colors' = [colors EXCEPT ![edges[Top.edge].to] = 1]
           /\ frames' = Append(WithTop([Top EXCEPT !.edge = @ + 1]), [node |-> edges[Top.edge].to, edge |-> 1])
    BY DEF FollowEdge, Rejected
  <1> QED BY <1>1, <1>2, <1>3, EdgeSkipped, EdgeTaken DEF SearchInv

LEMMA SearchKeeps ==
  ASSUME ResolveInv, Resolving
  PROVE  SearchInv'
  <1>1. CASE Rejected
    BY <1>1, RejectedFacts DEF SearchInv
  <1>2. CASE ~Rejected /\ stage' = "cycles"
    <2>1. (stage = "edges" /\ EdgesBuilt) \/ stage = "cycles"
      BY <1>2, Course
    <2>2. NoCycle => stage' = "lint"
      BY DEF NoCycle, Goto
    <2> QED BY <1>2, <2>1, <2>2, Acting, SearchStarts, VisitRootKeeps, FollowEdgeKeeps, LeaveNodeKeeps
  <1> QED BY <1>1, <1>2 DEF SearchInv

\* The verdict of the search.
LEMMA CycleRejected ==
  ASSUME ResolveInv, FollowEdge, Rejected
  PROVE  Cyclic
  <1>1. /\ stage = "cycles" /\ frames # <<>> /\ Top.edge <= Len(edges)
        /\ Followed(Top.edge) /\ colors[edges[Top.edge].to] = 1
    <2>1. stage' # stage
      BY RejectedFacts DEF FollowEdge, Searching
    <2> QED BY <2>1 DEF FollowEdge, Searching, Stay, loadVars
  <1>2. FramesOnPath /\ EdgesKnown
    BY <1>1 DEF ResolveInv, SearchInv
  <1>3. PICK n, to : n = Len(frames) /\ to = edges[Top.edge].to
    OBVIOUS
  <1>4. /\ n \in Nat \ {0} /\ DOMAIN frames = 1..n /\ Top = frames[n] /\ Top.edge \in Nat \ {0}
        /\ DOMAIN edges = 1..Len(edges) /\ Len(edges) \in Nat
    BY <1>1, <1>2, <1>3, TopFacts
  <1>5. Top.edge \in DOMAIN edges /\ to \in OptionIds
    BY <1>1, <1>2, <1>3, <1>4 DEF EdgesKnown
  <1>6. Goes(frames[n].node, to)
    BY <1>1, <1>3, <1>4, <1>5 DEF Followed, Leads, Goes
  <1>7. PICK k \in 1..n : frames[k].node = to
    BY <1>1, <1>2, <1>3, <1>4, <1>5 DEF FramesOnPath
  <1>8. PICK S : S = {frames[i].node : i \in k..n}
    OBVIOUS
  <1>9. S \in (SUBSET OptionIds) \ {{}}
    <2>1. \A i \in k..n : i \in 1..n /\ frames[i].node \in OptionIds
      BY <1>2, <1>4 DEF FramesOnPath
    <2>2. to \in S
      BY <1>4, <1>7, <1>8
    <2>3. S \subseteq OptionIds
      BY <1>8, <2>1
    <2>4. S # {}
      BY <2>2
    <2> QED BY <2>3, <2>4
  <1>10. ASSUME NEW x \in S PROVE \E y \in S : <<x, y>> \in FollowedPairs
    <2>1. PICK i \in k..n : x = frames[i].node
      BY <1>8
    <2>2. CASE i = n
      <3>1. to \in S /\ Goes(x, to)
        BY <1>4, <1>6, <1>7, <1>8, <2>1, <2>2
      <3> QED BY <1>2, <3>1, PairFacts
    <2>3. CASE i # n
      <3>1. i \in 1..n /\ i + 1 \in 1..n /\ i + 1 \in k..n
        BY <1>4, <2>3
      <3>2. Goes(x, frames[i + 1].node)
        BY <1>2, <1>4, <2>1, <3>1 DEF FramesOnPath
      <3>3. frames[i + 1].node \in S
        BY <1>8, <3>1
      <3> QED BY <1>2, <3>2, <3>3, PairFacts
    <2> QED BY <2>2, <2>3
  <1> QED BY <1>9, <1>10, Zenon DEF Cyclic

LEMMA NoCycleFound ==
  ASSUME ResolveInv, NoCycle
  PROVE  ~Cyclic
  <1>1. /\ stage = "cycles" /\ frames = <<>> /\ turn = Len(tree.options) + 1
    BY DEF NoCycle, Options
  <1>2. FramesOnPath /\ RootsSeen /\ LeftIsAcyclic /\ EdgesKnown /\ ProjectShape
    BY <1>1 DEF ResolveInv, SearchInv, LoadInv, ProjectInv
  <1>3. OptionIds \subseteq Left
    <2> SUFFICES ASSUME NEW id \in OptionIds PROVE colors[id] = 2
      BY DEF Left
    <2>1. PICK i \in DOMAIN tree.options : tree.options[i].id = id
      BY <1>2, OptionIdsFacts
    <2>2. i < turn
      BY <1>1, <1>2, ListFacts DEF ProjectShape
    <2>3. colors[id] # 0
      BY <1>2, <2>1, <2>2 DEF RootsSeen, Options
    <2>4. colors[id] # 1
      BY <1>1, <1>2 DEF FramesOnPath
    <2> QED BY <1>2, <2>3, <2>4 DEF FramesOnPath
  <1>4. ASSUME NEW S \in (SUBSET OptionIds) \ {{}}
        PROVE  \E x \in S : \A y \in S : <<x, y>> \notin FollowedPairs
    <2>1. PICK x \in S : \A y \in S : ~Goes(x, y)
      <3>1. S \in SUBSET Left /\ S # {}
        BY <1>3
      <3>2. Ends(S)
        BY <1>2, <3>1, Zenon DEF LeftIsAcyclic
      <3> QED BY <3>2 DEF Ends
    <2>2. \A y \in S : <<x, y>> \notin FollowedPairs
      BY <1>2, <2>1, PairFacts
    <2> QED BY <2>2
  <1> QED BY <1>4, Zenon DEF Cyclic

-----------------------------------------------------------------------------
\* The config.

LEMMA ListTail ==
  ASSUME NEW s, IsList(s), s # <<>>
  PROVE  /\ IsList(Tail(s)) /\ Len(Tail(s)) = Len(s) - 1
         /\ DOMAIN Tail(s) = 1..(Len(s) - 1)
         /\ \A i \in 1..(Len(s) - 1) : Tail(s)[i] = s[i + 1]
  <1>1. PICK S, n, r : S = ToSet(s) /\ n = Len(s) /\ r = Tail(s) /\ s \in Seq(S)
    BY DEF IsList
  <1>2. n \in Nat \ {0}
    BY <1>1
  <1>3. r \in Seq(S) /\ Len(r) = n - 1 /\ \A i \in 1..(n - 1) : r[i] = s[i + 1]
    BY <1>1, <1>2
  <1>4. IsList(r) /\ DOMAIN r = 1..(n - 1)
    BY <1>2, <1>3, ListOf
  <1> QED BY <1>1, <1>3, <1>4

\* The target that is applied is the one the rules name.
LEMMA TargetIsRight ==
  ASSUME ChainInv
  PROVE  TargetName = RightTarget
  <1> DEFINE naming == {i \in DOMAIN chain : chain[i].target # Null}
  <1>1. DOMAIN chain = 1..Len(chain) /\ Len(chain) \in Nat
    BY ListFacts DEF ChainInv
  <1>2. CASE Request.target # Null
    BY <1>2 DEF TargetName, RightTarget
  <1>3. CASE Request.target = Null /\ naming = {}
    <2>1. \A i \in DOMAIN chain : chain[i].target = Null
      BY <1>3
    <2> QED BY <1>3, <2>1 DEF TargetName, RightTarget
  <1>4. CASE Request.target = Null /\ naming # {}
    <2>1. PICK k : k = First(naming)
      OBVIOUS
    <2>2. k \in naming /\ \A j \in naming : k <= j
      <3>1. naming \in SUBSET Nat
        BY <1>1
      <3> HIDE DEF naming
      <3> QED BY <1>4, <2>1, <3>1, FirstFacts
    <2>3. TargetName = chain[k].target
      BY <1>4, <2>1, Zenon DEF TargetName
    <2>4. ~ \A i \in DOMAIN chain : chain[i].target = Null
      BY <1>4
    <2> DEFINE Q(i) == chain[i].target # Null /\ \A j \in 1..(i - 1) : chain[j].target = Null
    <2>5. RightTarget = chain[CHOOSE i \in DOMAIN chain : Q(i)].target
      BY <1>4, <2>4, Zenon DEF RightTarget
    <2>6. k \in DOMAIN chain /\ Q(k)
      <3>1. \A j \in 1..(k - 1) : j \in DOMAIN chain /\ ~(k <= j)
        BY <1>1, <2>2
      <3> QED BY <1>1, <2>2, <3>1
    <2>7. \A i \in DOMAIN chain : Q(i) => i = k
      <3> SUFFICES ASSUME NEW i \in DOMAIN chain, Q(i) PROVE i = k
        OBVIOUS
      <3>1. i \in naming
        OBVIOUS
      <3>2. k <= i
        BY <2>2, <3>1
      <3>3. ~(k \in 1..(i - 1))
        BY <2>2
      <3> QED BY <1>1, <2>6, <3>2, <3>3
    <2>8. (CHOOSE i \in DOMAIN chain : Q(i)) = k
      <3> HIDE DEF Q
      <3> QED BY <2>6, <2>7
    <2> QED BY <2>3, <2>5, <2>8
  <1> QED BY <1>2, <1>3, <1>4

LEMMA TargetLayersFacts ==
  /\ IsList(TargetLayers)
  /\ RightTarget = Null => TargetLayers = <<>> /\ Len(TargetLayers) = 0
  /\ RightTarget # Null =>
        /\ Len(TargetLayers) = 1
        /\ TargetLayers[1] = Layer(RightTarget, TargetNamed(RightTarget).values)
  <1>1. CASE RightTarget = Null
    BY <1>1, ListEmpty DEF TargetLayers
  <1>2. CASE RightTarget # Null
    BY <1>2, ListOne DEF TargetLayers
  <1> QED BY <1>1, <1>2

\* The layers, from the user's overrides to the farthest base.
LEMMA LayersFacts ==
  ASSUME LoadInv, ChainInv
  PROVE  LET t == Len(TargetLayers)  m == Len(chain) IN
         /\ t \in {0, 1} /\ m \in Nat
         /\ IsList(Layers) /\ Layers[1] = Layer("user", Request.user)
         /\ Len(Layers) = 1 + m + t
         /\ chain = <<>> /\ RightTarget # Null =>
               t = 1 /\ Layers[2] = Layer(RightTarget, TargetNamed(RightTarget).values)
         /\ chain # <<>> =>
               /\ Layers[2] = Layer(chain[1].name, chain[1].values)
               /\ \A i \in 2..m : Layers[i + 1 + t] = Layer(chain[i].name, chain[i].values)
         /\ chain # <<>> /\ RightTarget # Null =>
               t = 1 /\ Layers[3] = Layer(RightTarget, TargetNamed(RightTarget).values)
  <1>1. PICK T, t, m, U, R : /\ T = TargetLayers /\ t = Len(TargetLayers) /\ m = Len(chain)
                          /\ U = Layer("user", Request.user)
                          /\ R = Layer(RightTarget, TargetNamed(RightTarget).values)
    OBVIOUS
  <1>2. /\ IsList(T) /\ t = Len(T) /\ t \in {0, 1} /\ m \in Nat /\ DOMAIN chain = 1..m
        /\ RightTarget = Null => T = <<>>
        /\ RightTarget # Null => t = 1 /\ T[1] = R
        /\ chain = <<>> <=> m = 0
    BY <1>1, TargetLayersFacts, ChainFacts
  <1>3. CASE chain = <<>>
    <2>1. Layers = <<U>> \o T
      BY <1>1, <1>3 DEF Layers
    <2>2. IsList(<<U>>) /\ Len(<<U>>) = 1 /\ <<U>>[1] = U
      BY ListOne
    <2>3. /\ IsList(<<U>> \o T) /\ Len(<<U>> \o T) = 1 + t
          /\ (<<U>> \o T)[1] = U
          /\ \A i \in 1..t : (<<U>> \o T)[1 + i] = T[i]
      BY ONLY <1>2, <2>2, ListConcat
    <2>4. t = 1 => (<<U>> \o T)[2] = T[1]
      BY <2>3
    <2> QED BY <1>1, <1>2, <1>3, <2>1, <2>3, <2>4
  <1>4. CASE chain # <<>>
    <2>1. PICK P : P = ProfileLayers
      OBVIOUS
    <2>2. /\ P = [i \in 1..m |-> P[i]]
          /\ \A i \in 1..m : P[i] = Layer(chain[i].name, chain[i].values)
      BY <1>2, <2>1 DEF ProfileLayers
    <2>3. IsList(P) /\ Len(P) = m /\ P # <<>> /\ m > 0
      BY <1>2, <1>4, <2>2, ListMade, ListFacts
    <2>4. PICK Q, V, W, X : Q = Tail(P) /\ V = <<P[1]>> /\ W = V \o T /\ X = W \o Q
      OBVIOUS
    <2>5. IsList(Q) /\ Len(Q) = m - 1 /\ \A i \in 1..(m - 1) : Q[i] = P[i + 1]
      BY <2>3, <2>4, ListTail
    <2>6. IsList(V) /\ Len(V) = 1 /\ V[1] = P[1]
      BY <2>4, ListOne
    <2>7. /\ IsList(W) /\ Len(W) = 1 + t /\ W[1] = V[1]
          /\ \A i \in 1..t : W[1 + i] = T[i]
      BY ONLY <1>2, <2>4, <2>6, ListConcat
    <2>8. /\ IsList(X) /\ Len(X) = t + m
          /\ \A i \in 1..(1 + t) : X[i] = W[i]
          /\ \A i \in 1..(m - 1) : X[1 + t + i] = Q[i]
      <3> DEFINE F(c, d) == /\ IsList(c \o d) /\ Len(c \o d) = Len(c) + Len(d)
                            /\ \A i \in 1..Len(c) : (c \o d)[i] = c[i]
                            /\ \A i \in 1..Len(d) : (c \o d)[Len(c) + i] = d[i]
      <3>0. \A c, d : IsList(c) /\ IsList(d) => F(c, d)
        BY ONLY ListConcat
      <3>1. F(W, Q)
        <4> HIDE DEF F
        <4> QED BY <2>5, <2>7, <3>0
      <3>2. PICK a, b : a = Len(W) /\ b = Len(Q)
        OBVIOUS
      <3>3. /\ IsList(X) /\ Len(X) = a + b
            /\ \A i \in 1..a : X[i] = W[i]
            /\ \A i \in 1..b : X[a + i] = Q[i]
        BY ONLY <2>4, <3>1, <3>2
      <3>4. a = 1 + t /\ b = m - 1 /\ t \in Nat /\ m \in Nat
        BY <1>2, <2>5, <2>7, <3>2
      <3> QED BY ONLY <3>3, <3>4
    <2>9. IsList(<<U>>) /\ Len(<<U>>) = 1 /\ <<U>>[1] = U
      BY ListOne
    <2>10. PICK Y : Y = <<U>> \o X
      OBVIOUS
    <2>11. /\ IsList(Y) /\ Len(Y) = 1 + (t + m) /\ Y[1] = U
           /\ \A i \in 1..(t + m) : Y[1 + i] = X[i]
      BY ONLY <2>8, <2>9, <2>10, ListConcat
    <2>12. Layers = Y
      BY <1>1, <1>4, <2>1, <2>4, <2>10 DEF Layers
    <2>13. Y[2] = P[1]
      BY <1>2, <2>3, <2>6, <2>7, <2>8, <2>11
    <2>14. t = 1 => Y[3] = T[1]
      <3> SUFFICES ASSUME t = 1 PROVE Y[3] = T[1]
        OBVIOUS
      <3>1. Y[1 + 2] = X[2] /\ X[2] = W[2] /\ W[1 + 1] = T[1]
        BY <1>2, <2>3, <2>7, <2>8, <2>11
      <3> QED BY <3>1
    <2>15. \A i \in 2..m : Y[i + 1 + t] = P[i]
      <3> SUFFICES ASSUME NEW i \in 2..m PROVE Y[i + 1 + t] = P[i]
        OBVIOUS
      <3>1. i - 1 \in 1..(m - 1) /\ 1 + t + (i - 1) = i + t /\ i + t \in 1..(t + m)
            /\ 1 + (i + t) = i + 1 + t /\ (i - 1) + 1 = i
        BY <1>2
      <3>2. X[i + t] = Q[i - 1] /\ Q[i - 1] = P[i] /\ Y[i + 1 + t] = X[i + t]
        BY <2>5, <2>8, <2>11, <3>1
      <3> QED BY <3>2
    <2>16. RightTarget # Null => Y[3] = R
      BY <1>2, <2>14
    <2>17. Y[2] = Layer(chain[1].name, chain[1].values)
      <3>1. 1 \in 1..m
        BY <1>2, <2>3
      <3>2. P[1] = Layer(chain[1].name, chain[1].values)
        BY <2>2, <3>1
      <3> QED BY ONLY <2>13, <3>2
    <2>18. \A i \in 2..m : Y[i + 1 + t] = Layer(chain[i].name, chain[i].values)
      <3>1. \A i \in 2..m : i \in 1..m
        BY <1>2
      <3> QED BY <2>2, <2>15, <3>1
    <2>19. Len(Y) = 1 + m + t
      BY ONLY <1>2, <2>11
    <2>20. IsList(Y) /\ Y[1] = U
      BY <2>11
    <2> QED BY ONLY <1>1, <1>2, <1>4, <2>12, <2>16, <2>17, <2>18, <2>19, <2>20
  <1> QED BY <1>3, <1>4

-----------------------------------------------------------------------------
\* What the slots contain.

LEMMA SameContent ==
  ASSUME chain' = chain, tree' = tree, input' = input
  PROVE  /\ OptionIds' = OptionIds /\ Options' = Options /\ Request' = Request
         /\ RightTarget' = RightTarget /\ TargetLayers' = TargetLayers /\ Layers' = Layers
         /\ First2' = First2
         /\ \A id : FindOption(id)' = FindOption(id) /\ DefaultOf(id)' = DefaultOf(id)
         /\ \A k, p, id : Content(k, p, id)' = Content(k, p, id)
         /\ MergedConfig' = MergedConfig
  <1>1. /\ OptionIds' = OptionIds /\ Options' = Options /\ Request' = Request
        /\ RightTarget' = RightTarget /\ First2' = First2
        /\ \A id : FindOption(id)' = FindOption(id)
    BY DEF OptionIds, Options, Request, RightTarget, First2, FindOption, First
  <1>2. TargetLayers' = TargetLayers /\ ProfileLayers' = ProfileLayers
    BY <1>1 DEF TargetLayers, ProfileLayers, Layer, TargetNamed, Find, First
  <1>3. Layers' = Layers
    BY <1>1, <1>2 DEF Layers, Layer
  <1>4. \A id : DefaultOf(id)' = DefaultOf(id)
    BY <1>1 DEF DefaultOf, Slot
  <1>5. \A k, p, id : Content(k, p, id)' = Content(k, p, id)
    <2> SUFFICES ASSUME NEW k, NEW p, NEW id PROVE Content(k, p, id)' = Content(k, p, id)
      OBVIOUS
    <2>2. GivingBelow(k, id)' = GivingBelow(k, id)
      BY <1>3 DEF GivingBelow, Gives
    <2>3. FromBelow(k, id)' = FromBelow(k, id)
      BY <1>3, <1>4, <2>2 DEF FromBelow, Given, Slot, First
    <2>4. GivenBefore(Layers[k].values, p, id)' = GivenBefore(Layers[k].values, p, id)
      BY <1>3 DEF GivenBefore
    <2>5. LastGiven(Layers[k].values, p, id)' = LastGiven(Layers[k].values, p, id)
      BY <1>3, <2>4 DEF LastGiven
    <2> QED BY <1>3, <2>3, <2>4, <2>5 DEF Content, Slot
  <1>6. MergedConfig' = MergedConfig
    <2>1. \A o : Merged(o)' = Merged(o)
      <3> SUFFICES ASSUME NEW o PROVE Merged(o)' = Merged(o)
        OBVIOUS
      <3>1. PICK S : S = {i \in DOMAIN Layers : Gives(Layers[i].values, o.id)}
        OBVIOUS
      <3>2. S = {i \in DOMAIN Layers' : Gives(Layers'[i].values, o.id)}
        BY <1>3, <3>1 DEF Gives
      <3> QED BY <1>3, <3>1, <3>2 DEF Merged, Given, Gives, Slot, First
    <2> QED BY <1>1, <2>1 DEF MergedConfig
  <1> QED BY <1>1, <1>2, <1>3, <1>4, <1>5, <1>6

LEMMA GreatestOf ==
  ASSUME NEW n \in Nat, NEW S \in SUBSET (0..n), S # {}, NEW x \in S, \A y \in S : y <= x
  PROVE  (CHOOSE i \in S : \A j \in S : j <= i) = x
  <1>1. \A i \in S : (\A j \in S : j <= i) => i = x
    OBVIOUS
  <1> DEFINE P(i) == \A j \in S : j <= i
  <1>2. x \in S /\ P(x) /\ \A i \in S : P(i) => i = x
    BY <1>1
  <1> HIDE DEF P
  <1>3. (CHOOSE i \in S : P(i)) = x
    BY <1>2
  <1> QED BY <1>3 DEF P

\* Applying a value of a layer overlays what was there.
LEMMA Overlaid ==
  ASSUME NEW k \in DOMAIN Layers, NEW values, values = Layers[k].values, IsList(values),
         NEW p \in DOMAIN values, NEW id
  PROVE  Content(k, p + 1, id) =
           IF id = values[p].id THEN Slot(values[p].value, Layers[k].source) ELSE Content(k, p, id)
  <1>1. PICK n : n = Len(values) /\ n \in Nat /\ DOMAIN values = 1..n
    BY ListFacts
  <1>2. PICK S, T : S = GivenBefore(values, p + 1, id) /\ T = GivenBefore(values, p, id)
    OBVIOUS
  <1>3. \A i : i \in S <=> i \in 1..p /\ values[i].id = id
    BY <1>1, <1>2 DEF GivenBefore
  <1>4. \A i : i \in T <=> i \in 1..(p - 1) /\ values[i].id = id
    BY <1>1, <1>2 DEF GivenBefore
  <1>5. CASE id = values[p].id
    <2>1. p \in S /\ \A j \in S : j <= p
      BY <1>1, <1>3, <1>5
    <2>2. S \in SUBSET (0..n)
      BY <1>1, <1>3
    <2>3. (CHOOSE i \in S : \A j \in S : j <= i) = p
      BY <1>1, <2>1, <2>2, GreatestOf
    <2>4. LastGiven(values, p + 1, id) = values[p]
      BY <1>2, <2>3 DEF LastGiven
    <2>5. S # {}
      BY <2>1
    <2> QED BY <1>2, <1>5, <2>4, <2>5, Zenon DEF Content
  <1>6. CASE id # values[p].id
    <2>1. S = T
      <3>1. \A i : i \in 1..p <=> i \in 1..(p - 1) \/ i = p
        BY <1>1
      <3>2. \A i : i \in S <=> i \in T
        BY <1>3, <1>4, <1>6, <3>1
      <3> QED BY <3>2, Zenon
    <2>2. LastGiven(values, p + 1, id) = LastGiven(values, p, id)
      BY <1>2, <2>1 DEF LastGiven
    <2> QED BY <1>2, <1>6, <2>1, <2>2, Zenon DEF Content
  <1> QED BY <1>5, <1>6

\* Of a layer that was applied nothing more is to come.
LEMMA NextLayer ==
  ASSUME IsList(Layers), NEW k \in DOMAIN Layers, NEW values, values = Layers[k].values, IsList(values),
         NEW p \in Nat, p > Len(values), NEW id
  PROVE  Content(k, p, id) = Content(k - 1, 1, id)
  <1>1. PICK n : n = Len(values) /\ n \in Nat /\ DOMAIN values = 1..n
    BY ListFacts
  <1>0. k \in Nat \ {0} /\ DOMAIN Layers \in SUBSET Nat
    BY ListFacts
  <1>2. PICK S, T, B : S = GivenBefore(values, p, id) /\ T = GivingBelow(k - 1, id) /\ B = GivingBelow(k, id)
    OBVIOUS
  <1>3. \A i : i \in S <=> i \in 1..n /\ values[i].id = id
    BY <1>1, <1>2 DEF GivenBefore
  <1>4. Content(k - 1, 1, id) = FromBelow(k - 1, id)
    <2>1. GivenBefore(Layers[k - 1].values, 1, id) = {}
      BY DEF GivenBefore
    <2> QED BY <2>1, Zenon DEF Content
  <1>5. Gives(values, id) <=> S # {}
    BY <1>1, <1>3 DEF Gives
  <1>6. /\ \A i : i \in T <=> i \in DOMAIN Layers /\ k <= i /\ Gives(Layers[i].values, id)
        /\ \A i : i \in B <=> i \in DOMAIN Layers /\ k < i /\ Gives(Layers[i].values, id)
    BY <1>0, <1>2 DEF GivingBelow
  <1>7. CASE S # {}
    <2>1. k \in T /\ (\A j \in T : k <= j) /\ T \in SUBSET Nat
      BY <1>0, <1>5, <1>6, <1>7
    <2>2. First(T) = k
      <3>1. First(T) \in T /\ \A j \in T : First(T) <= j
        BY <2>1, FirstFacts
      <3> QED BY <1>0, <2>1, <3>1
    <2>3. FromBelow(k - 1, id) = Slot(Given(values, id).value, Layers[k].source)
      BY <1>2, <2>1, <2>2, Zenon DEF FromBelow
    <2>4. PICK x \in S : \A y \in S : y <= x
      <3>1. S \in SUBSET (0..n)
        BY <1>1, <1>3
      <3> QED BY <1>1, <1>7, <3>1, GreatestNatural
    <2>5. LastGiven(values, p, id) = values[x]
      <3>1. S \in SUBSET (0..n)
        BY <1>1, <1>3
      <3>2. (CHOOSE i \in S : \A j \in S : j <= i) = x
        BY <1>1, <2>4, <3>1, GreatestOf
      <3> QED BY <1>2, <3>2 DEF LastGiven
    <2>6. Given(values, id) = values[x]
      <3> DEFINE P(i) == values[i].id = id /\ \A j \in DOMAIN values : values[j].id = id => j <= i
      <3>1. x \in DOMAIN values /\ P(x)
        BY <1>1, <1>3, <2>4
      <3>2. \A i \in DOMAIN values : P(i) => i = x
        BY <1>1, <1>3, <2>4
      <3>3. (CHOOSE i \in DOMAIN values : P(i)) = x
        <4> HIDE DEF P
        <4> QED BY <3>1, <3>2
      <3> QED BY <3>3 DEF Given
    <2> QED BY <1>2, <1>4, <1>7, <2>3, <2>5, <2>6, Zenon DEF Content
  <1>8. CASE S = {}
    <2>1. ~Gives(Layers[k].values, id)
      BY ONLY values = Layers[k].values, <1>5, <1>8
    <2>2. ASSUME NEW i, i \in DOMAIN Layers, k <= i, Gives(Layers[i].values, id) PROVE k < i
      <3>1. i # k
        BY ONLY <2>1, <2>2
      <3>2. i \in Nat /\ k \in Nat
        BY ONLY <1>0, <2>2
      <3> QED BY ONLY <2>2, <3>1, <3>2
    <2>3. ASSUME NEW i, i \in DOMAIN Layers, k < i PROVE k <= i
      <3>1. i \in Nat /\ k \in Nat
        BY ONLY <1>0, <2>3
      <3> QED BY ONLY <2>3, <3>1
    <2>4. \A i : i \in T <=> i \in B
      BY ONLY <1>6, <2>2, <2>3
    <2>5. T = B
      BY ONLY <2>4
    <2>6. FromBelow(k - 1, id) = FromBelow(k, id)
      BY <1>2, <2>5 DEF FromBelow
    <2> QED BY <1>2, <1>4, <1>8, <2>6, Zenon DEF Content
  <1> QED BY <1>7, <1>8

LEMMA Bottom ==
  ASSUME IsList(Layers), NEW k \in Nat, k >= Len(Layers), NEW id
  PROVE  Content(k, 1, id) = DefaultOf(id)
  <1>1. GivenBefore(Layers[k].values, 1, id) = {}
    BY DEF GivenBefore
  <1>2. GivingBelow(k, id) = {}
    BY ListFacts DEF GivingBelow
  <1> QED BY <1>1, <1>2, Zenon DEF Content, FromBelow

LEMMA Whole ==
  ASSUME ProjectShape, IsList(Layers), NEW id \in OptionIds
  PROVE  Content(0, 1, id) = MergedConfig[id]
  <1>1. GivenBefore(Layers[0].values, 1, id) = {}
    BY DEF GivenBefore
  <1>2. Content(0, 1, id) = FromBelow(0, id)
    BY <1>1, Zenon DEF Content
  <1>3. PICK o : o = FindOption(id) /\ o.id = id
    BY FindOptionFacts
  <1>4. GivingBelow(0, id) = {i \in DOMAIN Layers : Gives(Layers[i].values, o.id)}
    <2>1. \A i \in DOMAIN Layers : 0 < i
      BY ListFacts
    <2> QED BY <1>3, <2>1 DEF GivingBelow
  <1>5. FromBelow(0, id) = Merged(o)
    BY <1>3, <1>4 DEF FromBelow, Merged, DefaultOf
  <1> QED BY <1>2, <1>3, <1>5 DEF MergedConfig

LEMMA DefaultIsValue ==
  ASSUME ProjectShape, NEW id \in OptionIds
  PROVE  IsValue(DefaultOf(id).value)
  <1>1. IsValue(FindOption(id).default)
    BY FindOptionFacts DEF ProjectShape, IsOption
  <1> QED BY <1>1 DEF DefaultOf, Slot

\* A refusal leaves no config.
LEMMA RejectedConfig ==
  ASSUME Rejected
  PROVE  ConfigInv'
  <1>1. stage' = "failed" /\ resolved' = <<>>
    BY RejectedFacts
  <1>2. DOMAIN <<>> = {}
    OBVIOUS
  <1> QED BY <1>1, <1>2 DEF ConfigInv, Idle, Layering, BeforeChain, Early

\* A value of the layer that is applied.
LEMMA ApplyKeeps ==
  ASSUME ResolveInv, stage \in {"bases", "target", "profile", "user"}, ~Idle,
         NEW values, NEW source, ApplyValue(values, source), ~Rejected, IsList(values),
         \A i \in DOMAIN values : IsValue(values[i].value),
         LayerNow \in DOMAIN Layers, Layers[LayerNow] = Layer(source, values)
  PROVE  ConfigInv'
  <1>1. PICK k, p, v : k = LayerNow /\ p = pos /\ v = values[pos]
    OBVIOUS
  <1>2. /\ p <= Len(values) /\ v.id \in OptionIds
        /\ resolved' = [resolved EXCEPT ![v.id] = Slot(v.value, source)]
        /\ pos' = p + 1 /\ stage' = stage /\ turn' = turn
        /\ chain' = chain /\ tree' = tree /\ input' = input
    BY <1>1, ApplyValueFacts DEF SameLoad
  <1>3. p \in DOMAIN values
    BY <1>1, <1>2, ListFacts DEF ResolveInv, ChainInv
  <1>4. Layers[k].values = values /\ Layers[k].source = source
    BY <1>1 DEF Layer
  <1>5. \A id : Content(k, p + 1, id) = IF id = v.id THEN Slot(v.value, source) ELSE Content(k, p, id)
    BY <1>1, <1>3, <1>4, Overlaid
  <1>6. stage \in Layering
    BY DEF Layering
  <1>7. resolved = [id \in OptionIds |-> Content(k, p, id)]
    BY <1>1, <1>6 DEF ResolveInv, ConfigInv
  <1>8. resolved' = [id \in OptionIds |-> Content(k, p + 1, id)]
    BY <1>2, <1>5, <1>7
  <1>9. LayerNow' = k /\ ~Idle'
    BY <1>1, <1>2, SameContent DEF LayerNow, Idle
  <1>10. resolved' = [id \in OptionIds' |-> Content(LayerNow, pos, id)']
    <2>1. PICK q : q = p + 1
      OBVIOUS
    <2>2. resolved' = [id \in OptionIds |-> Content(k, q, id)]
      BY <1>8, <2>1
    <2>3. pos' = q /\ LayerNow' = k
      BY <1>2, <1>9, <2>1
    <2>4. OptionIds' = OptionIds /\ \A id : Content(k, q, id)' = Content(k, q, id)
      BY <1>2, SameContent
    <2> QED BY <2>2, <2>3, <2>4
  <1>11. \A id \in DOMAIN resolved' : IsValue(resolved'[id].value)
    <2>1. \A id \in DOMAIN resolved : IsValue(resolved[id].value)
      BY DEF ResolveInv, ConfigInv
    <2>2. DOMAIN resolved = OptionIds /\ DOMAIN resolved' = OptionIds
      BY <1>7, <1>8
    <2>3. Slot(v.value, source).value = v.value /\ IsValue(v.value)
      BY <1>1, <1>3 DEF Slot
    <2> QED BY <1>2, <2>1, <2>2, <2>3
  <1>12. stage' \notin BeforeChain /\ stage' \notin {"seed", "chain"}
    BY <1>2 DEF BeforeChain, Early
  <1> QED BY <1>9, <1>10, <1>11, <1>12 DEF ConfigInv

\* From one layer to the next.
LEMMA LayerDone ==
  ASSUME ResolveInv, stage \in Layering, stage' \in Layering, resolved' = resolved,
         chain' = chain, tree' = tree, input' = input, pos' = 1,
         \/ LayerNow' = LayerNow /\ pos = 1
         \/ /\ LayerNow \in DOMAIN Layers /\ LayerNow' = LayerNow - 1
            /\ IsList(Layers[LayerNow].values) /\ pos > Len(Layers[LayerNow].values)
  PROVE  ConfigInv'
  <1>1. PICK k, p : k = LayerNow /\ p = pos
    OBVIOUS
  <1>2. resolved = [id \in OptionIds |-> Content(k, p, id)]
    BY <1>1 DEF ResolveInv, ConfigInv
  <1>3. \A id : Content(k, p, id) = Content(LayerNow', 1, id)
    <2>1. CASE LayerNow' = LayerNow /\ pos = 1
      BY <1>1, <2>1
    <2>2. CASE /\ LayerNow \in DOMAIN Layers /\ LayerNow' = LayerNow - 1
               /\ IsList(Layers[LayerNow].values) /\ pos > Len(Layers[LayerNow].values)
      <3>1. IsList(Layers) /\ p \in Nat
        BY <1>1, LayersFacts DEF ResolveInv, ChainInv
      <3>2. PICK values : values = Layers[k].values
        OBVIOUS
      <3>3. \A id : Content(k, p, id) = Content(k - 1, 1, id)
        BY <1>1, <2>2, <3>1, <3>2, NextLayer
      <3> QED BY <1>1, <2>2, <3>3
    <2> QED BY <2>1, <2>2
  <1>4. resolved' = [id \in OptionIds |-> Content(LayerNow', 1, id)]
    BY <1>2, <1>3
  <1>5. resolved' = [id \in OptionIds' |-> Content(LayerNow, pos, id)']
    BY <1>4, SameContent
  <1>6. \A id \in DOMAIN resolved' : IsValue(resolved'[id].value)
    BY DEF ResolveInv, ConfigInv
  <1>7. stage' \notin BeforeChain /\ stage' \notin {"seed", "chain"}
    BY DEF BeforeChain, Early, Layering
  <1> QED BY <1>5, <1>6, <1>7 DEF ConfigInv

\* The defaults are below every layer.
LEMMA LayersBegin ==
  ASSUME ResolveInv, resolved = [id \in OptionIds |-> DefaultOf(id)], resolved' = resolved,
         stage' \in {"bases", "target"}, chain' = chain, tree' = tree, input' = input, pos' = 1,
         LayerNow' \in Nat, LayerNow' >= Len(Layers)
  PROVE  ConfigInv'
  <1>1. IsList(Layers)
    BY LayersFacts DEF ResolveInv
  <1>2. \A id : Content(LayerNow', 1, id) = DefaultOf(id)
    BY <1>1, Bottom
  <1>3. resolved' = [id \in OptionIds |-> Content(LayerNow', 1, id)]
    BY <1>2
  <1>4. resolved' = [id \in OptionIds' |-> Content(LayerNow, pos, id)']
    BY <1>3, SameContent
  <1>5. \A id \in DOMAIN resolved' : IsValue(resolved'[id].value)
    BY DefaultIsValue DEF ResolveInv, LoadInv, ProjectInv
  <1>6. stage' \notin BeforeChain /\ stage' \notin {"seed", "chain"}
    BY DEF BeforeChain, Early
  <1> QED BY <1>4, <1>5, <1>6 DEF ConfigInv

\* Nothing is resolved before the options are seeded.
LEMMA NotSeededYet ==
  ASSUME ResolveInv, Resolving, ~Rejected, stage \in {"loaded", "edges", "cycles", "lint"}
  PROVE  ConfigInv'
  <1>1. Start \/ AddEdges \/ EdgesBuilt \/ VisitRoot \/ FollowEdge \/ LeaveNode \/ NoCycle \/ Lint
    BY Acting
  <1>2. resolved' = resolved
    BY <1>1, Zenon DEF Start, AddEdges, EdgesBuilt, VisitRoot, FollowEdge, LeaveNode, NoCycle, Lint,
       Rejected
  <1>3. resolved = <<>>
    BY DEF ResolveInv, ConfigInv, BeforeChain
  <1>4. stage' \in {"loaded", "edges", "cycles", "lint", "seed"}
    BY Course
  <1>5. DOMAIN resolved' = {}
    BY <1>2, <1>3
  <1>6. stage' = "seed" => resolved' = [id \in SeededIds' |-> DefaultOf(id)']
    <2> SUFFICES ASSUME stage' = "seed" PROVE resolved' = [id \in SeededIds' |-> DefaultOf(id)']
      OBVIOUS
    <2>1. Lint
      <3>1. stage = "lint"
        BY Course
      <3> QED BY <3>1, Acting
    <2>2. Goto("seed")
      BY <2>1, Zenon DEF Lint, Rejected
    <2>3. turn' = 1 /\ tree' = tree
      BY <2>2 DEF Goto
    <2>4. DOMAIN Options = 1..Len(Options)
      BY ListFacts DEF ResolveInv, LoadInv, ProjectInv, ProjectShape, Options
    <2>5. SeededIds' = {}
      BY <2>3, <2>4 DEF SeededIds, Options
    <2> QED BY <1>2, <1>3, <2>5
  <1> QED BY <1>2, <1>3, <1>4, <1>5, <1>6 DEF ConfigInv, Idle, Layering

LEMMA OptionsFacts ==
  ASSUME LoadInv
  PROVE  /\ Len(Options) \in Nat /\ DOMAIN Options = 1..Len(Options)
         /\ \A i \in DOMAIN Options :
               /\ Options[i].id \in OptionIds /\ FindOption(Options[i].id) = Options[i]
               /\ IsOption(Options[i])
         /\ \A id \in OptionIds : \E i \in DOMAIN Options : Options[i].id = id
  <1>1. ProjectShape /\ OneOptionPerId
    BY DEF LoadInv, ProjectInv
  <1>2. IsList(Options) /\ \A i \in DOMAIN Options : IsOption(Options[i])
    BY <1>1 DEF ProjectShape, Options
  <1>3. Len(Options) \in Nat /\ DOMAIN Options = 1..Len(Options)
    BY <1>2, ListFacts
  <1>4. \A i \in DOMAIN Options : Options[i].id \in OptionIds /\ FindOption(Options[i].id) = Options[i]
    BY <1>1, FindOptionIs DEF Options
  <1>5. \A id \in OptionIds : \E i \in DOMAIN Options : Options[i].id = id
    BY <1>1, OptionIdsFacts DEF Options
  <1> QED BY <1>2, <1>3, <1>4, <1>5

LEMMA SeedKeeps ==
  ASSUME ResolveInv, Seed, ~Rejected
  PROVE  ConfigInv'
  <1>1. PICK o : o = Options[turn]
    OBVIOUS
  <1>2. /\ stage = "seed" /\ turn <= Len(Options)
        /\ resolved' = [id \in DOMAIN resolved \cup {o.id} |->
                           IF id = o.id THEN Slot(o.default, "default") ELSE resolved[id]]
        /\ turn' = turn + 1 /\ Stay /\ chain' = chain
    BY <1>1, Zenon DEF Seed, Rejected, OptionAt
  <1>3. stage' = stage /\ tree' = tree /\ input' = input
    BY <1>2 DEF Stay, loadVars
  <1>4. resolved = [id \in SeededIds |-> DefaultOf(id)]
    BY <1>2 DEF ResolveInv, ConfigInv
  <1>5. turn \in Nat /\ turn \in DOMAIN Options /\ DOMAIN Options = 1..Len(Options) /\ LoadInv
    BY <1>2, OptionsFacts DEF ResolveInv, ChainInv
  <1>6. SeededIds' = SeededIds \cup {o.id}
    <2>1. \A id : id \in SeededIds <=> \E i \in DOMAIN Options : i < turn /\ Options[i].id = id
      BY DEF SeededIds
    <2>2. \A id : id \in SeededIds' <=> \E i \in DOMAIN Options : i < turn + 1 /\ Options[i].id = id
      BY <1>2, <1>3 DEF SeededIds, Options
    <2>3. \A i \in DOMAIN Options : i < turn + 1 <=> i < turn \/ i = turn
      BY <1>5
    <2>4. \A id : id \in SeededIds' <=> id \in SeededIds \/ id = o.id
      BY <1>1, <1>5, <2>1, <2>2, <2>3
    <2> QED BY <2>4
  <1>7. DefaultOf(o.id) = Slot(o.default, "default")
    BY <1>1, <1>5, OptionsFacts DEF DefaultOf
  <1>8. resolved' = [id \in SeededIds \cup {o.id} |-> DefaultOf(id)]
    BY <1>2, <1>4, <1>7
  <1>9. resolved' = [id \in SeededIds' |-> DefaultOf(id)']
    BY <1>2, <1>3, <1>6, <1>8, SameContent
  <1>10. \A id \in DOMAIN resolved' : IsValue(resolved'[id].value)
    <2>1. SeededIds \cup {o.id} \subseteq OptionIds
      BY <1>1, <1>5, OptionsFacts DEF SeededIds
    <2> QED BY <1>5, <1>8, <2>1, DefaultIsValue DEF LoadInv, ProjectInv
  <1> QED BY <1>2, <1>3, <1>9, <1>10 DEF ConfigInv, Idle, Layering

LEMMA SeededKeeps ==
  ASSUME ResolveInv, Seeded, ~Rejected
  PROVE  ConfigInv'
  <1>1. stage = "seed" /\ turn = Len(Options) + 1 /\ LoadInv
    BY Zenon DEF Seeded, ResolveInv
  <1>2. SeededIds = OptionIds
    <2>1. \A i \in DOMAIN Options : i < turn
      BY <1>1, OptionsFacts
    <2> QED BY <1>1, <2>1, OptionsFacts DEF SeededIds
  <1>3. resolved = [id \in OptionIds |-> DefaultOf(id)]
    BY <1>1, <1>2 DEF ResolveInv, ConfigInv
  <1>4. resolved' = resolved /\ ((Goto("target") /\ chain' = chain) \/ Goto("chain"))
    BY Zenon DEF Seeded, Rejected
  <1>5. CASE Goto("target") /\ chain' = chain
    <2>1. stage' = "target" /\ turn' = 1 /\ pos' = 1 /\ tree' = tree /\ input' = input
      BY <1>5 DEF Goto
    <2>2. chain = <<>>
      BY <1>1 DEF ResolveInv, ChainInv, BeforeChain
    <2>3. Len(Layers) = 1 + Len(chain) + Len(TargetLayers) /\ Len(chain) = 0 /\ Len(TargetLayers) \in Nat
      BY <2>2, LayersFacts, ChainFacts DEF ResolveInv
    <2>4. LayerNow' = 1 + Len(TargetLayers)
      BY <1>5, <2>1, <2>2, SameContent DEF LayerNow, First2
    <2> QED BY <1>3, <1>4, <1>5, <2>1, <2>3, <2>4, LayersBegin
  <1>6. CASE Goto("chain")
    <2>1. stage' = "chain" /\ tree' = tree
      BY <1>6 DEF Goto
    <2>2. \A id : DefaultOf(id)' = DefaultOf(id)
      BY <2>1 DEF DefaultOf, FindOption, First, Slot
    <2>3. OptionIds' = OptionIds
      BY <2>1 DEF OptionIds
    <2>4. \A id \in DOMAIN resolved' : IsValue(resolved'[id].value)
      BY <1>4 DEF ResolveInv, ConfigInv
    <2> QED BY <1>3, <1>4, <2>1, <2>2, <2>3, <2>4 DEF ConfigInv, Idle, Layering, BeforeChain, Early
  <1> QED BY <1>4, <1>5, <1>6

\* Pushing a base onto the chain leaves the defaults.
LEMMA ChainStageKeeps ==
  ASSUME ResolveInv, stage = "chain", Resolving, ~Rejected
  PROVE  ConfigInv'
  <1>1. resolved = [id \in OptionIds |-> DefaultOf(id)]
    BY DEF ResolveInv, ConfigInv
  <1>2. CASE PushBase
    <2>1. resolved' = resolved /\ Stay
      BY <1>2, Zenon DEF PushBase, Rejected
    <2>2. stage' = "chain" /\ tree' = tree
      BY <2>1 DEF Stay, loadVars
    <2>3. \A id : DefaultOf(id)' = DefaultOf(id)
      BY <2>2 DEF DefaultOf, FindOption, First, Slot
    <2>4. OptionIds' = OptionIds
      BY <2>2 DEF OptionIds
    <2>5. \A id \in DOMAIN resolved' : IsValue(resolved'[id].value)
      BY <2>1 DEF ResolveInv, ConfigInv
    <2> QED BY <1>1, <2>1, <2>2, <2>3, <2>4, <2>5 DEF ConfigInv, Idle, Layering, BeforeChain, Early
  <1>3. CASE ChainBuilt
    <2>1. /\ stage' = "bases" /\ turn' = Len(chain) /\ pos' = 1 /\ chain' = chain /\ tree' = tree
          /\ input' = input /\ resolved' = resolved
      BY <1>3 DEF ChainBuilt
    <2>2. /\ Len(Layers) = 1 + Len(chain) + Len(TargetLayers)
          /\ Len(TargetLayers) \in Nat /\ Len(chain) \in Nat
      BY LayersFacts DEF ResolveInv
    <2>3. TargetLayers' = TargetLayers
      BY <2>1, SameContent
    <2>4. LayerNow' = turn' + 1 + Len(TargetLayers)
      BY <2>1, <2>3 DEF LayerNow
    <2> QED BY <1>1, <2>1, <2>2, <2>4, LayersBegin
  <1> QED BY <1>2, <1>3, Acting

LEMMA UserValues ==
  ASSUME LoadInv
  PROVE  IsList(Request.user) /\ \A i \in DOMAIN Request.user : IsValue(Request.user[i].value)
  <1>1. PICK user : user = Request.user
    OBVIOUS
  <1>2. user \in Seq(ToSet(user)) /\ \A v \in ToSet(user) : IsValue(v.value)
    BY <1>1 DEF LoadInv, ProjectInv, IsInput, Request
  <1>3. IsList(user)
    BY <1>2 DEF IsList
  <1> QED BY <1>1, <1>2, <1>3, ListFacts

\* The values of the target that is applied.
LEMMA TargetFacts ==
  ASSUME LoadInv, NEW name \in Names(tree.targets)
  PROVE  /\ IsList(TargetNamed(name).values)
         /\ \A i \in DOMAIN TargetNamed(name).values : ValueKnown(TargetNamed(name).values[i])
  <1>1. IsList(tree.targets) /\ \A j \in DOMAIN tree.targets : IsTarget(tree.targets[j])
    BY DEF LoadInv, ProjectInv, ProjectShape
  <1>2. PICK j \in DOMAIN tree.targets : TargetNamed(name) = tree.targets[j]
    BY <1>1, FindFacts DEF TargetNamed
  <1>3. \A k \in DOMAIN tree.targets[j].values : ValueKnown(tree.targets[j].values[k])
    BY <1>2 DEF LoadInv, ProjectInv, ValuesKnown
  <1> QED BY <1>1, <1>2, <1>3 DEF IsTarget

\* Which layer each part of the resolver applies.
LEMMA LayerOf ==
  ASSUME ResolveInv
  PROVE  /\ IsList(Layers) /\ DOMAIN Layers = 1..Len(Layers)
         /\ stage = "bases" /\ turn > 1 =>
               /\ LayerNow \in DOMAIN Layers
               /\ Layers[LayerNow] = Layer(chain[turn].name, chain[turn].values)
         /\ stage = "target" /\ RightTarget # Null =>
               /\ LayerNow \in DOMAIN Layers
               /\ Layers[LayerNow] = Layer(RightTarget, TargetNamed(RightTarget).values)
         /\ stage = "profile" /\ chain # <<>> =>
               /\ LayerNow \in DOMAIN Layers
               /\ Layers[LayerNow] = Layer(chain[1].name, chain[1].values)
         /\ stage = "user" =>
               /\ LayerNow \in DOMAIN Layers
               /\ Layers[LayerNow] = Layer("user", Request.user)
  <1>1. PICK t, m, L : t = Len(TargetLayers) /\ m = Len(chain) /\ L = Layers
    OBVIOUS
  <1>2. /\ t \in {0, 1} /\ m \in Nat /\ IsList(L) /\ Len(L) = 1 + m + t /\ L[1] = Layer("user", Request.user)
        /\ chain = <<>> /\ RightTarget # Null =>
              t = 1 /\ L[2] = Layer(RightTarget, TargetNamed(RightTarget).values)
        /\ chain # <<>> =>
              /\ L[2] = Layer(chain[1].name, chain[1].values)
              /\ \A i \in 2..m : L[i + 1 + t] = Layer(chain[i].name, chain[i].values)
        /\ chain # <<>> /\ RightTarget # Null =>
              t = 1 /\ L[3] = Layer(RightTarget, TargetNamed(RightTarget).values)
    BY <1>1, LayersFacts DEF ResolveInv
  <1>3. DOMAIN L = 1..(1 + m + t) /\ (chain = <<>> <=> m = 0)
    BY <1>1, <1>2, ListFacts, ChainFacts DEF ResolveInv
  <1>4. /\ stage = "bases" => LayerNow = turn + 1 + t
        /\ stage = "target" => LayerNow = First2 + t
        /\ stage = "profile" => LayerNow = First2
        /\ stage = "user" => LayerNow = 1
    BY <1>1 DEF LayerNow
  <1>5. First2 = IF chain = <<>> THEN 1 ELSE 2
    BY DEF First2
  <1>6. stage = "bases" => turn \in 1..m /\ chain # <<>>
    BY <1>1 DEF ResolveInv, ChainInv
  <1>7. stage = "bases" /\ turn > 1 =>
          LayerNow \in DOMAIN L /\ L[LayerNow] = Layer(chain[turn].name, chain[turn].values)
    BY <1>2, <1>3, <1>4, <1>6
  <1>8. stage = "target" /\ RightTarget # Null =>
          LayerNow \in DOMAIN L /\ L[LayerNow] = Layer(RightTarget, TargetNamed(RightTarget).values)
    BY <1>2, <1>3, <1>4, <1>5
  <1>9. stage = "profile" /\ chain # <<>> =>
          LayerNow \in DOMAIN L /\ L[LayerNow] = Layer(chain[1].name, chain[1].values)
    BY <1>2, <1>3, <1>4, <1>5
  <1>10. stage = "user" =>
          LayerNow \in DOMAIN L /\ L[LayerNow] = Layer("user", Request.user)
    BY <1>2, <1>3, <1>4
  <1>11. DOMAIN L = 1..Len(L)
    BY <1>2, ListFacts
  <1> QED BY ONLY <1>1, <1>2, <1>7, <1>8, <1>9, <1>10, <1>11

LEMMA BasesKeep ==
  ASSUME ResolveInv, stage = "bases", Resolving, ~Rejected
  PROVE  ConfigInv'
  <1>1. /\ turn \in 1..Len(chain) /\ pos \in Nat /\ DOMAIN chain = 1..Len(chain) /\ chain # <<>>
        /\ Len(chain) \in Nat
        /\ \A i \in 1..Len(chain) : IsList(chain[i].values) /\ \A k \in DOMAIN chain[i].values : ValueKnown(chain[i].values[k])
    BY ChainFacts DEF ResolveInv, ChainInv
  <1>2. CASE ApplyBase
    <2>1. turn > 1 /\ ApplyValue(chain[turn].values, chain[turn].name)
      BY <1>2, Zenon DEF ApplyBase
    <2>2. ~Idle
      BY <1>1, <2>1 DEF Idle
    <2>3. IsList(chain[turn].values) /\ \A i \in DOMAIN chain[turn].values : IsValue(chain[turn].values[i].value)
      BY <1>1 DEF ValueKnown
    <2>4. LayerNow \in DOMAIN Layers /\ Layers[LayerNow] = Layer(chain[turn].name, chain[turn].values)
      BY <2>1, LayerOf
    <2> QED BY <2>1, <2>2, <2>3, <2>4, ApplyKeeps
  <1>3. CASE NextBase
    <2>1. /\ turn > 1 /\ pos > Len(chain[turn].values) /\ turn' = turn - 1 /\ pos' = 1
          /\ Stay /\ chain' = chain /\ resolved' = resolved
      BY <1>3 DEF NextBase
    <2>2. stage' = "bases" /\ tree' = tree /\ input' = input
      BY <2>1 DEF Stay, loadVars
    <2>3. LayerNow \in DOMAIN Layers /\ Layers[LayerNow] = Layer(chain[turn].name, chain[turn].values)
      BY <2>1, LayerOf
    <2>4. Layers[LayerNow].values = chain[turn].values
      BY <2>3 DEF Layer
    <2>5. TargetLayers' = TargetLayers
      BY <2>1, <2>2, SameContent
    <2>6. LayerNow = turn + 1 + Len(TargetLayers) /\ LayerNow' = turn - 1 + 1 + Len(TargetLayers)
      BY <2>1, <2>2, <2>5 DEF LayerNow
    <2>7. Len(TargetLayers) \in Nat
      BY LayersFacts DEF ResolveInv
    <2>8. LayerNow' = LayerNow - 1
      BY <1>1, <2>6, <2>7
    <2>9. IsList(Layers[LayerNow].values) /\ pos > Len(Layers[LayerNow].values)
      BY <1>1, <2>1, <2>4
    <2>10. stage \in Layering /\ stage' \in Layering
      BY <2>2 DEF Layering
    <2> QED BY <2>1, <2>2, <2>3, <2>8, <2>9, <2>10, LayerDone
  <1>4. CASE BasesApplied
    <2>1. turn = 1 /\ Goto("target") /\ chain' = chain /\ resolved' = resolved
      BY <1>4 DEF BasesApplied
    <2>2. stage' = "target" /\ pos' = 1 /\ tree' = tree /\ input' = input
      BY <2>1 DEF Goto
    <2>3. pos = 1
      BY <2>1 DEF ResolveInv, ConfigInv, Idle
    <2>4. TargetLayers' = TargetLayers
      BY <2>1, <2>2, SameContent
    <2>5. LayerNow = 1 + 1 + Len(TargetLayers) /\ LayerNow' = 2 + Len(TargetLayers)
      BY <1>1, <2>1, <2>2, <2>4 DEF LayerNow, First2
    <2>6. Len(TargetLayers) \in Nat
      BY LayersFacts DEF ResolveInv
    <2>7. stage \in Layering /\ stage' \in Layering
      BY <2>2 DEF Layering
    <2> QED BY <2>1, <2>2, <2>3, <2>5, <2>6, <2>7, LayerDone
  <1> QED BY <1>2, <1>3, <1>4, Acting

LEMMA TargetKeeps ==
  ASSUME ResolveInv, stage = "target", Resolving, ~Rejected
  PROVE  ConfigInv'
  <1>0. TargetName = RightTarget /\ LoadInv /\ Len(TargetLayers) \in Nat
    BY TargetIsRight, LayersFacts DEF ResolveInv
  <1>1. stage \in Layering
    BY DEF Layering
  <1>2. CASE ApplyTarget
    <2>1. /\ RightTarget # Null /\ RightTarget \in Names(tree.targets)
          /\ ApplyValue(TargetNamed(RightTarget).values, RightTarget)
      BY <1>0, <1>2, Zenon DEF ApplyTarget, Rejected
    <2>2. ~Idle
      BY <2>1 DEF Idle
    <2>3. PICK values : values = TargetNamed(RightTarget).values
      OBVIOUS
    <2>4. IsList(values) /\ \A i \in DOMAIN values : IsValue(values[i].value)
      BY <1>0, <2>1, <2>3, TargetFacts DEF ValueKnown
    <2>5. LayerNow \in DOMAIN Layers /\ Layers[LayerNow] = Layer(RightTarget, values)
      BY <2>1, <2>3, LayerOf
    <2> QED BY <2>1, <2>2, <2>3, <2>4, <2>5, ApplyKeeps
  <1>3. CASE TargetApplied
    <2>1. /\ RightTarget = Null \/ /\ RightTarget \in Names(tree.targets)
                                   /\ pos > Len(TargetNamed(RightTarget).values)
          /\ Goto("profile") /\ chain' = chain /\ resolved' = resolved
      BY <1>0, <1>3, Zenon DEF TargetApplied
    <2>2. stage' = "profile" /\ pos' = 1 /\ tree' = tree /\ input' = input
      BY <2>1 DEF Goto
    <2>3. LayerNow = First2 + Len(TargetLayers) /\ LayerNow' = First2 /\ First2 \in Nat
      <3>1. First2' = First2
        BY <2>1, <2>2, SameContent
      <3> QED BY <2>2, <3>1 DEF LayerNow, First2
    <2>4. stage' \in Layering
      BY <2>2 DEF Layering
    <2>5. CASE RightTarget = Null
      <3>1. pos = 1
        BY <2>5 DEF ResolveInv, ConfigInv, Idle
      <3>2. LayerNow' = LayerNow
        BY <2>3, <2>5, TargetLayersFacts
      <3> QED BY <1>1, <2>1, <2>2, <2>4, <3>1, <3>2, LayerDone
    <2>6. CASE RightTarget # Null
      <3>1. LayerNow \in DOMAIN Layers /\ Layers[LayerNow] = Layer(RightTarget, TargetNamed(RightTarget).values)
        BY <2>6, LayerOf
      <3>2. Layers[LayerNow].values = TargetNamed(RightTarget).values
        BY <3>1 DEF Layer
      <3>3. IsList(Layers[LayerNow].values) /\ pos > Len(Layers[LayerNow].values)
        BY <1>0, <2>1, <2>6, <3>2, TargetFacts
      <3>4. LayerNow' = LayerNow - 1
        <4>1. Len(TargetLayers) = 1
          BY <2>6, TargetLayersFacts
        <4> QED BY ONLY <2>3, <4>1
      <3> QED BY <1>1, <2>1, <2>2, <2>4, <3>1, <3>3, <3>4, LayerDone
    <2> QED BY <2>5, <2>6
  <1> QED BY <1>2, <1>3, Acting

LEMMA ProfileKeeps ==
  ASSUME ResolveInv, stage = "profile", Resolving, ~Rejected
  PROVE  ConfigInv'
  <1>1. stage \in Layering
    BY DEF Layering
  <1>2. chain # <<>> =>
          /\ IsList(chain[1].values)
          /\ \A k \in DOMAIN chain[1].values : IsValue(chain[1].values[k].value)
    <2>1. chain # <<>> => 1 \in 1..Len(chain)
      BY ChainFacts DEF ResolveInv
    <2> QED BY <2>1, ChainFacts DEF ResolveInv, ValueKnown
  <1>3. CASE ApplyProfile
    <2>1. chain # <<>> /\ ApplyValue(chain[1].values, chain[1].name)
      BY <1>3, Zenon DEF ApplyProfile
    <2>2. ~Idle
      BY <2>1 DEF Idle
    <2>3. LayerNow \in DOMAIN Layers /\ Layers[LayerNow] = Layer(chain[1].name, chain[1].values)
      BY <2>1, LayerOf
    <2> QED BY <1>2, <2>1, <2>2, <2>3, ApplyKeeps
  <1>4. CASE ProfileApplied
    <2>1. /\ chain # <<>> => pos > Len(chain[1].values)
          /\ Goto("user") /\ chain' = chain /\ resolved' = resolved
      BY <1>4, Zenon DEF ProfileApplied
    <2>2. stage' = "user" /\ pos' = 1 /\ tree' = tree /\ input' = input
      BY <2>1 DEF Goto
    <2>3. LayerNow = First2 /\ LayerNow' = 1
      BY <2>2 DEF LayerNow
    <2>4. stage' \in Layering
      BY <2>2 DEF Layering
    <2>5. CASE chain = <<>>
      <3>1. pos = 1 /\ LayerNow' = LayerNow
        BY <2>3, <2>5 DEF ResolveInv, ConfigInv, Idle, First2
      <3> QED BY <1>1, <2>1, <2>2, <2>4, <3>1, LayerDone
    <2>6. CASE chain # <<>>
      <3>1. LayerNow \in DOMAIN Layers /\ Layers[LayerNow] = Layer(chain[1].name, chain[1].values)
        BY <2>6, LayerOf
      <3>2. Layers[LayerNow].values = chain[1].values
        BY <3>1 DEF Layer
      <3>3. LayerNow' = LayerNow - 1
        BY <2>3, <2>6 DEF First2
      <3> QED BY <1>1, <1>2, <2>1, <2>2, <2>4, <2>6, <3>1, <3>2, <3>3, LayerDone
    <2> QED BY <2>5, <2>6
  <1> QED BY <1>3, <1>4, Acting

LEMMA UserKeeps ==
  ASSUME ResolveInv, stage = "user", Resolving, ~Rejected
  PROVE  ConfigInv'
  <1>1. stage \in Layering /\ ~Idle
    BY DEF Layering, Idle
  <1>2. IsList(Request.user) /\ \A i \in DOMAIN Request.user : IsValue(Request.user[i].value)
    BY UserValues DEF ResolveInv
  <1>3. LayerNow \in DOMAIN Layers /\ Layers[LayerNow] = Layer("user", Request.user)
    BY LayerOf
  <1>4. CASE ApplyUser
    <2>1. ApplyValue(Request.user, "user")
      BY <1>4, Zenon DEF ApplyUser
    <2> QED BY <1>1, <1>2, <1>3, <2>1, ApplyKeeps
  <1>5. CASE UserApplied
    <2>1. pos > Len(Request.user) /\ Goto("check") /\ chain' = chain /\ resolved' = resolved
      BY <1>5, Zenon DEF UserApplied
    <2>2. stage' = "check" /\ pos' = 1 /\ tree' = tree /\ input' = input
      BY <2>1 DEF Goto
    <2>3. LayerNow' = LayerNow - 1
      BY <2>2 DEF LayerNow
    <2>4. Layers[LayerNow].values = Request.user
      BY <1>3 DEF Layer
    <2>5. stage' \in Layering
      BY <2>2 DEF Layering
    <2> QED BY <1>1, <1>2, <1>3, <2>1, <2>2, <2>3, <2>4, <2>5, LayerDone
  <1> QED BY <1>4, <1>5, Acting

\* The checks leave the config alone.
LEMMA CheckSame ==
  ASSUME ResolveInv, stage = "check", Resolving, ~Rejected
  PROVE  /\ resolved' = resolved /\ chain' = chain /\ tree' = tree /\ input' = input /\ pos' = 1
         /\ \/ stage' = "check" /\ CheckOption
            \/ stage' = "resolved" /\ Publish
  <1>1. pos = 1
    BY DEF ResolveInv, ConfigInv, Idle
  <1>2. CASE CheckOption
    <2>1. Stay /\ resolved' = resolved /\ chain' = chain /\ pos' = pos
      BY <1>2, Zenon DEF CheckOption, Rejected
    <2> QED BY <1>1, <1>2, <2>1 DEF Stay, loadVars
  <1>3. CASE Publish
    <2>1. Goto("resolved") /\ resolved' = resolved /\ chain' = chain
      BY <1>3, Zenon DEF Publish
    <2> QED BY <1>3, <2>1 DEF Goto
  <1> QED BY <1>2, <1>3, Acting

LEMMA ConfigKeeps ==
  ASSUME ResolveInv, Resolving
  PROVE  ConfigInv'
  <1>1. stage \in AfterLoad \ {"resolved"}
    BY Course
  <1>2. CASE Rejected
    BY <1>2, RejectedConfig
  <1>3. CASE ~Rejected /\ stage = "check"
    <2>1. stage \in Layering /\ stage' \in Layering /\ LayerNow' = LayerNow /\ pos = 1
      BY <1>3, CheckSame DEF Layering, LayerNow, ResolveInv, ConfigInv, Idle
    <2> QED BY <1>3, <2>1, CheckSame, LayerDone
  <1>4. CASE ~Rejected /\ stage = "seed"
    BY <1>4, Acting, SeedKeeps, SeededKeeps
  <1> QED BY <1>1, <1>2, <1>3, <1>4, NotSeededYet, ChainStageKeeps, BasesKeep, TargetKeeps,
             ProfileKeeps, UserKeeps DEF AfterLoad

LEMMA CheckedKeeps ==
  ASSUME ResolveInv, Resolving
  PROVE  CheckedInv'
  <1>1. CASE Rejected \/ stage \notin {"user", "check"}
    <2>1. stage' \notin {"check", "resolved"}
      BY <1>1, Course, RejectedFacts
    <2> QED BY <2>1 DEF CheckedInv
  <1>2. CASE ~Rejected /\ stage = "user"
    <2>1. CASE ApplyUser
      <3>1. stage' = "user"
        BY <1>2, <2>1, ApplyValueFacts DEF ApplyUser
      <3> QED BY <3>1 DEF CheckedInv
    <2>2. CASE UserApplied
      <3>1. stage' = "check" /\ turn' = 1 /\ tree' = tree
        BY <2>2 DEF UserApplied, Goto
      <3>2. DOMAIN Options = 1..Len(Options)
        BY OptionsFacts DEF ResolveInv
      <3>3. DOMAIN Options' = 1..Len(Options)
        BY <3>1, <3>2 DEF Options
      <3> QED BY <3>1, <3>3 DEF CheckedInv
    <2> QED BY <1>2, <2>1, <2>2, Acting
  <1>3. CASE ~Rejected /\ stage = "check"
    <2>1. resolved' = resolved /\ Options' = Options /\ ((stage' = "check" /\ CheckOption) \/ (stage' = "resolved" /\ Publish))
      BY <1>3, CheckSame DEF Options
    <2>2. \A i \in DOMAIN Options : i < turn =>
            \A k \in DOMAIN Options[i].deps : ~Broken(resolved, Options[i], Options[i].deps[k])
      BY <1>3 DEF ResolveInv, CheckedInv
    <2>3. turn \in Nat /\ DOMAIN Options = 1..Len(Options) /\ Len(Options) \in Nat
      BY OptionsFacts DEF ResolveInv, ChainInv
    <2>4. CASE stage' = "check" /\ CheckOption
      <3>1. PICK o, broken : o = Options[turn] /\ broken = {i \in DOMAIN o.deps : Broken(resolved, o, o.deps[i])}
        OBVIOUS
      <3>2. broken = {} /\ turn' = turn + 1
        BY <1>3, <2>4, <3>1, Zenon DEF CheckOption, OptionAt, Rejected
      <3>3. \A k \in DOMAIN Options[turn].deps : ~Broken(resolved, Options[turn], Options[turn].deps[k])
        BY <3>1, <3>2
      <3>4. \A i \in DOMAIN Options : i < turn + 1 => i < turn \/ i = turn
        BY <2>3
      <3>5. \A i \in DOMAIN Options : i < turn' =>
              \A k \in DOMAIN Options[i].deps : ~Broken(resolved, Options[i], Options[i].deps[k])
        BY <2>2, <3>2, <3>3, <3>4
      <3> QED BY <2>1, <2>4, <3>5 DEF CheckedInv
    <2>5. CASE stage' = "resolved" /\ Publish
      <3>1. \A i \in DOMAIN Options : i < turn
        BY <2>3, <2>5 DEF Publish
      <3>2. \A i \in DOMAIN Options :
              \A k \in DOMAIN Options[i].deps : ~Broken(resolved, Options[i], Options[i].deps[k])
        BY <2>2, <3>1
      <3> QED BY <2>1, <2>5, <3>2 DEF CheckedInv
    <2> QED BY <2>1, <2>4, <2>5
  <1> QED BY <1>1, <1>2, <1>3

LEMMA InitHolds == ResolveInit => ResolveInv
  <1> SUFFICES ASSUME ResolveInit PROVE ResolveInv
    OBVIOUS
  <1>1. /\ LoadInv /\ stage = "root" /\ error = NoError /\ edges = <<>> /\ frames = <<>>
        /\ chain = <<>> /\ resolved = <<>> /\ turn = 1 /\ pos = 1
    BY LoadInitInv DEF ResolveInit, LoadInit
  <1>2. ChainInv
    BY <1>1, ListEmpty DEF ChainInv
  <1>3. EdgesKnown
    BY <1>1, ListEmpty DEF EdgesKnown
  <1>4. SearchInv /\ CheckedInv /\ NoErrorYet
    BY <1>1 DEF SearchInv, CheckedInv, NoErrorYet
  <1>5. ConfigInv
    <2>1. DOMAIN resolved = {}
      BY <1>1
    <2> QED BY <1>1, <2>1 DEF ConfigInv, Idle, Layering
  <1> QED BY <1>1, <1>2, <1>3, <1>4, <1>5 DEF ResolveInv

LEMMA StutterHolds ==
  ASSUME ResolveInv, UNCHANGED resolverVars
  PROVE  ResolveInv'
  <1>1. /\ input' = input /\ stage' = stage /\ file' = file /\ line' = line /\ table' = table
        /\ tree' = tree /\ error' = error /\ edges' = edges /\ colors' = colors
        /\ frames' = frames /\ chain' = chain /\ resolved' = resolved /\ turn' = turn /\ pos' = pos
    BY DEF resolverVars, loadVars, resolveVars
  <1>2. ProjectInv'
    BY <1>1, SameProject DEF ResolveInv, LoadInv, ProjectInv
  <1>3. Typing' <=> Typing
    BY <1>1 DEF Typing
  <1>4. DefaultsAccepted' /\ (AliasesOk' <=> AliasesOk)
    BY <1>1, <1>3, SameOptions DEF ResolveInv, LoadInv
  <1>5. PartsInOrder'
    <2>1. LinksOk' <=> LinksOk
      BY <1>1 DEF LinksOk, LinkOk, Names
    <2> QED BY <1>1, <1>4, <2>1 DEF PartsInOrder, ResolveInv, LoadInv
  <1>6. ReadingInto'
    <2>1. Docs' = Docs /\ Selection' = Selection
      BY <1>1 DEF Docs, Selection
    <2> QED BY <1>1, <2>1 DEF ReadingInto, ResolveInv, LoadInv
  <1>7. LoadInv'
    BY <1>2, <1>4, <1>5, <1>6 DEF LoadInv
  <1>8. ChainInv'
    BY <1>1 DEF ResolveInv, ChainInv
  <1>9. OptionIds' = OptionIds /\ Options' = Options
    BY <1>1 DEF OptionIds, Options
  <1>10. EdgesKnown'
    BY <1>1, <1>9 DEF ResolveInv, EdgesKnown
  <1>11. SearchInv'
    <2> SUFFICES ASSUME stage = "cycles"
                 PROVE  FramesOnPath' /\ FramesLooked' /\ LeftIsClosed' /\ LeftIsAcyclic' /\ RootsSeen'
      BY <1>1 DEF SearchInv
    <2>1. FramesOnPath /\ FramesLooked /\ LeftIsClosed /\ LeftIsAcyclic /\ RootsSeen
      BY DEF ResolveInv, SearchInv
    <2>2. Left' = Left
      BY <1>1, <1>9 DEF Left
    <2>3. \A x, y : Goes(x, y)' <=> Goes(x, y)
      BY <1>1 DEF Goes, Leads
    <2>4. LeftIsClosed' /\ LeftIsAcyclic'
      BY <1>1, <2>1, <2>2, SameLeft
    <2>5. FramesOnPath'
      BY <1>1, <1>9, <2>1, <2>3 DEF FramesOnPath
    <2>6. FramesLooked'
      BY <1>1, <2>1 DEF FramesLooked, Leads
    <2>7. RootsSeen'
      BY <1>1, <1>9, <2>1 DEF RootsSeen
    <2> QED BY <2>4, <2>5, <2>6, <2>7
  <1>12. ConfigInv'
    <2>1. SeededIds' = SeededIds /\ LayerNow' = LayerNow /\ (Idle' <=> Idle)
      BY <1>1, SameContent DEF SeededIds, LayerNow, Idle, Options
    <2>2. PICK k, p : k = LayerNow /\ p = pos
      OBVIOUS
    <2>3. /\ \A id : Content(LayerNow, pos, id)' = Content(LayerNow, pos, id)
          /\ \A id : DefaultOf(id)' = DefaultOf(id)
      BY <1>1, <2>1, <2>2, SameContent
    <2> QED BY <1>1, <1>9, <2>1, <2>3 DEF ResolveInv, ConfigInv
  <1>13. CheckedInv' /\ NoErrorYet'
    BY <1>1, <1>9 DEF ResolveInv, CheckedInv, NoErrorYet
  <1> QED BY <1>7, <1>8, <1>10, <1>11, <1>12, <1>13 DEF ResolveInv

LEMMA ResolverMoves ==
  ASSUME ResolveNext
  PROVE  Load \/ Resolving
  BY Zenon DEF ResolveNext, Resolving

LEMMA NextHolds ==
  ASSUME ResolveInv, ResolveNext
  PROVE  ResolveInv'
  <1>1. CASE Load
    BY <1>1, LoadLeaves
  <1>2. CASE Resolving
    <2>1. LoadInv'
      <3>1. SameLoad /\ stage \in AfterLoad /\ stage' \in AfterLoad \cup {"failed"}
        BY <1>2, Course, RejectedFacts DEF AfterLoad
      <3> QED BY <3>1, LoadSame DEF ResolveInv
    <2>2. NoErrorYet'
      <3>1. stage \in AfterLoad
        BY <1>2, Course
      <3>2. error = NoError
        BY <3>1 DEF ResolveInv, NoErrorYet, AfterLoad
      <3> QED BY <1>2, <3>2, Course, RejectedFacts DEF NoErrorYet
    <2> QED BY <1>2, <2>1, <2>2, ChainKeeps, EdgesKeep, SearchKeeps, ConfigKeeps, CheckedKeeps DEF ResolveInv
  <1> QED BY <1>1, <1>2, ResolverMoves

-----------------------------------------------------------------------------
\* What a loaded project guarantees the resolver.

LEMMA AfterLoadFacts ==
  ASSUME LoadInv, stage \in AfterLoad
  PROVE  /\ \A i \in DOMAIN Options : Accepts(Options[i], Options[i].default)
         /\ AliasesOk /\ LinksOk
  <1>1. ~Typing
    BY DEF Typing, AfterLoad
  <1>2. AliasesOk /\ LinksOk
    BY DEF LoadInv, PartsInOrder, Late
  <1> QED BY <1>1, <1>2 DEF LoadInv, DefaultsAccepted, Options

LEMMA Usable ==
  ASSUME LoadInv
  PROVE  LoadedIsUsable
  <1> SUFFICES ASSUME stage \in AfterLoad PROVE LoadedIsUsable
    BY DEF LoadedIsUsable
  <1>1. ProjectShape /\ OneOptionPerId
    BY DEF LoadInv, ProjectInv
  <1>2. Cardinality(OptionIds) = Len(Options)
    <2>1. PICK n, f : n = Len(Options) /\ f = [i \in 1..n |-> Options[i].id]
      OBVIOUS
    <2>2. n \in Nat /\ DOMAIN Options = 1..n
      BY <2>1, OptionsFacts
    <2>3. f \in [1..n -> OptionIds]
      BY <2>1, <2>2, OptionsFacts
    <2>4. \A x, y \in 1..n : f[x] = f[y] => x = y
      BY <1>1, <2>1, <2>2 DEF OneOptionPerId, Options
    <2>5. \A c \in OptionIds : \E x \in 1..n : f[x] = c
      BY <2>1, <2>2, OptionsFacts
    <2>6. n = Cardinality(OptionIds)
      BY <2>2, <2>3, <2>4, <2>5, ListLength
    <2> QED BY <2>1, <2>6
  <1>3. ASSUME NEW i \in DOMAIN Options
        PROVE  /\ Accepts(Options[i], Options[i].default)
               /\ \A alias \in ToSet(Options[i].aliases) :
                     alias \notin OptionIds /\ Cardinality(AliasOwners(alias)) = 1
    <2>1. Accepts(Options[i], Options[i].default)
      BY <1>3, AfterLoadFacts
    <2>2. ASSUME NEW alias \in ToSet(Options[i].aliases)
          PROVE  alias \notin OptionIds /\ Cardinality(AliasOwners(alias)) = 1
      <3>1. PICK j \in DOMAIN Options[i].aliases : alias = Options[i].aliases[j]
        BY <2>2 DEF ToSet
      <3>2. AliasOk(i, j)
        BY <1>3, <3>1, AfterLoadFacts DEF AliasesOk, Options
      <3>3. alias \notin OptionIds /\ AliasOwners(alias) = {<<i, j>>}
        BY <3>1, <3>2 DEF AliasOk, Options
      <3>4. Cardinality({<<i, j>>}) = 1
        BY FS_Singleton
      <3> QED BY <3>3, <3>4
    <2> QED BY <2>1, <2>2
  <1>4. ASSUME NEW m \in ToSet(tree.profiles) \cup ToSet(tree.targets), NEW v \in ToSet(m.values)
        PROVE  v.id \in OptionIds /\ Accepts(FindOption(v.id), v.value)
    <2>1. ValuesKnown(tree.profiles) /\ ValuesKnown(tree.targets)
      BY DEF LoadInv, ProjectInv
    <2>2. PICK list : list \in {tree.profiles, tree.targets} /\ m \in ToSet(list)
      BY <1>4
    <2>3. PICK i \in DOMAIN list : m = list[i]
      BY <2>2 DEF ToSet
    <2>4. PICK k \in DOMAIN m.values : v = m.values[k]
      BY <1>4 DEF ToSet
    <2>5. ValueKnown(v)
      BY <2>1, <2>2, <2>3, <2>4 DEF ValuesKnown
    <2> QED BY <2>5 DEF ValueKnown
  <1>5. \A p \in ToSet(tree.profiles) : LinkOk(p)
    BY AfterLoadFacts DEF LinksOk, ToSet
  <1>6. ASSUME NEW s \in ToSet(tree.selections), NEW sec \in ToSet(s.sections), NEW f \in ToSet(sec.fields)
        PROVE  f.id \in OptionIds /\ "selection" \in FindOption(f.id).emit
    <2>1. PICK i \in DOMAIN tree.selections : s = tree.selections[i]
      BY <1>6 DEF ToSet
    <2>2. PICK k \in DOMAIN s.sections : sec = s.sections[k]
      BY <1>6 DEF ToSet
    <2>3. PICK g \in DOMAIN sec.fields : f = sec.fields[g]
      BY <1>6 DEF ToSet
    <2>4. FieldsKnown(s)
      BY <2>1 DEF LoadInv, ProjectInv, SelectionsKnown
    <2>5. FieldKnown(f)
      BY <2>2, <2>3, <2>4 DEF FieldsKnown
    <2> QED BY <2>5 DEF FieldKnown
  <1> QED BY <1>2, <1>3, <1>4, <1>5, <1>6 DEF LoadedIsUsable

\* A value the loader accepted is not refused.
LEMMA NotRefused ==
  ASSUME NEW values, NEW source, ApplyValue(values, source), pos \in Nat \ {0}, IsList(values),
         stage \in AfterLoad, \A i \in DOMAIN values : ValueKnown(values[i])
  PROVE  ~Rejected
  <1>1. PICK v : v = values[pos]
    OBVIOUS
  <1>2. v.id \in OptionIds /\ Accepts(FindOption(v.id), v.value)
    <2>1. pos \in DOMAIN values
      <3>1. pos <= Len(values)
        BY Zenon DEF ApplyValue
      <3> QED BY <3>1, ListFacts
    <2> QED BY <1>1, <2>1 DEF ValueKnown
  <1>3. Stay
    BY <1>1, <1>2, Zenon DEF ApplyValue
  <1>4. stage' = stage /\ error' = error /\ tree' = tree
    BY <1>3 DEF Stay, loadVars
  <1> QED BY <1>4, RejectedFacts DEF AfterLoad

\* The messages of each part of the resolver.
LEMMA Messages ==
  ASSUME ResolveInv, Resolving, Rejected
  PROVE  /\ error'.at = stage /\ stage' = "failed"
         /\ error'.what \in {"unknown resolved option", "invalid resolved value"} => stage = "user"
         /\ error'.what # "unknown base profile"
         /\ error'.what = "unknown target" => Request.target # Null
         /\ error'.what = "dependency cycle" => FollowEdge
         /\ error'.what \in {"dependency not satisfied", "conflict active"} => CheckOption
  <1> DEFINE Goal(w) ==
         /\ w \in {"unknown resolved option", "invalid resolved value"} => stage = "user"
         /\ w # "unknown base profile"
         /\ w = "unknown target" => Request.target # Null
         /\ w = "dependency cycle" => FollowEdge
         /\ w \in {"dependency not satisfied", "conflict active"} => CheckOption
  <1>1. LoadInv /\ ChainInv /\ stage \in AfterLoad /\ stage' = "failed" /\ error'.at = stage
    BY Course, RejectedFacts DEF ResolveInv
  <1>2. pos \in Nat \ {0}
    BY <1>1 DEF ChainInv
  <1>3. ASSUME NEW m, Reject(m) PROVE error'.what = m
    BY <1>3 DEF Reject
  <1>4. stage' # stage
    BY <1>1 DEF AfterLoad
  <1>5. ~Stay /\ \A part : part \in AfterLoad => ~Goto(part)
    BY <1>1, <1>4 DEF Stay, loadVars, Goto, AfterLoad
  <1>6. ASSUME NEW values, NEW source, ApplyValue(values, source)
        PROVE  error'.what \in {"unknown resolved option", "invalid resolved value"}
    <2>1. Reject("unknown resolved option") \/ Reject("invalid resolved value")
      BY <1>5, <1>6, Zenon DEF ApplyValue
    <2> QED BY <1>3, <2>1
  <1>7. CASE stage \in {"loaded", "edges", "cycles", "lint"}
    <2>1. Start \/ AddEdges \/ EdgesBuilt \/ VisitRoot \/ FollowEdge \/ LeaveNode \/ NoCycle \/ Lint
      BY <1>7, Acting
    <2>2. "edges" \in AfterLoad /\ "cycles" \in AfterLoad /\ "lint" \in AfterLoad /\ "seed" \in AfterLoad
      BY DEF AfterLoad
    <2>3. \/ Reject("dependency on itself or on an unknown option")
          \/ (FollowEdge /\ Reject("dependency cycle"))
          \/ Reject("contradictory dependencies")
      <3>1. ~Start /\ ~EdgesBuilt /\ ~VisitRoot /\ ~LeaveNode /\ ~NoCycle
        BY <1>5, <2>2, Zenon DEF Start, EdgesBuilt, VisitRoot, LeaveNode, NoCycle
      <3>2. AddEdges => Reject("dependency on itself or on an unknown option")
        BY <1>5, Zenon DEF AddEdges
      <3>3. FollowEdge => Reject("dependency cycle")
        BY <1>5, Zenon DEF FollowEdge
      <3>4. Lint => Reject("contradictory dependencies")
        BY <1>5, <2>2, Zenon DEF Lint
      <3> QED BY <2>1, <3>1, <3>2, <3>3, <3>4
    <2>4. Goal(error'.what)
      BY <1>3, <2>3
    <2> QED BY <1>1, <2>4
  <1>8. CASE stage = "seed"
    <2>1. CASE Seed
      <3>1. PICK o : o = Options[turn]
        OBVIOUS
      <3>2. Accepts(o, o.default)
        <4>1. turn \in DOMAIN Options
          <5>1. turn <= Len(Options)
            BY <2>1, Zenon DEF Seed
          <5> QED BY <1>1, <5>1, OptionsFacts DEF ChainInv
        <4> QED BY <1>1, <3>1, <4>1, AfterLoadFacts
      <3>3. Stay
        BY <2>1, <3>1, <3>2, Zenon DEF Seed, OptionAt
      <3> QED BY <1>5, <3>3
    <2>2. CASE Seeded
      <3>1. "target" \in AfterLoad /\ "chain" \in AfterLoad
        BY DEF AfterLoad
      <3>2. Reject("unknown profile")
        BY <1>5, <2>2, <3>1, Zenon DEF Seeded
      <3>3. Goal(error'.what)
        BY <1>3, <3>2
      <3> QED BY <1>1, <3>3
    <2> QED BY <1>8, <2>1, <2>2, Acting
  <1>9. CASE stage = "chain"
    <2>1. CASE PushBase
      <3>1. chain # <<>> /\ Last(chain) = chain[Len(chain)] /\ Len(chain) \in 1..Len(chain)
        BY <1>1, <1>9, LastOf DEF ChainInv
      <3>2. LinkOk(Last(chain))
        BY <1>1, <3>1, ChainFacts
      <3>3. Last(chain).base # Null
        BY <2>1, Zenon DEF PushBase
      <3>4. Last(chain).base \in Names(tree.profiles)
        BY <3>2, <3>3 DEF LinkOk
      <3>5. Reject("profile base cycle")
        BY <1>5, <2>1, <3>4, Zenon DEF PushBase
      <3>6. Goal(error'.what)
        BY <1>3, <3>5
      <3> QED BY <1>1, <3>6
    <2>2. CASE ChainBuilt
      <3>1. stage' = "bases"
        BY <2>2, Zenon DEF ChainBuilt
      <3> QED BY <1>1, <3>1
    <2> QED BY <1>9, <2>1, <2>2, Acting
  <1>10. CASE stage = "bases"
    <2>1. CASE ApplyBase
      <3>1. turn \in 1..Len(chain) /\ ApplyValue(chain[turn].values, chain[turn].name)
        BY <1>1, <1>10, <2>1 DEF ApplyBase, ChainInv
      <3>2. IsList(chain[turn].values) /\ \A i \in DOMAIN chain[turn].values : ValueKnown(chain[turn].values[i])
        BY <1>1, <3>1, ChainFacts
      <3> QED BY <1>1, <1>2, <3>1, <3>2, NotRefused
    <2>2. CASE NextBase
      BY <1>5, <2>2, Zenon DEF NextBase
    <2>3. CASE BasesApplied
      <3>1. "target" \in AfterLoad
        BY DEF AfterLoad
      <3> QED BY <1>5, <2>3, <3>1, Zenon DEF BasesApplied
    <2> QED BY <1>10, <2>1, <2>2, <2>3, Acting
  <1>11. CASE stage = "target"
    <2>1. CASE ApplyTarget /\ TargetName \notin Names(tree.targets)
      <3>1. TargetName # Null /\ (Reject("unknown target") \/ TargetName \in Names(tree.targets))
        BY <2>1, Zenon DEF ApplyTarget
      <3>2. error'.what = "unknown target"
        BY <1>3, <2>1, <3>1
      <3>3. Request.target # Null
        <4> SUFFICES ASSUME Request.target = Null PROVE FALSE
          OBVIOUS
        <4>1. PICK naming : naming = {i \in DOMAIN chain : chain[i].target # Null}
          OBVIOUS
        <4>2. naming # {} /\ TargetName = chain[First(naming)].target
          BY <3>1, <4>1 DEF TargetName
        <4>3. First(naming) \in naming
          <5>1. naming \in SUBSET Nat
            BY <1>1, <4>1, ChainFacts
          <5> QED BY <4>2, <5>1, FirstFacts
        <4>4. First(naming) \in 1..Len(chain) /\ chain[First(naming)].target # Null
          BY <1>1, <4>1, <4>3, ChainFacts
        <4>5. LinkOk(chain[First(naming)])
          BY <1>1, <4>4, ChainFacts
        <4> QED BY <2>1, <4>2, <4>4, <4>5 DEF LinkOk
      <3> QED BY <1>1, <3>2, <3>3
    <2>2. CASE ApplyTarget /\ TargetName \in Names(tree.targets)
      <3>1. PICK values : values = TargetNamed(TargetName).values
        OBVIOUS
      <3>2. ApplyValue(values, TargetName)
        BY <2>2, <3>1, Zenon DEF ApplyTarget
      <3>3. IsList(values) /\ \A i \in DOMAIN values : ValueKnown(values[i])
        BY <1>1, <2>2, <3>1, TargetFacts
      <3> QED BY <1>1, <1>2, <2>2, <3>2, <3>3, NotRefused
    <2>3. CASE TargetApplied
      <3>1. "profile" \in AfterLoad
        BY DEF AfterLoad
      <3> QED BY <1>5, <2>3, <3>1, Zenon DEF TargetApplied
    <2> QED BY <1>11, <2>1, <2>2, <2>3, Acting
  <1>12. CASE stage = "profile"
    <2>1. CASE ApplyProfile
      <3>1. 1 \in 1..Len(chain) /\ ApplyValue(chain[1].values, chain[1].name)
        <4>1. chain # <<>> /\ ApplyValue(chain[1].values, chain[1].name)
          BY <2>1, Zenon DEF ApplyProfile
        <4> QED BY <1>1, <4>1, ChainFacts
      <3>2. IsList(chain[1].values) /\ \A i \in DOMAIN chain[1].values : ValueKnown(chain[1].values[i])
        BY <1>1, <3>1, ChainFacts
      <3> QED BY <1>1, <1>2, <3>1, <3>2, NotRefused
    <2>2. CASE ProfileApplied
      <3>1. "user" \in AfterLoad
        BY DEF AfterLoad
      <3> QED BY <1>5, <2>2, <3>1, Zenon DEF ProfileApplied
    <2> QED BY <1>12, <2>1, <2>2, Acting
  <1>13. CASE stage = "user"
    <2>1. CASE ApplyUser
      <3>1. error'.what \in {"unknown resolved option", "invalid resolved value"}
        BY <1>6, <2>1, Zenon DEF ApplyUser
      <3> QED BY <1>1, <1>13, <3>1
    <2>2. CASE UserApplied
      <3>1. "check" \in AfterLoad
        BY DEF AfterLoad
      <3> QED BY <1>5, <2>2, <3>1, Zenon DEF UserApplied
    <2> QED BY <1>13, <2>1, <2>2, Acting
  <1>14. CASE stage = "check"
    <2>1. CASE CheckOption
      <3>1. Reject("dependency not satisfied") \/ Reject("conflict active")
        BY <1>5, <2>1, Zenon DEF CheckOption
      <3>2. Goal(error'.what)
        BY <1>3, <2>1, <3>1
      <3> QED BY <1>1, <3>2
    <2>2. CASE Publish
      <3>1. "resolved" \in AfterLoad
        BY DEF AfterLoad
      <3> QED BY <1>5, <2>2, <3>1, Zenon DEF Publish
    <2> QED BY <1>14, <2>1, <2>2, Acting
  <1>15. stage \in AfterLoad \ {"resolved"}
    BY Course
  <1> QED BY <1>7, <1>8, <1>9, <1>10, <1>11, <1>12, <1>13, <1>14, <1>15 DEF AfterLoad

-----------------------------------------------------------------------------
\* The verdicts.

OffValues == {MakeValue("bool", 0, ""), MakeValue("int", 0, ""), MakeValue("uint", 0, ""),
              MakeValue("float", 0, ""), MakeValue("string", 0, ""), MakeValue("enum", 0, ""),
              MakeValue("path", 0, ""), Empty}
OnIds == {id \in OptionIds : MergedConfig[id].value \notin OffValues}
BrokenKind(kind) ==
    \E o \in ToSet(Options) : \E d \in ToSet(o.deps) :
        d.kind = kind /\ o.id \in OnIds /\ ((d.id \in OnIds) <=> (kind = "conflicts"))

\* An active value is one that is not off.
NoText == ""
Textual == {"string", "enum", "path"}

LEMMA OffIs ==
  \A v : v \in OffValues <=>
    \E k \in Textual \cup {"bool", "int", "uint", "float", "empty"} : v = MakeValue(k, 0, NoText)
  <1>1. ASSUME NEW v \in OffValues
        PROVE  \E k \in Textual \cup {"bool", "int", "uint", "float", "empty"} : v = MakeValue(k, 0, NoText)
    <2> DEFINE Is(k) == v = MakeValue(k, 0, NoText)
    <2>1. \/ Is("bool") \/ Is("int") \/ Is("uint") \/ Is("float") \/ Is("string") \/ Is("enum")
          \/ Is("path") \/ Is("empty")
      BY <1>1, Zenon DEF OffValues, Empty, NoText
    <2> HIDE DEF Is
    <2>2. \E k \in Textual \cup {"bool", "int", "uint", "float", "empty"} : Is(k)
      BY <2>1 DEF Textual
    <2> QED BY <2>2 DEF Is
  <1>2. /\ MakeValue("bool", 0, NoText) \in OffValues /\ MakeValue("int", 0, NoText) \in OffValues
        /\ MakeValue("uint", 0, NoText) \in OffValues /\ MakeValue("float", 0, NoText) \in OffValues
        /\ MakeValue("string", 0, NoText) \in OffValues /\ MakeValue("enum", 0, NoText) \in OffValues
        /\ MakeValue("path", 0, NoText) \in OffValues /\ MakeValue("empty", 0, NoText) \in OffValues
    BY Zenon DEF OffValues, Empty, NoText
  <1>3. \A k \in Textual \cup {"bool", "int", "uint", "float", "empty"} : MakeValue(k, 0, NoText) \in OffValues
    BY <1>2 DEF Textual
  <1> QED BY <1>1, <1>3

LEMMA ActiveIsOn ==
  ASSUME NEW v, IsValue(v)
  PROVE  IsActive(v) <=> v \notin OffValues
  <1>1. /\ v.kind \in Textual => v = MakeValue(v.kind, 0, v.s)
        /\ v.kind \notin Textual =>
              v.kind \in {"bool", "int", "uint", "float", "empty"} /\ v = MakeValue(v.kind, v.n, NoText)
    BY Zenon DEF IsValue, Textual, NoText
  <1>2. /\ v.kind \in Textual => (IsActive(v) <=> v.s # NoText)
        /\ v.kind \notin Textual => (IsActive(v) <=> v.n # 0)
    BY Zenon DEF IsActive, Textual, NoText
  <1>3. \A k : LET w == MakeValue(k, 0, NoText) IN w.kind = k /\ w.n = 0 /\ w.s = NoText
    BY DEF MakeValue
  <1>4. v \in OffValues => v.n = 0 /\ v.s = NoText
    BY <1>3, OffIs
  <1>5. CASE v.kind \in Textual
    <2>1. v.s = NoText => v \in OffValues
      BY <1>1, <1>5, OffIs
    <2> QED BY <1>2, <1>4, <1>5, <2>1
  <1>6. CASE v.kind \notin Textual
    <2>1. v.n = 0 => v \in OffValues
      BY <1>1, <1>6, OffIs
    <2> QED BY <1>2, <1>4, <1>6, <2>1
  <1> QED BY <1>5, <1>6

LEMMA ResolvedIsMerged ==
  ASSUME ResolveInv, stage \in {"check", "resolved"}
  PROVE  /\ resolved = MergedConfig
         /\ \A id : ActiveIn(resolved, id) <=> id \in OnIds
  <1>1. LayerNow = 0 /\ pos = 1 /\ stage \in Layering
    BY DEF LayerNow, ResolveInv, ConfigInv, Idle, Layering
  <1>2. resolved = [id \in OptionIds |-> Content(0, 1, id)]
    BY <1>1 DEF ResolveInv, ConfigInv
  <1>3. \A id \in OptionIds : Content(0, 1, id) = MergedConfig[id]
    <2>1. ProjectShape /\ IsList(Layers)
      BY LayersFacts DEF ResolveInv, LoadInv, ProjectInv
    <2> QED BY <2>1, Whole
  <1>4. resolved = MergedConfig
    <2>1. MergedConfig = [id \in OptionIds |-> MergedConfig[id]]
      BY DEF MergedConfig
    <2> QED BY <1>2, <1>3, <2>1
  <1>5. \A id \in DOMAIN resolved : IsValue(resolved[id].value)
    BY DEF ResolveInv, ConfigInv
  <1>6. DOMAIN resolved = OptionIds
    BY <1>2
  <1>7. \A id \in OptionIds : IsActive(resolved[id].value) <=> id \in OnIds
    BY <1>4, <1>5, <1>6, ActiveIsOn DEF OnIds
  <1> QED BY <1>4, <1>6, <1>7 DEF ActiveIn, OnIds

LEMMA CheckIsGenuine ==
  ASSUME ResolveInv, CheckOption, Rejected
  PROVE  /\ error'.what = "dependency not satisfied" => BrokenKind("requires")
         /\ error'.what = "conflict active" => BrokenKind("conflicts")
  <1>1. stage = "check" /\ turn <= Len(Options)
    BY Zenon DEF CheckOption
  <1>2. turn \in DOMAIN Options /\ IsOption(Options[turn])
    BY <1>1, OptionsFacts DEF ResolveInv, ChainInv
  <1>3. PICK o, broken : o = Options[turn] /\ broken = {i \in DOMAIN o.deps : Broken(resolved, o, o.deps[i])}
    OBVIOUS
  <1>4. stage' # stage
    BY <1>1, RejectedFacts
  <1>5. /\ broken # {}
        /\ \/ o.deps[First(broken)].kind = "requires" /\ Reject("dependency not satisfied")
           \/ o.deps[First(broken)].kind = "conflicts" /\ Reject("conflict active")
    <2>1. ~Stay
      BY <1>4 DEF Stay, loadVars
    <2> QED BY <1>3, <2>1, Zenon DEF CheckOption, OptionAt
  <1>6. First(broken) \in broken
    <2>1. broken \in SUBSET Nat
      BY <1>2, <1>3, ListFacts DEF IsOption
    <2> QED BY <1>5, <2>1, FirstFacts
  <1>7. PICK d : d = o.deps[First(broken)]
    OBVIOUS
  <1>8. d \in ToSet(o.deps) /\ o \in ToSet(Options) /\ Broken(resolved, o, d)
    BY <1>2, <1>3, <1>6, <1>7 DEF ToSet
  <1>9. \A id : ActiveIn(resolved, id) <=> id \in OnIds
    BY <1>1, ResolvedIsMerged
  <1>10. /\ o.id \in OnIds
         /\ d.kind = "requires" => d.id \notin OnIds
         /\ d.kind = "conflicts" => d.id \in OnIds
    BY <1>8, <1>9 DEF Broken
  <1>11. CASE d.kind = "requires" /\ Reject("dependency not satisfied")
    <2>1. BrokenKind("requires")
      <3>1. (d.id \in OnIds) <=> ("requires" = "conflicts")
        BY <1>10, <1>11
      <3>2. d.kind = "requires"
        BY <1>11
      <3> QED BY <1>8, <1>10, <3>1, <3>2, Zenon DEF BrokenKind
    <2>2. error'.what = "dependency not satisfied"
      BY <1>11 DEF Reject
    <2> QED BY <2>1, <2>2
  <1>12. CASE d.kind = "conflicts" /\ Reject("conflict active")
    <2>1. BrokenKind("conflicts")
      <3>1. (d.id \in OnIds) <=> ("conflicts" = "conflicts")
        BY <1>10, <1>12
      <3>2. d.kind = "conflicts"
        BY <1>12
      <3> QED BY <1>8, <1>10, <3>1, <3>2, Zenon DEF BrokenKind
    <2>2. error'.what = "conflict active"
      BY <1>12 DEF Reject
    <2> QED BY <2>1, <2>2
  <1> QED BY <1>5, <1>7, <1>11, <1>12

\* A published config has no broken dependency.
LEMMA PublishedIsSound ==
  ASSUME ResolveInv, stage = "resolved"
  PROVE  ~BrokenKind("requires") /\ ~BrokenKind("conflicts")
  <1>1. \A id : ActiveIn(resolved, id) <=> id \in OnIds
    BY ResolvedIsMerged
  <1>2. \A o \in ToSet(Options) : \A d \in ToSet(o.deps) : ~Broken(resolved, o, d)
    BY DEF ResolveInv, CheckedInv, ToSet
  <1>3. ASSUME NEW o \in ToSet(Options), NEW d \in ToSet(o.deps), NEW kind \in {"requires", "conflicts"},
               d.kind = kind, o.id \in OnIds, ((d.id \in OnIds) <=> (kind = "conflicts"))
        PROVE  FALSE
    <2>1. ~Broken(resolved, o, d)
      BY <1>2
    <2>2. ActiveIn(resolved, o.id) /\ (ActiveIn(resolved, d.id) <=> d.id \in OnIds)
      BY <1>1, <1>3
    <2>3. CASE kind = "requires"
      <3>1. d.id \notin OnIds
        BY <1>3, <2>3
      <3> QED BY <1>3, <2>1, <2>2, <2>3, <3>1 DEF Broken
    <2>4. CASE kind = "conflicts"
      <3>1. d.id \in OnIds
        BY <1>3, <2>4
      <3> QED BY <1>3, <2>1, <2>2, <2>4, <3>1 DEF Broken
    <2> QED BY <2>3, <2>4
  <1> QED BY <1>3 DEF BrokenKind

\* Once the edges are built they stay.
LEMMA EdgesStay ==
  ASSUME Resolving, stage \notin {"loaded", "edges"}
  PROVE  edges' = edges
  <1>1. CASE Rejected
    BY <1>1, RejectedFacts
  <1>2. ASSUME NEW values, NEW source, ApplyValue(values, source)
        PROVE  edges' = edges
    BY <1>1, <1>2, ApplyValueFacts
  <1>3. CASE ~Rejected
    <2>1. ~Start /\ ~AddEdges /\ ~EdgesBuilt
      BY Zenon DEF Start, AddEdges, EdgesBuilt
    <2>2. CASE VisitRoot \/ FollowEdge \/ LeaveNode \/ NoCycle \/ Lint
      BY <1>3, <2>2, Zenon DEF VisitRoot, FollowEdge, LeaveNode, NoCycle, Lint, Rejected
    <2>3. CASE Seed \/ Seeded \/ PushBase \/ NextBase \/ BasesApplied
      BY <1>3, <2>3, Zenon DEF Seed, Seeded, PushBase, NextBase, BasesApplied, Rejected
    <2>4. CASE ChainBuilt
      BY <2>4 DEF ChainBuilt
    <2>5. CASE TargetApplied \/ ProfileApplied \/ UserApplied \/ CheckOption \/ Publish
      BY <1>3, <2>5, Zenon DEF TargetApplied, ProfileApplied, UserApplied, CheckOption, Publish, Rejected
    <2>6. CASE ApplyBase \/ ApplyTarget \/ ApplyProfile \/ ApplyUser
      <3>1. \E values, source : ApplyValue(values, source)
        BY <1>3, <2>6, Zenon DEF ApplyBase, ApplyTarget, ApplyProfile, ApplyUser, Rejected
      <3> QED BY <1>2, <3>1
    <2> QED BY <2>1, <2>2, <2>3, <2>4, <2>5, <2>6, Zenon DEF Resolving
  <1> QED BY <1>1, <1>3

LEMMA SameVerdict ==
  ASSUME chain' = chain, tree' = tree, input' = input, edges' = edges
  PROVE  /\ Cyclic' <=> Cyclic
         /\ \A kind : BrokenKind(kind)' <=> BrokenKind(kind)
         /\ Request' = Request
  <1>1. OptionIds' = OptionIds /\ Options' = Options /\ MergedConfig' = MergedConfig /\ Request' = Request
    BY SameContent
  <1>2. FollowedPairs' = FollowedPairs
    BY DEF FollowedPairs
  <1>3. OnIds' = OnIds
    BY <1>1 DEF OnIds
  <1> QED BY <1>1, <1>2, <1>3 DEF Cyclic, BrokenKind

\* A refusal, once it is on record, is right; the graph that passed has no cycle.
RefusalIsRight ==
    /\ NoLateRefusal
    /\ error.what = "dependency cycle" => Cyclic
    /\ error.what = "dependency not satisfied" => BrokenKind("requires")
    /\ error.what = "conflict active" => BrokenKind("conflicts")
GraphPassed == stage \in AfterLoad \ {"loaded", "edges", "cycles"} => ~Cyclic
VerdictInv == ResolveInv /\ RefusalIsRight /\ GraphPassed

LEMMA NothingRefused ==
  ASSUME error.what \notin Refusals
  PROVE  RefusalIsRight
  BY DEF RefusalIsRight, NoLateRefusal, Refusals

LEMMA NoErrorRefused == NoError.what \notin Refusals
  BY DEF NoError, Null, Refusals

LEMMA VerdictInit == ResolveInit => VerdictInv
  <1> SUFFICES ASSUME ResolveInit PROVE VerdictInv
    OBVIOUS
  <1>1. ResolveInv /\ stage = "root" /\ error = NoError
    BY InitHolds DEF ResolveInit, LoadInit
  <1>2. RefusalIsRight
    BY <1>1, NothingRefused, NoErrorRefused
  <1>3. GraphPassed
    BY <1>1 DEF GraphPassed, AfterLoad
  <1> QED BY <1>1, <1>2, <1>3 DEF VerdictInv

LEMMA RefusalKeeps ==
  ASSUME VerdictInv, ResolveNext
  PROVE  RefusalIsRight'
  <1>1. error'.what \notin Refusals => RefusalIsRight'
    BY DEF RefusalIsRight, NoLateRefusal, Refusals
  <1>2. CASE Load
    <2>1. stage \in Reads /\ (error' = error \/ error'.what \notin Refusals)
      BY <1>2, LoadStages DEF Load
    <2>2. error = NoError
      BY <2>1 DEF VerdictInv, ResolveInv, NoErrorYet, Reads, Early
    <2> QED BY <1>1, <2>1, <2>2, NoErrorRefused
  <1>3. CASE Resolving /\ ~Rejected
    <2>1. error' = error /\ stage \in AfterLoad
      BY <1>3, Course
    <2>2. error = NoError
      BY <2>1 DEF VerdictInv, ResolveInv, NoErrorYet, AfterLoad
    <2> QED BY <1>1, <2>1, <2>2, NoErrorRefused
  <1>4. CASE Resolving /\ Rejected
    <2>1. /\ error'.at = stage
          /\ error'.what \in {"unknown resolved option", "invalid resolved value"} => stage = "user"
          /\ error'.what # "unknown base profile"
          /\ error'.what = "unknown target" => Request.target # Null
          /\ error'.what = "dependency cycle" => FollowEdge
          /\ error'.what \in {"dependency not satisfied", "conflict active"} => CheckOption
      BY <1>4, Messages DEF VerdictInv
    <2>2. chain' = chain /\ tree' = tree /\ input' = input /\ edges' = edges
      BY <1>4, RejectedFacts DEF SameLoad
    <2>3. /\ Cyclic' <=> Cyclic
          /\ \A kind : BrokenKind(kind)' <=> BrokenKind(kind)
          /\ Request' = Request
      BY <2>2, SameVerdict
    <2>4. NoLateRefusal'
      BY <2>1, <2>3 DEF NoLateRefusal
    <2>5. error'.what = "dependency cycle" => Cyclic'
      BY <1>4, <2>1, <2>3, CycleRejected DEF VerdictInv
    <2>6. /\ error'.what = "dependency not satisfied" => BrokenKind("requires")'
          /\ error'.what = "conflict active" => BrokenKind("conflicts")'
      BY <1>4, <2>1, <2>3, CheckIsGenuine DEF VerdictInv
    <2> QED BY <2>4, <2>5, <2>6 DEF RefusalIsRight
  <1> QED BY <1>2, <1>3, <1>4, ResolverMoves

LEMMA GraphKeeps ==
  ASSUME VerdictInv, ResolveNext
  PROVE  GraphPassed'
  <1> DEFINE Passed == AfterLoad \ {"loaded", "edges", "cycles"}
  <1> SUFFICES ASSUME stage' \in Passed PROVE ~Cyclic'
    BY DEF GraphPassed
  <1>1. Resolving
    <2>1. ~Load
      BY LoadStages DEF Load, Reads, Early, AfterLoad
    <2> QED BY <2>1, ResolverMoves
  <1>2. stage' # "failed"
    BY DEF AfterLoad
  <1>3. ~Rejected
    BY <1>2, RejectedFacts
  <1>4. /\ tree' = tree
        /\ \/ stage = "cycles" /\ NoCycle
           \/ stage \in Passed
    BY <1>1, <1>3, Course DEF SameLoad, AfterLoad
  <1>5. edges' = edges
    BY <1>1, <1>4, EdgesStay
  <1>6. ~Cyclic
    BY <1>4, NoCycleFound DEF VerdictInv, GraphPassed
  <1>7. OptionIds' = OptionIds /\ FollowedPairs' = FollowedPairs
    BY <1>4, <1>5 DEF OptionIds, FollowedPairs
  <1> QED BY <1>6, <1>7 DEF Cyclic

LEMMA VerdictStutter ==
  ASSUME VerdictInv, UNCHANGED resolverVars
  PROVE  VerdictInv'
  <1>1. /\ input' = input /\ stage' = stage /\ tree' = tree /\ error' = error
        /\ edges' = edges /\ chain' = chain
    BY DEF resolverVars, loadVars, resolveVars
  <1>2. ResolveInv'
    BY StutterHolds DEF VerdictInv
  <1>3. /\ Cyclic' <=> Cyclic
        /\ \A kind : BrokenKind(kind)' <=> BrokenKind(kind)
        /\ Request' = Request
    BY <1>1, SameVerdict
  <1>4. RefusalIsRight'
    BY <1>1, <1>3 DEF VerdictInv, RefusalIsRight, NoLateRefusal
  <1>5. GraphPassed'
    BY <1>1, <1>3 DEF VerdictInv, GraphPassed
  <1> QED BY <1>2, <1>4, <1>5 DEF VerdictInv

-----------------------------------------------------------------------------
\* What is proved of the version 1 loader and resolver.

\* Everything below follows from the invariant of the loader, of the search for
\* cycles and of the config under construction, which holds in every state.
THEOREM VerdictInvHolds == ResolveSpec => []VerdictInv
  <1>1. ResolveInit => VerdictInv
    BY VerdictInit
  <1>2. VerdictInv /\ [ResolveNext]_resolverVars => VerdictInv'
    <2> SUFFICES ASSUME VerdictInv, [ResolveNext]_resolverVars PROVE VerdictInv'
      OBVIOUS
    <2>1. CASE ResolveNext
      BY <2>1, NextHolds, RefusalKeeps, GraphKeeps DEF VerdictInv
    <2>2. CASE UNCHANGED resolverVars
      BY <2>2, VerdictStutter
    <2> QED BY <2>1, <2>2
  <1> QED BY <1>1, <1>2, PTL DEF ResolveSpec

\* What confit_schema_load_project accepts is usable, whatever the order of the
\* lines of its tables, and the resolver refuses nothing of it later.
THEOREM LoadIsFinalHolds == ResolveSpec => []LoadIsFinal
  <1>1. VerdictInv => LoadIsFinal
    BY Usable DEF VerdictInv, ResolveInv, RefusalIsRight, LoadIsFinal
  <1> QED BY <1>1, VerdictInvHolds, PTL

\* The loops of confit_resolver_resolve give each option the value and the source
\* of the precedence rules, for every chain of profiles and every target.
THEOREM ResolvedIsRightHolds == ResolveSpec => []ResolvedIsRight
  <1>1. VerdictInv => ResolvedIsRight
    BY ResolvedIsMerged DEF VerdictInv, ResolvedIsRight
  <1> QED BY <1>1, VerdictInvHolds, PTL

\* A published config breaks no dependency of an active option, and a refusal for
\* one names a dependency that is broken.
THEOREM VerdictIsGenuineHolds == ResolveSpec => []VerdictIsGenuine
  <1>1. VerdictInv => VerdictIsGenuine
    <2> SUFFICES ASSUME VerdictInv PROVE VerdictIsGenuine
      OBVIOUS
    <2>1. stage = "resolved" => ~BrokenKind("requires") /\ ~BrokenKind("conflicts")
      BY PublishedIsSound DEF VerdictInv
    <2>2. /\ error.what = "dependency not satisfied" => BrokenKind("requires")
          /\ error.what = "conflict active" => BrokenKind("conflicts")
      BY DEF VerdictInv, RefusalIsRight
    <2> QED BY <2>1, <2>2, Zenon DEF VerdictIsGenuine, BrokenKind, OnIds, OffValues
  <1> QED BY <1>1, VerdictInvHolds, PTL

\* confit_graph_validate_cycles accepts the graphs without a cycle of edges that
\* are not conflicts, and no others, whatever their number and order.
THEOREM GraphVerdictHolds == ResolveSpec => []GraphVerdict
  <1>1. VerdictInv => GraphVerdict
    BY DEF VerdictInv, RefusalIsRight, GraphPassed, GraphVerdict
  <1> QED BY <1>1, VerdictInvHolds, PTL
=============================================================================
