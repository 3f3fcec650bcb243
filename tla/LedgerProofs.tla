---------------------------- MODULE LedgerProofs ----------------------------
(***************************************************************************)
(* What Ledger says of the assignment ledger, proved for every schema,     *)
(* every directory of profiles and targets, and every list of overrides.   *)
(***************************************************************************)
EXTENDS Ledger, InductionLemmas

-----------------------------------------------------------------------------
\* Lists.

\* The entries of a list of lists put one after the other.
LEMMA FlattenFacts ==
  ASSUME NEW S, NEW seqs, seqs \in Seq(Seq(S))
  PROVE  /\ FlattenSeq(seqs) \in Seq(S)
         /\ Range(FlattenSeq(seqs)) = UNION {Range(seqs[i]) : i \in DOMAIN seqs}
  <1>1. PICK N : N = Len(seqs) /\ N \in Nat /\ DOMAIN seqs = 1..N
    OBVIOUS
  <1>2. CASE N = 0
    BY <1>1, <1>2 DEF FlattenSeq, Range
  <1>3. CASE N # 0
    <2> DEFINE T == Seq(S)
               G == [x \in T \X (1..N) |-> x[1] \o seqs[x[2]]]
               Body(f) == [i \in 1..Len(seqs) |-> IF i = 1 THEN seqs[i] ELSE f[i - 1] \o seqs[i]]
               Solution == CHOOSE f : f = Body(f)
    <2>1. G \in [T \X (1..N) -> T] /\ <<>> \in T
      BY <1>1
    <2>2. PICK g : Recursion(g, N, T, <<>>, G)
      <3>1. PICK e : e = <<>>
        OBVIOUS
      <3> HIDE DEF G, T
      <3>2. \E f : Recursion(f, N, T, e, G)
        BY ONLY <1>1, <2>1, <3>1, RecursionTo
      <3> QED BY <3>1, <3>2
    <2>3. /\ g[0] = <<>> /\ \A i \in 0..N : g[i] \in T
          /\ \A i \in 1..N : g[i] = g[i - 1] \o seqs[i]
      <3>1. g[0] = <<>> /\ \A i \in 0..N : g[i] \in T
        BY <2>2 DEF Recursion
      <3>2. ASSUME NEW i \in 1..N PROVE g[i] = g[i - 1] \o seqs[i]
        <4>1. i - 1 \in 0..N
          BY <1>1
        <4>2. <<g[i - 1], i>> \in T \X (1..N)
          BY <3>1, <4>1
        <4>3. G[<<g[i - 1], i>>] = g[i - 1] \o seqs[i]
          <5> HIDE DEF T
          <5> QED BY <4>2
        <4> HIDE DEF G
        <4> QED BY <2>2, <4>3 DEF Recursion
      <3> QED BY <3>1, <3>2
    <2> DEFINE f == [i \in 1..N |-> g[i]]
    <2>4. f = Body(f)
      <3>1. ASSUME NEW i \in 1..N PROVE f[i] = IF i = 1 THEN seqs[i] ELSE f[i - 1] \o seqs[i]
        <4>1. CASE i = 1
          <5>0. i - 1 = 0
            BY <4>1
          <5>1. g[i] = g[i - 1] \o seqs[i]
            BY <2>3
          <5>2. g[i] = g[0] \o seqs[1] /\ g[0] = <<>>
            BY <2>3, <4>1, <5>0, <5>1, Zenon
          <5>3. seqs[1] \in Seq(S)
            BY <1>1, <4>1
          <5>4. g[i] = seqs[1]
            BY ONLY <5>2, <5>3
          <5> QED BY <4>1, <5>4
        <4>2. CASE i # 1
          <5>1. i - 1 \in 1..N
            BY <1>1, <4>2
          <5>2. g[i] = g[i - 1] \o seqs[i]
            BY <2>3
          <5>3. f[i] = g[i] /\ f[i - 1] = g[i - 1]
            BY <5>1
          <5> QED BY <4>2, <5>2, <5>3
        <4> QED BY <4>1, <4>2
      <3> HIDE DEF f
      <3>2. f = [i \in 1..N |-> f[i]]
        BY DEF f
      <3> QED BY <1>1, <3>1, <3>2
    <2>5. Solution = Body(Solution)
      <3> HIDE DEF Body
      <3> QED BY <2>4
    <2>6. FlattenSeq(seqs) = Solution[N]
      BY <1>1, <1>3 DEF FlattenSeq
    <2> HIDE DEF Solution, f
    <2>7. \A i \in 1..N : Solution[i] = IF i = 1 THEN seqs[i] ELSE Solution[i - 1] \o seqs[i]
      BY <1>1, <2>5
    <2> DEFINE Upto(n) == UNION {Range(seqs[i]) : i \in 1..n}
               Good == {n \in Nat : n \in 1..N =>
                            /\ Solution[n] \in Seq(S)
                            /\ Range(Solution[n]) = Upto(n)}
    <2>8. 0 \in Good
      OBVIOUS
    <2>9. ASSUME NEW n \in Nat, n \in Good PROVE n + 1 \in Good
      <3> SUFFICES ASSUME n + 1 \in 1..N
                   PROVE  /\ Solution[n + 1] \in Seq(S)
                          /\ Range(Solution[n + 1]) = Upto(n + 1)
        OBVIOUS
      <3>0. seqs[n + 1] \in Seq(S)
        BY <1>1
      <3>1. CASE n = 0
        <4>0. 1 \in 1..N
          BY ONLY <1>1, <1>3
        <4>1. Solution[1] = seqs[1]
          BY ONLY <2>7, <4>0
        <4>2. Range(seqs[1]) = Upto(1)
          OBVIOUS
        <4> QED BY <3>0, <3>1, <4>1, <4>2
      <3>2. CASE n # 0
        <4>1. n \in 1..N /\ n + 1 # 1 /\ (n + 1) - 1 = n
          BY <1>1, <3>2
        <4>2. Solution[n] \in Seq(S) /\ Range(Solution[n]) = Upto(n)
          BY <2>9, <4>1
        <4>3. Solution[n + 1] = Solution[n] \o seqs[n + 1]
          BY <2>7, <4>1
        <4>4. /\ Solution[n + 1] \in Seq(S)
              /\ Range(Solution[n + 1]) = Range(Solution[n]) \cup Range(seqs[n + 1])
          <5>1. PICK s, t : s = Solution[n] /\ t = seqs[n + 1]
            OBVIOUS
          <5>2. s \o t \in Seq(S) /\ Range(s \o t) = Range(s) \cup Range(t)
            BY ONLY <3>0, <4>2, <5>1, RangeConcat
          <5> QED BY <4>3, <5>1, <5>2
        <4>5. 1..(n + 1) = (1..n) \cup {n + 1}
          OBVIOUS
        <4>6. Upto(n + 1) = Upto(n) \cup Range(seqs[n + 1])
          BY ONLY <4>5
        <4> QED BY <4>2, <4>4, <4>6
      <3> QED BY <3>1, <3>2
    <2>10. Nat \subseteq Good
      <3> HIDE DEF Good
      <3> QED BY <2>8, <2>9, Induction
    <2>11. N \in 1..N
      BY <1>1, <1>3
    <2> QED BY <1>1, <2>6, <2>10, <2>11
  <1> QED BY <1>2, <1>3

-----------------------------------------------------------------------------
\* Files and their bases.

IsList(s) == s \in Seq(Range(s))

Distinct(files) == \A i, j \in DOMAIN files : files[i].name = files[j].name => i = j

\* A name that some file has, and the file.
LEMMA NamedFacts ==
  ASSUME NEW files, NEW name, name \in Names(files)
  PROVE  Named(files, name) \in Range(files) /\ Named(files, name).name = name
  <1>1. \E i \in DOMAIN files : files[i].name = name
    BY DEF Names
  <1>2. PICK i : /\ i = CHOOSE j \in DOMAIN files : files[j].name = name
                 /\ i \in DOMAIN files /\ files[i].name = name
    BY <1>1
  <1>3. Named(files, name) = files[i]
    BY <1>2 DEF Named
  <1> QED BY <1>2, <1>3 DEF Range

\* No two files have one name.
LEMMA NamedIsUnique ==
  ASSUME NEW files, Distinct(files), NEW file \in Range(files)
  PROVE  file.name \in Names(files) /\ Named(files, file.name) = file
  <1>1. PICK i \in DOMAIN files : file = files[i]
    BY DEF Range
  <1>2. file.name \in Names(files)
    BY <1>1 DEF Names
  <1>3. PICK j \in DOMAIN files : Named(files, file.name) = files[j]
    BY <1>2, NamedFacts DEF Range
  <1>4. files[j].name = files[i].name
    BY <1>1, <1>2, <1>3, NamedFacts
  <1>5. i = j
    BY <1>4 DEF Distinct
  <1> QED BY <1>1, <1>2, <1>3, <1>5

\* What follows a name in the ancestry.
BaseOf(files, name) ==
    IF name \in Names(files) THEN Named(files, name).base
    ELSE IF name = None THEN None ELSE "unknown"

IsAncestry(a, files, leaf) ==
    /\ DOMAIN a = 0..Len(files)
    /\ a[0] = leaf
    /\ \A n \in 1..Len(files) : a[n] = BaseOf(files, a[n - 1])

LEMMA AncestryFacts ==
  ASSUME NEW files, NEW leaf, IsList(files)
  PROVE  IsAncestry(Ancestry(files, leaf), files, leaf)
  <1>1. PICK N : N = Len(files) /\ N \in Nat
    BY DEF IsList
  <1> DEFINE T == {leaf, None, "unknown"} \cup {Named(files, x).base : x \in Names(files)}
             G == [x \in T \X (1..N) |-> BaseOf(files, x[1])]
             Body(f) == [n \in 0..Len(files) |-> IF n = 0 THEN leaf ELSE BaseOf(files, f[n - 1])]
             Solution == CHOOSE f : f = Body(f)
  <1>2. \A x : BaseOf(files, x) \in T
    BY DEF BaseOf
  <1>3. G \in [T \X (1..N) -> T] /\ leaf \in T
    <2>1. leaf \in T
      OBVIOUS
    <2> HIDE DEF T
    <2> QED BY <1>2, <2>1
  <1>4. PICK f : Recursion(f, N, T, leaf, G)
    <2> HIDE DEF G, T
    <2> QED BY ONLY <1>1, <1>3, RecursionTo
  <1>5. \A n \in 1..N : f[n] = BaseOf(files, f[n - 1])
    <2> SUFFICES ASSUME NEW n \in 1..N PROVE f[n] = BaseOf(files, f[n - 1])
      OBVIOUS
    <2>1. n - 1 \in 0..N
      BY <1>1
    <2> HIDE DEF T
    <2>2. <<f[n - 1], n>> \in T \X (1..N)
      BY <1>4, <2>1 DEF Recursion
    <2> QED BY <1>4, <2>2 DEF Recursion
  <1>6. f = Body(f)
    <2> HIDE DEF T
    <2> QED BY <1>1, <1>4, <1>5 DEF Recursion
  <1>7. Solution = Body(Solution)
    <2> HIDE DEF Body
    <2> QED BY <1>6
  <1>8. Ancestry(files, leaf) = Solution
    BY DEF Ancestry, BaseOf
  <1> HIDE DEF Solution
  <1> QED BY <1>1, <1>7, <1>8 DEF IsAncestry

\* Past None there is nothing but None.
LEMMA AncestryEnds ==
  ASSUME NEW files, NEW leaf, NEW a, IsAncestry(a, files, leaf), IsList(files),
         None \notin Names(files), NEW m \in 0..Len(files), a[m] = None
  PROVE  \A n \in m..Len(files) : a[n] = None
  <1>1. PICK N : N = Len(files) /\ N \in Nat
    BY DEF IsList
  <1> DEFINE Good == {n \in Nat : n \in m..N => a[n] = None}
  <1>2. 0 \in Good
    BY <1>1
  <1>3. ASSUME NEW n \in Nat, n \in Good PROVE n + 1 \in Good
    <2> SUFFICES ASSUME n + 1 \in m..N PROVE a[n + 1] = None
      OBVIOUS
    <2>1. CASE n + 1 = m
      BY <2>1
    <2>2. CASE n + 1 # m
      <3>1. n \in m..N /\ n + 1 \in 1..N /\ (n + 1) - 1 = n
        BY <1>1, <2>2
      <3>2. a[n] = None
        BY <1>3, <3>1
      <3>3. a[n + 1] = BaseOf(files, a[n])
        BY <1>1, <3>1 DEF IsAncestry
      <3> QED BY <3>2, <3>3 DEF BaseOf
    <2> QED BY <2>1, <2>2
  <1>4. Nat \subseteq Good
    <2> HIDE DEF Good
    <2> QED BY <1>2, <1>3, Induction
  <1> QED BY <1>1, <1>4

\* An ancestry that comes back to a name goes on for ever among known names.
LEMMA AncestryRepeats ==
  ASSUME NEW files, NEW leaf, NEW a, IsAncestry(a, files, leaf), IsList(files),
         NEW m \in 0..Len(files), NEW i \in 0..(m - 1), a[m] = a[i],
         \A n \in 0..(m - 1) : a[n] \in Names(files)
  PROVE  \A n \in 0..Len(files) : a[n] \in Names(files)
  <1>1. PICK N : N = Len(files) /\ N \in Nat
    BY DEF IsList
  <1> DEFINE Back(n) == \E j \in 0..(m - 1) : a[n] = a[j]
             Good == {n \in Nat : n \in 0..N => Back(n)}
  <1>2. 0 \in Good
    <2>1. 0 \in 0..(m - 1)
      BY <1>1
    <2> QED BY <2>1
  <1>3. ASSUME NEW n \in Nat, n \in Good PROVE n + 1 \in Good
    <2> SUFFICES ASSUME n + 1 \in 0..N PROVE Back(n + 1)
      OBVIOUS
    <2>1. n \in 0..N /\ n + 1 \in 1..N /\ (n + 1) - 1 = n
      BY <1>1
    <2>2. PICK j \in 0..(m - 1) : a[n] = a[j]
      BY <1>3, <2>1
    <2>3. j + 1 \in 1..N /\ (j + 1) - 1 = j /\ j + 1 \in 0..m
      BY <1>1
    <2>4. a[n + 1] = BaseOf(files, a[n]) /\ a[j + 1] = BaseOf(files, a[j])
      BY <1>1, <2>1, <2>3 DEF IsAncestry
    <2>5. a[n + 1] = a[j + 1]
      BY <2>2, <2>4
    <2>6. CASE j + 1 = m
      BY <2>5, <2>6
    <2>7. CASE j + 1 # m
      <3>1. j + 1 \in 0..(m - 1)
        BY <1>1, <2>3, <2>7
      <3> QED BY <2>5, <3>1
    <2> QED BY <2>6, <2>7
  <1>4. Nat \subseteq Good
    <2> HIDE DEF Good
    <2> QED BY <1>2, <1>3, Induction
  <1>5. ASSUME NEW n \in 0..N PROVE a[n] \in Names(files)
    <2>1. Back(n)
      BY <1>1, <1>4
    <2> QED BY <2>1
  <1> QED BY <1>1, <1>5

-----------------------------------------------------------------------------
\* Requests.

\* Who may write what.
LEMMA WriteOk ==
  ASSUME NEW o, NEW writer \in Kind \cup {"user"}, ValidateWrite(o, writer) = "ok"
  PROVE  /\ o \in Option
         /\ input.options[o].domain \in Kind
         /\ writer \in Kind => input.options[o].domain = writer
         /\ writer = "user" => input.options[o].user_override
  <1>1. "user" \notin Kind /\ "computed" \notin Kind
    BY DEF Kind
  <1>2. o \in Option
    BY DEF ValidateWrite
  <1>3. input.options[o].domain # "computed"
    BY <1>2 DEF ValidateWrite
  <1>4. CASE writer \in Kind
    BY <1>1, <1>2, <1>3, <1>4 DEF ValidateWrite
  <1>5. CASE writer = "user"
    BY <1>1, <1>2, <1>3, <1>5 DEF ValidateWrite
  <1> QED BY <1>4, <1>5

\* What a file that was loaded may say.
Written(k, file) ==
    /\ \A i \in DOMAIN Assignments(file) :
          LET a == Assignments(file)[i] IN
          /\ a.option \in Option
          /\ input.options[a.option].domain = k
          /\ a.unset => ~input.options[a.option].required
    /\ \A i, j \in DOMAIN Assignments(file) :
          Assignments(file)[i].option = Assignments(file)[j].option => i = j

IsDocument(file) == IsList(file.values) /\ IsList(file.unset)

LEMMA AssignmentsFacts ==
  ASSUME NEW file, IsDocument(file)
  PROVE  /\ IsList(Assignments(file))
         /\ \A i \in DOMAIN Assignments(file) : Assignments(file)[i].unset \in BOOLEAN
  <1> DEFINE s == [i \in DOMAIN file.values |->
                    [option |-> file.values[i].option, value |-> file.values[i].value,
                     unset |-> FALSE]]
             t == [i \in DOMAIN file.unset |->
                    [option |-> file.unset[i], value |-> None, unset |-> TRUE]]
             S == Range(s) \cup Range(t)
  <1>0. IsList(file.values) /\ IsList(file.unset)
    BY DEF IsDocument
  <1>1. PICK m, n : m = Len(file.values) /\ n = Len(file.unset)
    OBVIOUS
  <1>10. m \in Nat /\ DOMAIN file.values = 1..m
    BY <1>0, <1>1 DEF IsList
  <1>11. n \in Nat /\ DOMAIN file.unset = 1..n
    BY <1>0, <1>1 DEF IsList
  <1>2. s \in Seq(Range(s)) /\ t \in Seq(Range(t))
    <2>1. s = [i \in 1..m |-> s[i]] /\ t = [i \in 1..n |-> t[i]]
      BY <1>10, <1>11
    <2>2. DOMAIN s = 1..m /\ DOMAIN t = 1..n
      BY <1>10, <1>11
    <2> HIDE DEF s, t
    <2>3. (\A i \in 1..m : s[i] \in Range(s)) /\ (\A i \in 1..n : t[i] \in Range(t))
      BY <2>2 DEF Range
    <2>4. s \in Seq(Range(s))
      <3>1. PICK R : R = Range(s)
        OBVIOUS
      <3>2. s \in [1..m -> R]
        BY ONLY <2>1, <2>3, <3>1
      <3>3. s \in Seq(R)
        BY ONLY <1>10, <3>2
      <3> QED BY ONLY <3>1, <3>3
    <2>5. t \in Seq(Range(t))
      <3>1. PICK R : R = Range(t)
        OBVIOUS
      <3>2. t \in [1..n -> R]
        BY ONLY <2>1, <2>3, <3>1
      <3>3. t \in Seq(R)
        BY ONLY <1>11, <3>2
      <3> QED BY ONLY <3>1, <3>3
    <2> QED BY <2>4, <2>5
  <1>3. s \in Seq(S) /\ t \in Seq(S)
    <2> HIDE DEF s, t
    <2> QED BY <1>2
  <1>4. \A x \in S : x.unset \in BOOLEAN
    <2>1. \A i \in DOMAIN s : s[i].unset = FALSE
      OBVIOUS
    <2>2. \A i \in DOMAIN t : t[i].unset = TRUE
      OBVIOUS
    <2> HIDE DEF s, t
    <2> QED BY <2>1, <2>2 DEF Range
  <1>5. Assignments(file) = s \o t
    BY DEF Assignments
  <1> HIDE DEF s, t
  <1>6. s \o t \in Seq(S) /\ Range(s \o t) = S
    BY ONLY <1>3, RangeConcat
  <1> HIDE DEF S
  <1>7. PICK list : list = Assignments(file) /\ list \in Seq(S) /\ Range(list) = S
    BY <1>5, <1>6
  <1>8. \A i \in DOMAIN list : list[i] \in S
    BY <1>7 DEF Range
  <1> QED BY <1>4, <1>7, <1>8 DEF IsList

LEMMA DocumentOk ==
  ASSUME kind \in Kind, NEW file, IsDocument(file), DocumentStatus(file) = "ok"
  PROVE  Written(kind, file)
  <1>1. PICK list, n : list = Assignments(file) /\ IsList(list) /\ n = Len(list) /\ n \in Nat
                       /\ DOMAIN list = 1..n
    BY AssignmentsFacts DEF IsList
  <1> DEFINE result(i) == AssignmentStatus(list[i], SubSeq(list, 1, i - 1))
             wrong == {i \in DOMAIN list : result(i) # "ok"}
             first == CHOOSE i \in wrong : \A j \in wrong : i <= j
  <1>2. wrong # {} => DocumentStatus(file) = result(first)
    BY <1>1 DEF DocumentStatus
  <1>3. wrong = {}
    <2> SUFFICES ASSUME wrong # {} PROVE FALSE
      OBVIOUS
    <2> HIDE DEF result
    <2>1. wrong \in SUBSET Nat
      BY <1>1
    <2>2. \E i \in wrong : \A j \in wrong : i <= j
      <3> HIDE DEF wrong
      <3> QED BY <2>1, LeastNatural
    <2>3. first \in wrong
      <3> HIDE DEF wrong
      <3> QED BY <2>2
    <2>4. result(first) # "ok"
      <3> HIDE DEF first
      <3> QED BY <2>3
    <2> QED BY <1>2, <2>4
  <1>4. \A i \in DOMAIN list : result(i) = "ok"
    <2> HIDE DEF result
    <2> QED BY <1>3
  <1>5. ASSUME NEW i \in DOMAIN list
        PROVE  /\ ValidateWrite(list[i].option, kind) = "ok"
               /\ list[i].unset => ~input.options[list[i].option].required
               /\ ~\E j \in DOMAIN SubSeq(list, 1, i - 1) :
                      SubSeq(list, 1, i - 1)[j].option = list[i].option
    BY <1>4, <1>5 DEF AssignmentStatus
  <1>6. ASSUME NEW i \in DOMAIN list, NEW j \in DOMAIN list, j < i
        PROVE  list[j].option # list[i].option
    <2>1. j \in 1..(i - 1) /\ i - 1 \in 1..n
      BY <1>1, <1>6
    <2>2. DOMAIN SubSeq(list, 1, i - 1) = 1..(i - 1) /\ SubSeq(list, 1, i - 1)[j] = list[j]
      BY <1>1, <2>1 DEF IsList
    <2> QED BY <1>5, <2>1, <2>2
  <1>7. ASSUME NEW i \in DOMAIN list, NEW j \in DOMAIN list, list[i].option = list[j].option
        PROVE  i = j
    <2>1. ~(i < j) /\ ~(j < i)
      BY <1>6, <1>7
    <2> QED BY <1>1, <2>1
  <1>8. \A i \in DOMAIN list : /\ list[i].option \in Option
                               /\ input.options[list[i].option].domain = kind
    BY <1>5, WriteOk
  <1> QED BY <1>1, <1>5, <1>7, <1>8 DEF Written

\* Overrides without an error.
Allowed(list, writer) ==
    /\ \A i \in DOMAIN list : ValidateWrite(list[i].option, writer) = "ok"
    /\ \A i, j \in DOMAIN list : list[i].option = list[j].option => i = j

LEMMA OverridesOk ==
  ASSUME NEW list, IsList(list), NEW writer,
         \A i \in DOMAIN list : OverrideStatus(list, i, writer) = "ok"
  PROVE  Allowed(list, writer)
  <1>1. PICK n : n \in Nat /\ DOMAIN list = 1..n
    BY DEF IsList
  <1>2. ASSUME NEW i \in DOMAIN list
        PROVE  /\ ValidateWrite(list[i].option, writer) = "ok"
               /\ \A j \in 1..(i - 1) : list[j].option # list[i].option
    BY <1>2 DEF OverrideStatus
  <1>3. ASSUME NEW i \in DOMAIN list, NEW j \in DOMAIN list, list[i].option = list[j].option
        PROVE  i = j
    <2>1. ~(i < j) /\ ~(j < i)
      BY <1>1, <1>2, <1>3
    <2> QED BY <1>1, <2>1
  <1> QED BY <1>2, <1>3 DEF Allowed

-----------------------------------------------------------------------------
\* Orders.

\* The order of an assignment in a chain.
Place(d, i) == (d - 1) * Stride + (i - 1)

\* A later document is after every assignment of an earlier one.
LEMMA PlaceLess ==
  ASSUME NEW d \in Nat \ {0}, NEW e \in Nat \ {0}, NEW i \in 1..Stride, NEW j \in 1..Stride, d < e
  PROVE  Place(d, i) < Place(e, j)
  <1>1. PICK x, y, s : x = d - 1 /\ y = e - 1 /\ s = Stride
    OBVIOUS
  <1>2. x \in Nat /\ y \in Nat /\ s \in Nat /\ y - x - 1 \in Nat
    BY <1>1, StrideAssumption
  <1>3. PICK z \in Nat : y = x + 1 + z
    BY <1>2
  <1>4. y * s = x * s + s + z * s
    BY ONLY <1>2, <1>3, SMT
  <1>5. z * s \in Nat /\ x * s \in Nat
    BY ONLY <1>2, SMT
  <1>6. y * s >= x * s + s
    BY <1>2, <1>4, <1>5
  <1>7. PICK p, q : p = x * s /\ q = y * s /\ p \in Nat /\ q \in Nat /\ q >= p + s
    BY <1>2, <1>4, <1>5, <1>6
  <1>8. Place(d, i) = p + (i - 1) /\ Place(e, j) = q + (j - 1)
    BY <1>1, <1>7 DEF Place
  <1> QED BY <1>1, <1>2, <1>7, <1>8

\* With as many documents as a directory holds no order wraps.
LEMMA PlaceFits ==
  ASSUME NEW d \in Nat \ {0}, d <= SizeMax \div Stride, NEW i \in 1..Stride
  PROVE  Place(d, i) \in 0..SizeMax /\ Place(d, i) % (SizeMax + 1) = Place(d, i)
  <1>1. PICK x, s, n, t : x = d - 1 /\ s = Stride /\ n = SizeMax /\ t = n \div s
    OBVIOUS
  <1>2. x \in Nat /\ s \in Nat \ {0} /\ n \in Nat /\ x + 1 <= t
    BY <1>1, StrideAssumption
  <1>3. t \in Nat /\ t * s <= n
    BY ONLY <1>1, <1>2, SMT
  <1>4. (x + 1) * s <= t * s
    BY ONLY <1>2, <1>3, SMT
  <1>5. (x + 1) * s = x * s + s /\ x * s \in Nat
    BY ONLY <1>2, SMT
  <1>6. PICK p : p = x * s /\ p \in Nat /\ p + s <= n
    BY <1>2, <1>3, <1>4, <1>5
  <1>7. Place(d, i) = p + (i - 1)
    BY <1>1, <1>6 DEF Place
  <1>8. Place(d, i) \in 0..SizeMax
    BY <1>1, <1>2, <1>6, <1>7
  <1>9. \A y \in 0..n : y % (n + 1) = y
    BY ONLY <1>2, SMT
  <1> QED BY <1>1, <1>8, <1>9

-----------------------------------------------------------------------------
\* The invariant.

\* The stages that add entries and choose among them.
Late == {"defaults", "chain", "transaction", "user", "winners", "published"}

Stages == {"load", "find", "walk", "select", "failed"} \cup Late

\* The files loaded so far: all of the kinds done, a prefix of the current one;
\* their names are distinct and every request in them is allowed.
Catalogs ==
    /\ DOMAIN catalog = Kind
    /\ \A k \in Kind : /\ catalog[k] \in Seq(Range(input.files[k]))
                       /\ Distinct(catalog[k])
                       /\ \A file \in Range(catalog[k]) : Written(k, file)
    /\ stage = "load" =>
          /\ at \in Nat \ {0} /\ at - 1 <= Len(input.files[kind])
          /\ Len(catalog[kind]) = at - 1
          /\ \A i \in 1..(at - 1) : catalog[kind][i] = input.files[kind][i]
          /\ kind = "profile" => catalog["target"] = << >>
          /\ kind = "target" => catalog["profile"] = input.files["profile"]
    /\ stage # "load" => \A k \in Kind : catalog[k] = input.files[k]

\* The walk has followed the ancestry of the leaf, without meeting a file twice.
Walked ==
    /\ reversed \in Seq(Range(input.files[kind]))
    /\ Len(reversed) <= Len(input.files[kind])
    /\ \A i \in 1..Len(reversed) : reversed[i].name = Ancestor(kind)[i - 1]
    /\ \A i, j \in 1..Len(reversed) : reversed[i] = reversed[j] => i = j
    /\ cursor = Ancestor(kind)[Len(reversed)]
    /\ cursor \in FileNames(kind) \cup {None}

Walking ==
    /\ stage \in {"find", "walk"} => LeafName(kind) # None
    /\ stage = "walk" => Walked

\* A chain is the whole ancestry of its leaf, root first.
ChainRight(k) ==
    /\ chain[k] \in Seq(Range(input.files[k]))
    /\ Len(chain[k]) <= Len(input.files[k])
    /\ \A d \in 1..Len(chain[k]) : chain[k][d].name = Ancestor(k)[Len(chain[k]) - d]
    /\ Ancestor(k)[Len(chain[k])] = None

\* The target is being searched.
Targeting == kind = "target" /\ stage \in {"find", "walk"}

Chains ==
    /\ DOMAIN chain = Kind
    /\ stage \in Late => ChainRight("target")
    /\ stage \in Late \/ stage = "select" \/ Targeting => ChainRight("profile")
    /\ stage \notin Late => chain["target"] = << >>
    /\ ~(stage \in Late \/ stage = "select" \/ Targeting) => chain["profile"] = << >>
    /\ \A d \in 1..Len(chain["profile"]) :
          d # Len(chain["profile"]) => chain["profile"][d].target = None

\* The command line, else the leaf profile, else the project.
TargetChosen ==
    stage \in Late \/ Targeting =>
        target = IF input.target_name # None THEN input.target_name
                 ELSE IF chain["profile"] # << >> /\ Last(chain["profile"]).target # None
                 THEN Last(chain["profile"]).target
                 ELSE input.default_target

\* The entries of the schema, of a chain and of a list of overrides.
HasDefault(i) ==
    input.options[Symbols[i]].domain # "computed" /\ input.options[Symbols[i]].default # None

DefaultEntry(i) ==
    Entry(Symbols[i], input.options[Symbols[i]].default, FALSE, "default", 0, i - 1)

IsDefault(e) == \E i \in DOMAIN Symbols : HasDefault(i) /\ e = DefaultEntry(i)

PlacedEntry(k, file, d, i) ==
    LET a == Assignments(file)[i] IN
    Entry(a.option, a.value, a.unset, IF a.unset THEN "unset" ELSE k, 1, Place(d, i))

IsChained(k, e) ==
    \E d \in DOMAIN chain[k] : \E i \in DOMAIN Assignments(chain[k][d]) :
        e = PlacedEntry(k, chain[k][d], d, i)

OverrideEntry(list, writer, p, i) ==
    Entry(list[i].option, list[i].value, FALSE, writer, p, i - 1)

IsOverride(list, writer, p, e) == \E i \in DOMAIN list : e = OverrideEntry(list, writer, p, i)

\* The assignments of a chain have different orders.
Fits(k) == \A d \in DOMAIN chain[k] : \A i \in DOMAIN Assignments(chain[k][d]) : i <= Stride

\* Which sources have been added.
Defaulted == stage \in Late /\ stage # "defaults"
Added(k) ==
    \/ stage \in {"transaction", "user", "winners", "published"}
    \/ stage = "chain" /\ kind = "profile" /\ k = "target"
Edited == stage \in {"user", "winners", "published"}
Ordered == stage \in {"winners", "published"}

EntriesFollow ==
    /\ IsList(entries)
    /\ \A e : e \in Range(entries) <=>
          \/ Defaulted /\ IsDefault(e)
          \/ \E k \in Kind : Added(k) /\ IsChained(k, e)
          \/ Edited /\ IsOverride(input.transaction, "profile", 2, e)
          \/ Ordered /\ IsOverride(input.user, "user", 3, e)
    /\ \A k \in Kind : Added(k) => Fits(k)
    /\ Edited => Allowed(input.transaction, "profile")
    /\ Ordered => Allowed(input.user, "user")

\* The winner of an option is one of its entries that none comes after.
WinnerOf(o, e) ==
    /\ e \in Range(entries) /\ e.option = o
    /\ \A f \in Range(entries) : f.option = o => ~EntryBefore(e, f)

Marked ==
    stage = "published" =>
        \A o \in Option :
            \/ winner[o] = NoEntry /\ \A e \in Range(entries) : e.option # o
            \/ WinnerOf(o, winner[o])

\* The errors of the chains are genuine, and two of them do not occur.
Excused ==
    /\ error = "cycle" =>
          \A n \in DOMAIN Ancestor(kind) : Ancestor(kind)[n] \in FileNames(kind)
    /\ error = "unknown_name" =>
          \E n \in DOMAIN Ancestor(kind) : Ancestor(kind)[n] \notin FileNames(kind) \cup {None}
    /\ error \notin {"chain_internal", "ambiguous"}

\* The stages and the kind that goes with them.
Staged ==
    /\ kind \in Kind
    /\ stage \in Stages
    /\ stage = "select" => kind = "profile"
    /\ stage = "defaults" => kind = "target"
    /\ stage = "transaction" => kind = "profile"

Running ==
    /\ error = None
    /\ Catalogs /\ Walking /\ Chains /\ TargetChosen /\ EntriesFollow /\ Marked

LedgerInvariant ==
    /\ IsInput(input)
    /\ Staged
    /\ stage # "failed" => Running
    /\ stage = "failed" => Excused

-----------------------------------------------------------------------------
\* What a step leaves alone.

LEMMA InputFacts ==
  ASSUME IsInput(input), NEW k \in Kind
  PROVE  /\ IsList(input.files[k])
         /\ Len(input.files[k]) \in Nat
         /\ DOMAIN input.files[k] = 1..Len(input.files[k])
         /\ Len(input.files[k]) <= SizeMax \div Stride
         /\ {None, "unknown"} \cap FileNames(k) = {}
         /\ \A file \in Range(input.files[k]) : IsDocument(file)
  <1>1. IsList(input.files[k]) /\ Len(input.files[k]) <= SizeMax \div Stride
    BY DEF IsInput, IsList
  <1>2. Len(input.files[k]) \in Nat /\ DOMAIN input.files[k] = 1..Len(input.files[k])
    BY <1>1 DEF IsList
  <1>3. \A file \in Range(input.files[k]) : IsDocument(file) /\ file.name \notin {None, "unknown"}
    BY DEF IsInput, IsDocument, IsList
  <1>4. {None, "unknown"} \cap FileNames(k) = {}
    BY <1>3 DEF FileNames, Names, Range
  <1> QED BY <1>1, <1>2, <1>3, <1>4

\* The ancestry of the leaf of a kind.
LEMMA AncestorFacts ==
  ASSUME IsInput(input), NEW k \in Kind
  PROVE  IsAncestry(Ancestor(k), input.files[k], LeafName(k))
  BY InputFacts, AncestryFacts DEF Ancestor

LEMMA AncestorSame ==
  ASSUME NEW k, UNCHANGED input, LeafName(k)' = LeafName(k)
  PROVE  Ancestor(k)' = Ancestor(k) /\ FileNames(k)' = FileNames(k)
  BY DEF Ancestor, FileNames

LEMMA LeafSame ==
  ASSUME UNCHANGED <<input, target>>
  PROVE  \A k : LeafName(k)' = LeafName(k)
  BY DEF LeafName

LEMMA WrittenSame ==
  ASSUME UNCHANGED input
  PROVE  \A k, file : Written(k, file)' <=> Written(k, file)
  BY DEF Written

LEMMA CatalogsKept ==
  ASSUME Catalogs, UNCHANGED <<input, catalog>>, stage # "load", stage' # "load"
  PROVE  Catalogs'
  BY WrittenSame DEF Catalogs

LEMMA ChainRightSame ==
  ASSUME NEW k, ChainRight(k), UNCHANGED <<input, chain>>, LeafName(k)' = LeafName(k)
  PROVE  ChainRight(k)'
  BY AncestorSame DEF ChainRight

\* Before the entries are added there are none.
LEMMA NoEntriesKept ==
  ASSUME EntriesFollow, stage \notin Late \/ stage = "defaults",
         stage' \notin Late \/ stage' = "defaults", UNCHANGED entries
  PROVE  EntriesFollow'
  <1>1. ~Defaulted /\ ~Edited /\ ~Ordered /\ \A k \in Kind : ~Added(k)
    BY DEF Defaulted, Edited, Ordered, Added, Late
  <1>2. ~Defaulted' /\ ~Edited' /\ ~Ordered' /\ \A k \in Kind : ~Added(k)'
    BY DEF Defaulted, Edited, Ordered, Added, Late
  <1>3. IsList(entries) /\ \A e : e \notin Range(entries)
    BY <1>1 DEF EntriesFollow
  <1>4. IsList(entries)' /\ \A e : e \notin Range(entries')
    BY <1>3
  <1> QED BY <1>2, <1>4 DEF EntriesFollow

\* A failure has an excuse.
LEMMA FailKeeps ==
  ASSUME LedgerInvariant, NEW reason, Fail(reason),
         reason \notin {"chain_internal", "ambiguous"},
         reason = "cycle" =>
            \A n \in DOMAIN Ancestor(kind) : Ancestor(kind)[n] \in FileNames(kind),
         reason = "unknown_name" =>
            \E n \in DOMAIN Ancestor(kind) : Ancestor(kind)[n] \notin FileNames(kind) \cup {None}
  PROVE  LedgerInvariant'
  <1>1. /\ stage' = "failed" /\ error' = reason /\ kind' = kind
        /\ UNCHANGED <<input, target>>
    BY DEF Fail
  <1>2. Ancestor(kind)' = Ancestor(kind) /\ FileNames(kind)' = FileNames(kind)
    <2>1. LeafName(kind)' = LeafName(kind)
      BY <1>1 DEF LeafName
    <2>2. Ancestor(kind)' = Ancestor(kind)
      BY <1>1, <2>1 DEF Ancestor
    <2>3. FileNames(kind)' = FileNames(kind)
      BY <1>1 DEF FileNames
    <2> QED BY <2>2, <2>3
  <1>3. Excused'
    BY <1>1, <1>2 DEF Excused
  <1>4. Staged'
    BY <1>1 DEF LedgerInvariant, Staged, Stages
  <1>5. IsInput(input)'
    BY <1>1 DEF LedgerInvariant
  <1> QED BY <1>1, <1>3, <1>4, <1>5 DEF LedgerInvariant

-----------------------------------------------------------------------------
\* Loading.

LEMMA InitInvariant == Init => LedgerInvariant
  <1> SUFFICES ASSUME Init PROVE LedgerInvariant
    OBVIOUS
  <1>1. IsInput(input)
    BY InputsAssumption DEF Init
  <1>2. /\ stage = "load" /\ kind = "profile" /\ at = 1 /\ error = None /\ entries = << >>
        /\ catalog = [k \in Kind |-> << >>] /\ chain = [k \in Kind |-> << >>]
    BY DEF Init
  <1>3. Staged
    BY <1>2 DEF Staged, Stages, Kind
  <1>4. "profile" \in Kind /\ "target" \in Kind
    BY DEF Kind
  <1>5. Catalogs
    <2>1. Len(input.files["profile"]) \in Nat
      BY <1>1, <1>4, InputFacts
    <2>2. \A k \in Kind : /\ catalog[k] = << >> /\ catalog[k] \in Seq(Range(input.files[k]))
                          /\ Range(catalog[k]) = {} /\ Distinct(catalog[k])
      BY <1>2 DEF Distinct, Range
    <2> QED BY <1>2, <1>4, <2>1, <2>2 DEF Catalogs
  <1>6. Walking /\ TargetChosen /\ Marked
    BY <1>2 DEF Walking, TargetChosen, Marked, Targeting, Late
  <1>7. Chains
    BY <1>2, <1>4 DEF Chains, Targeting, Late
  <1>8. EntriesFollow
    <2>1. ~Defaulted /\ ~Edited /\ ~Ordered /\ \A k \in Kind : ~Added(k)
      BY <1>2 DEF Defaulted, Edited, Ordered, Added, Late
    <2>2. IsList(entries) /\ Range(entries) = {}
      BY <1>2 DEF IsList, Range
    <2> QED BY <2>1, <2>2 DEF EntriesFollow
  <1> QED BY <1>1, <1>2, <1>3, <1>5, <1>6, <1>7, <1>8 DEF LedgerInvariant, Running

LEMMA DocumentStatusType ==
  ASSUME NEW file
  PROVE  DocumentStatus(file) \notin {"cycle", "unknown_name", "chain_internal", "ambiguous"}
  <1>1. \A a, earlier : AssignmentStatus(a, earlier) \notin
                            {"cycle", "unknown_name", "chain_internal", "ambiguous"}
    BY DEF AssignmentStatus, ValidateWrite
  <1> QED BY <1>1 DEF DocumentStatus

LEMMA LoadDocumentKeeps == LedgerInvariant /\ LoadDocument => LedgerInvariant'
  <1> SUFFICES ASSUME LedgerInvariant, LoadDocument PROVE LedgerInvariant'
    OBVIOUS
  <1>1. PICK file, status : file = input.files[kind][at] /\ status = DocumentStatus(file)
    OBVIOUS
  <1>2. /\ stage = "load" /\ at <= Len(input.files[kind])
        /\ IsInput(input) /\ Staged /\ Running /\ kind \in Kind
    BY DEF LoadDocument, LedgerInvariant, Staged
  <1>3. CASE status # "ok"
    <2>1. Fail(status)
      BY <1>1, <1>3 DEF LoadDocument
    <2>2. status \notin {"cycle", "unknown_name", "chain_internal", "ambiguous"}
      BY <1>1, DocumentStatusType
    <2> QED BY <2>1, <2>2, FailKeeps
  <1>4. CASE status = "ok" /\ \E i \in DOMAIN catalog[kind] : catalog[kind][i].name = file.name
    <2>1. Fail("duplicate_name")
      BY <1>1, <1>4 DEF LoadDocument
    <2> QED BY <2>1, FailKeeps
  <1>5. CASE status = "ok" /\ ~\E i \in DOMAIN catalog[kind] : catalog[kind][i].name = file.name
    <2>1. /\ catalog' = [catalog EXCEPT ![kind] = Append(@, file)]
          /\ at' = at + 1
          /\ UNCHANGED <<input, stage, kind, cursor, reversed, chain, target, entries, winner, error>>
      BY <1>1, <1>5 DEF LoadDocument
    <2>2. PICK files, old, n : files = input.files[kind] /\ old = catalog[kind] /\ n = at - 1
      OBVIOUS
    <2>3. /\ files \in Seq(Range(files)) /\ DOMAIN files = 1..Len(files) /\ Len(files) \in Nat
          /\ \A f \in Range(files) : IsDocument(f)
      BY <1>2, <2>2, InputFacts DEF IsList
    <2>4. /\ at \in Nat \ {0} /\ n \in Nat /\ at = n + 1 /\ at \in 1..Len(files)
          /\ Len(old) = n /\ old \in Seq(Range(files)) /\ Distinct(old)
          /\ \A i \in 1..n : old[i] = files[i]
          /\ \A f \in Range(old) : Written(kind, f)
      BY <1>2, <2>2, <2>3 DEF Running, Catalogs
    <2>5. file \in Range(files) /\ IsDocument(file)
      BY <1>1, <2>2, <2>3, <2>4 DEF Range
    <2>6. Written(kind, file)
      BY <1>1, <1>2, <1>5, <2>5, DocumentOk
    <2>7. PICK new : new = Append(old, file)
      OBVIOUS
    <2>8. /\ new \in Seq(Range(files)) /\ Len(new) = n + 1 /\ DOMAIN new = 1..(n + 1)
          /\ new[n + 1] = file /\ \A i \in 1..n : new[i] = old[i]
      BY <2>4, <2>5, <2>7
    <2>9. \A i \in 1..(n + 1) : new[i] = files[i]
      BY <1>1, <2>2, <2>4, <2>8
    <2>10. Distinct(new)
      <3> SUFFICES ASSUME NEW i \in 1..(n + 1), NEW j \in 1..(n + 1), new[i].name = new[j].name
                   PROVE  i = j
        BY <2>8 DEF Distinct
      <3>1. DOMAIN old = 1..n
        BY <2>4
      <3>2. \A l \in 1..n : old[l].name # file.name
        BY <1>5, <2>2, <3>1
      <3>3. CASE i \in 1..n /\ j \in 1..n
        BY <2>4, <2>8, <3>1, <3>3 DEF Distinct
      <3>4. CASE i \in 1..n /\ j \notin 1..n
        BY <2>4, <2>8, <3>2, <3>4
      <3>5. CASE i \notin 1..n /\ j \in 1..n
        BY <2>4, <2>8, <3>2, <3>5
      <3>6. CASE i \notin 1..n /\ j \notin 1..n
        BY <2>4, <3>6
      <3> QED BY <3>3, <3>4, <3>5, <3>6
    <2>11. \A f \in Range(new) : Written(kind, f)
      <3> SUFFICES ASSUME NEW f \in Range(new) PROVE Written(kind, f)
        OBVIOUS
      <3>1. PICK i \in 1..(n + 1) : f = new[i]
        BY <2>8 DEF Range
      <3>2. CASE i \in 1..n
        <4>1. f \in Range(old)
          <5>1. DOMAIN old = 1..n
            BY <2>4
          <5>2. f = old[i]
            BY ONLY <2>8, <3>1, <3>2
          <5> QED BY ONLY <3>2, <5>1, <5>2 DEF Range
        <4> QED BY <2>4, <4>1
      <3>3. CASE i \notin 1..n
        <4>1. f = file
          BY <2>4, <2>8, <3>1, <3>3
        <4> QED BY <2>6, <4>1
      <3> QED BY <3>2, <3>3
    <2>12. DOMAIN catalog = Kind
      BY <1>2 DEF Running, Catalogs
    <2>13. /\ DOMAIN catalog' = Kind /\ catalog'[kind] = new
           /\ \A k \in Kind : k # kind => catalog'[k] = catalog[k]
      BY <1>2, <2>1, <2>2, <2>7, <2>12
    <2>14. Catalogs'
      <3>1. ASSUME NEW k \in Kind
            PROVE  /\ catalog'[k] \in Seq(Range(input.files[k])) /\ Distinct(catalog'[k])
                   /\ \A f \in Range(catalog'[k]) : Written(k, f)'
        <4>1. CASE k = kind
          BY <2>1, <2>2, <2>8, <2>10, <2>11, <2>13, <4>1, WrittenSame
        <4>2. CASE k # kind
          BY <1>2, <2>1, <2>13, <4>2, WrittenSame DEF Running, Catalogs
        <4> QED BY <4>1, <4>2
      <3>2. kind = "profile" => catalog'["target"] = << >>
        BY <1>2, <2>13 DEF Running, Catalogs, Kind
      <3>3. kind = "target" => catalog'["profile"] = input.files["profile"]
        BY <1>2, <2>13 DEF Running, Catalogs, Kind
      <3>4. /\ at' \in Nat \ {0} /\ at' - 1 <= Len(files) /\ Len(new) = at' - 1
            /\ \A i \in 1..(at' - 1) : new[i] = files[i]
        BY <2>1, <2>3, <2>4, <2>8, <2>9
      <3> QED BY <1>2, <2>1, <2>2, <2>13, <3>1, <3>2, <3>3, <3>4 DEF Catalogs
    <2>15. Walking' /\ TargetChosen' /\ Marked'
      BY <1>2, <2>1 DEF Walking, TargetChosen, Marked, Targeting, Late
    <2>16. Chains'
      BY <1>2, <2>1 DEF Running, Chains, Targeting, Late
    <2>17. EntriesFollow'
      BY <1>2, <2>1, NoEntriesKept DEF Running, Late
    <2> QED BY <1>2, <2>1, <2>14, <2>15, <2>16, <2>17 DEF LedgerInvariant, Running, Staged
  <1> QED BY <1>3, <1>4, <1>5

LEMMA EndLoadKeeps == LedgerInvariant /\ EndLoad => LedgerInvariant'
  <1> SUFFICES ASSUME LedgerInvariant, EndLoad PROVE LedgerInvariant'
    OBVIOUS
  <1>1. /\ stage = "load" /\ at > Len(input.files[kind]) /\ at' = 1
        /\ UNCHANGED <<input, catalog, cursor, reversed, chain, target, entries, winner, error>>
        /\ IsInput(input) /\ Staged /\ Running /\ kind \in Kind
    BY DEF EndLoad, LedgerInvariant, Staged
  <1>2. "profile" \in Kind /\ "target" \in Kind /\ Kind = {"profile", "target"}
    BY DEF Kind
  <1>3. catalog[kind] = input.files[kind]
    <2>1. PICK files, old : files = input.files[kind] /\ old = catalog[kind]
      OBVIOUS
    <2>2. files \in Seq(Range(files)) /\ Len(files) \in Nat
      BY <1>1, <2>1, InputFacts DEF IsList
    <2>3. /\ old \in Seq(Range(files)) /\ Len(old) = Len(files)
          /\ \A i \in 1..Len(files) : old[i] = files[i]
      BY <1>1, <2>1, <2>2 DEF Running, Catalogs
    <2>4. old = files
      BY <2>2, <2>3
    <2> QED BY <2>1, <2>4
  <1>4. EntriesFollow'
    <2>1. stage' \notin Late
      BY <1>1 DEF EndLoad, Late
    <2> QED BY <1>1, <2>1, NoEntriesKept DEF Running, Late
  <1>5. \A k \in Kind : /\ catalog'[k] \in Seq(Range(input'.files[k]))
                        /\ Distinct(catalog'[k])
                        /\ \A file \in Range(catalog'[k]) : Written(k, file)'
    BY <1>1, WrittenSame DEF Running, Catalogs
  <1>6. CASE kind = "profile"
    <2>1. kind' = "target" /\ stage' = "load"
      BY <1>1, <1>6 DEF EndLoad
    <2>2. catalog["target"] = << >>
      BY <1>1, <1>6 DEF Running, Catalogs
    <2>3. Len(input.files["target"]) \in Nat
      BY <1>1, <1>2, InputFacts
    <2>4. Catalogs'
      <3>1. DOMAIN catalog' = Kind
        BY <1>1 DEF Running, Catalogs
      <3> QED BY <1>1, <1>3, <1>5, <1>6, <2>1, <2>2, <2>3, <3>1 DEF Catalogs
    <2>5. Walking' /\ TargetChosen' /\ Marked'
      BY <2>1 DEF Walking, TargetChosen, Marked, Targeting, Late
    <2>6. Chains'
      BY <1>1, <2>1 DEF Running, Chains, Targeting, Late
    <2>7. Staged'
      BY <1>2, <2>1 DEF Staged, Stages
    <2> QED BY <1>1, <1>4, <2>1, <2>4, <2>5, <2>6, <2>7 DEF LedgerInvariant, Running
  <1>7. CASE kind = "target"
    <2>1. kind' = "profile" /\ stage' = IF input.profile_name = None THEN "select" ELSE "find"
      BY <1>1, <1>7 DEF EndLoad
    <2>2. catalog["profile"] = input.files["profile"]
      BY <1>1, <1>7 DEF Running, Catalogs
    <2>3. Catalogs'
      <3>1. DOMAIN catalog' = Kind
        BY <1>1 DEF Running, Catalogs
      <3>2. \A k \in Kind : catalog'[k] = input'.files[k]
        BY <1>1, <1>2, <1>3, <1>7, <2>2
      <3>3. stage' # "load"
        BY <2>1
      <3> QED BY <1>5, <3>1, <3>2, <3>3 DEF Catalogs
    <2>4. Walking'
      BY <1>1, <2>1 DEF Walking, LeafName
    <2>5. TargetChosen' /\ Marked'
      BY <2>1 DEF TargetChosen, Marked, Targeting, Late
    <2>6. chain["profile"] = << >> /\ chain["target"] = << >> /\ DOMAIN chain = Kind
      BY <1>1, <1>7 DEF Running, Chains, Targeting, Late
    <2>7. ~Targeting' /\ stage' \notin Late
      BY <2>1 DEF Targeting, Late
    <2>8. stage' = "select" => ChainRight("profile")'
      <3> SUFFICES ASSUME input.profile_name = None PROVE ChainRight("profile")'
        BY <2>1
      <3>1. /\ Ancestor("profile")[0] = None
            /\ Len(input.files["profile"]) \in Nat
        BY <1>1, <1>2, AncestorFacts, InputFacts DEF IsAncestry, LeafName
      <3>2. Ancestor("profile")' = Ancestor("profile")
        BY <1>1, LeafSame, AncestorSame
      <3>3. /\ chain'["profile"] \in Seq(Range(input.files["profile"])) /\ Len(chain'["profile"]) = 0
            /\ 1..0 = {}
        BY <1>1, <2>6
      <3> QED BY <1>1, <3>1, <3>2, <3>3 DEF ChainRight
    <2>9. Chains'
      BY <1>1, <2>6, <2>7, <2>8 DEF Chains
    <2>10. Staged' /\ stage' # "failed"
      BY <1>2, <2>1 DEF Staged, Stages
    <2> QED BY <1>1, <1>4, <2>3, <2>4, <2>5, <2>9, <2>10 DEF LedgerInvariant, Running
  <1> QED BY <1>1, <1>2, <1>6, <1>7

-----------------------------------------------------------------------------
\* The chains.

LEMMA LeafIsName == kind \in Kind => Leaf = LeafName(kind)
  BY DEF Leaf, LeafName

\* The catalog is the directory by now.
LEMMA KnownNames ==
  ASSUME catalog[kind] = input.files[kind], NEW name
  PROVE  Known(name) <=> name \in FileNames(kind)
  BY DEF Known, FileNames, Names

LEMMA FindFacts ==
  ASSUME catalog[kind] = input.files[kind], Distinct(catalog[kind]), IsList(input.files[kind]),
         NEW name \in FileNames(kind)
  PROVE  Find(name) = Named(input.files[kind], name)
  <1>1. PICK files : files = input.files[kind] /\ catalog[kind] = files /\ Distinct(files)
    OBVIOUS
  <1>2. PICK n : n \in Nat /\ DOMAIN files = 1..n
    BY <1>1 DEF IsList
  <1>3. PICK i \in 1..n : files[i].name = name
    BY <1>1, <1>2 DEF FileNames, Names
  <1>4. \A j \in 1..n : files[j].name = name => j = i
    BY <1>1, <1>2, <1>3 DEF Distinct
  <1>5. \A j \in 1..(i - 1) : files[j].name # name
    BY <1>2, <1>4
  <1>6. PICK l : l = CHOOSE x \in DOMAIN files : /\ files[x].name = name
                                               /\ \A j \in 1..(x - 1) : files[j].name # name
    OBVIOUS
  <1>7. l \in DOMAIN files /\ files[l].name = name
    BY <1>2, <1>3, <1>5, <1>6
  <1>8. Find(name) = files[i]
    BY <1>1, <1>2, <1>4, <1>6, <1>7 DEF Find
  <1>9. PICK m : m = CHOOSE x \in DOMAIN files : files[x].name = name
    OBVIOUS
  <1>10. m \in DOMAIN files /\ files[m].name = name
    BY <1>2, <1>3, <1>9
  <1>11. Named(files, name) = files[i]
    BY <1>2, <1>4, <1>9, <1>10 DEF Named
  <1> QED BY <1>1, <1>8, <1>11

LEMMA FindLeafKeeps == LedgerInvariant /\ FindLeaf => LedgerInvariant'
  <1> SUFFICES ASSUME LedgerInvariant, FindLeaf PROVE LedgerInvariant'
    OBVIOUS
  <1>1. /\ stage = "find" /\ IsInput(input) /\ Staged /\ Running /\ kind \in Kind
    BY DEF FindLeaf, LedgerInvariant, Staged
  <1>2. catalog[kind] = input.files[kind] /\ LeafName(kind) # None
    BY <1>1 DEF Running, Catalogs, Walking
  <1>3. /\ Ancestor(kind)[0] = LeafName(kind) /\ 0 \in DOMAIN Ancestor(kind)
        /\ Len(input.files[kind]) \in Nat
    BY <1>1, AncestorFacts, InputFacts DEF IsAncestry
  <1>4. CASE ~Known(Leaf)
    <2>1. Fail("unknown_name")
      BY <1>4 DEF FindLeaf
    <2>2. Ancestor(kind)[0] \notin FileNames(kind) \cup {None}
      BY <1>1, <1>2, <1>3, <1>4, KnownNames, LeafIsName
    <2> QED BY <1>3, <2>1, <2>2, FailKeeps
  <1>5. CASE Known(Leaf)
    <2>1. /\ cursor' = Leaf /\ reversed' = << >> /\ stage' = "walk"
          /\ UNCHANGED <<input, kind, at, catalog, chain, target, entries, winner, error>>
      BY <1>5 DEF FindLeaf
    <2>2. /\ Ancestor(kind)' = Ancestor(kind) /\ FileNames(kind)' = FileNames(kind)
          /\ LeafName(kind)' = LeafName(kind)
      <3>1. LeafName(kind)' = LeafName(kind)
        BY <2>1 DEF LeafName
      <3>2. Ancestor(kind)' = Ancestor(kind)
        BY <2>1, <3>1 DEF Ancestor
      <3>3. FileNames(kind)' = FileNames(kind)
        BY <2>1 DEF FileNames
      <3> QED BY <3>1, <3>2, <3>3
    <2>3. Walked'
      <3>1. cursor' = Ancestor(kind)[0] /\ cursor' \in FileNames(kind)
        BY <1>1, <1>2, <1>3, <1>5, <2>1, KnownNames, LeafIsName
      <3>2. reversed' \in Seq(Range(input.files[kind])) /\ Len(reversed') = 0 /\ 1..0 = {}
        BY <2>1
      <3> QED BY <1>3, <2>1, <2>2, <3>1, <3>2 DEF Walked
    <2>4. Walking'
      BY <1>2, <2>1, <2>2, <2>3 DEF Walking
    <2>5. Catalogs'
      BY <1>1, <2>1, CatalogsKept DEF Running
    <2>6. Chains'
      <3>1. Targeting' <=> Targeting
        BY <1>1, <2>1 DEF Targeting
      <3>2. stage \notin Late /\ stage' \notin Late /\ stage # "select" /\ stage' # "select"
        BY <1>1, <2>1 DEF Late
      <3>3. Targeting => ChainRight("profile")'
        BY <1>1, <2>1, LeafSame, ChainRightSame DEF Running, Chains
      <3> QED BY <1>1, <2>1, <3>1, <3>2, <3>3 DEF Running, Chains
    <2>7. TargetChosen' /\ Marked'
      BY <1>1, <2>1 DEF Running, TargetChosen, Marked, Targeting, Late
    <2>8. EntriesFollow'
      BY <1>1, <2>1, NoEntriesKept DEF Running, Late
    <2>9. Staged'
      BY <1>1, <2>1 DEF Staged, Stages
    <2> QED BY <1>1, <2>1, <2>4, <2>5, <2>6, <2>7, <2>8, <2>9 DEF LedgerInvariant, Running
  <1> QED BY <1>4, <1>5

\* A list of distinct files of a directory that misses one of them is shorter
\* than the directory.
LEMMA ChainIsShort ==
  ASSUME NEW files, IsList(files), Distinct(files), NEW list, list \in Seq(Range(files)),
         \A i, j \in 1..Len(list) : list[i] = list[j] => i = j,
         NEW file \in Range(files), \A i \in 1..Len(list) : list[i] # file
  PROVE  Len(list) < Len(files)
  <1>1. PICK m, n : m = Len(list) /\ n = Len(files) /\ m \in Nat /\ n \in Nat
    BY DEF IsList
  <1>2. /\ DOMAIN list = 1..m /\ DOMAIN files = 1..n
        /\ list \in [1..m -> Range(list)] /\ files \in [1..n -> Range(files)]
    <2>1. DOMAIN list = 1..m /\ list = [i \in 1..m |-> list[i]]
      BY <1>1
    <2>2. DOMAIN files = 1..n /\ files = [i \in 1..n |-> files[i]]
      BY <1>1 DEF IsList
    <2>3. (\A i \in 1..m : list[i] \in Range(list)) /\ (\A i \in 1..n : files[i] \in Range(files))
      BY <2>1, <2>2 DEF Range
    <2> QED BY <2>1, <2>2, <2>3
  <1>3. m = Cardinality(Range(list))
    <2>1. \A c \in Range(list) : \E x \in 1..m : list[x] = c
      BY <1>2 DEF Range
    <2>2. \A x, y \in 1..m : list[x] = list[y] => x = y
      BY <1>1
    <2>3. PICK S : S = Range(list)
      OBVIOUS
    <2> QED BY ONLY <1>1, <1>2, <2>1, <2>2, <2>3, ListLength
  <1>4. n = Cardinality(Range(files))
    <2>1. \A c \in Range(files) : \E x \in 1..n : files[x] = c
      BY <1>2 DEF Range
    <2>2. \A x, y \in 1..n : files[x] = files[y] => x = y
      BY <1>2 DEF Distinct
    <2>3. PICK S : S = Range(files)
      OBVIOUS
    <2> QED BY ONLY <1>1, <1>2, <2>1, <2>2, <2>3, ListLength
  <1>5. IsFiniteSet(Range(files))
    <2>1. IsFiniteSet(1..n)
      BY <1>1, FS_Interval
    <2>2. files \in Surjection(1..n, Range(files))
      BY <1>2 DEF Surjection, Range
    <2> QED BY <2>1, <2>2, FS_Surjection
  <1>6. Range(list) \in SUBSET Range(files)
    BY <1>1, <1>2 DEF Range
  <1>7. file \notin Range(list)
    BY <1>1, <1>2 DEF Range
  <1>8. /\ Cardinality(Range(list)) <= Cardinality(Range(files))
        /\ Cardinality(Range(files)) = Cardinality(Range(list)) => Range(files) = Range(list)
    BY <1>5, <1>6, FS_Subset
  <1> QED BY <1>1, <1>3, <1>4, <1>7, <1>8

LEMMA WalkChainKeeps == LedgerInvariant /\ WalkChain => LedgerInvariant'
  <1> SUFFICES ASSUME LedgerInvariant, WalkChain PROVE LedgerInvariant'
    OBVIOUS
  <1>1. /\ stage = "walk" /\ cursor # None /\ IsInput(input) /\ Staged /\ Running
        /\ kind \in Kind /\ Walked
    BY DEF WalkChain, LedgerInvariant, Staged, Running, Walking
  <1>2. PICK files, a, n, document :
            /\ files = input.files[kind] /\ a = Ancestor(kind) /\ n = Len(reversed)
            /\ document = Find(cursor)
    OBVIOUS
  <1>3. /\ IsList(files) /\ Len(files) \in Nat /\ IsAncestry(a, files, LeafName(kind))
        /\ catalog[kind] = files /\ Distinct(files)
    BY <1>1, <1>2, InputFacts, AncestorFacts DEF Running, Catalogs
  <1>4. /\ reversed \in Seq(Range(files)) /\ n \in Nat /\ DOMAIN reversed = 1..n /\ n <= Len(files)
        /\ n = Len(reversed)
        /\ \A i \in 1..n : reversed[i].name = a[i - 1]
        /\ \A i, j \in 1..n : reversed[i] = reversed[j] => i = j
        /\ cursor = a[n] /\ cursor \in Names(files) /\ FileNames(kind) = Names(files)
    BY <1>1, <1>2, <1>3 DEF Walked, FileNames
  <1>5. /\ document = Named(files, cursor) /\ document \in Range(files)
        /\ document.name = cursor
    BY <1>2, <1>3, <1>4, FindFacts, NamedFacts
  <1>6. CASE \E i \in DOMAIN reversed : reversed[i] = document
    <2>1. Fail("cycle")
      BY <1>2, <1>6 DEF WalkChain
    <2>2. PICK i \in 1..n : reversed[i] = document
      BY <1>4, <1>6
    <2>3. a[i - 1] = a[n] /\ i - 1 \in 0..(n - 1) /\ n \in 0..Len(files)
      BY <1>3, <1>4, <1>5, <2>2
    <2>4. ASSUME NEW l \in 0..(n - 1) PROVE a[l] \in Names(files)
      <3>1. l + 1 \in 1..n /\ (l + 1) - 1 = l
        BY <1>4
      <3>2. reversed[l + 1] \in Range(files) /\ reversed[l + 1].name = a[l]
        BY <1>4, <3>1
      <3> QED BY <1>3, <3>2, NamedIsUnique
    <2>5. \A l \in 0..Len(files) : a[l] \in Names(files)
      <3>1. PICK j : j = i - 1 /\ j \in 0..(n - 1) /\ a[n] = a[j]
        BY <2>3
      <3> QED BY ONLY <1>3, <2>3, <2>4, <3>1, AncestryRepeats
    <2>6. \A l \in DOMAIN Ancestor(kind) : Ancestor(kind)[l] \in FileNames(kind)
      BY <1>2, <1>3, <1>4, <2>5 DEF IsAncestry
    <2> QED BY <2>1, <2>6, FailKeeps
  <1>7. CASE ~\E i \in DOMAIN reversed : reversed[i] = document
    <2>1. n < Len(files)
      <3>1. \A i \in 1..Len(reversed) : reversed[i] # document
        BY <1>4, <1>7
      <3>2. PICK list : list = reversed
        OBVIOUS
      <3>3. Len(list) < Len(files)
        BY ONLY <1>3, <1>4, <1>5, <3>1, <3>2, ChainIsShort
      <3> QED BY <1>2, <3>2, <3>3
    <2>2. a[n + 1] = document.base /\ n + 1 \in DOMAIN a
      <3>1. n + 1 \in 1..Len(files) /\ (n + 1) - 1 = n
        BY <1>3, <1>4, <2>1
      <3>2. a[n + 1] = BaseOf(files, a[n]) /\ n + 1 \in DOMAIN a
        BY <1>3, <3>1 DEF IsAncestry
      <3> QED BY <1>4, <1>5, <3>2 DEF BaseOf
    <2>3. Len(reversed) # Len(catalog[kind])
      BY <1>2, <1>3, <2>1
    <2>4. Known(document.base) <=> document.base \in Names(files)
      BY <1>2, <1>3, <1>4, KnownNames
    <2>5. CASE document.base # None /\ ~Known(document.base)
      <3>1. Fail("unknown_name")
        BY <1>2, <1>7, <2>3, <2>5 DEF WalkChain
      <3>2. a[n + 1] \notin FileNames(kind) \cup {None}
        BY <1>4, <2>2, <2>4, <2>5
      <3> QED BY <1>2, <2>2, <3>1, <3>2, FailKeeps
    <2>6. CASE ~(document.base # None /\ ~Known(document.base))
      <3>1. /\ reversed' = Append(reversed, document)
            /\ cursor' = document.base
            /\ UNCHANGED <<input, stage, kind, at, catalog, chain, target, entries, winner, error>>
        BY <1>2, <1>7, <2>3, <2>6 DEF WalkChain
      <3>2. /\ Ancestor(kind)' = a /\ FileNames(kind)' = Names(files)
            /\ LeafName(kind)' = LeafName(kind) /\ input'.files[kind'] = files
        <4>1. LeafName(kind)' = LeafName(kind)
          BY <3>1 DEF LeafName
        <4>2. Ancestor(kind)' = Ancestor(kind)
          BY <3>1, <4>1 DEF Ancestor
        <4>3. FileNames(kind)' = FileNames(kind)
          BY <3>1 DEF FileNames
        <4> QED BY <1>2, <1>4, <3>1, <4>1, <4>2, <4>3
      <3>3. /\ reversed' \in Seq(Range(files)) /\ Len(reversed') = n + 1
            /\ reversed'[n + 1] = document /\ \A i \in 1..n : reversed'[i] = reversed[i]
        BY <1>4, <1>5, <3>1
      <3>4. \A i \in 1..(n + 1) : reversed'[i].name = a[i - 1]
        <4> SUFFICES ASSUME NEW i \in 1..(n + 1) PROVE reversed'[i].name = a[i - 1]
          OBVIOUS
        <4>1. CASE i \in 1..n
          BY <1>4, <3>3, <4>1
        <4>2. CASE i \notin 1..n
          <5>1. i = n + 1 /\ i - 1 = n
            BY <1>4, <4>2
          <5> QED BY <1>4, <1>5, <3>3, <5>1
        <4> QED BY <4>1, <4>2
      <3>5. \A i, j \in 1..(n + 1) : reversed'[i] = reversed'[j] => i = j
        <4> SUFFICES ASSUME NEW i \in 1..(n + 1), NEW j \in 1..(n + 1), reversed'[i] = reversed'[j]
                     PROVE  i = j
          OBVIOUS
        <4>0. \A l \in 1..n : reversed'[l] # document
          BY <1>4, <1>7, <3>3
        <4>1. CASE i \in 1..n /\ j \in 1..n
          BY <1>4, <3>3, <4>1
        <4>2. CASE i \in 1..n /\ j \notin 1..n
          <5>0. n \in Nat
            BY <1>4
          <5>1. j = n + 1
            BY ONLY <4>2, <5>0, j \in 1..(n + 1)
          <5> QED BY <3>3, <4>0, <4>2, <5>1
        <4>3. CASE i \notin 1..n /\ j \in 1..n
          BY <1>4, <3>3, <4>0, <4>3
        <4>4. CASE i \notin 1..n /\ j \notin 1..n
          BY <1>4, <4>4
        <4> QED BY <4>1, <4>2, <4>3, <4>4
      <3>6. cursor' = a[n + 1] /\ cursor' \in Names(files) \cup {None}
        BY <2>2, <2>4, <2>6, <3>1
      <3>7. n + 1 <= Len(files)
        BY <1>3, <1>4, <2>1
      <3>8. Walked'
        BY <3>2, <3>3, <3>4, <3>5, <3>6, <3>7 DEF Walked
      <3>9. Walking'
        <4>1. LeafName(kind) # None
          BY <1>1 DEF Running, Walking
        <4>2. LeafName(kind)' # None /\ (stage = "walk")'
          BY <1>1, <3>1, <3>2, <4>1
        <4> QED BY <3>8, <4>2 DEF Walking
      <3>10. Catalogs'
        BY <1>1, <3>1, CatalogsKept DEF Running
      <3>11. Chains'
        <4>1. Targeting' <=> Targeting
          BY <3>1 DEF Targeting
        <4>2. stage \notin Late /\ stage' \notin Late /\ stage # "select" /\ stage' # "select"
          BY <1>1, <3>1 DEF Late
        <4>3. Targeting => ChainRight("profile")'
          BY <1>1, <3>1, LeafSame, ChainRightSame DEF Running, Chains
        <4> QED BY <1>1, <3>1, <4>1, <4>2, <4>3 DEF Running, Chains
      <3>12. TargetChosen' /\ Marked'
        BY <1>1, <3>1 DEF Running, TargetChosen, Marked, Targeting, Late
      <3>13. EntriesFollow'
        BY <1>1, <3>1, NoEntriesKept DEF Running, Late
      <3>14. Staged'
        BY <1>1, <3>1 DEF Staged, Stages
      <3> QED BY <1>1, <3>1, <3>9, <3>10, <3>11, <3>12, <3>13, <3>14 DEF LedgerInvariant, Running
    <2> QED BY <2>5, <2>6
  <1> QED BY <1>6, <1>7

\* The chain is the walk turned round.
LEMMA EndWalkKeeps == LedgerInvariant /\ EndWalk => LedgerInvariant'
  <1> SUFFICES ASSUME LedgerInvariant, EndWalk PROVE LedgerInvariant'
    OBVIOUS
  <1>1. /\ stage = "walk" /\ cursor = None /\ IsInput(input) /\ Staged /\ Running
        /\ kind \in Kind /\ Walked
    BY DEF EndWalk, LedgerInvariant, Staged, Running, Walking
  <1>2. CASE kind = "profile" /\ \E i \in 2..Len(reversed) : reversed[i].target # None
    <2>1. Fail("base_target")
      BY <1>2 DEF EndWalk
    <2> QED BY <2>1, FailKeeps
  <1>3. CASE ~(kind = "profile" /\ \E i \in 2..Len(reversed) : reversed[i].target # None)
    <2>1. /\ chain' = [chain EXCEPT ![kind] = Reverse(reversed)]
          /\ stage' = IF kind = "profile" THEN "select" ELSE "defaults"
          /\ UNCHANGED <<input, kind, at, catalog, cursor, reversed, target, entries, winner, error>>
      BY <1>3 DEF EndWalk
    <2>2. PICK files, n, new : files = input.files[kind] /\ n = Len(reversed) /\ new = Reverse(reversed)
      OBVIOUS
    <2>3. /\ reversed \in Seq(Range(files)) /\ n \in Nat /\ n <= Len(files)
          /\ \A i \in 1..n : reversed[i].name = Ancestor(kind)[i - 1]
          /\ Ancestor(kind)[n] = None
      BY <1>1, <2>2 DEF Walked
    <2>4. new = [i \in 1..n |-> reversed[(n - i) + 1]]
      BY <2>2 DEF Reverse
    <2>5. \A i \in 1..n : (n - i) + 1 \in 1..n /\ reversed[(n - i) + 1] \in Range(files)
      BY <2>2, <2>3
    <2>6. new \in Seq(Range(files)) /\ Len(new) = n
      BY <2>3, <2>4, <2>5
    <2>7. ASSUME NEW d \in 1..n PROVE new[d].name = Ancestor(kind)[n - d]
      <3>1. ((n - d) + 1) - 1 = n - d
        BY <2>3
      <3>2. new[d] = reversed[(n - d) + 1]
        BY <2>4
      <3>3. reversed[(n - d) + 1].name = Ancestor(kind)[((n - d) + 1) - 1]
        BY <2>3, <2>5
      <3> QED BY <3>1, <3>2, <3>3
    <2>8. /\ DOMAIN chain' = Kind /\ chain'[kind] = new
          /\ \A k \in Kind : k # kind => chain'[k] = chain[k]
      BY <1>1, <2>1, <2>2 DEF Running, Chains
    <2>9. \A k \in Kind : LeafName(k)' = LeafName(k) /\ Ancestor(k)' = Ancestor(k)
      BY <2>1, LeafSame, AncestorSame
    <2>10. ChainRight(kind)'
      <3>1. ChainRight(kind)' <=>
              /\ chain'[kind] \in Seq(Range(input.files[kind]))
              /\ Len(chain'[kind]) <= Len(input.files[kind])
              /\ \A d \in 1..Len(chain'[kind]) :
                    chain'[kind][d].name = Ancestor(kind)[Len(chain'[kind]) - d]
              /\ Ancestor(kind)[Len(chain'[kind])] = None
        <4>1. PICK k \in Kind : k = kind /\ kind' = k
          BY <1>1, <2>1
        <4>2. Ancestor(k)' = Ancestor(k)
          BY <2>9, <4>1
        <4> QED BY <2>1, <4>1, <4>2 DEF ChainRight
      <3> QED BY <2>2, <2>3, <2>6, <2>7, <2>8, <3>1
    <2>11. Catalogs'
      <3>1. stage' # "load"
        BY <2>1
      <3> QED BY <1>1, <2>1, <3>1, CatalogsKept DEF Running
    <2>12. Walking' /\ Marked'
      BY <2>1 DEF Walking, Marked
    <2>13. EntriesFollow'
      <3>1. stage' \notin Late \/ stage' = "defaults"
        BY <2>1 DEF Late
      <3> QED BY <1>1, <2>1, <3>1, NoEntriesKept DEF Running, Late
    <2>14. Staged' /\ stage' # "failed"
      BY <1>1, <2>1 DEF Staged, Stages, Late, Kind
    <2>15. CASE kind = "profile"
      <3>1. stage' = "select" /\ kind' = "profile" /\ chain'["profile"] = new
        BY <2>1, <2>8, <2>15
      <3>2. ChainRight("profile")'
        BY <2>1, <2>10, <2>15
      <3>3. chain'["target"] = << >>
        BY <1>1, <2>8, <2>15 DEF Running, Chains, Late, Kind
      <3>4. ASSUME NEW d \in 1..n, d # n PROVE new[d].target = None
        <4>1. (n - d) + 1 \in 2..n /\ new[d] = reversed[(n - d) + 1]
          BY <2>3, <2>4, <3>4
        <4> QED BY <1>3, <2>2, <2>15, <4>1
      <3>5. Chains'
        BY <2>6, <2>8, <3>1, <3>2, <3>3, <3>4 DEF Chains, Targeting, Late
      <3>6. TargetChosen'
        BY <3>1 DEF TargetChosen, Targeting, Late
      <3> QED BY <1>1, <2>1, <2>11, <2>12, <2>13, <2>14, <3>5, <3>6 DEF LedgerInvariant, Running
    <2>16. CASE kind = "target"
      <3>1. /\ stage' = "defaults" /\ kind' = "target" /\ chain'["profile"] = chain["profile"]
            /\ Targeting /\ stage \notin Late
        BY <1>1, <2>1, <2>8, <2>16 DEF Targeting, Late, Kind
      <3>2. ChainRight("target")'
        BY <2>1, <2>10, <2>16
      <3>3. ChainRight("profile")'
        <4>1. ChainRight("profile")
          BY <1>1, <3>1 DEF Running, Chains
        <4>2. Ancestor("profile")' = Ancestor("profile")
          BY <2>9 DEF Kind
        <4> QED BY <2>1, <3>1, <4>1, <4>2 DEF ChainRight
      <3>4. Chains'
        <4>1. \A d \in 1..Len(chain["profile"]) :
                 d # Len(chain["profile"]) => chain["profile"][d].target = None
          BY <1>1 DEF Running, Chains
        <4>2. stage' \in Late
          BY <3>1 DEF Late
        <4> QED BY <2>8, <3>1, <3>2, <3>3, <4>1, <4>2 DEF Chains
      <3>5. TargetChosen'
        BY <1>1, <2>1, <3>1 DEF Running, TargetChosen
      <3> QED BY <1>1, <2>1, <2>11, <2>12, <2>13, <2>14, <3>4, <3>5 DEF LedgerInvariant, Running
    <2> QED BY <1>1, <2>15, <2>16 DEF Kind
  <1> QED BY <1>2, <1>3

LEMMA SelectTargetKeeps == LedgerInvariant /\ SelectTarget => LedgerInvariant'
  <1> SUFFICES ASSUME LedgerInvariant, SelectTarget PROVE LedgerInvariant'
    OBVIOUS
  <1>1. /\ stage = "select" /\ IsInput(input) /\ Staged /\ Running /\ kind = "profile"
        /\ kind' = "target" /\ stage' = IF target' = None THEN "defaults" ELSE "find"
        /\ UNCHANGED <<input, at, catalog, cursor, reversed, chain, entries, winner, error>>
    BY DEF SelectTarget, LedgerInvariant, Staged
  <1>2. Catalogs'
    <2>1. stage # "load" /\ stage' # "load"
      BY <1>1
    <2> QED BY <1>1, <2>1, CatalogsKept DEF Running
  <1>3. Walking' /\ Marked'
    BY <1>1 DEF Walking, Marked, LeafName
  <1>4. EntriesFollow'
    <2>1. stage' \notin Late \/ stage' = "defaults"
      BY <1>1 DEF Late
    <2> QED BY <1>1, <2>1, NoEntriesKept DEF Running, Late
  <1>5. ChainRight("profile")'
    <2>1. LeafName("profile")' = LeafName("profile")
      BY <1>1 DEF LeafName
    <2> QED BY <1>1, <2>1, ChainRightSame DEF Running, Chains
  <1>6. chain["target"] = << >>
    BY <1>1 DEF Running, Chains, Late
  <1>7. stage' = "defaults" => ChainRight("target")'
    <2> SUFFICES ASSUME target' = None PROVE ChainRight("target")'
      BY <1>1
    <2>1. "target" \in Kind
      BY DEF Kind
    <2>2. PICK files : files = input.files["target"]
      OBVIOUS
    <2>3. Ancestor("target")' = Ancestry(files, None)
      BY <1>1, <2>2 DEF Ancestor, LeafName
    <2>4. IsList(files) /\ Len(files) \in Nat
      BY <1>1, <2>1, <2>2, InputFacts
    <2>5. Ancestry(files, None)[0] = None
      BY <2>4, AncestryFacts DEF IsAncestry
    <2>6. chain'["target"] \in Seq(Range(files)) /\ Len(chain'["target"]) = 0 /\ 1..0 = {}
      BY <1>1, <1>6
    <2> QED BY <1>1, <2>2, <2>3, <2>4, <2>5, <2>6 DEF ChainRight
  <1>8. stage' \in Late => stage' = "defaults"
    BY <1>1 DEF Late
  <1>9. stage' \in Late \/ Targeting'
    BY <1>1 DEF Late, Targeting
  <1>10. Chains'
    <2>1. /\ DOMAIN chain = Kind
          /\ \A d \in 1..Len(chain["profile"]) :
                d # Len(chain["profile"]) => chain["profile"][d].target = None
      BY <1>1 DEF Running, Chains
    <2> QED BY <1>1, <1>5, <1>6, <1>7, <1>8, <1>9, <2>1 DEF Chains
  <1>11. TargetChosen'
    BY <1>1 DEF TargetChosen, SelectTarget
  <1>12. Staged' /\ stage' # "failed"
    BY <1>1 DEF Staged, Stages, Late, Kind
  <1> QED BY <1>1, <1>2, <1>3, <1>4, <1>10, <1>11, <1>12 DEF LedgerInvariant, Running

-----------------------------------------------------------------------------
\* The entries.

LEMMA SourcesSame ==
  ASSUME UNCHANGED <<input, chain>>
  PROVE  /\ \A e : IsDefault(e)' <=> IsDefault(e)
         /\ \A k, e : IsChained(k, e)' <=> IsChained(k, e)
         /\ \A k : Fits(k)' <=> Fits(k)
         /\ \A list, writer : Allowed(list, writer)' <=> Allowed(list, writer)
  <1>1. \A e : IsDefault(e)' <=> IsDefault(e)
    BY DEF IsDefault, HasDefault, DefaultEntry
  <1>2. \A k, e : IsChained(k, e)' <=> IsChained(k, e)
    BY DEF IsChained
  <1>3. \A k : Fits(k)' <=> Fits(k)
    BY DEF Fits
  <1>4. \A o, writer : ValidateWrite(o, writer)' = ValidateWrite(o, writer)
    BY DEF ValidateWrite
  <1>5. \A list, writer : Allowed(list, writer)' <=> Allowed(list, writer)
    BY <1>4 DEF Allowed
  <1> QED BY <1>1, <1>2, <1>3, <1>5

\* What holds of chains and target goes on to hold.
LEMMA LateKept ==
  ASSUME LedgerInvariant, stage \in Late, stage' \in Late,
         UNCHANGED <<input, catalog, chain, target, error>>
  PROVE  IsInput(input)' /\ error' = None /\ Catalogs' /\ Walking' /\ Chains' /\ TargetChosen'
  <1>1. stage \notin {"load", "find", "walk", "failed"} /\ stage' \notin {"load", "find", "walk"}
    BY DEF Late
  <1>2. IsInput(input) /\ Running
    BY <1>1 DEF LedgerInvariant
  <1>3. Catalogs'
    BY <1>1, <1>2, CatalogsKept DEF Running
  <1>4. Walking'
    BY <1>1 DEF Walking
  <1>5. ChainRight("target")' /\ ChainRight("profile")'
    BY <1>2, LeafSame, ChainRightSame DEF Running, Chains
  <1>6. Chains'
    BY <1>2, <1>5 DEF Running, Chains
  <1>7. TargetChosen'
    BY <1>2 DEF Running, TargetChosen
  <1> QED BY <1>2, <1>3, <1>4, <1>6, <1>7 DEF Running

LEMMA AdvanceKeeps ==
  ASSUME LedgerInvariant, stage \in Late, NEW next \in Late, NEW nextKind, NEW added,
         Advance(next, nextKind, added), next # "published", Staged', EntriesFollow'
  PROVE  LedgerInvariant'
  <1>1. stage' = next /\ UNCHANGED <<input, catalog, chain, target, error>>
    BY DEF Advance
  <1>2. stage' # "failed" /\ Marked'
    BY <1>1 DEF Late, Marked
  <1>3. IsInput(input)' /\ error' = None /\ Catalogs' /\ Walking' /\ Chains' /\ TargetChosen'
    BY <1>1, LateKept
  <1> QED BY <1>2, <1>3 DEF LedgerInvariant, Running

\* The entries after a source was added.
LEMMA AddedEntries ==
  ASSUME IsList(entries), NEW added, IsList(added), entries' = entries \o added
  PROVE  IsList(entries)' /\ Range(entries') = Range(entries) \cup Range(added)
  <1>1. PICK s, S : s = entries /\ S = Range(entries) \cup Range(added)
    OBVIOUS
  <1>2. s \in Seq(S)
    BY <1>1 DEF IsList
  <1>3. added \in Seq(S)
    BY <1>1 DEF IsList
  <1>4. s \o added \in Seq(S) /\ Range(s \o added) = Range(s) \cup Range(added)
    BY ONLY <1>2, <1>3, RangeConcat
  <1>5. entries' \in Seq(S) /\ Range(entries') = S
    BY <1>1, <1>4
  <1> QED BY <1>1, <1>5 DEF IsList

LEMMA AddSchemaDefaultsKeeps == LedgerInvariant /\ AddSchemaDefaults => LedgerInvariant'
  <1> SUFFICES ASSUME LedgerInvariant, AddSchemaDefaults PROVE LedgerInvariant'
    OBVIOUS
  <1>1. stage = "defaults" /\ stage \in Late /\ Running /\ Staged
    BY DEF AddSchemaDefaults, LedgerInvariant, Late
  <1>2. PICK lists : lists = [i \in DOMAIN Symbols |->
                                IF HasDefault(i) THEN <<DefaultEntry(i)>> ELSE << >>]
    OBVIOUS
  <1>3. PICK added : added = FlattenSeq(lists)
    OBVIOUS
  <1>4. Advance("chain", "target", added)
    BY <1>2, <1>3 DEF AddSchemaDefaults, HasDefault, DefaultEntry
  <1> DEFINE S == {DefaultEntry(i) : i \in DOMAIN Symbols}
  <1>5. lists \in Seq(Seq(S))
    <2>1. PICK n : n \in Nat /\ DOMAIN Symbols = 1..n
      BY SymbolsAssumption
    <2>2. \A i \in 1..n : DefaultEntry(i) \in S
      BY <2>1
    <2> HIDE DEF S
    <2>3. \A i \in 1..n : <<DefaultEntry(i)>> \in Seq(S) /\ << >> \in Seq(S)
      BY <2>2
    <2> QED BY <1>2, <2>1, <2>3
  <1>6. added \in Seq(S) /\ Range(added) = UNION {Range(lists[i]) : i \in DOMAIN lists}
    <2> HIDE DEF S
    <2> QED BY <1>3, <1>5, FlattenFacts
  <1>7. ASSUME NEW e PROVE e \in Range(added) <=> IsDefault(e)
    <2>1. DOMAIN lists = DOMAIN Symbols
      BY <1>2
    <2>2. ASSUME NEW i \in DOMAIN Symbols
          PROVE  e \in Range(lists[i]) <=> HasDefault(i) /\ e = DefaultEntry(i)
      <3>1. CASE HasDefault(i)
        <4>1. lists[i] = <<DefaultEntry(i)>>
          BY <1>2, <3>1
        <4>2. Range(<<DefaultEntry(i)>>) = {DefaultEntry(i)}
          BY DEF Range
        <4> QED BY <3>1, <4>1, <4>2
      <3>2. CASE ~HasDefault(i)
        <4>1. lists[i] = << >>
          BY <1>2, <3>2
        <4>2. Range(<< >>) = {}
          BY DEF Range
        <4> QED BY <3>2, <4>1, <4>2
      <3> QED BY <3>1, <3>2
    <2> QED BY <1>6, <2>1, <2>2 DEF IsDefault
  <1>8. IsList(added)
    <2> HIDE DEF S
    <2>1. \A i \in 1..Len(added) : added[i] \in Range(added)
      BY <1>6 DEF Range
    <2> QED BY <1>6, <2>1 DEF IsList
  <1>9. /\ stage' = "chain" /\ kind' = "target" /\ entries' = entries \o added
        /\ UNCHANGED <<input, chain>>
    BY <1>4 DEF Advance
  <1>10. EntriesFollow'
    <2>1. ~Defaulted /\ ~Edited /\ ~Ordered /\ \A k \in Kind : ~Added(k)
      BY <1>1 DEF Defaulted, Edited, Ordered, Added
    <2>2. Defaulted' /\ ~Edited' /\ ~Ordered' /\ \A k \in Kind : ~Added(k)'
      BY <1>9 DEF Defaulted, Edited, Ordered, Added, Late
    <2>3. IsList(entries) /\ \A e : e \notin Range(entries)
      BY <1>1, <2>1 DEF Running, EntriesFollow
    <2>4. IsList(entries)' /\ Range(entries') = Range(entries) \cup Range(added)
      BY <1>8, <1>9, <2>3, AddedEntries
    <2>5. \A e : e \in Range(entries') <=> IsDefault(e)'
      BY <1>7, <1>9, <2>3, <2>4, SourcesSame
    <2> QED BY <2>2, <2>4, <2>5 DEF EntriesFollow
  <1>11. Staged'
    BY <1>9 DEF Staged, Stages, Late, Kind
  <1>12. "chain" \in Late
    BY DEF Late
  <1> QED BY <1>1, <1>4, <1>10, <1>11, <1>12, AdvanceKeeps

\* The documents of a chain have been loaded.
LEMMA ChainWritten ==
  ASSUME LedgerInvariant, stage \in Late, NEW k \in Kind
  PROVE  /\ ChainRight(k) /\ Len(chain[k]) \in Nat /\ DOMAIN chain[k] = 1..Len(chain[k])
         /\ Len(chain[k]) <= SizeMax \div Stride
         /\ \A d \in DOMAIN chain[k] :
               /\ chain[k][d] \in Range(input.files[k])
               /\ Written(k, chain[k][d]) /\ IsDocument(chain[k][d])
  <1>1. stage # "failed" /\ stage # "load" /\ IsInput(input) /\ Running
    BY DEF LedgerInvariant, Late
  <1>2. ChainRight(k)
    BY <1>1 DEF Running, Chains, Kind
  <1>3. /\ chain[k] \in Seq(Range(input.files[k])) /\ Len(chain[k]) <= Len(input.files[k])
    BY <1>2 DEF ChainRight
  <1>4. Len(chain[k]) \in Nat /\ DOMAIN chain[k] = 1..Len(chain[k])
    BY <1>3
  <1>5. /\ Len(input.files[k]) \in Nat /\ Len(input.files[k]) <= SizeMax \div Stride
        /\ \A file \in Range(input.files[k]) : IsDocument(file)
    BY <1>1, InputFacts
  <1>6. SizeMax \div Stride \in Nat
    BY StrideAssumption
  <1>7. Len(chain[k]) <= SizeMax \div Stride
    BY <1>3, <1>4, <1>5, <1>6
  <1>8. \A file \in Range(input.files[k]) : Written(k, file)
    BY <1>1 DEF Running, Catalogs
  <1>9. \A d \in DOMAIN chain[k] : chain[k][d] \in Range(input.files[k])
    BY <1>3
  <1> QED BY <1>2, <1>4, <1>5, <1>7, <1>8, <1>9

\* What AddInputChain appends, if no document is too long.
LEMMA ChainAdded ==
  ASSUME LedgerInvariant, stage \in Late, Fits(kind)
  PROVE  IsList(ChainEntries) /\ \A e : e \in Range(ChainEntries) <=> IsChained(kind, e)
  <1>1. kind \in Kind
    BY DEF LedgerInvariant, Staged
  <1>2. PICK list, n : list = chain[kind] /\ n = Len(list)
    OBVIOUS
  <1>3. /\ n \in Nat /\ DOMAIN list = 1..n /\ n <= SizeMax \div Stride
        /\ \A d \in 1..n : IsDocument(list[d])
    BY <1>1, <1>2, ChainWritten
  <1> DEFINE Line(d) == [i \in DOMAIN Assignments(list[d]) |-> PlacedEntry(kind, list[d], d, i)]
             lines == [d \in 1..n |-> Line(d)]
             S == UNION {Range(lines[d]) : d \in 1..n}
  <1>4. ASSUME NEW d \in 1..n PROVE IsList(Assignments(list[d]))
    BY <1>3, AssignmentsFacts
  <1>5. ASSUME NEW d \in 1..n, NEW i \in DOMAIN Assignments(list[d])
        PROVE  ChainEntry(d, i) = PlacedEntry(kind, list[d], d, i)
    <2>1. i \in Nat \ {0}
      BY <1>4 DEF IsList
    <2>2. i <= Stride
      BY <1>2, <1>3 DEF Fits
    <2>3. i \in 1..Stride /\ d \in Nat \ {0} /\ d <= SizeMax \div Stride
      <3>1. SizeMax \div Stride \in Nat
        BY StrideAssumption
      <3> QED BY <1>3, <2>1, <2>2, <3>1, StrideAssumption
    <2>4. Place(d, i) % (SizeMax + 1) = Place(d, i)
      BY <2>3, PlaceFits
    <2>5. ((d - 1) * Stride + (i - 1)) % (SizeMax + 1) = Place(d, i)
      BY <2>4 DEF Place
    <2> QED BY <1>2, <2>5 DEF ChainEntry, PlacedEntry
  <1>6. ChainEntries = FlattenSeq(lines)
    <2>1. [d \in DOMAIN chain[kind] |->
              [i \in DOMAIN Assignments(chain[kind][d]) |-> ChainEntry(d, i)]] = lines
      BY <1>2, <1>3, <1>5
    <2> HIDE DEF lines
    <2> QED BY <2>1 DEF ChainEntries
  <1>7. \A d \in 1..n : IsList(lines[d])
    <2> SUFFICES ASSUME NEW d \in 1..n PROVE IsList(lines[d])
      OBVIOUS
    <2>1. PICK m : m \in Nat /\ DOMAIN Assignments(list[d]) = 1..m
      BY <1>4 DEF IsList
    <2>2. PICK line : line = Line(d) /\ lines[d] = line
      OBVIOUS
    <2>3. line = [i \in 1..m |-> line[i]] /\ DOMAIN line = 1..m
      BY <2>1, <2>2
    <2>4. \A i \in 1..m : line[i] \in Range(line)
      BY <2>3 DEF Range
    <2>5. line \in Seq(Range(line))
      BY <2>1, <2>3, <2>4
    <2> QED BY <2>2, <2>5 DEF IsList
  <1>8. lines \in Seq(Seq(S))
    <2>1. \A d \in 1..n : lines[d] \in Seq(S)
      <3> SUFFICES ASSUME NEW d \in 1..n PROVE lines[d] \in Seq(S)
        OBVIOUS
      <3>1. lines[d] \in Seq(Range(lines[d]))
        BY <1>7 DEF IsList
      <3>2. Range(lines[d]) \subseteq S
        OBVIOUS
      <3>3. PICK line : line = lines[d]
        OBVIOUS
      <3> HIDE DEF S, lines
      <3> QED BY <3>1, <3>2, <3>3
    <2>2. lines = [d \in 1..n |-> lines[d]]
      OBVIOUS
    <2> HIDE DEF S, lines
    <2> QED BY <1>3, <2>1, <2>2
  <1>9. DOMAIN lines = 1..n
    OBVIOUS
  <1>10. FlattenSeq(lines) \in Seq(S) /\ Range(FlattenSeq(lines)) = S
    <2>1. Range(FlattenSeq(lines)) = UNION {Range(lines[d]) : d \in DOMAIN lines}
          /\ FlattenSeq(lines) \in Seq(S)
      <3> HIDE DEF S, lines
      <3> QED BY <1>8, FlattenFacts
    <2> HIDE DEF lines
    <2> QED BY <1>9, <2>1
  <1>11. IsList(ChainEntries)
    <2> HIDE DEF S, lines
    <2> QED BY <1>6, <1>10 DEF IsList
  <1>12. ASSUME NEW e PROVE e \in S <=> IsChained(kind, e)
    <2>1. ASSUME NEW d \in 1..n
          PROVE  e \in Range(lines[d]) <=> \E i \in DOMAIN Assignments(list[d]) :
                                              e = PlacedEntry(kind, list[d], d, i)
      <3>1. PICK line : line = Line(d) /\ lines[d] = line
        OBVIOUS
      <3>2. /\ DOMAIN line = DOMAIN Assignments(list[d])
            /\ \A i \in DOMAIN Assignments(list[d]) : line[i] = PlacedEntry(kind, list[d], d, i)
        BY <3>1
      <3> QED BY <3>1, <3>2 DEF Range
    <2>2. e \in S <=> \E d \in 1..n : e \in Range(lines[d])
      <3> HIDE DEF lines
      <3> QED OBVIOUS
    <2> HIDE DEF S, lines
    <2> QED BY <1>2, <1>3, <2>1, <2>2 DEF IsChained
  <1> HIDE DEF S, lines
  <1> QED BY <1>6, <1>10, <1>11, <1>12

LEMMA AddInputChainKeeps == LedgerInvariant /\ AddInputChain => LedgerInvariant'
  <1> SUFFICES ASSUME LedgerInvariant, AddInputChain PROVE LedgerInvariant'
    OBVIOUS
  <1>1. stage = "chain" /\ stage \in Late /\ Running /\ Staged /\ kind \in Kind
    BY DEF AddInputChain, LedgerInvariant, Late, Staged
  <1> DEFINE Long == \E d \in DOMAIN chain[kind] : \E i \in DOMAIN Assignments(chain[kind][d]) :
                        d - 1 > SizeMax \div Stride \/ i - 1 >= Stride
  <1>2. CASE Long
    <2>1. Fail("stride_internal")
      BY <1>2 DEF AddInputChain
    <2> QED BY <2>1, FailKeeps
  <1>3. CASE ~Long
    <2>1. PICK next : next = IF kind = "target" THEN "chain" ELSE "transaction"
      OBVIOUS
    <2>2. Advance(next, "profile", ChainEntries)
      BY <1>3, <2>1 DEF AddInputChain
    <2>3. Fits(kind)
      <3> SUFFICES ASSUME NEW d \in DOMAIN chain[kind], NEW i \in DOMAIN Assignments(chain[kind][d])
                   PROVE  i <= Stride
        BY DEF Fits
      <3>1. IsDocument(chain[kind][d])
        BY <1>1, ChainWritten
      <3>2. i \in Nat
        BY <3>1, AssignmentsFacts DEF IsList
      <3>3. ~(i - 1 >= Stride)
        BY <1>3
      <3> QED BY <3>2, <3>3, StrideAssumption
    <2>4. IsList(ChainEntries) /\ \A e : e \in Range(ChainEntries) <=> IsChained(kind, e)
      BY <1>1, <2>3, ChainAdded
    <2>5. /\ stage' = next /\ kind' = "profile" /\ entries' = entries \o ChainEntries
          /\ UNCHANGED <<input, chain>>
      BY <2>2 DEF Advance
    <2>6. Staged'
      BY <2>1, <2>5 DEF Staged, Stages, Late, Kind
    <2>7. next \in Late /\ next # "published"
      BY <2>1 DEF Late
    <2>8. /\ Defaulted /\ ~Edited /\ ~Ordered /\ \A k \in Kind : Added(k) <=> kind = "profile" /\ k = "target"
      BY <1>1 DEF Defaulted, Edited, Ordered, Added
    <2>9. /\ Defaulted' /\ ~Edited' /\ ~Ordered'
          /\ \A k \in Kind : Added(k)' <=> Added(k) \/ k = kind
      <3>1. Defaulted' /\ ~Edited' /\ ~Ordered'
        BY <2>1, <2>5 DEF Defaulted, Edited, Ordered, Late
      <3>2. CASE kind = "target"
        <4>1. \A k \in Kind : Added(k)' <=> k = "target"
          BY <2>1, <2>5, <3>2 DEF Added
        <4> QED BY <2>8, <3>1, <3>2, <4>1
      <3>3. CASE kind = "profile"
        <4>1. \A k \in Kind : Added(k)'
          BY <2>1, <2>5, <3>3 DEF Added
        <4>2. \A k \in Kind : Added(k) \/ k = kind
          BY <2>8, <3>3 DEF Kind
        <4> QED BY <3>1, <4>1, <4>2
      <3> QED BY <1>1, <3>2, <3>3 DEF Kind
    <2>10. IsList(entries) /\ \A k \in Kind : Added(k) => Fits(k)
      BY <1>1 DEF Running, EntriesFollow
    <2>11. ASSUME NEW e
           PROVE  e \in Range(entries) <=> IsDefault(e) \/ \E k \in Kind : Added(k) /\ IsChained(k, e)
      BY <1>1, <2>8 DEF Running, EntriesFollow
    <2>12. IsList(entries)' /\ Range(entries') = Range(entries) \cup Range(ChainEntries)
      <3>1. PICK added : added = ChainEntries
        OBVIOUS
      <3> QED BY <2>4, <2>5, <2>10, <3>1, AddedEntries
    <2>13. ASSUME NEW e
           PROVE  e \in Range(entries') <=>
                    IsDefault(e)' \/ \E k \in Kind : Added(k)' /\ IsChained(k, e)'
      <3>1. e \in Range(entries') <=> e \in Range(entries) \/ IsChained(kind, e)
        BY <2>4, <2>12
      <3>2. (\E k \in Kind : Added(k)' /\ IsChained(k, e)') <=>
              (\E k \in Kind : Added(k) /\ IsChained(k, e)) \/ IsChained(kind, e)
        BY <1>1, <2>5, <2>9, SourcesSame
      <3>3. IsDefault(e)' <=> IsDefault(e)
        BY <2>5, SourcesSame
      <3> QED BY <2>11, <3>1, <3>2, <3>3
    <2>14. \A k \in Kind : Added(k)' => Fits(k)'
      BY <2>3, <2>5, <2>9, <2>10, SourcesSame
    <2>15. EntriesFollow'
      BY <2>9, <2>12, <2>13, <2>14 DEF EntriesFollow
    <2> QED BY <1>1, <2>2, <2>6, <2>7, <2>15, AdvanceKeeps
  <1> QED BY <1>2, <1>3

\* What a list of overrides appends.
LEMMA OverridesAdded ==
  ASSUME NEW list, IsList(list), NEW writer, NEW p, NEW added,
         added = [i \in DOMAIN list |-> Entry(list[i].option, list[i].value, FALSE, writer, p, i - 1)]
  PROVE  IsList(added) /\ \A e : e \in Range(added) <=> IsOverride(list, writer, p, e)
  <1>1. PICK n : n \in Nat /\ DOMAIN list = 1..n
    BY DEF IsList
  <1>2. /\ added = [i \in 1..n |-> added[i]] /\ DOMAIN added = 1..n
        /\ \A i \in 1..n : added[i] = OverrideEntry(list, writer, p, i)
    BY <1>1 DEF OverrideEntry
  <1>3. \A i \in 1..n : added[i] \in Range(added)
    BY <1>2 DEF Range
  <1>4. added \in Seq(Range(added))
    BY ONLY <1>1, <1>2, <1>3
  <1>5. \A e : e \in Range(added) <=> \E i \in 1..n : e = OverrideEntry(list, writer, p, i)
    BY <1>2 DEF Range
  <1> QED BY <1>1, <1>4, <1>5 DEF IsList, IsOverride

\* What is wrong with an override is no error of the chains.
LEMMA OverrideFails ==
  ASSUME LedgerInvariant, NEW from, NEW list, NEW writer, NEW p, NEW next,
         AddOverrides(from, list, writer, p, next),
         {i \in DOMAIN list : OverrideStatus(list, i, writer) # "ok"} # {}
  PROVE  LedgerInvariant'
  <1> DEFINE wrong == {i \in DOMAIN list : OverrideStatus(list, i, writer) # "ok"}
             first == CHOOSE i \in wrong : \A j \in wrong : i <= j
  <1>0. Fail(OverrideStatus(list, first, writer))
    BY DEF AddOverrides
  <1>1. PICK i : i = first /\ Fail(OverrideStatus(list, i, writer))
    <2> HIDE DEF first
    <2> QED BY <1>0
  <1>2. OverrideStatus(list, i, writer) \notin {"cycle", "unknown_name", "chain_internal", "ambiguous"}
    BY DEF OverrideStatus, ValidateWrite
  <1> QED BY <1>1, <1>2, FailKeeps

LEMMA AddProfileOverridesKeeps == LedgerInvariant /\ AddProfileOverrides => LedgerInvariant'
  <1> SUFFICES ASSUME LedgerInvariant, AddProfileOverrides PROVE LedgerInvariant'
    OBVIOUS
  <1>1. PICK list : list = input.transaction
    OBVIOUS
  <1>2. AddOverrides("transaction", list, "profile", 2, "user")
    BY <1>1 DEF AddProfileOverrides
  <1>3. /\ stage = "transaction" /\ stage \in Late /\ Running /\ kind = "profile" /\ IsList(list)
    BY <1>1, <1>2 DEF AddOverrides, LedgerInvariant, Late, Staged, IsInput, IsList
  <1> DEFINE wrong == {i \in DOMAIN list : OverrideStatus(list, i, "profile") # "ok"}
  <1>4. CASE wrong # {}
    BY <1>2, <1>4, OverrideFails
  <1>5. CASE wrong = {}
    <2>1. PICK added : added = [i \in DOMAIN list |->
                          Entry(list[i].option, list[i].value, FALSE, "profile", 2, i - 1)]
      OBVIOUS
    <2>2. Advance("user", kind, added)
      BY <1>2, <1>5, <2>1 DEF AddOverrides
    <2>3. Allowed(list, "profile")
      <3>1. \A i \in DOMAIN list : OverrideStatus(list, i, "profile") = "ok"
        BY <1>5
      <3> QED BY <1>3, <3>1, OverridesOk
    <2>4. IsList(added) /\ \A e : e \in Range(added) <=> IsOverride(list, "profile", 2, e)
      BY ONLY <1>3, <2>1, OverridesAdded
    <2>5. stage' = "user" /\ kind' = kind /\ entries' = entries \o added /\ UNCHANGED <<input, chain>>
      BY <2>2 DEF Advance
    <2>6. Staged'
      BY <1>3, <2>5 DEF Staged, Stages, Late, Kind
    <2>7. "user" \in Late
      BY DEF Late
    <2>8. Defaulted /\ ~Edited /\ ~Ordered /\ \A k \in Kind : Added(k)
      BY <1>3 DEF Defaulted, Edited, Ordered, Added
    <2>9. Defaulted' /\ Edited' /\ ~Ordered' /\ \A k \in Kind : Added(k)'
      BY <2>5 DEF Defaulted, Edited, Ordered, Added, Late
    <2>10. IsList(entries) /\ \A k \in Kind : Fits(k)
      BY <1>3, <2>8 DEF Running, EntriesFollow
    <2>11. ASSUME NEW e
           PROVE  e \in Range(entries) <=> IsDefault(e) \/ \E k \in Kind : IsChained(k, e)
      BY <1>3, <2>8 DEF Running, EntriesFollow
    <2>12. IsList(entries)' /\ Range(entries') = Range(entries) \cup Range(added)
      BY <2>4, <2>5, <2>10, AddedEntries
    <2>13. ASSUME NEW e
           PROVE  e \in Range(entries') <=>
                    \/ IsDefault(e)' \/ \E k \in Kind : IsChained(k, e)'
                    \/ IsOverride(input'.transaction, "profile", 2, e)
      <3>1. e \in Range(entries') <=> e \in Range(entries) \/ IsOverride(list, "profile", 2, e)
        BY <2>4, <2>12
      <3>2. input'.transaction = list
        BY <1>1, <2>5
      <3>3. (IsDefault(e)' <=> IsDefault(e)) /\ \A k \in Kind : IsChained(k, e)' <=> IsChained(k, e)
        BY <2>5, SourcesSame
      <3> QED BY <2>11, <3>1, <3>2, <3>3
    <2>14. \A k \in Kind : Fits(k)'
      BY <2>5, <2>10, SourcesSame
    <2>15. Allowed(input.transaction, "profile")'
      <3>1. Allowed(list, "profile")'
        BY <2>3, <2>5, SourcesSame
      <3>2. input'.transaction = list
        BY <1>1, <2>5
      <3> QED BY <3>1, <3>2 DEF Allowed
    <2>16. EntriesFollow'
      BY <2>9, <2>12, <2>13, <2>14, <2>15 DEF EntriesFollow, IsOverride, OverrideEntry
    <2> QED BY <1>3, <2>2, <2>6, <2>7, <2>16, AdvanceKeeps
  <1> QED BY <1>4, <1>5

LEMMA AddUserOverridesKeeps == LedgerInvariant /\ AddUserOverrides => LedgerInvariant'
  <1> SUFFICES ASSUME LedgerInvariant, AddUserOverrides PROVE LedgerInvariant'
    OBVIOUS
  <1>1. PICK list : list = input.user
    OBVIOUS
  <1>2. AddOverrides("user", list, "user", 3, "winners")
    BY <1>1 DEF AddUserOverrides
  <1>3. /\ stage = "user" /\ stage \in Late /\ Running /\ kind \in Kind /\ IsList(list)
    BY <1>1, <1>2 DEF AddOverrides, LedgerInvariant, Late, Staged, IsInput, IsList
  <1> DEFINE wrong == {i \in DOMAIN list : OverrideStatus(list, i, "user") # "ok"}
  <1>4. CASE wrong # {}
    BY <1>2, <1>4, OverrideFails
  <1>5. CASE wrong = {}
    <2>1. PICK added : added = [i \in DOMAIN list |->
                          Entry(list[i].option, list[i].value, FALSE, "user", 3, i - 1)]
      OBVIOUS
    <2>2. Advance("winners", kind, added)
      BY <1>2, <1>5, <2>1 DEF AddOverrides
    <2>3. Allowed(list, "user")
      <3>1. \A i \in DOMAIN list : OverrideStatus(list, i, "user") = "ok"
        BY <1>5
      <3> QED BY <1>3, <3>1, OverridesOk
    <2>4. IsList(added) /\ \A e : e \in Range(added) <=> IsOverride(list, "user", 3, e)
      BY ONLY <1>3, <2>1, OverridesAdded
    <2>5. stage' = "winners" /\ kind' = kind /\ entries' = entries \o added /\ UNCHANGED <<input, chain>>
      BY <2>2 DEF Advance
    <2>6. Staged'
      BY <1>3, <2>5 DEF Staged, Stages, Late
    <2>7. "winners" \in Late
      BY DEF Late
    <2>8. Defaulted /\ Edited /\ ~Ordered /\ \A k \in Kind : Added(k)
      BY <1>3 DEF Defaulted, Edited, Ordered, Added
    <2>9. Defaulted' /\ Edited' /\ Ordered' /\ \A k \in Kind : Added(k)'
      BY <2>5 DEF Defaulted, Edited, Ordered, Added, Late
    <2>10. /\ IsList(entries) /\ \A k \in Kind : Fits(k)
      BY <1>3, <2>8 DEF Running, EntriesFollow
    <2>11. ASSUME NEW e
           PROVE  e \in Range(entries) <=>
                    \/ IsDefault(e) \/ \E k \in Kind : IsChained(k, e)
                    \/ IsOverride(input.transaction, "profile", 2, e)
      BY <1>3, <2>8 DEF Running, EntriesFollow
    <2>12. IsList(entries)' /\ Range(entries') = Range(entries) \cup Range(added)
      BY <2>4, <2>5, <2>10, AddedEntries
    <2>13. input'.transaction = input.transaction /\ input'.user = list
      BY <1>1, <2>5
    <2>14. ASSUME NEW e
           PROVE  e \in Range(entries') <=>
                    \/ IsDefault(e)' \/ \E k \in Kind : IsChained(k, e)'
                    \/ IsOverride(input'.transaction, "profile", 2, e)
                    \/ IsOverride(input'.user, "user", 3, e)
      <3>1. e \in Range(entries') <=> e \in Range(entries) \/ IsOverride(list, "user", 3, e)
        BY <2>4, <2>12
      <3>2. (IsDefault(e)' <=> IsDefault(e)) /\ \A k \in Kind : IsChained(k, e)' <=> IsChained(k, e)
        BY <2>5, SourcesSame
      <3> QED BY <2>11, <2>13, <3>1, <3>2
    <2>15. \A k \in Kind : Fits(k)'
      BY <2>5, <2>10, SourcesSame
    <2>16. Allowed(input.transaction, "profile")'
      <3>1. PICK old : old = input.transaction /\ Allowed(old, "profile")
        BY <1>3, <2>8 DEF Running, EntriesFollow
      <3>2. Allowed(old, "profile")'
        BY <2>5, <3>1, SourcesSame
      <3> QED BY <2>13, <3>1, <3>2 DEF Allowed
    <2>17. Allowed(input.user, "user")'
      <3>1. Allowed(list, "user")'
        BY <2>3, <2>5, SourcesSame
      <3> QED BY <2>13, <3>1 DEF Allowed
    <2>18. EntriesFollow'
      BY <2>9, <2>12, <2>14, <2>15, <2>16, <2>17 DEF EntriesFollow, IsOverride, OverrideEntry
    <2> QED BY <1>3, <2>2, <2>6, <2>7, <2>18, AdvanceKeeps
  <1> QED BY <1>4, <1>5

-----------------------------------------------------------------------------
\* The winners.

LEMMA EntryFields ==
  ASSUME NEW o, NEW value, NEW unset, NEW origin, NEW precedence, NEW order,
         NEW e, e = Entry(o, value, unset, origin, precedence, order)
  PROVE  /\ e.option = o /\ e.value = value /\ e.unset = unset
         /\ e.origin = origin /\ e.precedence = precedence /\ e.order = order
  BY DEF Entry

LEMMA DefaultFacts ==
  ASSUME NEW e, IsDefault(e)
  PROVE  \E i \in DOMAIN Symbols :
            /\ HasDefault(i) /\ e = DefaultEntry(i) /\ i \in Nat
            /\ e.option = Symbols[i] /\ e.option \in Option /\ e.precedence = 0 /\ e.order = i - 1
            /\ e.value = input.options[e.option].default /\ e.unset = FALSE /\ e.origin = "default"
  <1>1. PICK i \in DOMAIN Symbols : HasDefault(i) /\ e = DefaultEntry(i)
    BY DEF IsDefault
  <1>2. /\ e.option = Symbols[i] /\ e.value = input.options[Symbols[i]].default
        /\ e.unset = FALSE /\ e.origin = "default" /\ e.precedence = 0 /\ e.order = i - 1
    BY ONLY <1>1 DEF DefaultEntry, Entry
  <1>3. i \in Nat /\ Symbols[i] \in Option
    BY SymbolsAssumption
  <1>4. e.option \in Option /\ e.value = input.options[e.option].default
    BY ONLY <1>2, <1>3
  <1> QED BY ONLY <1>1, <1>2, <1>3, <1>4

\* Entry e is assignment i of document d of a chain.
ChainedAt(k, d, i, e) ==
    /\ d \in 1..Len(chain[k]) /\ i \in DOMAIN Assignments(chain[k][d]) /\ i \in 1..Stride
    /\ e = PlacedEntry(k, chain[k][d], d, i)
    /\ e.option = Assignments(chain[k][d])[i].option
    /\ e.value = Assignments(chain[k][d])[i].value
    /\ e.unset = Assignments(chain[k][d])[i].unset
    /\ e.origin = IF e.unset THEN "unset" ELSE k
    /\ e.precedence = 1 /\ e.order = Place(d, i) /\ e.order \in Nat
    /\ e.option \in Option /\ input.options[e.option].domain = k
    /\ e.unset => ~input.options[e.option].required

LEMMA ChainedFacts ==
  ASSUME LedgerInvariant, stage \in Late, NEW k \in Kind, Fits(k),
         NEW d \in DOMAIN chain[k], NEW i \in DOMAIN Assignments(chain[k][d]), NEW e,
         e = PlacedEntry(k, chain[k][d], d, i)
  PROVE  ChainedAt(k, d, i, e)
  <1>1. PICK file, a : file = chain[k][d] /\ a = Assignments(file)[i]
    OBVIOUS
  <1>2. /\ Len(chain[k]) \in Nat /\ d \in 1..Len(chain[k]) /\ Len(chain[k]) <= SizeMax \div Stride
        /\ Written(k, file) /\ IsDocument(file)
    BY <1>1, ChainWritten
  <1>3. i \in 1..Stride
    <2>1. i \in Nat \ {0}
      BY <1>1, <1>2, AssignmentsFacts DEF IsList
    <2>2. i <= Stride
      BY DEF Fits
    <2> QED BY <2>1, <2>2, StrideAssumption
  <1>4. /\ a.option \in Option /\ input.options[a.option].domain = k
        /\ a.unset => ~input.options[a.option].required
    BY <1>1, <1>2 DEF Written
  <1>5. /\ e.option = a.option /\ e.value = a.value /\ e.unset = a.unset
        /\ e.origin = IF a.unset THEN "unset" ELSE k
        /\ e.precedence = 1 /\ e.order = Place(d, i)
    BY <1>1, EntryFields DEF PlacedEntry
  <1>6. Place(d, i) \in Nat
    <2>1. d \in Nat \ {0} /\ d <= SizeMax \div Stride
      <3>1. SizeMax \div Stride \in Nat
        BY StrideAssumption
      <3> QED BY <1>2, <3>1
    <2> QED BY <1>3, <2>1, PlaceFits, StrideAssumption
  <1> QED BY <1>1, <1>2, <1>3, <1>4, <1>5, <1>6 DEF ChainedAt

\* Entry e is override i of a list.
OverrideAt(list, writer, p, i, e) ==
    /\ i \in DOMAIN list /\ i \in Nat \ {0}
    /\ e = OverrideEntry(list, writer, p, i)
    /\ e.option = list[i].option /\ e.value = list[i].value /\ e.unset = FALSE
    /\ e.origin = writer /\ e.precedence = p /\ e.order = i - 1
    /\ e.option \in Option /\ input.options[e.option].domain \in Kind
    /\ writer \in Kind => input.options[e.option].domain = writer
    /\ writer = "user" => input.options[e.option].user_override

LEMMA OverrideFacts ==
  ASSUME NEW list, IsList(list), NEW writer \in Kind \cup {"user"}, Allowed(list, writer),
         NEW p, NEW i \in DOMAIN list, NEW e, e = OverrideEntry(list, writer, p, i)
  PROVE  OverrideAt(list, writer, p, i, e)
  <1>1. /\ e.option = list[i].option /\ e.value = list[i].value /\ e.unset = FALSE
        /\ e.origin = writer /\ e.precedence = p /\ e.order = i - 1
    BY ONLY e = OverrideEntry(list, writer, p, i) DEF OverrideEntry, Entry
  <1>2. i \in Nat \ {0}
    <2>1. PICK n : n \in Nat /\ DOMAIN list = 1..n
      BY ONLY IsList(list) DEF IsList
    <2> QED BY ONLY <2>1, i \in DOMAIN list
  <1>3. ValidateWrite(list[i].option, writer) = "ok"
    BY DEF Allowed
  <1>4. /\ list[i].option \in Option /\ input.options[list[i].option].domain \in Kind
        /\ writer \in Kind => input.options[list[i].option].domain = writer
        /\ writer = "user" => input.options[list[i].option].user_override
    BY <1>3, WriteOk
  <1> QED BY <1>1, <1>2, <1>4 DEF OverrideAt

\* Where an entry comes from.
LEMMA EntrySources ==
  ASSUME LedgerInvariant, Ordered
  PROVE  /\ stage \in Late /\ IsInput(input) /\ Running
         /\ Allowed(input.transaction, "profile") /\ Allowed(input.user, "user")
         /\ IsList(input.transaction) /\ IsList(input.user) /\ IsList(entries)
         /\ \A k \in Kind : Fits(k)
         /\ \A e : e \in Range(entries) <=>
              \/ IsDefault(e)
              \/ \E k \in Kind : IsChained(k, e)
              \/ IsOverride(input.transaction, "profile", 2, e)
              \/ IsOverride(input.user, "user", 3, e)
  <1>1. stage \in Late /\ stage # "failed"
    BY DEF Ordered, Late
  <1>2. IsInput(input) /\ Running
    BY <1>1 DEF LedgerInvariant
  <1>3. Defaulted /\ Edited /\ Ordered /\ \A k \in Kind : Added(k)
    BY DEF Ordered, Defaulted, Edited, Added, Late
  <1>4. IsList(input.transaction) /\ IsList(input.user)
    BY <1>2 DEF IsInput, IsList
  <1>5. /\ Allowed(input.transaction, "profile") /\ Allowed(input.user, "user") /\ IsList(entries)
        /\ \A k \in Kind : Fits(k)
    BY <1>2, <1>3 DEF Running, EntriesFollow
  <1>6. ASSUME NEW e
        PROVE  e \in Range(entries) <=>
              \/ IsDefault(e)
              \/ \E k \in Kind : IsChained(k, e)
              \/ IsOverride(input.transaction, "profile", 2, e)
              \/ IsOverride(input.user, "user", 3, e)
    BY <1>2, <1>3 DEF Running, EntriesFollow
  <1> QED BY <1>1, <1>2, <1>4, <1>5, <1>6

\* An entry by its precedence.
LEMMA EntryKinds ==
  ASSUME LedgerInvariant, Ordered, NEW e \in Range(entries)
  PROVE  /\ e.option \in Option /\ e.precedence \in 0..3 /\ e.order \in Nat
         /\ e.precedence = 0 => IsDefault(e)
         /\ e.precedence = 1 =>
              \E k \in Kind : \E d \in DOMAIN chain[k] :
                  \E i \in DOMAIN Assignments(chain[k][d]) : ChainedAt(k, d, i, e)
         /\ e.precedence = 2 =>
              \E i \in DOMAIN input.transaction : OverrideAt(input.transaction, "profile", 2, i, e)
         /\ e.precedence = 3 => \E i \in DOMAIN input.user : OverrideAt(input.user, "user", 3, i, e)
  <1>1. CASE IsDefault(e)
    <2>1. e.option \in Option /\ e.precedence = 0 /\ e.order \in Nat
      <3>1. PICK i \in DOMAIN Symbols : e.option \in Option /\ e.precedence = 0 /\ e.order = i - 1
        BY <1>1, DefaultFacts
      <3>2. i \in Nat \ {0}
        BY SymbolsAssumption
      <3> QED BY <3>1, <3>2
    <2> QED BY <1>1, <2>1
  <1>2. CASE \E k \in Kind : IsChained(k, e)
    <2>1. PICK k \in Kind : IsChained(k, e)
      BY <1>2
    <2>2. PICK d \in DOMAIN chain[k] : \E i \in DOMAIN Assignments(chain[k][d]) :
              e = PlacedEntry(k, chain[k][d], d, i)
      BY <2>1 DEF IsChained
    <2>3. PICK i \in DOMAIN Assignments(chain[k][d]) : e = PlacedEntry(k, chain[k][d], d, i)
      BY <2>2
    <2>4. stage \in Late /\ Fits(k)
      BY EntrySources
    <2>5. ChainedAt(k, d, i, e)
      BY <2>3, <2>4, ChainedFacts
    <2>6. e.option \in Option /\ e.precedence = 1 /\ e.order \in Nat
      BY <2>5 DEF ChainedAt
    <2> QED BY <2>5, <2>6
  <1>3. CASE IsOverride(input.transaction, "profile", 2, e)
    <2>1. PICK list : list = input.transaction /\ IsList(list) /\ Allowed(list, "profile")
      BY EntrySources
    <2>2. PICK i \in DOMAIN list : e = OverrideEntry(list, "profile", 2, i)
      BY <1>3, <2>1 DEF IsOverride
    <2>3. OverrideAt(list, "profile", 2, i, e)
      BY <2>1, <2>2, OverrideFacts DEF Kind
    <2>4. e.option \in Option /\ e.precedence = 2 /\ e.order \in Nat
      BY <2>3 DEF OverrideAt
    <2> QED BY <2>1, <2>3, <2>4
  <1>4. CASE IsOverride(input.user, "user", 3, e)
    <2>1. PICK list : list = input.user /\ IsList(list) /\ Allowed(list, "user")
      BY EntrySources
    <2>2. PICK i \in DOMAIN list : e = OverrideEntry(list, "user", 3, i)
      BY <1>4, <2>1 DEF IsOverride
    <2>3. OverrideAt(list, "user", 3, i, e)
      BY <2>1, <2>2, OverrideFacts
    <2>4. e.option \in Option /\ e.precedence = 3 /\ e.order \in Nat
      BY <2>3 DEF OverrideAt
    <2> QED BY <2>1, <2>3, <2>4
  <1> QED BY <1>1, <1>2, <1>3, <1>4, EntrySources

\* Two entries of a chain compare by document and then by assignment.
LEMMA ChainedOrder ==
  ASSUME LedgerInvariant, stage \in Late, NEW k \in Kind, NEW d, NEW i, NEW e, NEW c, NEW j, NEW f,
         ChainedAt(k, d, i, e), ChainedAt(k, c, j, f)
  PROVE  /\ d \in Nat \ {0} /\ c \in Nat \ {0}
         /\ d < c => EntryBefore(e, f)
         /\ e.order = f.order => d = c /\ i = j
         /\ d = c /\ e.option = f.option => i = j
  <1>1. /\ d \in 1..Len(chain[k]) /\ c \in 1..Len(chain[k]) /\ i \in 1..Stride /\ j \in 1..Stride
        /\ e.order = Place(d, i) /\ f.order = Place(c, j) /\ e.order \in Nat /\ f.order \in Nat
        /\ e.precedence = 1 /\ f.precedence = 1
        /\ i \in DOMAIN Assignments(chain[k][d]) /\ j \in DOMAIN Assignments(chain[k][c])
    BY DEF ChainedAt
  <1>2. d \in Nat \ {0} /\ c \in Nat \ {0}
    BY <1>1, ChainWritten
  <1>3. d < c => e.order < f.order
    BY <1>1, <1>2, PlaceLess
  <1>4. c < d => f.order < e.order
    BY <1>1, <1>2, PlaceLess
  <1>5. d < c => EntryBefore(e, f)
    BY <1>1, <1>3 DEF EntryBefore
  <1>6. ASSUME e.order = f.order PROVE d = c /\ i = j
    <2>1. d = c
      BY <1>1, <1>2, <1>3, <1>4, <1>6
    <2>2. PICK p : p = (d - 1) * Stride /\ p \in Nat
      <3>1. PICK x, s : x = d - 1 /\ s = Stride /\ x \in Nat /\ s \in Nat
        BY <1>2, StrideAssumption
      <3>2. x * s \in Nat
        BY ONLY <3>1, SMT
      <3> QED BY <3>1, <3>2
    <2>3. p + (i - 1) = p + (j - 1)
      BY <1>1, <1>6, <2>1, <2>2 DEF Place
    <2>4. i \in Nat /\ j \in Nat
      BY <1>1, StrideAssumption
    <2> QED BY <2>1, <2>2, <2>3, <2>4
  <1>7. ASSUME d = c, e.option = f.option PROVE i = j
    <2>1. Written(k, chain[k][d])
      BY <1>1, ChainWritten
    <2>2. /\ e.option = Assignments(chain[k][d])[i].option
          /\ f.option = Assignments(chain[k][d])[j].option
          /\ j \in DOMAIN Assignments(chain[k][d])
      BY <1>7 DEF ChainedAt
    <2> QED BY <1>1, <1>7, <2>1, <2>2 DEF Written
  <1> QED BY <1>2, <1>5, <1>6, <1>7

\* No two entries of an option have the same precedence and order.
LEMMA KeyDetermines ==
  ASSUME LedgerInvariant, Ordered, NEW e \in Range(entries), NEW f \in Range(entries),
         e.option = f.option, e.precedence = f.precedence, e.order = f.order
  PROVE  e = f
  <1>1. e.precedence \in 0..3
    BY EntryKinds
  <1>2. CASE e.precedence = 0
    <2>1. IsDefault(e) /\ IsDefault(f)
      BY <1>2, EntryKinds
    <2>2. PICK i \in DOMAIN Symbols : e = DefaultEntry(i) /\ e.order = i - 1 /\ i \in Nat
      BY <2>1, DefaultFacts
    <2>3. PICK j \in DOMAIN Symbols : f = DefaultEntry(j) /\ f.order = j - 1 /\ j \in Nat
      BY <2>1, DefaultFacts
    <2>4. i = j
      BY <2>2, <2>3
    <2> QED BY <2>2, <2>3, <2>4
  <1>3. CASE e.precedence = 1
    <2>1. PICK k \in Kind : \E d \in DOMAIN chain[k] :
              \E i \in DOMAIN Assignments(chain[k][d]) : ChainedAt(k, d, i, e)
      BY <1>3, EntryKinds
    <2>2. PICK d \in DOMAIN chain[k] : \E i \in DOMAIN Assignments(chain[k][d]) : ChainedAt(k, d, i, e)
      BY <2>1
    <2>3. PICK i \in DOMAIN Assignments(chain[k][d]) : ChainedAt(k, d, i, e)
      BY <2>2
    <2>4. PICK l \in Kind : \E c \in DOMAIN chain[l] :
              \E j \in DOMAIN Assignments(chain[l][c]) : ChainedAt(l, c, j, f)
      BY <1>3, EntryKinds
    <2>5. PICK c \in DOMAIN chain[l] : \E j \in DOMAIN Assignments(chain[l][c]) : ChainedAt(l, c, j, f)
      BY <2>4
    <2>6. PICK j \in DOMAIN Assignments(chain[l][c]) : ChainedAt(l, c, j, f)
      BY <2>5
    <2>7. k = l
      BY <2>3, <2>6 DEF ChainedAt
    <2>8. stage \in Late
      BY EntrySources
    <2>9. d = c /\ i = j
      BY <2>3, <2>6, <2>7, <2>8, ChainedOrder
    <2> QED BY <2>3, <2>6, <2>7, <2>9 DEF ChainedAt
  <1>4. CASE e.precedence = 2
    <2>1. PICK i : OverrideAt(input.transaction, "profile", 2, i, e)
      BY <1>4, EntryKinds
    <2>2. PICK j : OverrideAt(input.transaction, "profile", 2, j, f)
      BY <1>4, EntryKinds
    <2>3. i \in Nat /\ j \in Nat /\ i - 1 = j - 1
      BY <2>1, <2>2 DEF OverrideAt
    <2>4. i = j
      BY <2>3
    <2> QED BY <2>1, <2>2, <2>4 DEF OverrideAt
  <1>5. CASE e.precedence = 3
    <2>1. PICK i : OverrideAt(input.user, "user", 3, i, e)
      BY <1>5, EntryKinds
    <2>2. PICK j : OverrideAt(input.user, "user", 3, j, f)
      BY <1>5, EntryKinds
    <2>3. i \in Nat /\ j \in Nat /\ i - 1 = j - 1
      BY <2>1, <2>2 DEF OverrideAt
    <2>4. i = j
      BY <2>3
    <2> QED BY <2>1, <2>2, <2>4 DEF OverrideAt
  <1> QED BY <1>1, <1>2, <1>3, <1>4, <1>5

\* An option that has an entry has one that none comes after.
LEMMA WinnerExists ==
  ASSUME LedgerInvariant, Ordered, NEW o, NEW some \in Range(entries), some.option = o
  PROVE  \E e : WinnerOf(o, e)
  <1>1. PICK n : n \in Nat /\ DOMAIN entries = 1..n
    BY EntrySources DEF IsList
  <1>2. \A i \in 1..n : entries[i] \in Range(entries)
    BY <1>1 DEF Range
  <1>3. \A i \in 1..n : entries[i].precedence \in Nat /\ entries[i].order \in Nat
    BY <1>2, EntryKinds
  <1> DEFINE Top(m, i) == /\ entries[i].option = o
                          /\ \A j \in 1..m : entries[j].option = o => ~EntryBefore(entries[i], entries[j])
             Good == {m \in Nat : m \in 0..n =>
                        \/ \A j \in 1..m : entries[j].option # o
                        \/ \E i \in 1..m : Top(m, i)}
  <1>4. 0 \in Good
    OBVIOUS
  <1>5. ASSUME NEW m \in Nat, m \in Good PROVE m + 1 \in Good
    <2> SUFFICES ASSUME m + 1 \in 0..n
                 PROVE  \/ \A j \in 1..(m + 1) : entries[j].option # o
                        \/ \E i \in 1..(m + 1) : Top(m + 1, i)
      OBVIOUS
    <2>1. m \in 0..n /\ m + 1 \in 1..n /\ \A j \in 1..(m + 1) : j \in 1..m \/ j = m + 1
      BY <1>1
    <2>2. CASE entries[m + 1].option # o
      <3>1. CASE \A j \in 1..m : entries[j].option # o
        BY <2>1, <2>2, <3>1
      <3>2. CASE \E i \in 1..m : Top(m, i)
        <4>1. PICK i \in 1..m : Top(m, i)
          BY <3>2
        <4>2. Top(m + 1, i) /\ i \in 1..(m + 1)
          BY <2>1, <2>2, <4>1
        <4> QED BY <4>2
      <3> QED BY <1>5, <2>1, <3>1, <3>2
    <2>3. CASE entries[m + 1].option = o
      <3>0. ~EntryBefore(entries[m + 1], entries[m + 1])
        BY <1>3, <2>1 DEF EntryBefore
      <3>1. CASE \A j \in 1..m : entries[j].option # o
        <4>1. Top(m + 1, m + 1) /\ m + 1 \in 1..(m + 1)
          BY <2>1, <2>3, <3>0, <3>1
        <4> QED BY <4>1
      <3>2. CASE \E i \in 1..m : Top(m, i)
        <4>1. PICK i \in 1..m : Top(m, i)
          BY <3>2
        <4>2. CASE EntryBefore(entries[i], entries[m + 1])
          <5>1. ASSUME NEW j \in 1..m, entries[j].option = o
                PROVE  ~EntryBefore(entries[m + 1], entries[j])
            <6>1. ~EntryBefore(entries[i], entries[j])
              BY <4>1, <5>1
            <6>2. i \in 1..n /\ j \in 1..n
              BY <1>1, <2>1
            <6> QED BY <1>3, <2>1, <4>2, <6>1, <6>2 DEF EntryBefore
          <5>2. Top(m + 1, m + 1) /\ m + 1 \in 1..(m + 1)
            BY <2>1, <2>3, <3>0, <5>1
          <5> QED BY <5>2
        <4>3. CASE ~EntryBefore(entries[i], entries[m + 1])
          <5>1. Top(m + 1, i) /\ i \in 1..(m + 1)
            BY <2>1, <4>1, <4>3
          <5> QED BY <5>1
        <4> QED BY <4>2, <4>3
      <3> QED BY <1>5, <2>1, <3>1, <3>2
    <2> QED BY <2>2, <2>3
  <1>6. Nat \subseteq Good
    <2> HIDE DEF Good
    <2> QED BY <1>4, <1>5, Induction
  <1>7. PICK l \in 1..n : some = entries[l]
    BY <1>1 DEF Range
  <1>8. PICK i \in 1..n : Top(n, i)
    <2>1. entries[l].option = o
      BY <1>7
    <2>2. n \in Good
      BY <1>1, <1>6
    <2>3. n \in 0..n
      BY ONLY <1>1
    <2>4. \/ \A j \in 1..n : entries[j].option # o
          \/ \E i \in 1..n : Top(n, i)
      BY ONLY <2>2, <2>3
    <2> HIDE DEF Top
    <2> QED BY ONLY <1>7, <2>1, <2>4
  <1>9. WinnerOf(o, entries[i])
    BY <1>1, <1>2, <1>8 DEF WinnerOf, Range
  <1> QED BY <1>9

\* Equal keys have one origin.
LEMMA NotAmbiguous ==
  ASSUME LedgerInvariant, Ordered
  PROVE  ~Ambiguous
  <1> SUFFICES ASSUME NEW i \in DOMAIN entries, NEW j \in DOMAIN entries,
                      entries[i].option = entries[j].option,
                      entries[i].precedence = entries[j].precedence,
                      entries[i].order = entries[j].order
               PROVE  entries[i].origin = entries[j].origin
    BY DEF Ambiguous
  <1>1. entries[i] \in Range(entries) /\ entries[j] \in Range(entries)
    BY DEF Range
  <1>2. entries[i] = entries[j]
    BY <1>1, KeyDetermines
  <1> QED BY <1>2

LEMMA MarkWinnersKeeps == LedgerInvariant /\ MarkWinners => LedgerInvariant'
  <1> SUFFICES ASSUME LedgerInvariant, MarkWinners PROVE LedgerInvariant'
    OBVIOUS
  <1> DEFINE Of(o) == {entries[i] : i \in {k \in DOMAIN entries : entries[k].option = o}}
             Latest(o) == CHOOSE e \in Of(o) : \A f \in Of(o) : ~EntryBefore(e, f)
  <1>1. stage = "winners" /\ Ordered /\ stage \in Late /\ stage # "failed"
    BY DEF MarkWinners, Ordered, Late
  <1>2. ~Ambiguous
    BY <1>1, NotAmbiguous
  <1>3. /\ winner' = [o \in Option |-> IF Of(o) = {} THEN NoEntry ELSE Latest(o)]
        /\ stage' = "published"
        /\ UNCHANGED <<input, kind, at, catalog, cursor, reversed, chain, target, entries, error>>
    BY <1>2 DEF MarkWinners
  <1>4. \A o, e : e \in Of(o) <=> e \in Range(entries) /\ e.option = o
    BY DEF Range
  <1>5. ASSUME NEW o \in Option
        PROVE  \/ winner'[o] = NoEntry /\ \A e \in Range(entries) : e.option # o
               \/ WinnerOf(o, winner'[o])
    <2>1. CASE Of(o) = {}
      <3>1. winner'[o] = NoEntry
        BY ONLY <1>3, <1>5, <2>1
      <3> HIDE DEF Of
      <3> QED BY <1>4, <2>1, <3>1
    <2>2. CASE Of(o) # {}
      <3>1. winner'[o] = Latest(o)
        BY ONLY <1>3, <1>5, <2>2
      <3> HIDE DEF Of
      <3>2. PICK some \in Range(entries) : some.option = o
        BY <1>4, <2>2
      <3>3. PICK e : WinnerOf(o, e)
        BY <1>1, <3>2, WinnerExists
      <3>4. e \in Of(o) /\ \A f \in Of(o) : ~EntryBefore(e, f)
        BY <1>4, <3>3 DEF WinnerOf
      <3>5. Latest(o) \in Of(o) /\ \A f \in Of(o) : ~EntryBefore(Latest(o), f)
        BY ONLY <3>4
      <3> HIDE DEF Latest
      <3>6. WinnerOf(o, Latest(o))
        BY <1>4, <3>5 DEF WinnerOf
      <3> QED BY <3>1, <3>6
    <2> QED BY <2>1, <2>2
  <1> HIDE DEF Of, Latest
  <1>6. stage' \in Late /\ stage' # "failed" /\ Ordered'
    BY <1>3 DEF Late, Ordered
  <1>7. IsInput(input)' /\ error' = None /\ Catalogs' /\ Walking' /\ Chains' /\ TargetChosen'
    BY <1>1, <1>3, <1>6, LateKept
  <1>8. Staged'
    BY <1>3 DEF LedgerInvariant, Staged, Stages, Late
  <1>9. Marked'
    BY <1>3, <1>5 DEF Marked, WinnerOf, EntryBefore
  <1>10. EntriesFollow'
    <2>1. /\ IsList(entries) /\ \A k \in Kind : Fits(k)
          /\ Allowed(input.transaction, "profile") /\ Allowed(input.user, "user")
      BY <1>1, EntrySources
    <2>2. ASSUME NEW e
          PROVE  e \in Range(entries') <=>
                    \/ IsDefault(e)' \/ \E k \in Kind : IsChained(k, e)'
                    \/ IsOverride(input'.transaction, "profile", 2, e)
                    \/ IsOverride(input'.user, "user", 3, e)
      <3>1. (IsDefault(e)' <=> IsDefault(e)) /\ \A k \in Kind : IsChained(k, e)' <=> IsChained(k, e)
        BY <1>3, SourcesSame
      <3>2. entries' = entries /\ input' = input
        BY <1>3
      <3>3. e \in Range(entries) <=>
              \/ IsDefault(e) \/ \E k \in Kind : IsChained(k, e)
              \/ IsOverride(input.transaction, "profile", 2, e)
              \/ IsOverride(input.user, "user", 3, e)
        BY <1>1, EntrySources
      <3> QED BY <3>1, <3>2, <3>3
    <2>3. \A k \in Kind : Fits(k)'
      BY <1>3, <2>1, SourcesSame
    <2>4. \A list, writer : Allowed(list, writer)' <=> Allowed(list, writer)
      BY <1>3, SourcesSame
    <2>5. Allowed(input.transaction, "profile")' /\ Allowed(input.user, "user")'
      <3>1. PICK edits, user : /\ edits = input.transaction /\ user = input.user
                               /\ Allowed(edits, "profile") /\ Allowed(user, "user")
        BY <2>1
      <3>2. Allowed(edits, "profile")' /\ Allowed(user, "user")'
        BY <2>4, <3>1
      <3>3. edits = input'.transaction /\ user = input'.user
        BY <1>3, <3>1
      <3> QED BY <3>2, <3>3 DEF Allowed
    <2>6. Defaulted' /\ Edited' /\ Ordered' /\ \A k \in Kind : Added(k)'
      BY <1>3 DEF Defaulted, Edited, Ordered, Added, Late
    <2>7. IsList(entries)'
      BY <1>3, <2>1
    <2> QED BY <2>2, <2>3, <2>5, <2>6, <2>7 DEF EntriesFollow, IsOverride, OverrideEntry
  <1> QED BY <1>6, <1>7, <1>8, <1>9, <1>10 DEF LedgerInvariant, Running

LEMMA StutterKeeps == LedgerInvariant /\ UNCHANGED vars => LedgerInvariant'
  <1> SUFFICES ASSUME LedgerInvariant, UNCHANGED vars PROVE LedgerInvariant'
    OBVIOUS
  <1> USE DEF vars
  <1>1. IsInput(input)' /\ Staged'
    BY DEF LedgerInvariant, Staged
  <1>2. \A k : Ancestor(k)' = Ancestor(k) /\ FileNames(k)' = FileNames(k) /\ LeafName(k)' = LeafName(k)
    BY LeafSame, AncestorSame
  <1>3. ASSUME stage # "failed" PROVE Running'
    <2>1. Running
      BY <1>3 DEF LedgerInvariant
    <2>2. error' = None /\ Catalogs'
      BY <2>1, WrittenSame DEF Running, Catalogs
    <2>3. Walking'
      BY <1>2, <2>1 DEF Running, Walking, Walked
    <2>4. Chains'
      BY <1>2, <2>1 DEF Running, Chains, ChainRight, Targeting
    <2>5. TargetChosen'
      BY <2>1 DEF Running, TargetChosen, Targeting
    <2>6. EntriesFollow'
      <3>1. /\ Defaulted' <=> Defaulted
            /\ Edited' <=> Edited
            /\ Ordered' <=> Ordered
            /\ \A k : Added(k)' <=> Added(k)
        BY DEF Defaulted, Edited, Ordered, Added
      <3> QED BY <2>1, <3>1, SourcesSame DEF Running, EntriesFollow
    <2>7. Marked'
      BY <2>1 DEF Running, Marked, WinnerOf
    <2> QED BY <2>2, <2>3, <2>4, <2>5, <2>6, <2>7 DEF Running
  <1>4. ASSUME stage = "failed" PROVE Excused'
    BY <1>2, <1>4 DEF LedgerInvariant, Excused
  <1> QED BY <1>1, <1>3, <1>4 DEF LedgerInvariant

LEMMA StepKeeps == LedgerInvariant /\ [Next]_vars => LedgerInvariant'
  <1> SUFFICES ASSUME LedgerInvariant, [Next]_vars PROVE LedgerInvariant'
    OBVIOUS
  <1>1. CASE LoadDocument BY <1>1, LoadDocumentKeeps
  <1>2. CASE EndLoad BY <1>2, EndLoadKeeps
  <1>3. CASE FindLeaf BY <1>3, FindLeafKeeps
  <1>4. CASE WalkChain BY <1>4, WalkChainKeeps
  <1>5. CASE EndWalk BY <1>5, EndWalkKeeps
  <1>6. CASE SelectTarget BY <1>6, SelectTargetKeeps
  <1>7. CASE AddSchemaDefaults BY <1>7, AddSchemaDefaultsKeeps
  <1>8. CASE AddInputChain BY <1>8, AddInputChainKeeps
  <1>9. CASE AddProfileOverrides BY <1>9, AddProfileOverridesKeeps
  <1>10. CASE AddUserOverrides BY <1>10, AddUserOverridesKeeps
  <1>11. CASE MarkWinners BY <1>11, MarkWinnersKeeps
  <1>12. CASE UNCHANGED vars BY <1>12, StutterKeeps
  <1> QED BY <1>1, <1>2, <1>3, <1>4, <1>5, <1>6, <1>7, <1>8, <1>9, <1>10, <1>11, <1>12 DEF Next

\* The inductive invariant of the build: at every stage the files loaded, the
\* chain walked, the entries added and the winners marked are what the stages
\* before it had to leave, and a failed build has a genuine excuse.
THEOREM LedgerInvariantHolds == Spec => []LedgerInvariant
  BY InitInvariant, StepKeeps, PTL DEF Spec

-----------------------------------------------------------------------------
\* The properties.

\* A published option has the winner of its entries, if it has entries.
LEMMA PublishedWinner ==
  ASSUME LedgerInvariant, stage = "published", NEW o \in Option
  PROVE  /\ Ordered /\ stage \in Late
         /\ winner[o] # NoEntry => WinnerOf(o, winner[o])
         /\ \A f \in Range(entries) :
               f.option = o => winner[o] # NoEntry /\ WinnerOf(o, winner[o])
  <1>1. Ordered /\ stage \in Late /\ stage # "failed"
    BY DEF Ordered, Late
  <1>2. \/ winner[o] = NoEntry /\ \A e \in Range(entries) : e.option # o
        \/ WinnerOf(o, winner[o])
    BY <1>1 DEF LedgerInvariant, Running, Marked
  <1>3. NoEntry.option = None
    BY DEF NoEntry, Entry
  <1>4. WinnerOf(o, winner[o]) => winner[o] # NoEntry
    BY <1>3, SymbolsAssumption DEF WinnerOf
  <1> QED BY <1>1, <1>2, <1>4

\* The winner is of no lower precedence than an entry of its option.
LEMMA WinnerIsHighest ==
  ASSUME LedgerInvariant, Ordered, NEW o, NEW w, WinnerOf(o, w),
         NEW f \in Range(entries), f.option = o
  PROVE  w.precedence \in 0..3 /\ f.precedence \in 0..3 /\ f.precedence <= w.precedence
  <1>1. w \in Range(entries) /\ ~EntryBefore(w, f)
    BY DEF WinnerOf
  <1>2. w.precedence \in 0..3 /\ f.precedence \in 0..3
    BY <1>1, EntryKinds
  <1> QED BY <1>1, <1>2 DEF EntryBefore

\* An override is an entry.
LEMMA OverrideIsEntry ==
  ASSUME LedgerInvariant, Ordered,
         NEW list, NEW writer, NEW p,
         \/ list = input.user /\ writer = "user" /\ p = 3
         \/ list = input.transaction /\ writer = "profile" /\ p = 2,
         NEW i \in DOMAIN list
  PROVE  \E f \in Range(entries) : OverrideAt(list, writer, p, i, f)
  <1>1. PICK f : f = OverrideEntry(list, writer, p, i)
    OBVIOUS
  <1>2. IsOverride(list, writer, p, f)
    BY <1>1 DEF IsOverride
  <1>3. f \in Range(entries)
    BY <1>2, EntrySources
  <1>4. IsList(list) /\ Allowed(list, writer) /\ writer \in Kind \cup {"user"}
    BY EntrySources DEF Kind
  <1>5. OverrideAt(list, writer, p, i, f)
    BY <1>1, <1>4, OverrideFacts
  <1> QED BY <1>3, <1>5

\* Two overrides of one option are one.
LEMMA OverrideWins ==
  ASSUME LedgerInvariant, stage = "published", NEW o \in Option, WinnerOf(o, winner[o]),
         winner[o] # NoEntry, NEW list, NEW writer, NEW p,
         Allowed(list, writer), NEW i, OverrideAt(list, writer, p, i, winner[o])
  PROVE  \A v \in Overrides(list, o) : Wins(o, v, FALSE, writer)
  <1> SUFFICES ASSUME NEW v \in Overrides(list, o) PROVE Wins(o, v, FALSE, writer)
    OBVIOUS
  <1>1. PICK j \in DOMAIN list : list[j].option = o /\ v = list[j].value
    BY DEF Overrides
  <1>2. winner[o].option = o
    BY DEF WinnerOf
  <1>3. /\ i \in DOMAIN list /\ winner[o].option = list[i].option /\ winner[o].value = list[i].value
        /\ winner[o].unset = FALSE /\ winner[o].origin = writer
    BY DEF OverrideAt
  <1>4. i = j
    BY <1>1, <1>2, <1>3 DEF Allowed
  <1> QED BY <1>1, <1>3, <1>4 DEF Wins

\* The ancestors of a leaf are the documents of its chain, backwards.
LEMMA ChainAncestors ==
  ASSUME LedgerInvariant, stage = "published", NEW k \in Kind
  PROVE  /\ Len(chain[k]) \in Nat /\ DOMAIN chain[k] = 1..Len(chain[k])
         /\ \A n \in 0..(Len(chain[k]) - 1) :
               /\ n \in DOMAIN Ancestor(k)
               /\ Ancestor(k)[n] \in FileNames(k)
               /\ File(k, Ancestor(k)[n]) = chain[k][Len(chain[k]) - n]
         /\ \A n \in DOMAIN Ancestor(k) :
               n \in Nat /\ (Ancestor(k)[n] \in FileNames(k) => n < Len(chain[k]))
  <1>1. stage \in Late /\ stage # "failed" /\ stage # "load"
    BY DEF Late
  <1>2. IsInput(input) /\ Running
    BY <1>1 DEF LedgerInvariant
  <1>3. PICK a, L, files, N : /\ a = Ancestor(k) /\ L = Len(chain[k]) /\ files = input.files[k]
                              /\ N = Len(files)
    OBVIOUS
  <1>4. /\ ChainRight(k) /\ L \in Nat /\ DOMAIN chain[k] = 1..L
        /\ \A d \in DOMAIN chain[k] : chain[k][d] \in Range(files)
    BY <1>1, <1>3, ChainWritten
  <1>5. N \in Nat /\ None \notin Names(files) /\ IsList(files)
    BY <1>2, <1>3, InputFacts DEF FileNames
  <1>6. L <= N /\ a[L] = None /\ \A d \in 1..L : chain[k][d].name = a[L - d]
    BY <1>3, <1>4 DEF ChainRight
  <1>7. IsAncestry(a, files, LeafName(k)) /\ DOMAIN a = 0..N
    BY <1>2, <1>3, AncestorFacts DEF IsAncestry
  <1>8. Distinct(files)
    BY <1>1, <1>2, <1>3 DEF Running, Catalogs
  <1>9. ASSUME NEW n \in 0..(L - 1)
        PROVE  n \in DOMAIN a /\ a[n] \in FileNames(k) /\ File(k, a[n]) = chain[k][L - n]
    <2>1. L - n \in 1..L /\ L - (L - n) = n /\ n \in 0..N
      BY ONLY <1>4, <1>5, <1>6, <1>9
    <2>2. PICK file : file = chain[k][L - n] /\ file \in Range(files) /\ file.name = a[n]
      BY <1>4, <1>6, <2>1
    <2>3. file.name \in Names(files) /\ Named(files, file.name) = file
      BY <1>8, <2>2, NamedIsUnique
    <2> QED BY <1>3, <1>7, <2>1, <2>2, <2>3 DEF FileNames, File
  <1>10. ASSUME NEW n \in DOMAIN a PROVE n \in Nat /\ (a[n] \in FileNames(k) => n < L)
    <2>1. n \in 0..N /\ n \in Nat
      BY <1>5, <1>7
    <2>2. CASE n < L
      BY <2>1, <2>2
    <2>3. CASE ~(n < L)
      <3>1. L \in 0..Len(files) /\ n \in L..Len(files)
        BY <1>3, <1>4, <1>5, <1>6, <2>1, <2>3
      <3>2. a[n] = None
        BY <1>5, <1>6, <1>7, <3>1, AncestryEnds
      <3> QED BY <1>3, <1>5, <2>1, <3>2 DEF FileNames
    <2> QED BY <2>2, <2>3
  <1> QED BY <1>3, <1>4, <1>9, <1>10

\* An entry of a chain is an assignment of one of the ancestors.
LEMMA ChainedSets ==
  ASSUME LedgerInvariant, stage = "published", NEW k \in Kind, NEW d, NEW i, NEW e,
         ChainedAt(k, d, i, e)
  PROVE  /\ d \in 1..Len(chain[k]) /\ Len(chain[k]) - d \in 0..(Len(chain[k]) - 1)
         /\ Len(chain[k]) - d \in DOMAIN Ancestor(k)
         /\ Ancestor(k)[Len(chain[k]) - d] \in FileNames(k)
         /\ File(k, Ancestor(k)[Len(chain[k]) - d]) = chain[k][d]
         /\ Sets(k, Ancestor(k)[Len(chain[k]) - d], e.option)
  <1>1. PICK L : L = Len(chain[k]) /\ L \in Nat
    BY ChainAncestors
  <1>2. PICK m : m = L - d
    OBVIOUS
  <1>3. d \in 1..L
    BY <1>1 DEF ChainedAt
  <1>4. m \in 0..(L - 1) /\ L - m = d
    BY ONLY <1>1, <1>2, <1>3
  <1>5. m \in DOMAIN Ancestor(k) /\ Ancestor(k)[m] \in FileNames(k)
        /\ File(k, Ancestor(k)[m]) = chain[k][d]
    BY <1>1, <1>4, ChainAncestors
  <1>6. i \in DOMAIN Assignments(chain[k][d]) /\ e.option = Assignments(chain[k][d])[i].option
    BY DEF ChainedAt
  <1>7. Sets(k, Ancestor(k)[m], e.option)
    BY <1>5, <1>6 DEF Sets
  <1> QED BY <1>1, <1>2, <1>3, <1>4, <1>5, <1>7

\* An option that an ancestor sets has a nearest setter.
LEMMA NearestExists ==
  ASSUME LedgerInvariant, stage = "published", NEW k \in Kind, NEW o,
         NEW n \in DOMAIN Ancestor(k), Ancestor(k)[n] \in FileNames(k), Sets(k, Ancestor(k)[n], o)
  PROVE  NearestSetter(k, o) # {}
  <1>1. PICK a, L : a = Ancestor(k) /\ L = Len(chain[k]) /\ L \in Nat
    BY ChainAncestors
  <1>2. /\ \A m \in 0..(L - 1) : m \in DOMAIN a /\ a[m] \in FileNames(k)
        /\ \A m \in DOMAIN a : m \in Nat /\ (a[m] \in FileNames(k) => m < L)
    BY <1>1, ChainAncestors
  <1> DEFINE T == {m \in Nat : m < L /\ Sets(k, a[m], o)}
  <1>3. n \in T
    BY <1>1, <1>2
  <1>4. T \in SUBSET Nat
    OBVIOUS
  <1>5. PICK x \in T : \A y \in T : x <= y
    <2> HIDE DEF T
    <2> QED BY <1>3, <1>4, LeastNatural
  <1>6. x \in 0..(L - 1) /\ Sets(k, a[x], o)
    BY <1>1
  <1>7. \A m \in 0..(x - 1) : ~Sets(k, a[m], o)
    <2> SUFFICES ASSUME NEW m \in 0..(x - 1), Sets(k, a[m], o) PROVE FALSE
      OBVIOUS
    <2>1. m \in Nat /\ m < L /\ m < x
      BY ONLY <1>1, <1>6, m \in 0..(x - 1)
    <2>2. m \in T
      BY <2>1
    <2>3. x <= m
      BY <1>5, <2>2
    <2> QED BY ONLY <1>1, <1>6, <2>1, <2>3
  <1>8. x \in DOMAIN a /\ a[x] \in FileNames(k)
    BY <1>2, <1>6
  <1>9. x \in NearestSetter(k, o)
    BY ONLY <1>1, <1>6, <1>7, <1>8 DEF NearestSetter
  <1> QED BY <1>9

\* The nearest setter has an entry.
LEMMA SetterIsEntry ==
  ASSUME LedgerInvariant, stage = "published", NEW k \in Kind, NEW o, NEW n \in NearestSetter(k, o)
  PROVE  /\ n \in Nat /\ n < Len(chain[k])
         /\ File(k, Ancestor(k)[n]) = chain[k][Len(chain[k]) - n]
         /\ \E f \in Range(entries) : /\ f.option = o /\ f.precedence = 1
                                       /\ \E i : ChainedAt(k, Len(chain[k]) - n, i, f)
  <1>1. PICK a, L : a = Ancestor(k) /\ L = Len(chain[k]) /\ L \in Nat
    BY ChainAncestors
  <1>2. n \in DOMAIN a /\ a[n] \in FileNames(k) /\ Sets(k, a[n], o)
    BY <1>1 DEF NearestSetter
  <1>3. n \in Nat /\ n < L
    BY <1>1, <1>2, ChainAncestors
  <1>4. L - n \in 1..L /\ n \in 0..(L - 1)
    BY ONLY <1>1, <1>3
  <1>5. PICK d : d = L - n
    OBVIOUS
  <1>6. File(k, a[n]) = chain[k][d] /\ d \in DOMAIN chain[k]
    BY <1>1, <1>4, <1>5, ChainAncestors
  <1>7. PICK i \in DOMAIN Assignments(chain[k][d]) : Assignments(chain[k][d])[i].option = o
    BY <1>2, <1>6 DEF Sets
  <1>8. PICK f : f = PlacedEntry(k, chain[k][d], d, i)
    OBVIOUS
  <1>9. Ordered /\ stage \in Late
    BY DEF Ordered, Late
  <1>10. Fits(k) /\ IsChained(k, f)
    BY <1>6, <1>7, <1>8, <1>9, EntrySources DEF IsChained
  <1>11. f \in Range(entries)
    BY <1>9, <1>10, EntrySources
  <1>12. ChainedAt(k, d, i, f)
    BY <1>6, <1>7, <1>8, <1>9, <1>10, ChainedFacts
  <1>13. f.option = o /\ f.precedence = 1
    BY <1>7, <1>12 DEF ChainedAt
  <1> QED BY <1>1, <1>3, <1>5, <1>6, <1>11, <1>12, <1>13

\* The assignment of the nearest setter wins over the chain.
LEMMA ChainedWins ==
  ASSUME LedgerInvariant, stage = "published", NEW o \in Option, WinnerOf(o, winner[o]),
         winner[o] # NoEntry, NEW k \in Kind, NEW n \in NearestSetter(k, o),
         NEW c, NEW j, ChainedAt(k, c, j, winner[o])
  PROVE  \E i \in DOMAIN Assignments(File(k, Ancestor(k)[n])) :
            /\ Assignments(File(k, Ancestor(k)[n]))[i].option = o
            /\ Wins(o, Assignments(File(k, Ancestor(k)[n]))[i].value,
                    Assignments(File(k, Ancestor(k)[n]))[i].unset,
                    IF Assignments(File(k, Ancestor(k)[n]))[i].unset THEN "unset" ELSE k)
  <1>1. PICK a, L, w : a = Ancestor(k) /\ L = Len(chain[k]) /\ L \in Nat /\ w = winner[o]
    BY ChainAncestors
  <1>2. \A m \in 0..(n - 1) : ~Sets(k, a[m], o)
    BY <1>1 DEF NearestSetter
  <1>3. PICK d : d = L - n
    OBVIOUS
  <1>4. n \in Nat /\ n < L /\ File(k, a[n]) = chain[k][d]
    BY <1>1, <1>3, SetterIsEntry
  <1>5. PICK f \in Range(entries) : f.option = o /\ \E i : ChainedAt(k, d, i, f)
    BY <1>1, <1>3, SetterIsEntry
  <1>6. PICK i : ChainedAt(k, d, i, f)
    BY <1>5
  <1>7. stage \in Late
    BY DEF Late
  <1>8. w.option = o /\ ~EntryBefore(w, f)
    BY <1>1, <1>5 DEF WinnerOf
  <1>9. ChainedAt(k, c, j, w)
    BY <1>1
  <1>10. ~(c < d) /\ c \in Nat /\ d \in Nat
    BY <1>6, <1>7, <1>8, <1>9, ChainedOrder
  <1>11. ~(d < c)
    <2> SUFFICES ASSUME d < c PROVE FALSE
      OBVIOUS
    <2>1. c \in 1..L /\ L - c \in 0..(L - 1) /\ Sets(k, a[L - c], o)
      BY <1>1, <1>8, <1>9, ChainedSets
    <2>2. L - c \in 0..(n - 1)
      BY ONLY <1>1, <1>3, <1>4, <2>1, d < c
    <2> QED BY <1>2, <2>1, <2>2
  <1>12. c = d
    BY ONLY <1>10, <1>11
  <1>13. PICK list : list = Assignments(chain[k][d])
    OBVIOUS
  <1>14. /\ j \in DOMAIN list /\ w.option = list[j].option /\ w.value = list[j].value
         /\ w.unset = list[j].unset /\ w.origin = IF w.unset THEN "unset" ELSE k
    BY <1>9, <1>12, <1>13 DEF ChainedAt
  <1>15. Wins(o, list[j].value, list[j].unset, IF list[j].unset THEN "unset" ELSE k)
    BY <1>1, <1>14 DEF Wins
  <1>16. list = Assignments(File(k, Ancestor(k)[n])) /\ list[j].option = o
    BY <1>1, <1>4, <1>8, <1>13, <1>14
  <1> QED BY <1>14, <1>15, <1>16

\* What wins an option, by the sources that name it.
LEMMA WinnerByPrecedence ==
  ASSUME LedgerInvariant, stage = "published", NEW o \in Option, WinnerOf(o, winner[o])
  PROVE  LET w == winner[o] IN
         \/ w.precedence = 0 /\ IsDefault(w)
         \/ /\ w.precedence = 1 /\ input.options[o].domain \in Kind
            /\ \E d, i : ChainedAt(input.options[o].domain, d, i, w)
         \/ w.precedence = 2 /\ \E i : OverrideAt(input.transaction, "profile", 2, i, w)
         \/ w.precedence = 3 /\ \E i : OverrideAt(input.user, "user", 3, i, w)
  <1>1. PICK w : w = winner[o] /\ w \in Range(entries) /\ w.option = o
    BY DEF WinnerOf
  <1>2. Ordered
    BY PublishedWinner
  <1>3. w.precedence \in 0..3
    BY <1>1, <1>2, EntryKinds
  <1>4. CASE w.precedence = 0
    BY <1>1, <1>2, <1>4, EntryKinds
  <1>5. CASE w.precedence = 1
    <2>1. PICK k \in Kind : \E d \in DOMAIN chain[k] :
              \E i \in DOMAIN Assignments(chain[k][d]) : ChainedAt(k, d, i, w)
      BY <1>1, <1>2, <1>5, EntryKinds
    <2>2. PICK d, i : ChainedAt(k, d, i, w)
      BY <2>1
    <2>3. input.options[o].domain = k
      BY <1>1, <2>2 DEF ChainedAt
    <2> QED BY <1>1, <1>5, <2>2, <2>3
  <1>6. CASE w.precedence = 2
    BY <1>1, <1>2, <1>6, EntryKinds
  <1>7. CASE w.precedence = 3
    BY <1>1, <1>2, <1>7, EntryKinds
  <1> QED BY <1>3, <1>4, <1>5, <1>6, <1>7

LEMMA OverrideNamed ==
  ASSUME NEW list, NEW writer, NEW p, NEW i, NEW e, OverrideAt(list, writer, p, i, e)
  PROVE  Overrides(list, e.option) # {}
  BY DEF OverrideAt, Overrides

LEMMA InvariantImpliesWinner == LedgerInvariant => WinnerIsRight
  <1> SUFFICES ASSUME LedgerInvariant, stage = "published", NEW o \in Option
               PROVE  LET k == input.options[o].domain
                          setters == IF k \in Kind THEN NearestSetter(k, o) ELSE {}
                      IN  IF Overrides(input.user, o) # {}
                          THEN \A v \in Overrides(input.user, o) : Wins(o, v, FALSE, "user")
                          ELSE IF Overrides(input.transaction, o) # {}
                          THEN \A v \in Overrides(input.transaction, o) : Wins(o, v, FALSE, "profile")
                          ELSE IF setters # {}
                          THEN \E n \in setters :
                                  LET list == Assignments(File(k, Ancestor(k)[n])) IN
                                  \E i \in DOMAIN list :
                                      /\ list[i].option = o
                                      /\ Wins(o, list[i].value, list[i].unset,
                                              IF list[i].unset THEN "unset" ELSE k)
                          ELSE IF k # "computed" /\ input.options[o].default # None
                          THEN Wins(o, input.options[o].default, FALSE, "default")
                          ELSE winner[o] = NoEntry
    BY DEF WinnerIsRight
  <1> DEFINE k == input.options[o].domain
             w == winner[o]
             setters == IF k \in Kind THEN NearestSetter(k, o) ELSE {}
  <1>1. Ordered /\ stage \in Late
    BY PublishedWinner
  <1>2. Allowed(input.transaction, "profile") /\ Allowed(input.user, "user")
    BY <1>1, EntrySources
  <1>3. CASE Overrides(input.user, o) # {}
    <2>1. PICK i \in DOMAIN input.user : input.user[i].option = o
      BY <1>3 DEF Overrides
    <2>2. PICK f \in Range(entries) : OverrideAt(input.user, "user", 3, i, f)
      BY <1>1, OverrideIsEntry
    <2>3. f.option = o /\ f.precedence = 3
      BY <2>1, <2>2 DEF OverrideAt
    <2>4. w # NoEntry /\ WinnerOf(o, w)
      BY <2>3, PublishedWinner
    <2>5. w.precedence \in 0..3 /\ 3 <= w.precedence
      BY <1>1, <2>3, <2>4, WinnerIsHighest
    <2>6. PICK j : OverrideAt(input.user, "user", 3, j, w)
      BY <2>4, <2>5, WinnerByPrecedence
    <2>7. \A v \in Overrides(input.user, o) : Wins(o, v, FALSE, "user")
      BY <1>2, <2>4, <2>6, OverrideWins
    <2> QED BY <1>3, <2>7
  <1>4. CASE Overrides(input.user, o) = {} /\ Overrides(input.transaction, o) # {}
    <2>1. PICK i \in DOMAIN input.transaction : input.transaction[i].option = o
      BY <1>4 DEF Overrides
    <2>2. PICK f \in Range(entries) : OverrideAt(input.transaction, "profile", 2, i, f)
      BY <1>1, OverrideIsEntry
    <2>3. f.option = o /\ f.precedence = 2
      BY <2>1, <2>2 DEF OverrideAt
    <2>4. w # NoEntry /\ WinnerOf(o, w) /\ w.option = o
      BY <2>3, PublishedWinner DEF WinnerOf
    <2>5. w.precedence \in 0..3 /\ 2 <= w.precedence
      BY <1>1, <2>3, <2>4, WinnerIsHighest
    <2>6. ~\E j : OverrideAt(input.user, "user", 3, j, w)
      BY <1>4, <2>4, OverrideNamed
    <2>7. PICK j : OverrideAt(input.transaction, "profile", 2, j, w)
      BY <2>4, <2>5, <2>6, WinnerByPrecedence
    <2>8. \A v \in Overrides(input.transaction, o) : Wins(o, v, FALSE, "profile")
      BY <1>2, <2>4, <2>7, OverrideWins
    <2> QED BY <1>4, <2>8
  <1>5. ASSUME Overrides(input.user, o) = {}, Overrides(input.transaction, o) = {},
               WinnerOf(o, w)
        PROVE  \/ w.precedence = 0 /\ IsDefault(w)
               \/ /\ w.precedence = 1 /\ k \in Kind
                  /\ \E d, i : ChainedAt(k, d, i, w)
    <2>1. w.option = o
      BY <1>5 DEF WinnerOf
    <2>2. /\ ~\E j : OverrideAt(input.user, "user", 3, j, w)
          /\ ~\E j : OverrideAt(input.transaction, "profile", 2, j, w)
      BY <1>5, <2>1, OverrideNamed
    <2> QED BY <1>5, <2>2, WinnerByPrecedence
  <1>6. CASE Overrides(input.user, o) = {} /\ Overrides(input.transaction, o) = {} /\ setters # {}
    <2>1. k \in Kind /\ NearestSetter(k, o) # {} /\ setters = NearestSetter(k, o)
      BY <1>6
    <2>2. PICK n \in NearestSetter(k, o) : n \in setters
      BY <2>1
    <2>3. PICK f \in Range(entries) : f.option = o /\ f.precedence = 1
      BY <1>1, <2>1, <2>2, SetterIsEntry
    <2>4. w # NoEntry /\ WinnerOf(o, w)
      BY <2>3, PublishedWinner
    <2>5. w.precedence \in 0..3 /\ 1 <= w.precedence
      BY <1>1, <2>3, <2>4, WinnerIsHighest
    <2>6. PICK c, j : ChainedAt(k, c, j, w)
      BY <1>5, <1>6, <2>4, <2>5
    <2>7. \E i \in DOMAIN Assignments(File(k, Ancestor(k)[n])) :
            /\ Assignments(File(k, Ancestor(k)[n]))[i].option = o
            /\ Wins(o, Assignments(File(k, Ancestor(k)[n]))[i].value,
                    Assignments(File(k, Ancestor(k)[n]))[i].unset,
                    IF Assignments(File(k, Ancestor(k)[n]))[i].unset THEN "unset" ELSE k)
      BY <2>1, <2>2, <2>4, <2>6, ChainedWins
    <2> HIDE DEF k, setters
    <2>8. \E m \in setters :
            \E i \in DOMAIN Assignments(File(k, Ancestor(k)[m])) :
              /\ Assignments(File(k, Ancestor(k)[m]))[i].option = o
              /\ Wins(o, Assignments(File(k, Ancestor(k)[m]))[i].value,
                      Assignments(File(k, Ancestor(k)[m]))[i].unset,
                      IF Assignments(File(k, Ancestor(k)[m]))[i].unset THEN "unset" ELSE k)
      BY ONLY <2>2, <2>7
    <2> USE DEF k, setters
    <2> QED BY <1>6, <2>8
  <1>7. CASE Overrides(input.user, o) = {} /\ Overrides(input.transaction, o) = {} /\ setters = {}
    <2>1. ASSUME WinnerOf(o, w) PROVE IsDefault(w)
      <3> SUFFICES ASSUME k \in Kind, NEW d, NEW i, ChainedAt(k, d, i, w) PROVE FALSE
        BY <1>5, <1>7, <2>1
      <3>1. w.option = o
        BY <2>1 DEF WinnerOf
      <3>2. PICK n \in DOMAIN Ancestor(k) : Ancestor(k)[n] \in FileNames(k) /\ Sets(k, Ancestor(k)[n], o)
        BY <3>1, ChainedSets
      <3>3. NearestSetter(k, o) # {}
        BY <3>2, NearestExists
      <3> QED BY <1>7, <3>3
    <2>2. ASSUME WinnerOf(o, w)
          PROVE  /\ k # "computed" /\ input.options[o].default # None
                 /\ w.value = input.options[o].default /\ w.unset = FALSE /\ w.origin = "default"
      <3>1. IsDefault(w) /\ w.option = o
        BY <2>1, <2>2 DEF WinnerOf
      <3>2. PICK i \in DOMAIN Symbols :
                /\ HasDefault(i) /\ w.option = Symbols[i]
                /\ w.value = input.options[w.option].default /\ w.unset = FALSE /\ w.origin = "default"
        BY <3>1, DefaultFacts
      <3> QED BY <3>1, <3>2 DEF HasDefault
    <2>3. CASE k # "computed" /\ input.options[o].default # None
      <3>1. PICK i \in DOMAIN Symbols : Symbols[i] = o
        BY DEF Option, Range
      <3>2. PICK f : f = DefaultEntry(i)
        OBVIOUS
      <3>3. IsDefault(f)
        BY <2>3, <3>1, <3>2 DEF IsDefault, HasDefault
      <3>4. f \in Range(entries) /\ f.option = o
        <4>1. f.option = Symbols[i]
          BY ONLY <3>2 DEF DefaultEntry, Entry
        <4> QED BY <1>1, <3>1, <3>3, <4>1, EntrySources
      <3>5. w # NoEntry /\ WinnerOf(o, w)
        BY <3>4, PublishedWinner
      <3>6. Wins(o, input.options[o].default, FALSE, "default")
        BY <2>2, <3>5 DEF Wins
      <3> QED BY <1>7, <2>3, <3>6
    <2>4. CASE ~(k # "computed" /\ input.options[o].default # None)
      <3>1. winner[o] = NoEntry
        BY <2>2, <2>4, PublishedWinner
      <3> QED BY <1>7, <2>4, <3>1
    <2> QED BY <2>3, <2>4
  <1> QED BY <1>3, <1>4, <1>6, <1>7

LEMMA InvariantImpliesOwners == LedgerInvariant => OwnersOnly
  <1> SUFFICES ASSUME LedgerInvariant, stage = "published", NEW o \in Option, winner[o] # NoEntry
               PROVE  /\ input.options[o].domain # "computed"
                      /\ winner[o].origin \in Kind => winner[o].origin = input.options[o].domain
                      /\ winner[o].origin = "user" =>
                            input.options[o].user_override /\ input.options[o].domain \in Kind
                      /\ winner[o].unset =>
                            ~input.options[o].required /\ input.options[o].domain \in Kind
    BY DEF OwnersOnly
  <1>1. WinnerOf(o, winner[o])
    BY PublishedWinner
  <1>2. PICK w, k : w = winner[o] /\ k = input.options[o].domain /\ w.option = o
    BY <1>1 DEF WinnerOf
  <1>3. {"computed", "user", "default", "unset"} \cap Kind = {} /\ "profile" \in Kind
    BY DEF Kind
  <1>4. CASE IsDefault(w)
    <2>1. PICK i \in DOMAIN Symbols : /\ HasDefault(i) /\ w.option = Symbols[i]
                                      /\ w.unset = FALSE /\ w.origin = "default"
      BY <1>4, DefaultFacts
    <2>2. k # "computed"
      BY <1>2, <2>1 DEF HasDefault
    <2> QED BY <1>2, <1>3, <2>1, <2>2
  <1>5. CASE k \in Kind /\ \E d, i : ChainedAt(k, d, i, w)
    <2>1. PICK d, i : ChainedAt(k, d, i, w)
      BY <1>5
    <2>2. w.unset => ~input.options[o].required
      BY <1>2, <2>1 DEF ChainedAt
    <2>3. w.origin = IF w.unset THEN "unset" ELSE k
      BY <2>1 DEF ChainedAt
    <2>4. w.origin = "unset" \/ w.origin = k
      BY <2>3
    <2> QED BY <1>2, <1>3, <1>5, <2>2, <2>4
  <1>6. CASE \E i : OverrideAt(input.transaction, "profile", 2, i, w)
    <2>1. k = "profile" /\ w.unset = FALSE /\ w.origin = "profile"
      BY <1>2, <1>3, <1>6 DEF OverrideAt
    <2> QED BY <1>2, <1>3, <2>1
  <1>7. CASE \E i : OverrideAt(input.user, "user", 3, i, w)
    <2>1. k \in Kind /\ input.options[o].user_override /\ w.unset = FALSE /\ w.origin = "user"
      BY <1>2, <1>3, <1>7 DEF OverrideAt
    <2> QED BY <1>2, <1>3, <2>1
  <1>8. IsDefault(w) \/ (k \in Kind /\ \E d, i : ChainedAt(k, d, i, w))
        \/ (\E i : OverrideAt(input.transaction, "profile", 2, i, w))
        \/ (\E i : OverrideAt(input.user, "user", 3, i, w))
    BY <1>1, <1>2, WinnerByPrecedence
  <1> QED BY <1>4, <1>5, <1>6, <1>7, <1>8

LEMMA InvariantImpliesSelection == LedgerInvariant => SelectionIsRight
  <1> SUFFICES ASSUME LedgerInvariant PROVE SelectionIsRight
    OBVIOUS
  <1>1. CASE stage = "failed"
    <2>1. stage # "published" /\ Excused
      BY <1>1 DEF LedgerInvariant
    <2> QED BY <2>1 DEF SelectionIsRight, ChainsAreRight, TargetIsRight, Excused
  <1>2. CASE stage # "failed"
    <2>1. Running /\ error = None
      BY <1>2 DEF LedgerInvariant, Running
    <2>2. error # "cycle" /\ error # "unknown_name"
      BY <2>1 DEF None
    <2>3. ASSUME stage = "published", NEW k \in Kind
          PROVE  LET a == Ancestor(k)
                     length == Len(chain[k])
                 IN  /\ \A d \in 1..length : chain[k][d].name = a[length - d]
                     /\ length \in DOMAIN a => a[length] = None
      <3>1. ChainRight(k)
        BY <2>1, <2>3 DEF Running, Chains, Kind, Late
      <3> QED BY <3>1 DEF ChainRight
    <2>4. ChainsAreRight
      BY <2>2, <2>3 DEF ChainsAreRight
    <2>5. TargetIsRight
      <3> SUFFICES ASSUME stage = "published"
                   PROVE  LET named == {chain["profile"][d].target :
                                            d \in DOMAIN chain["profile"]} \ {None}
                          IN  IF input.target_name # None THEN target = input.target_name
                              ELSE IF named # {} THEN named = {target}
                              ELSE target = input.default_target
        BY DEF TargetIsRight
      <3>1. stage \in Late /\ "profile" \in Kind
        BY DEF Late, Kind
      <3>2. PICK c, n : c = chain["profile"] /\ n = Len(c) /\ n \in Nat /\ DOMAIN c = 1..n
        BY <3>1, ChainWritten
      <3>3. target = IF input.target_name # None THEN input.target_name
                     ELSE IF c # << >> /\ Last(c).target # None THEN Last(c).target
                     ELSE input.default_target
        BY <2>1, <3>1, <3>2 DEF Running, TargetChosen
      <3>4. \A d \in 1..n : d # n => c[d].target = None
        BY <2>1, <3>2 DEF Running, Chains
      <3>5. Last(c) = c[n]
        BY <3>2 DEF Last
      <3> DEFINE named == {c[d].target : d \in DOMAIN c} \ {None}
      <3>6. CASE input.target_name # None
        BY <3>3, <3>6
      <3>7. CASE input.target_name = None /\ c # << >> /\ c[n].target # None
        <4>1. n \in DOMAIN c
          <5>1. n # 0
            <6>1. c \in Seq(Range(input.files["profile"]))
              BY <3>1, <3>2, ChainWritten DEF ChainRight
            <6>2. Len(c) = 0 => c = << >>
              BY ONLY <6>1
            <6> QED BY ONLY <3>2, <3>7, <6>2
          <5> QED BY ONLY <3>2, <5>1
        <4>2. named = {c[n].target}
          BY <3>2, <3>4, <3>7, <4>1
        <4>3. target = c[n].target
          BY <3>3, <3>5, <3>7
        <4>4. named # {} /\ named = {target}
          BY ONLY <4>2, <4>3
        <4> HIDE DEF named
        <4>5. IF input.target_name # None THEN target = input.target_name
              ELSE IF named # {} THEN named = {target}
              ELSE target = input.default_target
          BY ONLY <3>7, <4>4
        <4> USE DEF named
        <4> QED BY ONLY <3>2, <4>5
      <3>8. CASE input.target_name = None /\ ~(c # << >> /\ c[n].target # None)
        <4>1. named = {}
          <5>1. CASE c = << >>
            BY <5>1
          <5>2. CASE c[n].target = None
            BY <3>2, <3>4, <5>2
          <5> QED BY <3>8, <5>1, <5>2
        <4> QED BY <3>2, <3>3, <3>5, <3>8, <4>1
      <3> QED BY <3>6, <3>7, <3>8
    <2> QED BY <2>4, <2>5 DEF SelectionIsRight
  <1> QED BY <1>1, <1>2

LEMMA InvariantImpliesPossible == LedgerInvariant => NoImpossibleError
  <1> SUFFICES ASSUME LedgerInvariant PROVE NoImpossibleError
    OBVIOUS
  <1>1. error \notin {"chain_internal", "ambiguous"}
    BY DEF LedgerInvariant, Running, Excused, None
  <1>2. ASSUME stage \in {"winners", "published"}, NEW i \in DOMAIN entries, NEW j \in DOMAIN entries,
               entries[i].option = entries[j].option,
               entries[i].precedence = entries[j].precedence,
               entries[i].order = entries[j].order
        PROVE  entries[i] = entries[j]
    <2>1. entries[i] \in Range(entries) /\ entries[j] \in Range(entries) /\ Ordered
      BY <1>2 DEF Range, Ordered
    <2> QED BY <1>2, <2>1, KeyDetermines
  <1> QED BY <1>1, <1>2 DEF NoImpossibleError

\* confit_v2_ledger_mark_winners gives every option the entry of the source that
\* decides: the command line, else the transaction, else the nearest document
\* of the inheritance chain that names it, else the schema.
THEOREM WinnerHolds == Spec => []WinnerIsRight
  BY LedgerInvariantHolds, InvariantImpliesWinner, PTL

\* No option is won by a writer that confit_v2_linked_project_validate_write
\* should have refused, and no required option is won by an [unset].
THEOREM OwnersHold == Spec => []OwnersOnly
  BY LedgerInvariantHolds, InvariantImpliesOwners, PTL

\* confit_v2_input_catalog_build_chain publishes exactly the ancestry of the leaf
\* and reports a cycle or an unknown name only where there is one; the target is
\* the one that the command line, the profile or the project names.
THEOREM SelectionHolds == Spec => []SelectionIsRight
  BY LedgerInvariantHolds, InvariantImpliesSelection, PTL

\* The two internal-error returns of the build are dead code, and the keys that
\* confit_v2_ledger_entry_compare sorts by tell all entries of an option apart.
THEOREM ImpossibleErrorsHold == Spec => []NoImpossibleError
  BY LedgerInvariantHolds, InvariantImpliesPossible, PTL
=============================================================================
