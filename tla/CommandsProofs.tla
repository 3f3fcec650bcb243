--------------------------- MODULE CommandsProofs ---------------------------
(***************************************************************************)
(* For every set of processes, every choice of commands and every tree:    *)
(* a profile command that reports success stored what it was asked to      *)
(* store and left a project that loads and resolves; a gen that reports    *)
(* success wrote its artifacts from one set of resolved values, whatever   *)
(* the build selections are named; and no file is overwritten without      *)
(* --force unless it was there and could not be read.  Other processes run *)
(* their commands in between and any of them may die at any point.  Then,  *)
(* for every input of the compat command: the suite that is checked is     *)
(* that of the source, the first failure is named, and a report is         *)
(* explained by the values its references name.                            *)
(***************************************************************************)
EXTENDS Commands, Compat, InductionLemmas, SequenceTheorems

Labels == {"idle", "load", "read", "edit", "validate", "resolve", "inputs", "reread",
           "check", "where", "generate", "open", "write"}
Results == {"none", "ok", "refused", "failed", "crashed"}

\* Of the files, only what the profiles say has a type: an artifact is
\* compared as a whole.
Files(s) == s = [n \in Names |-> s[n]] /\ \A n \in Names : ProfileFile(s[n])

\* The commands, each with a list of files it may be there to write.
Given ==
    /\ DOMAIN job = Procs /\ DOMAIN version = Procs /\ DOMAIN wanted = Procs
    /\ \A p \in Procs : job[p] \in Jobs[p] =>
        version[p] \in Versions /\ wanted[p] \in Wanted(job[p], version[p])

Typed ==
    /\ DOMAIN fs = Path
    /\ \A n \in Names : ProfileFile(fs[n])
    /\ pc \in [Procs -> Labels]
    /\ result \in [Procs -> Results]
    /\ unread \in [Procs -> SUBSET Names]
    /\ DOMAIN seen = Procs /\ \A p \in Procs : Files(seen[p])
    /\ Given
    /\ DOMAIN project = Procs /\ DOMAIN inputs = Procs /\ DOMAIN missed = Procs
    /\ DOMAIN config = Procs /\ DOMAIN todo = Procs

\* Which command a process can be running where it is.
Place(p) ==
    /\ job[p] \in Jobs[p] \/ (pc[p] = "idle" /\ job[p].cmd = "none")
    /\ pc[p] \in {"load", "read"} => job[p].cmd # "init"
    /\ pc[p] = "edit" => ProfileCommand(job[p])
    /\ pc[p] = "validate" => Edits(p)
    /\ pc[p] \in {"resolve", "inputs", "reread"} => Generating(job[p])
    /\ pc[p] = "where" => job[p].cmd = "migrate"
    /\ pc[p] = "check" => job[p].cmd \in {"gen", "init"}
    /\ pc[p] = "generate" => job[p].cmd \in {"gen", "init", "migrate"}
    /\ pc[p] \in {"open", "write"} => job[p].cmd # "validate"

\* The profile a command makes of the ones it read, when it allows it.
Before(p) == View(seen[p])
EditOf(p) ==
    LET j == job[p] IN
    CASE j.cmd = "new"   -> Profile(j.profile, j.base, <<>>)
      [] j.cmd = "set"   -> SetValue(Before(p)[j.profile], j.option, j.value)
      [] j.cmd = "unset" -> UnsetValue(Before(p)[j.profile], j.option)
Permitted(p) ==
    LET j == job[p] IN
    /\ Loadable(seen[p])
    /\ j.cmd = "new" => j.base # j.profile /\ (j.base # None => j.base \in DOMAIN Before(p))
    /\ j.cmd # "new" => j.profile \in DOMAIN Before(p)
    /\ j.cmd = "set" => j.option \in Options
    /\ j.cmd = "unset" => ValueIndex(Before(p)[j.profile], j.option) # 0
After(p) == With(Before(p), EditOf(p))

\* The texts the profile may be stored as.
Asked(p) == {[EditOf(p) EXCEPT !.values = v] : v \in Sorted(EditOf(p).values)}
Approved(p) == Permitted(p) /\ Resolves(After(p), job[p].profile)

\* The profile files are the ones the command read, but for its own.
Elsewhere(p) == \A n \in Names \ {job[p].profile} : fs[n] = seen[p][n]

\* A file that new may only create, unless it was there and was not seen.
Fresh(p) ==
    /\ job[p].cmd = "new" /\ ~job[p].force /\ Alone(p, {job[p].profile})
    /\ job[p].profile \notin missed[p]

Reading(p) ==
    /\ pc[p] = "read" /\ Alone(p, Names) =>
        \A n \in Names \ unread[p] : seen[p][n] = fs[n]
    /\ pc[p] \in {"edit", "resolve"} => Loadable(seen[p]) /\ project[p] = Before(p)
    /\ pc[p] = "edit" /\ Alone(p, Names) => \A n \in Names : fs[n] = seen[p][n]

Validating(p) == pc[p] = "validate" =>
    /\ Permitted(p) /\ project[p] = After(p)
    /\ Alone(p, Names) => \A n \in Names : fs[n] = seen[p][n]
    /\ Fresh(p) => fs[job[p].profile] = Absent

Storing(p) == pc[p] \in {"open", "write"} /\ Edits(p) =>
    /\ Approved(p)
    /\ Alone(p, Names) => Elsewhere(p)
    /\ \E t \in Asked(p) :
        \/ /\ todo[p] = <<[path |-> job[p].profile, text |-> t]>>
           /\ Fresh(p) => fs[job[p].profile] = IF pc[p] = "write" THEN Empty ELSE Absent
        \/ /\ pc[p] = "open" /\ todo[p] = <<>>
           /\ Alone(p, Names) => fs[job[p].profile] = t

Stored(p) == Succeeded(p) /\ Edits(p) =>
    /\ Approved(p)
    /\ Alone(p, Names) => Elsewhere(p) /\ fs[job[p].profile] \in Asked(p)

Resolved(p) ==
    Generating(job[p]) /\ (\/ pc[p] \in {"inputs", "reread", "check", "generate", "open", "write"}
                           \/ Succeeded(p)) =>
        /\ Resolves(Before(p), job[p].profile)
        /\ config[p] = Effective(Before(p), job[p].profile)

\* What is left to write once the first k files are written.
Rest(p, k) == [i \in 1..(Len(wanted[p]) - k) |-> Artifact(p, wanted[p][k + i])]

PathOf(p, i) == wanted[p][i].path
TextOf(p, i) == Artifact(p, wanted[p][i]).text

\* A file that is written and not again at the same path.
Done(p, k) == \A i \in 1..k :
    /\ Alone(p, {PathOf(p, i)})
    /\ \A m \in (i + 1)..k : PathOf(p, m) # PathOf(p, i)
    /\ pc[p] = "write" => PathOf(p, k + 1) # PathOf(p, i)
    => fs[PathOf(p, i)] = TextOf(p, i)

\* The files that gen of version 1 and init may only create.
Guarded(p) == ~Atomic(p) /\ ~job[p].force
Ahead(p, k) == \A i \in (k + 1)..Len(wanted[p]) :
    /\ Guarded(p) /\ Alone(p, {PathOf(p, i)}) /\ PathOf(p, i) \notin missed[p]
    /\ \A m \in 1..k : PathOf(p, m) # PathOf(p, i)
    => fs[PathOf(p, i)] =
         IF pc[p] = "write" /\ PathOf(p, i) = PathOf(p, k + 1) THEN Empty ELSE Absent

Checked(p) == pc[p] = "generate" /\ ~job[p].dry => Ahead(p, 0)

Writing(p) == pc[p] \in {"open", "write"} /\ ~Edits(p) =>
    \E k \in 0..Len(wanted[p]) :
        /\ todo[p] = Rest(p, k)
        /\ pc[p] = "write" => k # Len(wanted[p])
        /\ Done(p, k) /\ Ahead(p, k)

Written(p) == Succeeded(p) /\ Generating(job[p]) /\ ~job[p].dry => Done(p, Len(wanted[p]))

Local(p) ==
    /\ Place(p) /\ Reading(p) /\ Validating(p) /\ Storing(p) /\ Stored(p)
    /\ Resolved(p) /\ Checked(p) /\ Writing(p) /\ Written(p)

CommandInvariant == Typed /\ \A p \in Procs : Local(p)

-----------------------------------------------------------------------------
\* What the argument parsers leave in a command.
LEMMA JobFacts ==
  ASSUME NEW p \in Procs, NEW j \in Jobs[p]
  PROVE  /\ j.cmd \in {"new", "set", "unset", "validate", "gen", "init", "migrate"}
         /\ ProfileCommand(j) => j.profile \in Names
         /\ j.cmd = "new" => j.base \in Names \cup {None} /\ j.force \in BOOLEAN
         /\ j.cmd = "set" => j.value \in {"0", "1"}
         /\ j.cmd = "gen" => /\ j.profile \in Names
                             /\ j.force \in BOOLEAN /\ j.dry \in BOOLEAN
         /\ j.cmd = "init" => j.force \in BOOLEAN /\ j.dry \in BOOLEAN
         /\ j.cmd = "migrate" => j.dry = FALSE /\ j.out.inside \in BOOLEAN
  <1>1. j \in ProfileJobs \/ j \in GenJobs \/ j \in InitJobs \/ j \in MigrateJobs
    BY JobsAssumption
  <1>2. CASE j \in ProfileJobs
    BY <1>2 DEF ProfileJobs, ProfileCommand
  <1>3. CASE j \in GenJobs
    BY <1>3 DEF GenJobs, ProfileCommand
  <1>4. CASE j \in InitJobs
    BY <1>4 DEF InitJobs, ProfileCommand
  <1>5. CASE j \in MigrateJobs
    BY <1>5 DEF MigrateJobs, ProfileCommand
  <1> QED BY <1>1, <1>2, <1>3, <1>4, <1>5

Listed == [artifact : STRING, path : STRING]

\* The lists of files come from Outputs.
LEMMA OutputFacts ==
  ASSUME NEW c \in Commands, NEW list \in Outputs[c]
  PROVE  /\ list \in Seq(Listed)
         /\ \A entry \in Range(list) : entry.path \in Path
         /\ \A i \in 1..Len(list) : list[i] \in Range(list)
         /\ \A entry \in Range(list) : \E i \in 1..Len(list) : entry = list[i]
  <1>1. list \in Lists
    BY DEF Lists
  <1>2. list \in Seq(Listed)
    BY <1>1, OutputsAssumption DEF Listed
  <1>3. DOMAIN list = 1..Len(list)
    BY <1>2
  <1>4. Paths(list) \subseteq Path
    BY <1>1 DEF Path
  <1>5. \A entry \in Range(list) : entry.path \in Path
    BY <1>4 DEF Paths
  <1> QED BY <1>2, <1>3, <1>5 DEF Range

\* The selected artifacts are artifacts of the list.
LEMMA SelectedFacts ==
  ASSUME NEW list \in Seq(Listed), NEW a
  PROVE  Selected(list, a) \in Seq(Range(list))
  <1>1. /\ Len(list) \in Nat
        /\ \A i \in 1..Len(list) : list[i] \in Range(list)
    BY DEF Range
  <1>2. PICK N, R : N = Len(list) /\ R = Range(list)
    OBVIOUS
  <1>3. N \in Nat /\ \A i \in 1..N : list[i] \in R
    BY <1>1, <1>2
  <1> DEFINE Grown(s, i) == IF list[i].artifact \in a THEN Append(s, list[i]) ELSE s
             T == Seq(R)
             G == [x \in T \X (1..N) |-> Grown(x[1], x[2])]
             Body(f) == [i \in 0..N |-> IF i = 0 THEN <<>> ELSE Grown(f[i - 1], i)]
             Solution == CHOOSE f : f = Body(f)
  <1>4. \A s \in T, i \in 1..N : Grown(s, i) \in T
    BY <1>3
  <1>5. G \in [T \X (1..N) -> T] /\ <<>> \in T
    <2>1. <<>> \in T
      OBVIOUS
    <2> HIDE DEF T, Grown
    <2> QED BY <1>4, <2>1
  <1>6. PICK f : Recursion(f, N, T, <<>>, G)
    <2> HIDE DEF G, T
    <2> QED BY ONLY <1>3, <1>5, RecursionTo
  <1>7. \A n \in 1..N : f[n] = Grown(f[n - 1], n)
    <2> SUFFICES ASSUME NEW n \in 1..N PROVE f[n] = Grown(f[n - 1], n)
      OBVIOUS
    <2>1. n - 1 \in 0..N
      BY <1>3
    <2> HIDE DEF T, Grown
    <2>2. <<f[n - 1], n>> \in T \X (1..N)
      BY <1>6, <2>1 DEF Recursion
    <2> QED BY <1>6, <2>2 DEF Recursion
  <1>8. f = Body(f)
    <2> HIDE DEF T, Grown
    <2> QED BY <1>3, <1>6, <1>7 DEF Recursion
  <1>9. Solution = Body(Solution)
    <2> HIDE DEF Body
    <2> QED BY <1>8
  <1>10. Selected(list, a) = Solution[N]
    BY <1>2 DEF Selected
  <1> HIDE DEF Solution
  <1> DEFINE Good == {n \in Nat : n \in 0..N => Solution[n] \in T}
  <1>11. 0 \in Good
    <2>1. Solution[0] = <<>>
      BY <1>3, <1>9
    <2> QED BY <1>5, <2>1
  <1>12. ASSUME NEW n \in Nat, n \in Good PROVE n + 1 \in Good
    <2> SUFFICES ASSUME n + 1 \in 0..N PROVE Solution[n + 1] \in T
      OBVIOUS
    <2>1. n \in 0..N /\ n + 1 \in 1..N /\ (n + 1) - 1 = n
      BY <1>3
    <2>2. Solution[n + 1] = Grown(Solution[n], n + 1)
      <3> HIDE DEF Grown
      <3> QED BY <1>9, <2>1
    <2> HIDE DEF T, Grown
    <2> QED BY <1>4, <1>12, <2>1, <2>2
  <1>13. Nat \subseteq Good
    <2> HIDE DEF Good
    <2> QED BY <1>11, <1>12, Induction
  <1>14. Solution[N] \in T
    <2> HIDE DEF T
    <2> QED BY <1>3, <1>13
  <1> QED BY <1>2, <1>10, <1>14

\* The files gen, init and migrate write.
LEMMA WantedFacts ==
  ASSUME Typed, NEW p \in Procs, job[p] \in Jobs[p],
         job[p].cmd \in {"gen", "init", "migrate"}
  PROVE  /\ wanted[p] \in Seq(Listed)
         /\ \A i \in 1..Len(wanted[p]) :
              /\ PathOf(p, i) \in Path /\ PathOf(p, i) \in Targets(job[p])
              /\ job[p].cmd = "init" /\ PathOf(p, i) \in Names =>
                    Defaults[wanted[p][i].artifact] \in Profiles
  <1>1. PICK j, v, w : j = job[p] /\ v = version[p] /\ w = wanted[p]
    OBVIOUS
  <1>2. v \in Versions /\ w \in Wanted(j, v)
    BY <1>1 DEF Typed, Given
  <1>3. ASSUME NEW c \in Commands, NEW list \in Outputs[c]
        PROVE  /\ list \in Seq(Listed)
               /\ \A i \in 1..Len(list) : list[i] \in Range(list) /\ list[i].path \in Path
    BY OutputFacts
  <1>4. /\ w \in Seq(Listed) /\ \A i \in 1..Len(w) : w[i].path \in Path
        /\ j.cmd = "init" => w \in Outputs["init"]
    <2>1. CASE j.cmd = "gen" /\ v = 1
      <3>1. PICK list \in Outputs["gen1"] : w = Selected(list, j.artifacts)
        BY <1>2, <2>1 DEF Wanted
      <3>2. "gen1" \in Commands
        BY DEF Commands
      <3>3. /\ list \in Seq(Listed) /\ \A entry \in Range(list) : entry.path \in Path
            /\ \A entry \in Range(list) : \E i \in 1..Len(list) : entry = list[i]
        BY <3>1, <3>2, OutputFacts
      <3>4. w \in Seq(Range(list))
        BY <3>1, <3>3, SelectedFacts
      <3>5. Range(list) \subseteq Listed
        BY <3>3
      <3>6. w \in Seq(Listed) /\ \A i \in 1..Len(w) : w[i] \in Range(list)
        <4>1. PICK R : R = Range(list)
          OBVIOUS
        <4> QED BY ONLY <3>4, <3>5, <4>1
      <3> QED BY <2>1, <3>3, <3>6
    <2>2. CASE j.cmd = "gen" /\ v # 1
      <3>1. w \in Outputs["gen2"] /\ "gen2" \in Commands
        BY <1>2, <2>2 DEF Wanted, Commands
      <3> QED BY <1>3, <2>2, <3>1
    <2>3. CASE j.cmd = "init"
      <3>1. w \in Outputs["init"] /\ "init" \in Commands
        BY <1>2, <2>3 DEF Wanted, Commands
      <3> QED BY <1>3, <3>1
    <2>4. CASE j.cmd = "migrate"
      <3>1. PICK c \in {"inside", "outside"} : w \in Outputs[c]
        BY <1>2, <2>4 DEF Wanted
      <3>2. c \in Commands
        BY DEF Commands
      <3> QED BY <1>3, <2>4, <3>1, <3>2
    <2> QED BY <1>1, <2>1, <2>2, <2>3, <2>4
  <1>5. ASSUME NEW i \in 1..Len(w)
        PROVE  /\ w[i].path \in Targets(j)
               /\ j.cmd = "init" /\ w[i].path \in Names => Defaults[w[i].artifact] \in Profiles
    <2>1. w[i] \in Range(w)
      BY <1>4 DEF Range
    <2>2. w[i].path \in Paths(w)
      BY <2>1 DEF Paths
    <2>3. j.cmd \notin {"new", "set", "unset"}
      BY <1>1
    <2>4. w[i].path \in Targets(j)
      BY <1>2, <2>2, <2>3 DEF Targets
    <2> QED BY <1>4, <2>1, <2>4, DefaultsAssumption
  <1> QED BY <1>1, <1>4, <1>5 DEF PathOf

\* The files still to be written, as a list.
LEMMA RestFacts ==
  ASSUME NEW p, NEW n \in Nat, n = Len(wanted[p]), NEW k \in 0..n
  PROVE  /\ k = n => Rest(p, k) = <<>>
         /\ k # n => /\ Rest(p, k) # <<>>
                     /\ Head(Rest(p, k)) = Artifact(p, wanted[p][k + 1])
                     /\ Tail(Rest(p, k)) = Rest(p, k + 1)
  <1>1. PICK a : a = [i \in 1..n |-> Artifact(p, wanted[p][i])]
    OBVIOUS
  <1>2. PICK S : S = {a[i] : i \in 1..n}
    OBVIOUS
  <1>3. \A i \in 1..n : a[i] \in S /\ a[i] = Artifact(p, wanted[p][i])
    BY <1>1, <1>2
  <1>4. ASSUME NEW j \in 0..n
        PROVE  Rest(p, j) = [i \in 1..(n - j) |-> a[j + i]] /\ Rest(p, j) \in Seq(S)
    <2>1. \A i \in 1..(n - j) : j + i \in 1..n
      BY <1>4
    <2>2. PICK d : d = n - j /\ d \in Nat
      BY <1>4
    <2>3. Rest(p, j) = [i \in 1..d |-> a[j + i]]
      BY <1>3, <2>1, <2>2 DEF Rest
    <2>4. Rest(p, j) \in [1..d -> S]
      BY ONLY <1>3, <2>1, <2>2, <2>3
    <2>5. Rest(p, j) \in Seq(S)
      BY ONLY <2>2, <2>4
    <2> QED BY ONLY <2>2, <2>3, <2>5
  <1>5. PICK r, m : r = Rest(p, k) /\ m = n - k
    OBVIOUS
  <1>6. m \in Nat /\ r = [i \in 1..m |-> a[k + i]] /\ r \in Seq(S) /\ Len(r) = m
    BY <1>4, <1>5
  <1>7. CASE k = n
    BY <1>5, <1>6, <1>7
  <1>8. CASE k # n
    <2>1. k + 1 \in 0..n /\ k + 1 \in 1..n /\ m # 0 /\ n - (k + 1) = m - 1 /\ m - 1 \in Nat
      BY <1>5, <1>6, <1>8
    <2>2. r # <<>> /\ Head(r) = r[1] /\ r[1] = a[k + 1]
      <3>1. 1 \in 1..m
        BY ONLY <1>6, <2>1
      <3> QED BY ONLY <1>6, <2>1, <3>1
    <2>3. PICK q : q = Rest(p, k + 1)
      OBVIOUS
    <2>4. PICK d : d = m - 1 /\ d \in Nat /\ d + 1 = m /\ n - (k + 1) = d
      BY <1>6, <2>1
    <2>5. q = [i \in 1..d |-> a[(k + 1) + i]] /\ q \in Seq(S)
      <3>1. q = [i \in 1..(n - (k + 1)) |-> a[(k + 1) + i]] /\ q \in Seq(S)
        BY <1>4, <2>1, <2>3
      <3> QED BY ONLY <2>4, <3>1
    <2>6. Len(q) = d /\ DOMAIN q = 1..d
      BY ONLY <2>4, <2>5
    <2>7. Tail(r) \in Seq(S) /\ Len(Tail(r)) = d /\ DOMAIN Tail(r) = 1..d
      <3>1. Tail(r) \in Seq(S) /\ Len(Tail(r)) = Len(r) - 1
        BY ONLY <1>6, <2>2, HeadTailProperties
      <3>2. Len(Tail(r)) = d
        BY ONLY <1>6, <2>4, <3>1
      <3> QED BY ONLY <3>1, <3>2, LenProperties
    <2>8. \A i \in 1..d : Tail(r)[i] = q[i]
      <3> SUFFICES ASSUME NEW i \in 1..d PROVE Tail(r)[i] = q[i]
        OBVIOUS
      <3>1. i + 1 \in 1..m /\ k + (i + 1) = (k + 1) + i
        BY <1>6, <2>4
      <3>2. Tail(r)[i] = r[i + 1]
        BY ONLY <1>6, <2>2, <2>7, HeadTailProperties, i \in 1..d
      <3> QED BY ONLY <1>6, <2>5, <3>1, <3>2, i \in 1..d
    <2>9. Tail(r) = q
      BY ONLY <2>5, <2>6, <2>7, <2>8, SeqEqual
    <2> QED BY <1>3, <1>5, <1>8, <2>1, <2>2, <2>3, <2>9
  <1> QED BY <1>7, <1>8

\* A sequence is its length and its members.
LEMMA ListFacts ==
  ASSUME NEW S, NEW s, s \in Seq(S)
  PROVE  /\ Len(s) \in Nat /\ DOMAIN s = 1..Len(s)
         /\ \A i \in 1..Len(s) : s[i] \in S
  OBVIOUS

-----------------------------------------------------------------------------
\* The values of a profile.

Value == {"0", "1"}
Values == Seq(Options \X Value)
Entry(s, o, w) == \E i \in 1..Len(s) : s[i] = <<o, w>>
Once(s) == \A i, j \in 1..Len(s) : s[i][1] = s[j][1] => i = j

LEMMA ValuesFacts ==
  ASSUME NEW s \in Values
  PROVE  /\ Len(s) \in Nat /\ DOMAIN s = 1..Len(s)
         /\ \A i \in 1..Len(s) : /\ s[i][1] \in Options /\ s[i][2] \in Value
                                 /\ s[i] = <<s[i][1], s[i][2]>>
                                 /\ s[i] \in Options \X Value
  BY ListFacts DEF Values

LEMMA ProfileFacts ==
  ASSUME NEW a \in Profiles
  PROVE  /\ a.k = "profile" /\ a.name \in Names /\ a.base \in Names \cup {None}
         /\ a.values \in Values
         /\ Repeats(a) <=> ~Once(a.values)
         /\ \A v \in Values : LET t == [a EXCEPT !.values = v] IN
                /\ t \in Profiles /\ t.values = v /\ t.name = a.name /\ t.base = a.base
  <1>1. a.k = "profile" /\ a.name \in Names /\ a.base \in Names \cup {None}
    BY DEF Profiles
  <1>2. a.values \in Values
    BY DEF Profiles, Values, Value
  <1>3. DOMAIN a.values = 1..Len(a.values)
    BY <1>2, ValuesFacts
  <1>4. Repeats(a) <=> ~Once(a.values)
    BY <1>3 DEF Repeats, Once
  <1>5. ASSUME NEW v \in Values, NEW t, t = [a EXCEPT !.values = v]
        PROVE  t \in Profiles /\ t.values = v /\ t.name = a.name /\ t.base = a.base
    BY <1>5 DEF Profiles, Values, Value
  <1> QED BY <1>1, <1>2, <1>4, <1>5

\* Own is the value of the only entry.
LEMMA OwnFacts ==
  ASSUME NEW a, a.values \in Values, NEW o
  PROVE  /\ Own(a, o) \in Value \cup {None}
         /\ Own(a, o) # None => Entry(a.values, o, Own(a, o))
         /\ Once(a.values) => \A w \in Value : Entry(a.values, o, w) => Own(a, o) = w
  <1>1. PICK s, n : s = a.values /\ n = Len(s) /\ n \in Nat
    BY ValuesFacts
  <1>2. /\ DOMAIN s = 1..n
        /\ \A i \in 1..n : s[i][2] \in Value /\ s[i] = <<s[i][1], s[i][2]>>
    BY <1>1, ValuesFacts
  <1> DEFINE at == {i \in DOMAIN s : s[i][1] = o}
             last == CHOOSE i \in at : \A j \in at : j <= i
  <1>3. Own(a, o) = IF at = {} THEN None ELSE s[last][2]
    BY <1>1 DEF Own
  <1>4. CASE at = {}
    <2>1. Own(a, o) = None
      BY <1>3, <1>4
    <2>2. \A w \in Value : ~Entry(s, o, w)
      <3> SUFFICES ASSUME NEW w \in Value, NEW i \in 1..n, s[i] = <<o, w>> PROVE FALSE
        BY <1>1 DEF Entry
      <3>1. s[i][1] = o
        OBVIOUS
      <3> QED BY <1>2, <1>4, <3>1
    <2> QED BY <1>1, <2>1, <2>2
  <1>5. CASE at # {}
    <2>1. at \in SUBSET (0..n)
      BY <1>1, <1>2
    <2>2. \E i \in at : \A j \in at : j <= i
      <3> HIDE DEF at
      <3> QED BY <1>1, <1>5, <2>1, GreatestNatural
    <2>3. last \in at
      <3> HIDE DEF at
      <3> QED BY <2>2
    <2>4. PICK l : l = last
      OBVIOUS
    <2>5. Own(a, o) = s[l][2] /\ l \in 1..n /\ s[l][1] = o
      BY <1>2, <1>3, <1>5, <2>3, <2>4
    <2>6. s[l] = <<o, Own(a, o)>> /\ Own(a, o) \in Value
      BY <1>2, <2>5
    <2>7. Once(s) => \A w \in Value : Entry(s, o, w) => Own(a, o) = w
      <3> SUFFICES ASSUME Once(s), NEW w \in Value, NEW i \in 1..n, s[i] = <<o, w>>
                   PROVE  Own(a, o) = w
        BY <1>1 DEF Entry
      <3>1. s[i][1] = o /\ s[i][2] = w
        OBVIOUS
      <3>2. i = l
        BY <1>1, <2>5, <3>1 DEF Once
      <3> QED BY <2>5, <3>1, <3>2
    <2> QED BY <1>1, <2>5, <2>6, <2>7 DEF Entry
  <1> QED BY <1>4, <1>5

\* Profiles with the same entries give the same values.
LEMMA SameOwn ==
  ASSUME NEW a, NEW b, a.values \in Values, b.values \in Values,
         Once(a.values), Once(b.values), NEW o,
         \A w \in Value : Entry(a.values, o, w) <=> Entry(b.values, o, w)
  PROVE  Own(a, o) = Own(b, o)
  <1>1. /\ Own(a, o) \in Value \cup {None} /\ Own(b, o) \in Value \cup {None}
        /\ Own(a, o) # None => Entry(a.values, o, Own(a, o))
        /\ Own(b, o) # None => Entry(b.values, o, Own(b, o))
        /\ \A w \in Value : Entry(a.values, o, w) => Own(a, o) = w
        /\ \A w \in Value : Entry(b.values, o, w) => Own(b, o) = w
    BY OwnFacts
  <1> QED BY <1>1

\* build_profile_toml writes the entries in some order and each of them once.
LEMMA SortedFacts ==
  ASSUME NEW s \in Values, NEW v \in Sorted(s)
  PROVE  /\ v \in Values /\ Len(v) = Len(s)
         /\ \E f \in Bijection(1..Len(s), 1..Len(s)) : \A i \in 1..Len(s) : v[i] = s[f[i]]
  <1>1. PICK n : n = Len(s) /\ n \in Nat
    BY ValuesFacts
  <1>2. DOMAIN s = 1..n /\ \A i \in 1..n : s[i] \in Options \X Value
    BY <1>1, ValuesFacts
  <1>3. PICK f \in Bijection(1..n, 1..n) : v = [i \in 1..n |-> s[f[i]]]
    BY <1>2 DEF Sorted
  <1>4. f \in [1..n -> 1..n]
    BY DEF Bijection, Injection
  <1>5. v \in [1..n -> Options \X Value]
    BY <1>2, <1>3, <1>4
  <1>6. v \in Values /\ Len(v) = n
    BY ONLY <1>1, <1>5 DEF Values
  <1>7. \A i \in 1..n : v[i] = s[f[i]]
    BY <1>3
  <1> QED BY <1>1, <1>6, <1>7

LEMMA SortedProfile ==
  ASSUME NEW a \in Profiles, NEW v \in Sorted(a.values), NEW t, t = [a EXCEPT !.values = v]
  PROVE  /\ t \in Profiles /\ t.name = a.name /\ t.base = a.base
         /\ Repeats(t) <=> Repeats(a)
         /\ ~Repeats(a) => \A o : Own(t, o) = Own(a, o)
  <1>1. PICK s, n : s = a.values /\ n = Len(s) /\ s \in Values /\ n \in Nat
    BY ProfileFacts, ValuesFacts
  <1>2. v \in Values /\ Len(v) = n
    BY <1>1, SortedFacts
  <1>3. PICK f \in Bijection(1..n, 1..n) : \A i \in 1..n : v[i] = s[f[i]]
    BY <1>1, SortedFacts
  <1>4. /\ \A i \in 1..n : f[i] \in 1..n
        /\ \A i, j \in 1..n : f[i] = f[j] => i = j
        /\ \A j \in 1..n : \E i \in 1..n : f[i] = j
    BY DEF Bijection, Injection, Surjection, IsInjective
  <1>5. t \in Profiles /\ t.values = v /\ t.name = a.name /\ t.base = a.base
    BY <1>2, ProfileFacts
  <1>6. Once(v) <=> Once(s)
    <2>1. ASSUME Once(v), NEW i \in 1..n, NEW j \in 1..n, s[i][1] = s[j][1] PROVE i = j
      <3>1. PICK x \in 1..n, y \in 1..n : f[x] = i /\ f[y] = j
        BY <1>4
      <3>2. v[x] = s[i] /\ v[y] = s[j]
        BY ONLY <1>3, <3>1
      <3>3. x = y
        BY ONLY <1>2, <2>1, <3>2 DEF Once
      <3> QED BY ONLY <3>1, <3>3
    <2>2. ASSUME Once(s), NEW i \in 1..n, NEW j \in 1..n, v[i][1] = v[j][1] PROVE i = j
      <3>1. s[f[i]][1] = s[f[j]][1] /\ f[i] \in 1..n /\ f[j] \in 1..n
        BY <1>3, <1>4, <2>2
      <3>2. f[i] = f[j]
        BY ONLY <1>1, <2>2, <3>1 DEF Once
      <3> QED BY <1>4, <3>2
    <2> QED BY ONLY <1>1, <1>2, <2>1, <2>2 DEF Once
  <1>7. Repeats(t) <=> Repeats(a)
    BY <1>1, <1>5, <1>6, ProfileFacts
  <1>8. \A o, w : Entry(v, o, w) <=> Entry(s, o, w)
    <2> SUFFICES ASSUME NEW o, NEW w PROVE Entry(v, o, w) <=> Entry(s, o, w)
      OBVIOUS
    <2>1. ASSUME NEW i \in 1..n, v[i] = <<o, w>> PROVE \E j \in 1..n : s[j] = <<o, w>>
      <3>1. f[i] \in 1..n
        BY ONLY <1>4, i \in 1..n
      <3>2. s[f[i]] = <<o, w>>
        BY ONLY <1>3, <2>1, i \in 1..n
      <3> QED BY ONLY <3>1, <3>2
    <2>2. ASSUME NEW j \in 1..n, s[j] = <<o, w>> PROVE \E i \in 1..n : v[i] = <<o, w>>
      <3>1. PICK i \in 1..n : f[i] = j
        BY ONLY <1>4, j \in 1..n
      <3>2. v[i] = <<o, w>>
        BY ONLY <1>3, <2>2, <3>1
      <3> QED BY ONLY <3>2, i \in 1..n
    <2> QED BY ONLY <1>1, <1>2, <2>1, <2>2 DEF Entry
  <1>9. ASSUME ~Repeats(a), NEW o PROVE Own(t, o) = Own(a, o)
    <2>1. Once(t.values) /\ Once(a.values)
      BY <1>1, <1>5, <1>6, <1>9, ProfileFacts
    <2> QED BY <1>1, <1>2, <1>5, <1>8, <2>1, SameOwn
  <1> QED BY <1>5, <1>7, <1>9

\* confit_cli_profile_value_index: an entry of the option, or none.
LEMMA ValueIndexFacts ==
  ASSUME NEW a, a.values \in Values, NEW o
  PROVE  /\ ValueIndex(a, o) \in 0..Len(a.values)
         /\ ValueIndex(a, o) = 0 => \A i \in 1..Len(a.values) : a.values[i][1] # o
         /\ ValueIndex(a, o) # 0 => a.values[ValueIndex(a, o)][1] = o
  <1>1. PICK s, n : s = a.values /\ n = Len(s) /\ n \in Nat
    BY ValuesFacts
  <1>2. DOMAIN s = 1..n
    BY <1>1, ValuesFacts
  <1> DEFINE at == {i \in DOMAIN s : s[i][1] = o}
             first == CHOOSE i \in at : \A j \in at : i <= j
  <1>3. ValueIndex(a, o) = IF at = {} THEN 0 ELSE first
    BY <1>1 DEF ValueIndex
  <1>4. CASE at = {}
    BY <1>1, <1>2, <1>3, <1>4
  <1>5. CASE at # {}
    <2>1. at \in SUBSET Nat
      BY <1>2
    <2>2. \E i \in at : \A j \in at : i <= j
      <3> HIDE DEF at
      <3> QED BY <1>5, <2>1, LeastNatural
    <2>3. first \in at
      <3> HIDE DEF at
      <3> QED BY <2>2
    <2>4. ValueIndex(a, o) \in at
      <3> HIDE DEF at, first
      <3> QED BY <1>3, <1>5, <2>3
    <2>5. ValueIndex(a, o) \in 1..n /\ s[ValueIndex(a, o)][1] = o
      BY <1>2, <2>4
    <2> QED BY <1>1, <2>5
  <1> QED BY <1>4, <1>5

\* What set leaves in the profile.
LEMMA SetFacts ==
  ASSUME NEW a \in Profiles, NEW o \in Options, NEW w \in Value, NEW e, e = SetValue(a, o, w)
  PROVE  /\ e \in Profiles /\ e.name = a.name /\ e.base = a.base
         /\ ~Repeats(a) => /\ ~Repeats(e) /\ Own(e, o) = w
                           /\ \A u : u # o => Own(e, u) = Own(a, u)
  <1>1. PICK s, n : s = a.values /\ n = Len(s) /\ s \in Values /\ n \in Nat
    BY ProfileFacts, ValuesFacts
  <1>2. /\ DOMAIN s = 1..n
        /\ \A i \in 1..n : s[i] \in Options \X Value
    BY <1>1, ValuesFacts
  <1>3. PICK x : x = ValueIndex(a, o)
    OBVIOUS
  <1>4. /\ x \in 0..n
        /\ x = 0 => \A i \in 1..n : s[i][1] # o
        /\ x # 0 => s[x][1] = o
    BY <1>1, <1>3, ValueIndexFacts
  <1> DEFINE v == IF x = 0 THEN Append(s, <<o, w>>) ELSE [s EXCEPT ![x] = <<o, w>>]
  <1>5. e = [a EXCEPT !.values = v]
    <2>1. CASE x = 0
      BY <1>1, <1>3, <2>1 DEF SetValue
    <2>2. CASE x # 0
      BY <1>1, <1>3, <2>2 DEF SetValue
    <2> QED BY <2>1, <2>2
  <1>6. /\ v \in Values
        /\ Once(s) => Once(v)
        /\ Entry(v, o, w)
        /\ \A u, z : u # o => (Entry(v, u, z) <=> Entry(s, u, z))
    <2>1. CASE x = 0
      <3>1. v = Append(s, <<o, w>>)
        BY <2>1
      <3> HIDE DEF v
      <3>2. /\ v \in Values /\ Len(v) = n + 1 /\ v[n + 1] = <<o, w>>
            /\ \A i \in 1..n : v[i] = s[i]
        BY <1>1, <3>1 DEF Values
      <3>3. 1..(n + 1) = (1..n) \cup {n + 1} /\ n + 1 \notin 1..n
        BY <1>1
      <3>4. \A i \in 1..n : s[i][1] # o
        BY <1>4, <2>1
      <3>5. v[n + 1][1] = o
        BY ONLY <3>2
      <3>6. ASSUME Once(s) PROVE Once(v)
        <4>0. Once(v) <=> \A i, j \in 1..(n + 1) : v[i][1] = v[j][1] => i = j
          <5>1. Len(v) = n + 1
            BY ONLY <3>2
          <5> QED BY ONLY <5>1, Zenon DEF Once
        <4> SUFFICES \A i, j \in 1..(n + 1) : v[i][1] = v[j][1] => i = j
          BY <4>0, Zenon
        <4> SUFFICES ASSUME NEW i \in 1..(n + 1), NEW j \in 1..(n + 1), v[i][1] = v[j][1]
                     PROVE  i = j
          OBVIOUS
        <4>1. ASSUME NEW k \in 1..n PROVE v[k][1] = s[k][1] /\ v[k][1] # v[n + 1][1]
          BY ONLY <3>2, <3>4, <3>5, k \in 1..n
        <4>2. CASE i \in 1..n /\ j \in 1..n
          <5>1. s[i][1] = s[j][1]
            BY <4>1, <4>2
          <5> QED BY <1>1, <3>6, <4>2, <5>1 DEF Once
        <4>3. CASE i = n + 1 \/ j = n + 1
          <5>1. i \notin 1..n /\ j \notin 1..n
            BY <4>1, <4>3
          <5> QED BY <3>3, <5>1
        <4> QED BY <3>3, <4>2, <4>3
      <3>7. Entry(v, o, w)
        BY ONLY <3>2, <3>3 DEF Entry
      <3>8. \A u, z : u # o => (Entry(v, u, z) <=> Entry(s, u, z))
        <4> SUFFICES ASSUME NEW u, NEW z, u # o PROVE Entry(v, u, z) <=> Entry(s, u, z)
          OBVIOUS
        <4>1. v[n + 1] # <<u, z>>
          BY <3>5
        <4> QED BY ONLY <1>1, <3>2, <3>3, <4>1 DEF Entry
      <3> QED BY <3>2, <3>6, <3>7, <3>8
    <2>2. CASE x # 0
      <3>1. v = [s EXCEPT ![x] = <<o, w>>] /\ x \in 1..n /\ s[x][1] = o
        BY <1>1, <1>4, <2>2
      <3> HIDE DEF v
      <3>2. /\ v \in Values /\ Len(v) = n /\ v[x] = <<o, w>> /\ v[x][1] = o
            /\ \A i \in 1..n : i # x => v[i] = s[i]
        <4>1. v \in [1..n -> Options \X Value]
          BY <1>2, <3>1
        <4>2. v \in Values /\ Len(v) = n
          BY ONLY <1>1, <4>1 DEF Values
        <4> QED BY <1>2, <3>1, <4>2
      <3>3. \A i \in 1..n : v[i][1] = s[i][1]
        BY ONLY <3>1, <3>2
      <3>4. Once(s) => Once(v)
        BY ONLY <1>1, <3>2, <3>3 DEF Once
      <3>5. Entry(v, o, w)
        BY ONLY <3>1, <3>2 DEF Entry
      <3>6. \A u, z : u # o => (Entry(v, u, z) <=> Entry(s, u, z))
        <4> SUFFICES ASSUME NEW u, NEW z, u # o PROVE Entry(v, u, z) <=> Entry(s, u, z)
          OBVIOUS
        <4>1. v[x] # <<u, z>> /\ s[x] # <<u, z>>
          BY <3>1, <3>2
        <4> QED BY ONLY <1>1, <3>2, <4>1 DEF Entry
      <3> QED BY <3>2, <3>4, <3>5, <3>6
    <2> QED BY <2>1, <2>2
  <1> HIDE DEF v
  <1>7. e \in Profiles /\ e.values = v /\ e.name = a.name /\ e.base = a.base
    BY <1>5, <1>6, ProfileFacts
  <1>8. ASSUME ~Repeats(a)
        PROVE  ~Repeats(e) /\ Own(e, o) = w /\ \A u : u # o => Own(e, u) = Own(a, u)
    <2>1. Once(a.values) /\ Once(e.values) /\ a.values \in Values /\ e.values \in Values
      BY <1>1, <1>6, <1>7, <1>8, ProfileFacts
    <2>2. ~Repeats(e)
      BY <1>7, <2>1, ProfileFacts
    <2>3. Own(e, o) = w
      BY <1>6, <1>7, <2>1, OwnFacts
    <2>4. ASSUME NEW u, u # o PROVE Own(e, u) = Own(a, u)
      BY <1>1, <1>6, <1>7, <2>1, <2>4, SameOwn
    <2> QED BY <2>2, <2>3, <2>4
  <1> QED BY <1>7, <1>8

\* What unset leaves in the profile.
LEMMA UnsetFacts ==
  ASSUME NEW a \in Profiles, NEW o, ValueIndex(a, o) # 0, NEW e, e = UnsetValue(a, o)
  PROVE  /\ e \in Profiles /\ e.name = a.name /\ e.base = a.base
         /\ ~Repeats(a) => /\ ~Repeats(e) /\ Own(e, o) = None
                           /\ \A u : u # o => Own(e, u) = Own(a, u)
  <1>1. PICK s, n : s = a.values /\ n = Len(s) /\ s \in Values /\ n \in Nat
    BY ProfileFacts, ValuesFacts
  <1>2. /\ DOMAIN s = 1..n
        /\ \A i \in 1..n : s[i] \in Options \X Value
    BY <1>1, ValuesFacts
  <1>3. PICK x, v : x = ValueIndex(a, o) /\ v = RemoveAt(s, x)
    OBVIOUS
  <1>4. x \in 1..n /\ s[x][1] = o
    <2>1. x \in 0..n /\ (x # 0 => s[x][1] = o)
      BY <1>1, <1>3, ValueIndexFacts
    <2> QED BY <1>1, <1>3, <2>1
  <1>5. e = [a EXCEPT !.values = v]
    BY <1>1, <1>3 DEF UnsetValue
  <1>6. /\ v \in Values /\ Len(v) = n - 1
        /\ \A i \in 1..(x - 1) : v[i] = s[i]
        /\ \A i \in x..(n - 1) : v[i] = s[i + 1]
    <2>1. PICK b, c : b = SubSeq(s, 1, x - 1) /\ c = SubSeq(s, x + 1, n)
      OBVIOUS
    <2>2. /\ b \in Values /\ Len(b) = x - 1
          /\ \A i \in 1..(x - 1) : b[i] = s[i]
      <3>1. PICK y : y = x - 1 /\ y \in 0..n
        BY ONLY <1>1, <1>4
      <3>2. s \in Seq(Options \X Value) /\ n = Len(s) /\ b = SubSeq(s, 1, y)
        BY ONLY <1>1, <2>1, <3>1 DEF Values
      <3>3. b \in Seq(Options \X Value) /\ Len(b) = y /\ \A i \in 1..y : b[i] = s[i]
        BY ONLY <3>1, <3>2
      <3> QED BY ONLY <3>1, <3>3 DEF Values
    <2>3. /\ c \in Values /\ Len(c) = n - x
          /\ \A i \in 1..(n - x) : c[i] = s[x + i]
      BY <1>1, <1>4, <2>1 DEF Values
    <2>4. v = b \o c
      BY <1>1, <1>3, <2>1 DEF RemoveAt
    <2>5. /\ v \in Values /\ Len(v) = (x - 1) + (n - x)
          /\ \A i \in 1..((x - 1) + (n - x)) : v[i] = IF i <= x - 1 THEN b[i] ELSE c[i - (x - 1)]
      BY <2>2, <2>3, <2>4, ConcatProperties DEF Values
    <2>6. (x - 1) + (n - x) = n - 1
      BY <1>1, <1>4
    <2>7. ASSUME NEW i \in 1..(x - 1) PROVE v[i] = s[i]
      BY <1>1, <1>4, <2>2, <2>5, <2>6
    <2>8. ASSUME NEW i \in x..(n - 1) PROVE v[i] = s[i + 1]
      <3>1. /\ i \in 1..(n - 1) /\ ~(i <= x - 1) /\ i - (x - 1) \in 1..(n - x)
            /\ x + (i - (x - 1)) = i + 1
        BY <1>1, <1>4
      <3> QED BY <2>3, <2>5, <2>6, <3>1
    <2> QED BY <2>5, <2>6, <2>7, <2>8
  <1>7. e \in Profiles /\ e.values = v /\ e.name = a.name /\ e.base = a.base
    BY <1>1, <1>5, <1>6, ProfileFacts
  <1> DEFINE g(i) == IF i < x THEN i ELSE i + 1
  <1>8. /\ \A i \in 1..(n - 1) : v[i] = s[g(i)] /\ g(i) \in 1..n /\ g(i) # x
        /\ \A i, j \in 1..(n - 1) : g(i) = g(j) => i = j
        /\ \A j \in 1..n : j # x => \E i \in 1..(n - 1) : g(i) = j
    <2>1. ASSUME NEW i \in 1..(n - 1) PROVE v[i] = s[g(i)] /\ g(i) \in 1..n /\ g(i) # x
      <3>1. CASE i < x
        <4>1. i \in 1..(x - 1) /\ g(i) = i
          BY <1>1, <1>4, <3>1
        <4> QED BY <1>1, <1>4, <1>6, <4>1
      <3>2. CASE ~(i < x)
        <4>1. i \in x..(n - 1) /\ g(i) = i + 1
          BY <1>1, <1>4, <3>2
        <4> QED BY <1>1, <1>4, <1>6, <4>1
      <3> QED BY <3>1, <3>2
    <2>2. \A i, j \in 1..(n - 1) : g(i) = g(j) => i = j
      BY <1>1, <1>4
    <2>3. ASSUME NEW j \in 1..n, j # x PROVE \E i \in 1..(n - 1) : g(i) = j
      <3>1. CASE j < x
        <4>1. j \in 1..(n - 1) /\ g(j) = j
          BY <1>1, <1>4, <3>1
        <4> QED BY <4>1
      <3>2. CASE ~(j < x)
        <4>1. j - 1 \in 1..(n - 1) /\ g(j - 1) = j
          BY <1>1, <1>4, <2>3, <3>2
        <4> QED BY <4>1
      <3> QED BY <3>1, <3>2
    <2> QED BY <2>1, <2>2, <2>3
  <1> HIDE DEF g
  <1>9. ASSUME ~Repeats(a)
        PROVE  ~Repeats(e) /\ Own(e, o) = None /\ \A u : u # o => Own(e, u) = Own(a, u)
    <2>1. Once(s)
      BY <1>1, <1>9, ProfileFacts
    <2>2. Once(v)
      <3> SUFFICES ASSUME NEW i \in 1..(n - 1), NEW j \in 1..(n - 1), v[i][1] = v[j][1]
                   PROVE  i = j
        BY <1>6 DEF Once
      <3>1. s[g(i)][1] = s[g(j)][1] /\ g(i) \in 1..n /\ g(j) \in 1..n
        BY ONLY <1>8, i \in 1..(n - 1), j \in 1..(n - 1), v[i][1] = v[j][1]
      <3>2. g(i) = g(j)
        BY ONLY <1>1, <2>1, <3>1 DEF Once
      <3> QED BY ONLY <1>8, <3>2, i \in 1..(n - 1), j \in 1..(n - 1)
    <2>3. ~Repeats(e)
      BY <1>7, <2>2, ProfileFacts
    <2>4. Own(e, o) = None
      <3>1. ASSUME NEW i \in 1..(n - 1), NEW z, v[i] = <<o, z>> PROVE FALSE
        <4>1. s[g(i)][1] = o /\ g(i) \in 1..n /\ g(i) # x
          BY <1>8, <3>1
        <4> QED BY ONLY <1>1, <1>4, <2>1, <4>1 DEF Once
      <3>2. \A z : ~Entry(v, o, z)
        BY <1>6, <3>1 DEF Entry
      <3> QED BY <1>6, <1>7, <3>2, OwnFacts
    <2>5. ASSUME NEW u, u # o PROVE Own(e, u) = Own(a, u)
      <3>1. \A z : Entry(v, u, z) <=> Entry(s, u, z)
        <4> SUFFICES ASSUME NEW z PROVE Entry(v, u, z) <=> Entry(s, u, z)
          OBVIOUS
        <4>1. ASSUME NEW i \in 1..(n - 1), v[i] = <<u, z>>
              PROVE  \E j \in 1..n : s[j] = <<u, z>>
          BY <1>8, <4>1
        <4>2. ASSUME NEW j \in 1..n, s[j] = <<u, z>>
              PROVE  \E i \in 1..(n - 1) : v[i] = <<u, z>>
          <5>1. j # x
            BY <1>4, <2>5, <4>2
          <5>2. PICK i \in 1..(n - 1) : g(i) = j
            BY <1>8, <5>1
          <5> QED BY <1>8, <4>2, <5>2
        <4> QED BY ONLY <1>1, <1>6, <4>1, <4>2 DEF Entry
      <3> QED BY <1>1, <1>6, <1>7, <2>1, <2>2, <3>1, SameOwn
    <2> QED BY <2>3, <2>4, <2>5
  <1> QED BY <1>7, <1>9

-----------------------------------------------------------------------------
\* The profiles in memory.

LEMMA FileFacts ==
  ASSUME NEW files, Files(files), Loadable(files)
  PROVE  /\ Present(files) \subseteq Names
         /\ \A n \in Present(files) : files[n] \in Profiles
  BY DEF Loadable, Present, Files, ProfileFile

LEMMA ViewFacts ==
  ASSUME NEW files, Files(files), Loadable(files)
  PROVE  LET view == View(files) IN
         /\ DOMAIN view \subseteq Names
         /\ \A n \in DOMAIN view :
              /\ view[n] \in Profiles /\ view[n].name = n
              /\ view[n].base # None => view[n].base \in DOMAIN view
         /\ InPlace(files) => /\ DOMAIN view = Present(files)
                              /\ \A n \in Present(files) : view[n] = files[n]
  <1>1. PICK view, D : view = View(files) /\ D = {files[m].name : m \in Present(files)}
    OBVIOUS
  <1>2. view = [n \in D |-> files[CHOOSE m \in Present(files) : files[m].name = n]]
    BY <1>1 DEF View
  <1>3. \A m \in Present(files) : files[m] \in Profiles /\ files[m].name \in Names
    BY FileFacts, ProfileFacts
  <1>4. ASSUME NEW n \in D
        PROVE  \E m \in Present(files) : view[n] = files[m] /\ files[m].name = n
    <2> DEFINE m == CHOOSE m \in Present(files) : files[m].name = n
    <2>1. m \in Present(files) /\ files[m].name = n
      BY <1>1, <1>4
    <2>2. view[n] = files[m]
      BY <1>2, <1>4
    <2> HIDE DEF m
    <2> QED BY <2>1, <2>2
  <1>5. DOMAIN view = D /\ D \subseteq Names
    BY <1>1, <1>2, <1>3
  <1>6. ASSUME NEW n \in D
        PROVE  /\ view[n] \in Profiles /\ view[n].name = n
               /\ view[n].base # None => view[n].base \in D
    <2>1. PICK m \in Present(files) : view[n] = files[m] /\ files[m].name = n
      BY <1>4, <1>6
    <2>2. files[m].base # None => \E x \in Present(files) : files[x].name = files[m].base
      BY DEF Loadable
    <2> QED BY <1>1, <1>3, <2>1, <2>2
  <1>7. ASSUME InPlace(files)
        PROVE  D = Present(files) /\ \A n \in Present(files) : view[n] = files[n]
    <2>1. \A n \in Present(files) : files[n].name = n
      BY <1>7 DEF InPlace
    <2>2. D = Present(files)
      BY <1>1, <2>1
    <2> QED BY <1>4, <2>1, <2>2
  <1> QED BY <1>1, <1>5, <1>6, <1>7

\* Every profile in memory comes from a file.
LEMMA ViewSource ==
  ASSUME NEW files, NEW n \in DOMAIN View(files)
  PROVE  \E m \in Present(files) : View(files)[n] = files[m] /\ files[m].name = n
  <1> DEFINE m == CHOOSE m \in Present(files) : files[m].name = n
  <1>1. n \in {files[x].name : x \in Present(files)}
    BY DEF View
  <1>2. m \in Present(files) /\ files[m].name = n
    BY <1>1
  <1>3. View(files)[n] = files[m]
    BY <1>1 DEF View
  <1> HIDE DEF m
  <1> QED BY <1>2, <1>3

\* The chain of bases of a profile stays among the profiles, and depends on
\* nothing but the bases.
LEMMA ChainFacts ==
  ASSUME NEW a, NEW b, NEW D, D \subseteq Names,
         \A n \in D : /\ a[n].base = b[n].base
                      /\ a[n].base # None => a[n].base \in D,
         NEW n \in D, NEW s \in Chains(a, n)
  PROVE  s \in Chains(b, n) /\ \A i \in DOMAIN s : s[i] \in D
  <1>1. /\ s \in Lines /\ s[1] = n
        /\ \A i \in 1..(Len(s) - 1) : a[s[i]].base = s[i + 1]
        /\ a[s[Len(s)]].base = None
    BY DEF Chains, Last
  <1>2. PICK m \in Nat : s \in [1..m -> Names]
    <2>1. Cardinality(Names) \in Nat
      BY NamesAssumption, FS_CardinalityType
    <2>2. PICK m \in 0..Cardinality(Names) : s \in [1..m -> Names]
      BY <1>1 DEF Lines, BoundedSeq, SeqOf
    <2> QED BY <2>1, <2>2
  <1>3. Len(s) = m /\ m # 0 /\ DOMAIN s = 1..m
    <2>1. s \in Seq(Names) /\ Len(s) = m /\ DOMAIN s = 1..m
      BY ONLY <1>2
    <2>2. s # <<>>
      BY <1>1 DEF Lines
    <2>3. CASE m = 0
      <3>1. s = <<>>
        BY ONLY <2>1, <2>3, EmptySeq
      <3> QED BY <2>2, <3>1
    <2> QED BY <2>1, <2>3
  <1> DEFINE Good == {i \in Nat : i + 1 \in 1..m => s[i + 1] \in D}
  <1>4. 0 \in Good
    BY <1>1
  <1>5. ASSUME NEW i \in Nat, i \in Good PROVE i + 1 \in Good
    <2> SUFFICES ASSUME (i + 1) + 1 \in 1..m PROVE s[(i + 1) + 1] \in D
      OBVIOUS
    <2>1. i + 1 \in 1..m /\ i + 1 \in 1..(m - 1)
      BY <1>2
    <2>2. s[i + 1] \in D
      BY <1>5, <2>1
    <2>3. a[s[i + 1]].base = s[(i + 1) + 1]
      BY <1>1, <1>3, <2>1
    <2>4. s[(i + 1) + 1] # None
      BY <1>2, NamesAssumption
    <2> QED BY ONLY <2>2, <2>3, <2>4, \A x \in D : a[x].base # None => a[x].base \in D
  <1>6. Nat \subseteq Good
    <2> HIDE DEF Good
    <2> QED BY <1>4, <1>5, Induction
  <1>7. ASSUME NEW i \in 1..m PROVE s[i] \in D
    <2>1. i - 1 \in Nat /\ (i - 1) + 1 = i
      BY <1>2
    <2> QED BY <1>6, <2>1
  <1>8. ASSUME NEW i \in 1..(m - 1) PROVE b[s[i]].base = s[i + 1]
    <2>1. i \in 1..m
      BY <1>2
    <2> QED BY <1>1, <1>3, <1>7, <2>1
  <1>9. b[s[m]].base = None
    <2>1. m \in 1..m
      BY <1>2, <1>3
    <2> QED BY <1>1, <1>3, <1>7, <2>1
  <1>10. s \in Chains(b, n)
    BY <1>1, <1>3, <1>8, <1>9 DEF Chains, Last
  <1> QED BY <1>3, <1>7, <1>10

\* The value the nearest profile of a chain gives.
Nearest(view, chain, o) ==
    LET by == {i \in DOMAIN chain : Own(view[chain[i]], o) # None} IN
    IF by = {} THEN "0"
    ELSE Own(view[chain[CHOOSE i \in by : \A j \in by : i <= j]], o)

ChainOf(view, n) == CHOOSE s \in Chains(view, n) : TRUE

LEMMA EffectiveFacts ==
  ASSUME NEW view, NEW n
  PROVE  Effective(view, n) = [o \in Options |-> Nearest(view, ChainOf(view, n), o)]
  BY DEF Effective, Nearest, ChainOf

\* confit_resolver_resolve looks at nothing but the bases and the values.
LEMMA SameResolves ==
  ASSUME NEW a, NEW b, NEW D, D \subseteq Names, DOMAIN a = D, DOMAIN b = D,
         \A n \in D : /\ a[n].base = b[n].base
                      /\ a[n].base # None => a[n].base \in D
                      /\ \A o : Own(a[n], o) = Own(b[n], o),
         NEW n, Resolves(a, n)
  PROVE  Resolves(b, n)
  <1>1. n \in D /\ Chains(a, n) # {}
    BY DEF Resolves
  <1>2. Chains(a, n) = Chains(b, n)
    <2>1. \A s \in Chains(a, n) : s \in Chains(b, n)
      BY <1>1, ChainFacts
    <2>2. \A x \in D : b[x].base = a[x].base /\ (b[x].base # None => b[x].base \in D)
      OBVIOUS
    <2>3. \A s \in Chains(b, n) : s \in Chains(a, n)
      BY ONLY D \subseteq Names, <1>1, <2>2, ChainFacts
    <2> QED BY <2>1, <2>3
  <1>3. ChainOf(a, n) \in Chains(a, n)
    BY <1>1 DEF ChainOf
  <1>4. \A i \in DOMAIN ChainOf(a, n) : ChainOf(a, n)[i] \in D
    BY <1>1, <1>3, ChainFacts
  <1>5. PICK c : c = ChainOf(a, n)
    OBVIOUS
  <1>6. c = ChainOf(a, n) /\ c = ChainOf(b, n)
    BY <1>2, <1>5 DEF ChainOf
  <1>7. \A i \in DOMAIN c : \A o : Own(a[c[i]], o) = Own(b[c[i]], o)
    BY <1>4, <1>5
  <1> DEFINE By(v, o) == {i \in DOMAIN c : Own(v[c[i]], o) # None}
             First(S) == CHOOSE i \in S : \A j \in S : i <= j
             Eff(v, o) == Nearest(v, c, o)
  <1>8. ASSUME NEW o PROVE Eff(a, o) = Eff(b, o)
    <2>1. By(a, o) = By(b, o)
      BY <1>7
    <2>2. CASE By(a, o) = {}
      BY <2>1, <2>2 DEF Nearest
    <2>3. CASE By(a, o) # {}
      <3>1. By(a, o) \in SUBSET Nat
        <4>1. c \in Lines
          BY <1>3, <1>5 DEF Chains
        <4>2. PICK m : m \in Nat /\ c \in [1..m -> Names]
          <5>1. Cardinality(Names) \in Nat
            BY NamesAssumption, FS_CardinalityType
          <5>2. PICK m \in 0..Cardinality(Names) : c \in [1..m -> Names]
            BY <4>1 DEF Lines, BoundedSeq, SeqOf
          <5> QED BY <5>1, <5>2
        <4> QED BY <4>2
      <3>2. PICK S : S = By(a, o)
        OBVIOUS
      <3>3. \E i \in S : \A j \in S : i <= j
        BY ONLY <2>3, <3>1, <3>2, LeastNatural
      <3>4. First(S) \in S
        BY <3>3
      <3>5. First(S) \in DOMAIN c
        <4> HIDE DEF First
        <4> QED BY <3>2, <3>4
      <3>6. Eff(a, o) = Own(a[c[First(S)]], o) /\ Eff(b, o) = Own(b[c[First(S)]], o)
        BY <2>1, <2>3, <3>2 DEF Nearest
      <3> HIDE DEF First, Eff
      <3> QED BY <1>7, <3>5, <3>6
    <2> QED BY <2>2, <2>3
  <1>9. /\ Effective(a, n) = [o \in Options |-> Eff(a, o)]
        /\ Effective(b, n) = [o \in Options |-> Eff(b, o)]
    BY <1>6, EffectiveFacts
  <1>10. Effective(a, n) = Effective(b, n)
    <2> HIDE DEF Eff
    <2> QED BY <1>8, <1>9
  <1> QED BY <1>1, <1>2, <1>10 DEF Resolves

-----------------------------------------------------------------------------
\* What a profile command makes of the profile it names.

LEMMA EditFacts ==
  ASSUME NEW p \in Procs, job[p] \in Jobs[p], Edits(p), Files(seen[p]), Permitted(p)
  PROVE  /\ job[p].profile \in Names
         /\ EditOf(p) \in Profiles /\ EditOf(p).name = job[p].profile
         /\ job[p].cmd = "new" => /\ EditOf(p).base = job[p].base
                                  /\ ~Repeats(EditOf(p))
                                  /\ \A o : Own(EditOf(p), o) = None
         /\ job[p].cmd # "new" => LET old == Before(p)[job[p].profile] IN
              /\ old \in Profiles /\ EditOf(p).base = old.base
              /\ ~Repeats(old) =>
                  /\ ~Repeats(EditOf(p))
                  /\ Own(EditOf(p), job[p].option) =
                        IF job[p].cmd = "set" THEN job[p].value ELSE None
                  /\ \A o : o # job[p].option => Own(EditOf(p), o) = Own(old, o)
  <1>1. PICK n, j, e : n = job[p].profile /\ j = job[p] /\ e = EditOf(p)
    OBVIOUS
  <1>2. j.cmd \in {"new", "set", "unset"} /\ n \in Names
    BY <1>1, JobFacts DEF Edits, ProfileCommand
  <1>3. CASE j.cmd = "new"
    <2>1. e = Profile(n, j.base, <<>>)
      BY <1>1, <1>3 DEF EditOf
    <2>2. j.base \in Names \cup {None}
      BY <1>1, <1>3, JobFacts
    <2>3. <<>> \in Values /\ Len(<<>>) = 0
      BY DEF Values
    <2>4. e \in Profiles /\ e.name = n /\ e.base = j.base /\ e.values = <<>>
      BY <1>2, <2>1, <2>2, <2>3 DEF Profile, Profiles, Values, Value
    <2>5. ~Repeats(e)
      BY <2>3, <2>4, ProfileFacts DEF Once
    <2>6. ASSUME NEW o PROVE Own(e, o) = None
      <3>1. \A w : ~Entry(e.values, o, w)
        BY <2>3, <2>4 DEF Entry
      <3> QED BY <2>3, <2>4, <3>1, OwnFacts
    <2> QED BY <1>1, <1>2, <1>3, <2>4, <2>5, <2>6
  <1>4. CASE j.cmd # "new"
    <2>1. PICK old : old = Before(p)[n]
      OBVIOUS
    <2>2. n \in DOMAIN Before(p) /\ Loadable(seen[p])
      BY <1>1, <1>4 DEF Permitted
    <2>3. old \in Profiles /\ old.name = n
      BY <2>1, <2>2, ViewFacts DEF Before
    <2>4. CASE j.cmd = "set"
      <3>1. e = SetValue(old, j.option, j.value)
        BY <1>1, <2>1, <2>4 DEF EditOf
      <3>2. j.option \in Options /\ j.value \in Value
        BY <1>1, <2>4, JobFacts DEF Permitted, Value
      <3>3. /\ e \in Profiles /\ e.name = n /\ e.base = old.base
            /\ ~Repeats(old) => /\ ~Repeats(e) /\ Own(e, j.option) = j.value
                                /\ \A u : u # j.option => Own(e, u) = Own(old, u)
        BY <2>3, <3>1, <3>2, SetFacts
      <3> QED BY <1>1, <1>2, <1>4, <2>1, <2>3, <2>4, <3>3
    <2>5. CASE j.cmd = "unset"
      <3>1. e = UnsetValue(old, j.option) /\ ValueIndex(old, j.option) # 0
        BY <1>1, <2>1, <2>5 DEF EditOf, Permitted
      <3>2. /\ e \in Profiles /\ e.name = n /\ e.base = old.base
            /\ ~Repeats(old) => /\ ~Repeats(e) /\ Own(e, j.option) = None
                                /\ \A u : u # j.option => Own(e, u) = Own(old, u)
        BY <2>3, <3>1, UnsetFacts
      <3> QED BY <1>1, <1>2, <1>4, <2>1, <2>3, <2>5, <3>2
    <2> QED BY <1>2, <1>4, <2>4, <2>5
  <1> QED BY <1>3, <1>4

\* A text that is asked for.
LEMMA AskedFacts ==
  ASSUME NEW p \in Procs, job[p] \in Jobs[p], Edits(p), Files(seen[p]), Permitted(p),
         NEW t \in Asked(p)
  PROVE  /\ t \in Profiles /\ t.name = job[p].profile /\ t.base = EditOf(p).base
         /\ Repeats(t) <=> Repeats(EditOf(p))
         /\ ~Repeats(EditOf(p)) => \A o : Own(t, o) = Own(EditOf(p), o)
  <1>1. PICK v \in Sorted(EditOf(p).values) : t = [EditOf(p) EXCEPT !.values = v]
    BY DEF Asked
  <1>2. EditOf(p) \in Profiles /\ EditOf(p).name = job[p].profile
    BY EditFacts
  <1> QED BY <1>1, <1>2, SortedProfile

\* The profiles as a command leaves them.
LEMMA AfterFacts ==
  ASSUME NEW p \in Procs, job[p] \in Jobs[p], Edits(p), Files(seen[p]), Permitted(p)
  PROVE  /\ DOMAIN After(p) = DOMAIN Before(p) \cup {job[p].profile}
         /\ DOMAIN After(p) \subseteq Names
         /\ After(p)[job[p].profile] = EditOf(p)
         /\ \A n \in DOMAIN Before(p) : n # job[p].profile => After(p)[n] = Before(p)[n]
         /\ \A n \in DOMAIN After(p) :
              After(p)[n].base # None => After(p)[n].base \in DOMAIN After(p)
         /\ EditOf(p).base # None => EditOf(p).base # job[p].profile
  <1>1. PICK n, D, e : n = job[p].profile /\ D = DOMAIN Before(p) /\ e = EditOf(p)
    OBVIOUS
  <1>2. n \in Names /\ e \in Profiles /\ e.name = n
    BY <1>1, EditFacts
  <1>3. Loadable(seen[p])
    BY DEF Permitted
  <1>4. /\ D \subseteq Names
        /\ \A m \in D : /\ Before(p)[m].name = m
                        /\ Before(p)[m].base # None => Before(p)[m].base \in D
    BY <1>1, <1>3, ViewFacts DEF Before
  <1>5. After(p) = [m \in D \cup {n} |-> IF m = n THEN e ELSE Before(p)[m]]
    BY <1>1, <1>2 DEF After, With
  <1>6. e.base # None => e.base \in D /\ e.base # n
    <2>1. CASE job[p].cmd = "new"
      <3>1. e.base = job[p].base
        BY <1>1, <2>1, EditFacts
      <3> QED BY <1>1, <2>1, <3>1 DEF Permitted
    <2>2. CASE job[p].cmd # "new"
      <3>1. e.base = Before(p)[n].base /\ n \in D
        BY <1>1, <2>2, EditFacts DEF Permitted
      <3>2. Before(p)[n].base # None => Before(p)[n].base # n
        <4>1. PICK m \in Present(seen[p]) : Before(p)[n] = seen[p][m] /\ seen[p][m].name = n
          BY <1>1, <1>3, <3>1, ViewSource DEF Before
        <4>2. seen[p][m].base # None => seen[p][m].base # seen[p][m].name
          BY <1>3 DEF Loadable
        <4> QED BY <4>1, <4>2
      <3> QED BY <1>4, <3>1, <3>2
    <2> QED BY <2>1, <2>2
  <1>7. \A m \in D \cup {n} : After(p)[m].base # None => After(p)[m].base \in D \cup {n}
    BY <1>4, <1>5, <1>6
  <1> QED BY <1>1, <1>2, <1>4, <1>5, <1>6, <1>7

\* The files after a command that stored its profile.
LEMMA StoredFiles ==
  ASSUME NEW p \in Procs, job[p] \in Jobs[p], Edits(p), Files(seen[p]), Approved(p),
         InPlace(seen[p]), Elsewhere(p), fs[job[p].profile] \in Asked(p),
         NEW files, files = [n \in Names |-> fs[n]]
  PROVE  /\ Files(files) /\ Loadable(files) /\ InPlace(files)
         /\ DOMAIN View(files) = DOMAIN After(p)
         /\ View(files)[job[p].profile] = fs[job[p].profile]
         /\ \A n \in DOMAIN After(p) : n # job[p].profile => View(files)[n] = After(p)[n]
  <1>1. PICK n, t, D : n = job[p].profile /\ t = fs[n] /\ D = DOMAIN Before(p)
    OBVIOUS
  <1>2. Permitted(p) /\ Loadable(seen[p])
    BY DEF Approved, Permitted
  <1>3. n \in Names /\ t \in Profiles /\ t.name = n /\ t.base = EditOf(p).base
    BY <1>1, <1>2, AskedFacts, EditFacts
  <1>4. /\ D = Present(seen[p]) /\ D \subseteq Names
        /\ \A m \in D : Before(p)[m] = seen[p][m]
    BY <1>1, <1>2, ViewFacts DEF Before
  <1>5. files[n] = t /\ \A m \in Names : m # n => files[m] = seen[p][m]
    BY <1>1, <1>3 DEF Elsewhere
  <1>6. t # Absent /\ t.k = "profile"
    BY <1>3 DEF Absent, Profiles
  <1>7. Present(files) = D \cup {n}
    BY <1>3, <1>4, <1>5, <1>6 DEF Present
  <1>8. Files(files)
    <2>1. ProfileFile(t) /\ \A m \in Names : ProfileFile(seen[p][m])
      BY <1>3 DEF ProfileFile, Files
    <2>2. \A m \in Names : ProfileFile(files[m])
      BY <1>5, <2>1
    <2> QED BY <2>2 DEF Files
  <1>9. \A m \in D : m \in Present(seen[p]) /\ seen[p][m].name = m /\ seen[p][m].k = "profile"
    BY <1>2, <1>4 DEF InPlace, Loadable
  <1>10. \A m \in D \cup {n} : files[m].name = m /\ files[m].k = "profile"
    BY <1>3, <1>4, <1>5, <1>6, <1>9
  <1>11. /\ \A m \in D \cup {n} : After(p)[m].base # None => After(p)[m].base \in D \cup {n}
         /\ t.base # None => t.base # n
         /\ \A m \in D : m # n => After(p)[m] = seen[p][m]
         /\ After(p)[n] = EditOf(p)
         /\ DOMAIN After(p) = D \cup {n}
    BY <1>1, <1>2, <1>3, <1>4, AfterFacts
  <1>12. ASSUME NEW m \in D \cup {n}
         PROVE  files[m].base # None => files[m].base # m /\ files[m].base \in D \cup {n}
    <2>1. CASE m = n
      BY <1>3, <1>5, <1>11, <2>1
    <2>2. CASE m # n
      <3>1. m \in D /\ files[m] = seen[p][m] /\ After(p)[m] = files[m]
        BY <1>4, <1>5, <1>11, <2>2
      <3>2. files[m].base # None => files[m].base # m
        BY <1>2, <1>9, <3>1 DEF Loadable
      <3> QED BY <1>11, <3>1, <3>2
    <2> QED BY <2>1, <2>2
  <1>13. Loadable(files) /\ InPlace(files)
    <2>1. \A x, m \in Present(files) : x # m => files[x].name # files[m].name
      BY <1>7, <1>10
    <2>2. \A m \in Present(files) : files[m].base # None =>
            files[m].base # files[m].name /\ \E x \in Present(files) : files[x].name = files[m].base
      <3> SUFFICES ASSUME NEW m \in D \cup {n}, files[m].base # None
                   PROVE  /\ files[m].base # files[m].name
                          /\ \E x \in D \cup {n} : files[x].name = files[m].base
        BY <1>7
      <3>1. PICK b : b = files[m].base
        OBVIOUS
      <3>2. b # m /\ b \in D \cup {n}
        BY <1>12, <3>1
      <3>3. files[m].name = m /\ files[b].name = b
        BY <1>10, <3>2
      <3> QED BY <3>1, <3>2, <3>3
    <2> QED BY <1>7, <1>10, <2>1, <2>2 DEF Loadable, InPlace
  <1>14. /\ DOMAIN View(files) = D \cup {n}
         /\ \A m \in D \cup {n} : View(files)[m] = files[m]
    BY <1>7, <1>8, <1>13, ViewFacts
  <1>15. \A m \in D \cup {n} : m # n => View(files)[m] = After(p)[m]
    BY <1>4, <1>5, <1>11, <1>14
  <1> QED BY <1>1, <1>5, <1>8, <1>11, <1>13, <1>14, <1>15

\* The invariant at the end of a profile command.
LEMMA StoredAsAsked ==
  ASSUME Typed, NEW p \in Procs, Stored(p), job[p] \in Jobs[p],
         Succeeded(p), Edits(p), Alone(p, Names), InPlace(seen[p])
  PROVE  LET n == job[p].profile
             j == job[p]
             old == seen[p][n]
             now == fs[n]
         IN  /\ now.k = "profile" /\ now.name = n
             /\ now.base = IF j.cmd = "new" THEN j.base ELSE old.base
             /\ (j.cmd = "new" \/ ~Repeats(old)) =>
                 \A o \in Options :
                     Own(now, o) = CASE j.cmd = "new"                  -> None
                                     [] j.cmd = "set" /\ o = j.option   -> j.value
                                     [] j.cmd = "unset" /\ o = j.option -> None
                                     [] OTHER                          -> Own(old, o)
  <1>1. PICK n, j, old, now : n = job[p].profile /\ j = job[p] /\ old = seen[p][n] /\ now = fs[n]
    OBVIOUS
  <1>2. Files(seen[p]) /\ Permitted(p) /\ Loadable(seen[p]) /\ now \in Asked(p)
    BY <1>1 DEF Typed, Stored, Approved, Permitted, Files
  <1>3. /\ now \in Profiles /\ now.name = n /\ now.base = EditOf(p).base
        /\ ~Repeats(EditOf(p)) => \A o : Own(now, o) = Own(EditOf(p), o)
    BY <1>1, <1>2, AskedFacts
  <1>4. now.k = "profile"
    BY <1>3 DEF Profiles
  <1>5. CASE j.cmd = "new"
    <2>1. now.base = j.base /\ \A o : Own(now, o) = None
      BY <1>1, <1>2, <1>3, <1>5, EditFacts
    <2> QED BY <1>1, <1>3, <1>4, <1>5, <2>1
  <1>6. CASE j.cmd # "new"
    <2>1. Before(p)[n] = old
      <3>1. n \in DOMAIN Before(p)
        BY <1>1, <1>2, <1>6 DEF Permitted
      <3> QED BY <1>1, <1>2, <3>1, ViewFacts DEF Before
    <2>2. /\ now.base = old.base
          /\ ~Repeats(old) =>
                /\ ~Repeats(EditOf(p))
                /\ Own(EditOf(p), j.option) = IF j.cmd = "set" THEN j.value ELSE None
                /\ \A o : o # j.option => Own(EditOf(p), o) = Own(old, o)
      BY <1>1, <1>2, <1>3, <1>6, <2>1, EditFacts
    <2>3. j.cmd \in {"set", "unset"}
      BY <1>1, <1>6 DEF Edits
    <2>4. ASSUME ~Repeats(old), NEW o \in Options
          PROVE  Own(now, o) = CASE j.cmd = "new"                  -> None
                                 [] j.cmd = "set" /\ o = j.option   -> j.value
                                 [] j.cmd = "unset" /\ o = j.option -> None
                                 [] OTHER                          -> Own(old, o)
      <3>1. CASE o = j.option /\ j.cmd = "set"
        BY <1>3, <2>2, <2>4, <3>1
      <3>2. CASE o = j.option /\ j.cmd = "unset"
        BY <1>3, <2>2, <2>4, <3>2
      <3>3. CASE o # j.option
        BY <1>3, <1>6, <2>2, <2>4, <3>3
      <3> QED BY <2>3, <3>1, <3>2, <3>3
    <2> QED BY <1>1, <1>3, <1>4, <1>6, <2>2, <2>4
  <1> QED BY <1>5, <1>6

LEMMA StoredResolves ==
  ASSUME Typed, NEW p \in Procs, Stored(p), job[p] \in Jobs[p],
         Succeeded(p), Edits(p), Alone(p, Names), InPlace(seen[p]),
         NEW files, files = [n \in Names |-> fs[n]]
  PROVE  /\ Loadable(files)
         /\ ~Repeats(files[job[p].profile]) => Resolves(View(files), job[p].profile)
  <1>1. PICK n, t, D : n = job[p].profile /\ t = fs[n] /\ D = DOMAIN After(p)
    OBVIOUS
  <1>2. /\ Files(seen[p]) /\ Approved(p) /\ Permitted(p) /\ Elsewhere(p) /\ t \in Asked(p)
        /\ Resolves(After(p), n)
    BY <1>1 DEF Typed, Stored, Approved, Permitted, Files
  <1>3. /\ Loadable(files) /\ DOMAIN View(files) = D
        /\ View(files)[n] = t
        /\ \A m \in D : m # n => View(files)[m] = After(p)[m]
    BY <1>1, <1>2, StoredFiles
  <1>4. /\ D \subseteq Names /\ n \in Names /\ After(p)[n] = EditOf(p)
        /\ \A m \in D : After(p)[m].base # None => After(p)[m].base \in D
    BY <1>1, <1>2, AfterFacts, EditFacts
  <1>5. files[n] = t
    BY <1>1, <1>4
  <1>6. ASSUME ~Repeats(t) PROVE Resolves(View(files), n)
    <2>1. t.base = EditOf(p).base /\ \A o : Own(t, o) = Own(EditOf(p), o)
      BY <1>1, <1>2, <1>6, AskedFacts
    <2>2. \A m \in D : /\ After(p)[m].base = View(files)[m].base
                       /\ After(p)[m].base # None => After(p)[m].base \in D
                       /\ \A o : Own(After(p)[m], o) = Own(View(files)[m], o)
      BY <1>3, <1>4, <2>1
    <2> QED BY ONLY <1>1, <1>2, <1>3, <1>4, <2>2, SameResolves
  <1> QED BY <1>1, <1>3, <1>5, <1>6

-----------------------------------------------------------------------------
\* What the steps of a process leave alone.

\* Nothing that belongs to another process changes.
Others(p) ==
    \A q \in Procs \ {p} :
        /\ pc'[q] = pc[q] /\ job'[q] = job[q] /\ result'[q] = result[q]
        /\ version'[q] = version[q] /\ wanted'[q] = wanted[q] /\ missed'[q] = missed[q]
        /\ unread'[q] = unread[q] /\ seen'[q] = seen[q] /\ project'[q] = project[q]
        /\ inputs'[q] = inputs[q] /\ config'[q] = config[q] /\ todo'[q] = todo[q]

\* The only file that changes is the one being written.
Writes(p) == \A f \in Path : fs'[f] # fs[f] => WritesTo(p, f)

\* What depends on the command and on the files read for it.
LEMMA SameJob ==
  ASSUME NEW p, job'[p] = job[p], seen'[p] = seen[p]
  PROVE  /\ Before(p)' = Before(p) /\ EditOf(p)' = EditOf(p) /\ After(p)' = After(p)
         /\ Asked(p)' = Asked(p)
         /\ Permitted(p)' <=> Permitted(p)
         /\ Approved(p)' <=> Approved(p)
         /\ Edits(p)' <=> Edits(p)
         /\ missed'[p] = missed[p] => (Fresh(p)' <=> Fresh(p))
         /\ \A S : Alone(p, S)' <=> Alone(p, S)
  <1>1. Before(p)' = Before(p)
    BY DEF Before
  <1>2. EditOf(p)' = EditOf(p)
    BY <1>1 DEF EditOf
  <1>3. After(p)' = After(p)
    BY <1>1, <1>2 DEF After
  <1>4. Asked(p)' = Asked(p)
    BY <1>2 DEF Asked
  <1>5. Permitted(p)' <=> Permitted(p)
    BY <1>1 DEF Permitted
  <1>6. Approved(p)' <=> Approved(p)
    BY <1>3, <1>5 DEF Approved
  <1>7. Edits(p)' <=> Edits(p)
    BY DEF Edits
  <1>8. missed'[p] = missed[p] => (Fresh(p)' <=> Fresh(p))
    BY DEF Fresh, Alone
  <1>9. \A S : Alone(p, S)' <=> Alone(p, S)
    BY DEF Alone
  <1> QED BY <1>1, <1>2, <1>3, <1>4, <1>5, <1>6, <1>7, <1>8, <1>9

\* What depends on the command and on what was resolved for it.
LEMMA SameArtifacts ==
  ASSUME NEW p, job'[p] = job[p], version'[p] = version[p], wanted'[p] = wanted[p],
         inputs'[p] = inputs[p], config'[p] = config[p]
  PROVE  /\ \A i : PathOf(p, i)' = PathOf(p, i) /\ TextOf(p, i)' = TextOf(p, i)
         /\ Guarded(p)' <=> Guarded(p)
         /\ \A f : Artifact(p, f)' = Artifact(p, f)
         /\ \A k : Rest(p, k)' = Rest(p, k)
  <1>2. Guarded(p)' <=> Guarded(p)
    BY DEF Guarded, Atomic, Generating
  <1>3. \A f : Artifact(p, f)' = Artifact(p, f)
    BY DEF Artifact
  <1>4. \A k : Rest(p, k)' = Rest(p, k)
    BY <1>3 DEF Rest
  <1>5. \A i : PathOf(p, i)' = PathOf(p, i) /\ TextOf(p, i)' = TextOf(p, i)
    BY <1>3 DEF PathOf, TextOf
  <1> QED BY <1>2, <1>3, <1>4, <1>5

\* The file a process is about to write is one its command may write.
LEMMA FileToWrite ==
  ASSUME Typed, NEW p \in Procs, Local(p), pc[p] \in {"open", "write"}
  PROVE  /\ job[p] \in Jobs[p]
         /\ pc[p] = "write" => todo[p] # <<>>
         /\ todo[p] # <<>> =>
              /\ File(p).path \in Targets(job[p]) /\ File(p).path \in Path
              /\ File(p).path \in Names => ProfileFile(File(p).text)
  <1>0. Files(seen[p]) /\ Place(p) /\ Storing(p) /\ Writing(p)
    BY DEF Typed, Local
  <1>1. job[p] \in Jobs[p] /\ job[p].cmd # "validate"
    BY <1>0 DEF Place
  <1>2. CASE Edits(p)
    <2>1. PICK t \in Asked(p) :
            \/ todo[p] = <<[path |-> job[p].profile, text |-> t]>>
            \/ pc[p] = "open" /\ todo[p] = <<>>
      BY <1>0, <1>2 DEF Storing
    <2>2. t \in Profiles /\ job[p].profile \in Names
      BY <1>0, <1>1, <1>2, AskedFacts, EditFacts DEF Storing, Approved
    <2>3. CASE todo[p] = <<[path |-> job[p].profile, text |-> t]>>
      <3>1. File(p) = [path |-> job[p].profile, text |-> t] /\ todo[p] # <<>>
        BY <2>3 DEF File
      <3>2. File(p).path = job[p].profile /\ File(p).text = t
        BY <3>1
      <3>3. job[p].profile \in Targets(job[p])
        BY <1>2 DEF Edits, Targets
      <3> QED BY <1>1, <2>2, <3>1, <3>2, <3>3 DEF Path, ProfileFile
    <2> QED BY <1>1, <2>1, <2>3
  <1>3. CASE ~Edits(p)
    <2>1. job[p].cmd \in {"gen", "init", "migrate"}
      BY <1>1, <1>3, JobFacts DEF Edits
    <2>2. PICK k \in 0..Len(wanted[p]) :
            todo[p] = Rest(p, k) /\ (pc[p] = "write" => k # Len(wanted[p]))
      BY <1>0, <1>3 DEF Writing
    <2>3. PICK n : n = Len(wanted[p]) /\ n \in Nat
      BY <1>1, <2>1, WantedFacts
    <2>4. /\ k = n => todo[p] = <<>>
          /\ k # n => todo[p] # <<>> /\ File(p) = Artifact(p, wanted[p][k + 1])
      BY <2>2, <2>3, RestFacts DEF File
    <2>5. ASSUME k # n
          PROVE  /\ File(p).path \in Targets(job[p]) /\ File(p).path \in Path
                 /\ File(p).path \in Names => ProfileFile(File(p).text)
      <3>1. k + 1 \in 1..n
        BY <2>2, <2>3, <2>5
      <3>2. PICK e : e = wanted[p][k + 1]
        OBVIOUS
      <3>3. /\ e.path \in Targets(job[p]) /\ e.path \in Path
            /\ job[p].cmd = "init" /\ e.path \in Names => Defaults[e.artifact] \in Profiles
        BY <1>1, <2>1, <2>3, <3>1, <3>2, WantedFacts DEF PathOf
      <3>4. File(p).path = e.path /\ File(p).text = Artifact(p, e).text
        BY <2>4, <2>5, <3>2 DEF Artifact
      <3>5. e.path \in Names => ProfileFile(Artifact(p, e).text)
        <4>1. \A d : ProfileFile(Text(d))
          BY DEF ProfileFile, Text
        <4>2. ASSUME job[p].cmd = "init", e.path \in Names
              PROVE  Artifact(p, e).text = Defaults[e.artifact]
          BY <4>2 DEF Artifact
        <4>3. CASE job[p].cmd = "gen"
          BY <4>1, <4>3 DEF Artifact
        <4>4. CASE job[p].cmd = "migrate"
          BY <4>1, <4>4 DEF Artifact
        <4> QED BY <2>1, <3>3, <4>2, <4>3, <4>4 DEF ProfileFile
      <3> QED BY <3>3, <3>4, <3>5
    <2> QED BY <1>1, <2>2, <2>3, <2>4, <2>5
  <1> QED BY <1>2, <1>3

\* What is left of a torn profile is a profile file.
LEMMA TornFacts ==
  ASSUME NEW a, ProfileFile(a), NEW t \in Torn(a)
  PROVE  ProfileFile(t)
  <1>0. ProfileFile(Empty)
    BY DEF ProfileFile, Empty
  <1> SUFFICES ASSUME a.k = "profile" PROVE ProfileFile(t)
    BY <1>0 DEF Torn
  <1> a \in Profiles
    BY DEF ProfileFile
  <1>1. a.k = "profile" /\ a.values \in Values /\ Len(a.values) \in Nat
    BY ProfileFacts, ValuesFacts
  <1>2. CASE t = Empty
    BY <1>0, <1>2
  <1>3. CASE t = [a EXCEPT !.base = None, !.values = <<>>]
    <2>0. <<>> \in Values
      BY EmptySeq DEF Values
    <2>1. PICK e : e = <<>> /\ e \in Values
      BY <2>0
    <2>2. t = [a EXCEPT !.base = None, !.values = e]
      BY <1>3, <2>1
    <2>3. t \in Profiles
      BY ONLY <2>1, <2>2, a \in Profiles DEF Profiles, Values, Value
    <2> QED BY <2>3 DEF ProfileFile
  <1>4. ASSUME NEW i \in 0..(Len(a.values) - 1),
               t = [a EXCEPT !.values = SubSeq(a.values, 1, i)]
        PROVE  ProfileFile(t)
    <2>1. SubSeq(a.values, 1, i) \in Values
      BY <1>1, <1>4 DEF Values
    <2>2. t \in Profiles
      BY <1>4, <2>1, ProfileFacts
    <2> QED BY <2>2 DEF ProfileFile
  <1>5. t \in {Empty} \cup ({[a EXCEPT !.values = SubSeq(@, 1, i)] : i \in 0..(Len(a.values) - 1)}
                            \cup {[a EXCEPT !.base = None, !.values = <<>>]})
    BY <1>1 DEF Torn
  <1> QED BY <1>2, <1>3, <1>4, <1>5

\* A step of one process keeps what holds of another.
LEMMA OthersKeep ==
  ASSUME NEW p \in Procs, NEW q \in Procs, p # q, Typed, Local(q), Others(p),
         \A f \in Path : fs'[f] # fs[f] => job[p] \in Jobs[p] /\ f \in Targets(job[p])
  PROVE  Local(q)'
  <1>1. /\ version'[q] = version[q] /\ wanted'[q] = wanted[q] /\ missed'[q] = missed[q]
        /\ pc'[q] = pc[q] /\ job'[q] = job[q] /\ result'[q] = result[q]
        /\ unread'[q] = unread[q] /\ seen'[q] = seen[q] /\ project'[q] = project[q]
        /\ inputs'[q] = inputs[q] /\ config'[q] = config[q] /\ todo'[q] = todo[q]
    BY DEF Others
  <1>2. ASSUME NEW S, Alone(q, S), NEW f \in S, f \in Path PROVE fs'[f] = fs[f]
    <2> SUFFICES ASSUME fs'[f] # fs[f] PROVE FALSE
      OBVIOUS
    <2>1. p \in Procs \ {q} /\ job[p] \in Jobs[p] /\ f \in Targets(job[p]) \cap S
      BY <1>2
    <2>2. Targets(job[p]) \cap S = {}
      BY <1>2, <2>1 DEF Alone
    <2> QED BY <2>1, <2>2
  <1>3. ASSUME Alone(q, Names), NEW n \in Names PROVE fs'[n] = fs[n]
    BY <1>2, <1>3 DEF Path
  <1>4. ASSUME NEW f \in Path, Alone(q, {f}) PROVE fs'[f] = fs[f]
    BY <1>2, <1>4
  <1>5. /\ Before(q)' = Before(q) /\ EditOf(q)' = EditOf(q) /\ After(q)' = After(q)
        /\ Asked(q)' = Asked(q)
        /\ Permitted(q)' <=> Permitted(q)
        /\ Approved(q)' <=> Approved(q)
        /\ Edits(q)' <=> Edits(q)
        /\ Fresh(q)' <=> Fresh(q)
        /\ \A S : Alone(q, S)' <=> Alone(q, S)
    BY ONLY <1>1, SameJob
  <1>6. /\ \A i : PathOf(q, i)' = PathOf(q, i) /\ TextOf(q, i)' = TextOf(q, i)
        /\ Guarded(q)' <=> Guarded(q)
        /\ \A f : Artifact(q, f)' = Artifact(q, f)
        /\ \A k : Rest(q, k)' = Rest(q, k)
    BY ONLY <1>1, SameArtifacts
  <1>7. Succeeded(q)' <=> Succeeded(q)
    BY <1>1 DEF Succeeded
  <1>8. Place(q)'
    <2>1. Place(q)
      BY DEF Local
    <2> QED BY ONLY <1>1, <1>5, <2>1 DEF Place
  <1>9. Reading(q)'
    <2>1. Reading(q)
      BY DEF Local
    <2> QED BY ONLY <1>1, <1>3, <1>5, <2>1 DEF Reading, Alone
  <1>10. /\ Edits(q) => job[q].profile \in Names
         /\ job[q] \in Jobs[q] /\ ~Edits(q) /\ job[q].cmd # "validate" =>
              /\ Len(wanted[q]) \in Nat
              /\ \A i \in 1..Len(wanted[q]) : PathOf(q, i) \in Path
    <2>1. job[q] \in Jobs[q] \/ job[q].cmd = "none"
      BY DEF Local, Place
    <2>2. Edits(q) => job[q].profile \in Names
      BY <2>1, JobFacts DEF Edits, ProfileCommand
    <2>3. ASSUME job[q] \in Jobs[q], ~Edits(q), job[q].cmd # "validate"
          PROVE  /\ Len(wanted[q]) \in Nat
                 /\ \A i \in 1..Len(wanted[q]) : PathOf(q, i) \in Path
      <3>1. job[q].cmd \in {"gen", "init", "migrate"}
        BY <2>3, JobFacts DEF Edits
      <3> QED BY <2>3, <3>1, WantedFacts
    <2> QED BY <2>2, <2>3
  <1>11. Validating(q)'
    <2>1. Validating(q) /\ (pc[q] = "validate" => Edits(q))
      BY DEF Local, Place
    <2>2. ASSUME pc[q] = "validate", Fresh(q) PROVE fs'[job[q].profile] = fs[job[q].profile]
      BY <1>3, <1>4, <1>10, <2>1, <2>2 DEF Fresh, Path
    <2> QED BY ONLY <1>1, <1>3, <1>5, <2>1, <2>2 DEF Validating, Alone
  <1>12. Alone(q, Names) => (Elsewhere(q)' <=> Elsewhere(q))
    BY ONLY <1>1, <1>3 DEF Elsewhere
  <1>13. Storing(q)'
    <2> SUFFICES ASSUME pc[q] \in {"open", "write"}, Edits(q)
                 PROVE  Storing(q)'
      BY <1>1, <1>5 DEF Storing
    <2>1. PICK n : n = job[q].profile
      OBVIOUS
    <2>2. n \in Names /\ n \in Path
      BY <1>10, <2>1 DEF Path
    <2>3. /\ Approved(q)
          /\ Alone(q, Names) => Elsewhere(q)
      BY DEF Local, Storing
    <2>4. PICK t \in Asked(q) :
            \/ /\ todo[q] = <<[path |-> n, text |-> t]>>
               /\ Fresh(q) => fs[n] = IF pc[q] = "write" THEN Empty ELSE Absent
            \/ /\ pc[q] = "open" /\ todo[q] = <<>>
               /\ Alone(q, Names) => fs[n] = t
      BY <2>1 DEF Local, Storing
    <2>5. Fresh(q) => fs'[n] = fs[n]
      BY <1>4, <2>1, <2>2 DEF Fresh
    <2>6. Alone(q, Names) => fs'[n] = fs[n]
      BY <1>3, <2>2
    <2>7. /\ Approved(q)'
          /\ Alone(q, Names)' => Elsewhere(q)'
      BY <1>5, <1>12, <2>3 DEF Alone
    <2>8. /\ t \in Asked(q)'
          /\ \/ /\ todo'[q] = <<[path |-> job'[q].profile, text |-> t]>>
                /\ Fresh(q)' => fs'[job'[q].profile] = IF pc'[q] = "write" THEN Empty ELSE Absent
             \/ /\ pc'[q] = "open" /\ todo'[q] = <<>>
                /\ Alone(q, Names)' => fs'[job'[q].profile] = t
      BY ONLY <1>1, <1>5, <2>1, <2>4, <2>5, <2>6 DEF Alone
    <2> QED BY ONLY <2>7, <2>8 DEF Storing
  <1>14. Stored(q)'
    <2> SUFFICES ASSUME Succeeded(q), Edits(q) PROVE Stored(q)'
      BY <1>5, <1>7 DEF Stored
    <2>1. /\ Approved(q)
          /\ Alone(q, Names) => Elsewhere(q) /\ fs[job[q].profile] \in Asked(q)
      BY DEF Local, Stored
    <2>2. Alone(q, Names) /\ job[q].profile \in Names => fs'[job[q].profile] = fs[job[q].profile]
      BY <1>3
    <2> QED BY <1>1, <1>5, <1>10, <1>12, <2>1, <2>2 DEF Stored, Alone
  <1>15. Resolved(q)'
    <2>1. Resolved(q)
      BY DEF Local
    <2> QED BY ONLY <1>1, <1>5, <1>7, <2>1 DEF Resolved, Generating
  <1>16. ASSUME job[q] \in Jobs[q], ~Edits(q), job[q].cmd # "validate"
         PROVE  /\ \A k \in 0..Len(wanted[q]) : Done(q, k) => Done(q, k)'
                /\ \A k \in 0..Len(wanted[q]) : Ahead(q, k) => Ahead(q, k)'
    <2>1. PICK n : n = Len(wanted[q]) /\ n \in Nat
      BY <1>10, <1>16
    <2>2. ASSUME NEW i \in 1..n, Alone(q, {PathOf(q, i)})
          PROVE  fs'[PathOf(q, i)] = fs[PathOf(q, i)]
      BY <1>4, <1>10, <1>16, <2>1, <2>2
    <2>3. ASSUME NEW k \in 0..n, Done(q, k) PROVE Done(q, k)'
      <3> SUFFICES ASSUME NEW i \in 1..k, Alone(q, {PathOf(q, i)}),
                          \A m \in (i + 1)..k : PathOf(q, m) # PathOf(q, i),
                          pc[q] = "write" => PathOf(q, k + 1) # PathOf(q, i)
                   PROVE  fs'[PathOf(q, i)] = TextOf(q, i)
        BY <1>1, <1>6 DEF Done, Alone
      <3>1. i \in 1..n
        BY <2>1
      <3>2. fs[PathOf(q, i)] = TextOf(q, i)
        BY <2>3 DEF Done
      <3> QED BY <2>2, <3>1, <3>2
    <2>4. ASSUME NEW k \in 0..n, Ahead(q, k) PROVE Ahead(q, k)'
      <3> SUFFICES ASSUME NEW i \in (k + 1)..n, Guarded(q), Alone(q, {PathOf(q, i)}),
                          PathOf(q, i) \notin missed[q],
                          \A m \in 1..k : PathOf(q, m) # PathOf(q, i)
                   PROVE  fs'[PathOf(q, i)] =
                            IF pc[q] = "write" /\ PathOf(q, i) = PathOf(q, k + 1)
                            THEN Empty ELSE Absent
        BY <1>1, <1>6, <2>1 DEF Ahead, Alone
      <3>1. i \in 1..n
        BY <2>1
      <3>2. fs[PathOf(q, i)] =
              IF pc[q] = "write" /\ PathOf(q, i) = PathOf(q, k + 1) THEN Empty ELSE Absent
        BY <2>1, <2>4 DEF Ahead
      <3> QED BY <2>2, <3>1, <3>2
    <2> QED BY <2>1, <2>3, <2>4
  <1>17. /\ pc[q] \in {"generate", "open", "write"} =>
              job[q] \in Jobs[q] /\ job[q].cmd # "validate"
         /\ pc[q] = "generate" => ~Edits(q)
         /\ job[q].cmd = "gen" => job[q] \in Jobs[q] /\ ~Edits(q)
    BY DEF Local, Place, Edits
  <1>18. Checked(q)'
    <2> SUFFICES ASSUME pc[q] = "generate", ~job[q].dry PROVE Ahead(q, 0)'
      BY <1>1 DEF Checked
    <2>1. Ahead(q, 0)
      BY DEF Local, Checked
    <2>2. 0 \in 0..Len(wanted[q])
      BY <1>10, <1>17
    <2> QED BY <1>16, <1>17, <2>1, <2>2
  <1>19. Writing(q)'
    <2> SUFFICES ASSUME pc[q] \in {"open", "write"}, ~Edits(q) PROVE Writing(q)'
      BY <1>1, <1>5 DEF Writing
    <2>1. PICK k \in 0..Len(wanted[q]) :
            /\ todo[q] = Rest(q, k)
            /\ pc[q] = "write" => k # Len(wanted[q])
            /\ Done(q, k) /\ Ahead(q, k)
      BY DEF Local, Writing
    <2>2. Done(q, k)' /\ Ahead(q, k)'
      BY <1>16, <1>17, <2>1
    <2>3. /\ k \in 0..Len(wanted'[q]) /\ todo'[q] = Rest(q, k)'
          /\ pc'[q] = "write" => k # Len(wanted'[q])
      BY <1>1, <1>6, <2>1
    <2> QED BY ONLY <2>2, <2>3 DEF Writing
  <1>20. Written(q)'
    <2> SUFFICES ASSUME Succeeded(q), job[q].cmd = "gen", ~job[q].dry
                 PROVE  Written(q)'
      BY <1>1, <1>7 DEF Written, Generating
    <2>1. Done(q, Len(wanted[q]))
      BY DEF Local, Written, Generating
    <2>2. Len(wanted[q]) \in 0..Len(wanted[q])
      BY <1>10, <1>17
    <2>3. PICK k : k = Len(wanted[q])
      OBVIOUS
    <2>4. Done(q, k)'
      BY <1>16, <1>17, <2>1, <2>2, <2>3
    <2>5. k = Len(wanted'[q])
      BY <1>1, <2>3
    <2> QED BY ONLY <2>4, <2>5 DEF Written
  <1> QED BY ONLY <1>8, <1>9, <1>11, <1>13, <1>14, <1>15, <1>18, <1>19, <1>20 DEF Local

-----------------------------------------------------------------------------
\* Every step keeps the invariant of its own process.

\* A command that ends without success leaves nothing to say.
LEMMA EndBadly ==
  ASSUME NEW p, job'[p] \in Jobs[p], pc'[p] = "idle", result'[p] # "ok"
  PROVE  Local(p)'
  <1>1. ~Succeeded(p)'
    BY DEF Succeeded
  <1>2. Place(p)' /\ Reading(p)' /\ Validating(p)' /\ Storing(p)' /\ Checked(p)' /\ Writing(p)'
    BY DEF Place, Reading, Validating, Storing, Checked, Writing
  <1>3. Stored(p)' /\ Resolved(p)' /\ Written(p)'
    BY <1>1 DEF Stored, Resolved, Written
  <1> QED BY <1>2, <1>3 DEF Local

\* Before a command writes, only its place, what it read and what it
\* resolved matter.
LEMMA NotYet ==
  ASSUME NEW p, pc'[p] \in {"load", "where", "read", "edit", "resolve", "inputs", "reread", "check"},
         Place(p)', Reading(p)', Resolved(p)'
  PROVE  Local(p)'
  <1>1. ~Succeeded(p)'
    BY DEF Succeeded
  <1>2. Validating(p)' /\ Storing(p)' /\ Checked(p)' /\ Writing(p)'
    BY DEF Validating, Storing, Checked, Writing
  <1>3. Stored(p)' /\ Written(p)'
    BY <1>1 DEF Stored, Written
  <1> QED BY <1>2, <1>3 DEF Local

\* What a step owes the rest of the system.
Fair(p) == Typed' /\ Others(p) /\ Writes(p)

\* A step that moves a process and reads nothing keeps the types.
LEMMA KeepsTypes ==
  ASSUME Typed, NEW p \in Procs, NEW l \in Labels, pc' = [pc EXCEPT ![p] = l],
         \E r \in Results : result' = [result EXCEPT ![p] = r],
         unread' = unread, seen' = seen,
         DOMAIN fs' = Path, \A n \in Names : ProfileFile(fs'[n]),
         Given', DOMAIN project' = Procs, DOMAIN inputs' = Procs, DOMAIN missed' = Procs,
         DOMAIN config' = Procs, DOMAIN todo' = Procs
  PROVE  Typed'
  <1>1. pc' \in [Procs -> Labels] /\ result' \in [Procs -> Results]
    BY DEF Typed
  <1> QED BY <1>1 DEF Typed

LEMMA SameCommands ==
  ASSUME Given, UNCHANGED <<version, wanted, job>>
  PROVE  Given'
  BY DEF Given

LEMMA SameResult ==
  ASSUME Typed, NEW p \in Procs, result' = result
  PROVE  \E r \in Results : result' = [result EXCEPT ![p] = r]
  <1>1. result = [result EXCEPT ![p] = result[p]] /\ result[p] \in Results
    BY DEF Typed
  <1> QED BY <1>1

LEMMA StartKeeps ==
  ASSUME Typed, NEW p \in Procs, Local(p), Start(p)
  PROVE  Fair(p) /\ Local(p)'
  <1>0. PICK j \in Jobs[p], v \in Versions :
          /\ job' = [job EXCEPT ![p] = j]
          /\ version' = [version EXCEPT ![p] = v]
          /\ \E list \in Wanted(j, v) : wanted' = [wanted EXCEPT ![p] = list]
          /\ pc' = [pc EXCEPT ![p] = CASE j.cmd = "init"    -> "check"
                                       [] j.cmd = "migrate" -> "where"
                                       [] OTHER             -> "load"]
    BY DEF Start
  <1>1. PICK list \in Wanted(j, v) :
          /\ job' = [job EXCEPT ![p] = j]
          /\ version' = [version EXCEPT ![p] = v]
          /\ wanted' = [wanted EXCEPT ![p] = list]
          /\ pc' = [pc EXCEPT ![p] = CASE j.cmd = "init"    -> "check"
                                       [] j.cmd = "migrate" -> "where"
                                       [] OTHER             -> "load"]
    BY <1>0
  <1>2. /\ result' = [result EXCEPT ![p] = "none"] /\ missed' = [missed EXCEPT ![p] = {}]
        /\ UNCHANGED <<fs, unread, seen, project, inputs, config, todo>>
    BY DEF Start
  <1>3. job'[p] = j /\ pc'[p] \in {"load", "where", "check"}
        /\ (pc'[p] = "check" <=> j.cmd = "init")
        /\ (pc'[p] = "where" => j.cmd = "migrate")
    BY <1>1 DEF Typed, Given
  <1>4. Fair(p)
    <2>1. pc' = [pc EXCEPT ![p] = pc'[p]] /\ pc'[p] \in Labels
      BY <1>1, <1>3 DEF Typed, Labels
    <2>2. Typed'
      <3>1. Given' /\ DOMAIN missed' = Procs
        <4>1. DOMAIN job' = Procs /\ DOMAIN version' = Procs /\ DOMAIN wanted' = Procs
          BY <1>1 DEF Typed, Given
        <4>2. job'[p] = j /\ version'[p] = v /\ wanted'[p] = list
          BY <1>1 DEF Typed, Given
        <4>3. ASSUME NEW q \in Procs, job'[q] \in Jobs[q]
              PROVE  version'[q] \in Versions /\ wanted'[q] \in Wanted(job'[q], version'[q])
          <5>1. CASE q = p
            BY <4>2, <5>1
          <5>2. CASE q # p
            <6>1. job'[q] = job[q] /\ version'[q] = version[q] /\ wanted'[q] = wanted[q]
              BY <1>1, <5>2 DEF Typed, Given
            <6> QED BY <4>3, <6>1 DEF Typed, Given
          <5> QED BY <5>1, <5>2
        <4> QED BY <1>2, <4>1, <4>3 DEF Given, Typed
      <3>2. PICK l \in Labels : pc' = [pc EXCEPT ![p] = l]
        BY <2>1
      <3>3. \E r \in Results : result' = [result EXCEPT ![p] = r]
        BY <1>2 DEF Results
      <3> QED BY <1>2, <3>1, <3>2, <3>3, KeepsTypes DEF Typed
    <2>3. Others(p)
      BY <1>1, <1>2 DEF Typed, Given, Others
    <2>4. Writes(p)
      BY <1>2 DEF Writes
    <2> QED BY <2>2, <2>3, <2>4 DEF Fair
  <1>5. Place(p)' /\ Reading(p)' /\ Resolved(p)'
    <2>1. Place(p)'
      BY <1>3 DEF Place
    <2>2. Reading(p)'
      BY <1>3 DEF Reading
    <2>3. Resolved(p)'
      BY <1>3 DEF Resolved, Generating, Succeeded
    <2> QED BY <2>1, <2>2, <2>3
  <1> QED BY <1>3, <1>4, <1>5, NotYet

LEMMA ListKeeps ==
  ASSUME Typed, NEW p \in Procs, Local(p), List(p)
  PROVE  Fair(p) /\ Local(p)'
  <1>1. /\ pc[p] \in {"load", "inputs"}
        /\ unread' = [unread EXCEPT ![p] = Present(fs)]
        /\ pc' = [pc EXCEPT ![p] = IF pc[p] = "load" THEN "read" ELSE "reread"]
        /\ seen' = IF pc[p] = "load" THEN [seen EXCEPT ![p] = NoFiles] ELSE seen
        /\ inputs' = IF pc[p] = "inputs" THEN [inputs EXCEPT ![p] = NoFiles] ELSE inputs
        /\ UNCHANGED <<fs, version, wanted, job, count, project, config, todo, result, missed>>
    BY DEF List, command
  <1>2. Present(fs) \subseteq Names /\ Files(NoFiles)
    BY DEF Present, NoFiles, ProfileFile, Files, Absent
  <1>3. Fair(p)
    <2>1. Typed'
      <3>1. Given'
        BY <1>1, SameCommands DEF Typed
      <3>2. pc' \in [Procs -> Labels] /\ unread' \in [Procs -> SUBSET Names]
        BY <1>1, <1>2 DEF Typed, Labels
      <3>3. DOMAIN seen' = Procs /\ DOMAIN inputs' = Procs /\ \A q \in Procs : Files(seen'[q])
        BY <1>1, <1>2 DEF Typed
      <3> QED BY <1>1, <3>1, <3>2, <3>3 DEF Typed
    <2>2. Others(p)
      BY <1>1 DEF Typed, Others
    <2>3. Writes(p)
      BY <1>1 DEF Writes
    <2> QED BY <2>1, <2>2, <2>3 DEF Fair
  <1>4. job'[p] = job[p] /\ job[p] \in Jobs[p] /\ unread'[p] = Present(fs) /\ fs' = fs
    BY <1>1 DEF Local, Place, Typed
  <1>5. CASE pc[p] = "load"
    <2>1. pc'[p] = "read" /\ seen'[p] = NoFiles
      BY <1>1, <1>5 DEF Typed
    <2>2. Place(p)'
      BY <1>4, <1>5, <2>1 DEF Place, Local
    <2>3. \A n \in Names \ Present(fs) : NoFiles[n] = fs[n]
      BY DEF NoFiles, Present
    <2>4. Reading(p)'
      BY ONLY <1>4, <2>1, <2>3 DEF Reading
    <2>5. Resolved(p)'
      BY <2>1 DEF Resolved, Succeeded
    <2> QED BY <1>3, <2>1, <2>2, <2>4, <2>5, NotYet
  <1>6. CASE pc[p] = "inputs"
    <2>1. pc'[p] = "reread" /\ seen'[p] = seen[p] /\ config'[p] = config[p]
      BY <1>1, <1>6 DEF Typed
    <2>2. Place(p)'
      BY <1>4, <1>6, <2>1 DEF Place, Local
    <2>3. Reading(p)'
      BY <2>1 DEF Reading
    <2>4. Resolved(p)'
      BY <1>4, <1>6, <2>1 DEF Resolved, Succeeded, Local, Before
    <2> QED BY <1>3, <2>1, <2>2, <2>3, <2>4, NotYet
  <1> QED BY <1>1, <1>5, <1>6

LEMMA ReadKeeps ==
  ASSUME Typed, NEW p \in Procs, Local(p), Read(p)
  PROVE  Fair(p) /\ Local(p)'
  <1>1. PICK n \in unread[p] :
          /\ unread' = [unread EXCEPT ![p] = @ \ {n}]
          /\ seen' = IF pc[p] = "read" THEN [seen EXCEPT ![p][n] = fs[n]] ELSE seen
          /\ inputs' = IF pc[p] = "reread" THEN [inputs EXCEPT ![p][n] = fs[n]] ELSE inputs
    BY DEF Read, command
  <1>2. /\ pc[p] \in {"read", "reread"}
        /\ UNCHANGED <<fs, version, wanted, job, pc, count,
                       project, config, todo, result, missed>>
    BY DEF Read, command
  <1>3. n \in Names /\ ProfileFile(fs[n])
    BY DEF Typed
  <1>4. Fair(p)
    <2>1. DOMAIN seen' = Procs /\ \A q \in Procs : Files(seen'[q])
      <3>1. DOMAIN seen' = Procs /\ \A q \in Procs : q # p => seen'[q] = seen[q]
        BY <1>1 DEF Typed
      <3>2. seen'[p] = seen[p] \/ seen'[p] = [seen[p] EXCEPT ![n] = fs[n]]
        BY <1>1 DEF Typed
      <3>3. Files(seen[p])
        BY DEF Typed
      <3>4. Files([seen[p] EXCEPT ![n] = fs[n]])
        BY <1>3, <3>3 DEF Files
      <3>5. Files(seen'[p])
        BY <3>2, <3>3, <3>4
      <3> QED BY <3>1, <3>5 DEF Typed
    <2>2. unread' \in [Procs -> SUBSET Names] /\ DOMAIN inputs' = Procs
      BY <1>1 DEF Typed
    <2>3. Typed'
      <3>1. Given'
        BY <1>2, SameCommands DEF Typed
      <3> QED BY <1>2, <2>1, <2>2, <3>1 DEF Typed
    <2>4. Others(p)
      BY <1>1, <1>2 DEF Typed, Others
    <2>5. Writes(p)
      BY <1>2 DEF Writes
    <2> QED BY <2>3, <2>4, <2>5 DEF Fair
  <1>5. CASE pc[p] = "read"
    <2>1. /\ unread'[p] = unread[p] \ {n} /\ seen'[p][n] = fs[n]
          /\ \A m \in Names : m # n => seen'[p][m] = seen[p][m]
      <3>1. DOMAIN seen[p] = Names /\ seen'[p] = [seen[p] EXCEPT ![n] = fs[n]]
        BY <1>1, <1>5 DEF Typed, Files
      <3> QED BY <1>1, <1>3, <3>1 DEF Typed
    <2>2. Place(p)'
      BY <1>2 DEF Place, Local
    <2>3. Reading(p)'
      BY <1>2, <1>5, <2>1 DEF Reading, Local, Alone
    <2>4. Resolved(p)'
      BY <1>2, <1>5 DEF Resolved, Succeeded
    <2> QED BY <1>2, <1>4, <1>5, <2>2, <2>3, <2>4, NotYet
  <1>6. CASE pc[p] = "reread"
    <2>1. seen' = seen
      BY <1>1, <1>6
    <2>2. Place(p)' /\ Reading(p)' /\ Resolved(p)'
      BY <1>2, <1>6, <2>1 DEF Place, Reading, Resolved, Succeeded, Local, Before
    <2> QED BY <1>2, <1>4, <1>6, <2>2, NotYet
  <1> QED BY <1>2, <1>5, <1>6

LEMMA LoadedKeeps ==
  ASSUME Typed, NEW p \in Procs, Local(p), Loaded(p)
  PROVE  Fair(p) /\ Local(p)'
  <1>1. /\ pc[p] = "read" /\ unread[p] = {}
        /\ project' = [project EXCEPT ![p] = IF Loadable(seen[p]) THEN View(seen[p]) ELSE <<>>]
        /\ UNCHANGED <<fs, version, wanted, job, count, unread,
                       seen, inputs, config, todo, missed>>
    BY DEF Loaded, command
  <1>2. job[p] \in Jobs[p] /\ job[p].cmd # "init"
    BY <1>1 DEF Local, Place
  <1>3. Others(p) /\ Writes(p) /\ DOMAIN project' = Procs
    BY <1>1 DEF Typed, Others, Writes, Loaded, Goto, End, command
  <1>4. CASE End(p, "refused")
    <2>1. pc' = [pc EXCEPT ![p] = "idle"] /\ result' = [result EXCEPT ![p] = "refused"]
      BY <1>4 DEF End
    <2>2. Typed'
      <3>1. "idle" \in Labels /\ \E r \in Results : result' = [result EXCEPT ![p] = r]
        BY <2>1 DEF Labels, Results
      <3> QED BY <1>1, <1>3, <2>1, <3>1, SameCommands, KeepsTypes DEF Typed
    <2>3. job'[p] \in Jobs[p] /\ pc'[p] = "idle" /\ result'[p] # "ok"
      BY <1>1, <1>2, <2>1 DEF Typed
    <2> QED BY <1>3, <2>2, <2>3, EndBadly DEF Fair
  <1>5. CASE /\ Loadable(seen[p])
             /\ Goto(p, CASE ProfileCommand(job[p]) -> "edit"
                         [] Generating(job[p])     -> "resolve"
                         [] OTHER                  -> "generate")
    <2>1. /\ pc' = [pc EXCEPT ![p] = CASE ProfileCommand(job[p]) -> "edit"
                                       [] Generating(job[p])     -> "resolve"
                                       [] OTHER                  -> "generate"]
          /\ result' = result
      BY <1>5 DEF Goto
    <2>2. /\ ProfileCommand(job[p]) => pc'[p] = "edit"
          /\ Generating(job[p]) => pc'[p] = "resolve"
          /\ ~ProfileCommand(job[p]) /\ ~Generating(job[p]) => pc'[p] = "generate"
          /\ pc'[p] \in {"edit", "resolve", "generate"}
      BY <2>1 DEF Typed, ProfileCommand, Generating
    <2>3. Typed'
      <3>1. PICK l \in Labels : pc' = [pc EXCEPT ![p] = l]
        BY <2>1, <2>2 DEF Typed, Labels
      <3>2. \E r \in Results : result' = [result EXCEPT ![p] = r]
        BY <2>1, SameResult
      <3> QED BY <1>1, <1>3, <3>1, <3>2, SameCommands, KeepsTypes DEF Typed
    <2>4. /\ project'[p] = Before(p) /\ Before(p)' = Before(p)
          /\ job'[p] = job[p] /\ seen'[p] = seen[p] /\ fs' = fs
      BY <1>1, <1>5 DEF Typed, Before
    <2>5. Alone(p, Names) => \A n \in Names : fs[n] = seen[p][n]
      BY <1>1 DEF Local, Reading
    <2>6. CASE ProfileCommand(job[p]) \/ Generating(job[p])
      <3>1. pc'[p] \in {"edit", "resolve"} /\ (pc'[p] = "resolve" <=> Generating(job[p]))
        BY <2>2, <2>6 DEF ProfileCommand, Generating
      <3>2. Place(p)'
        BY <1>2, <2>4, <2>6, <3>1 DEF Place, ProfileCommand, Generating
      <3>3. Reading(p)'
        BY <1>5, <2>4, <2>5, <3>1 DEF Reading, Alone
      <3>4. Resolved(p)'
        BY <3>1 DEF Resolved, Succeeded
      <3> QED BY <1>3, <2>3, <3>1, <3>2, <3>3, <3>4, NotYet DEF Fair
    <2>7. CASE ~ProfileCommand(job[p]) /\ ~Generating(job[p])
      <3>1. pc'[p] = "generate" /\ job[p].cmd = "migrate"
        BY <1>2, <2>2, <2>7, JobFacts DEF ProfileCommand, Generating
      <3>2. Place(p)'
        BY <1>2, <2>4, <3>1 DEF Place
      <3>3. Reading(p)' /\ Validating(p)' /\ Storing(p)' /\ Writing(p)'
        BY <3>1 DEF Reading, Validating, Storing, Writing
      <3>4. Stored(p)' /\ Written(p)' /\ Resolved(p)'
        BY <2>4, <3>1 DEF Stored, Written, Resolved, Succeeded, Generating
      <3>5. Checked(p)'
        <4>1. ~Guarded(p)'
          BY <2>4, <3>1 DEF Guarded, Atomic
        <4> QED BY <4>1 DEF Checked, Ahead
      <3> QED BY <1>3, <2>3, <3>2, <3>3, <3>4, <3>5 DEF Local, Fair
    <2> QED BY <2>6, <2>7
  <1> QED BY <1>4, <1>5 DEF Loaded

\* A command that is refused, fails or dies.
LEMMA EndKeeps ==
  ASSUME Typed, NEW p \in Procs, Local(p), pc[p] # "idle",
         NEW r \in {"refused", "failed", "crashed"}, End(p, r),
         UNCHANGED <<version, wanted, job, unread, seen, project, inputs, config, missed>>,
         todo' = todo \/ todo' = [todo EXCEPT ![p] = <<>>],
         DOMAIN fs' = Path, \A n \in Names : ProfileFile(fs'[n]), Writes(p)
  PROVE  Fair(p) /\ Local(p)'
  <1>1. pc' = [pc EXCEPT ![p] = "idle"] /\ result' = [result EXCEPT ![p] = r]
    BY DEF End
  <1>2. job[p] \in Jobs[p]
    BY DEF Local, Place
  <1>3. DOMAIN todo' = Procs /\ \A q \in Procs : q # p => todo'[q] = todo[q]
    BY DEF Typed
  <1>4. Others(p)
    BY <1>1, <1>3 DEF Typed, Others
  <1>5. Typed'
    <2>1. "idle" \in Labels /\ r \in Results
      BY DEF Labels, Results
    <2>2. \E z \in Results : result' = [result EXCEPT ![p] = z]
      BY <1>1, <2>1
    <2> QED BY <1>1, <1>3, <2>1, <2>2, SameCommands, KeepsTypes DEF Typed
  <1>6. job'[p] \in Jobs[p] /\ pc'[p] = "idle" /\ result'[p] # "ok"
    BY <1>1, <1>2 DEF Typed
  <1> QED BY <1>4, <1>5, <1>6, EndBadly DEF Fair

\* A step that only moves a process on.
LEMMA MoveKeeps ==
  ASSUME Typed, NEW p \in Procs, NEW l \in Labels, pc' = [pc EXCEPT ![p] = l],
         \E r \in Results : result' = [result EXCEPT ![p] = r],
         UNCHANGED <<fs, version, wanted, job, unread, seen, inputs>>,
         DOMAIN project' = Procs, DOMAIN config' = Procs, DOMAIN todo' = Procs,
         DOMAIN missed' = Procs,
         \A q \in Procs : q # p => /\ project'[q] = project[q] /\ config'[q] = config[q]
                                   /\ todo'[q] = todo[q] /\ missed'[q] = missed[q]
  PROVE  Fair(p) /\ pc'[p] = l
  <1>1. Typed'
    BY SameCommands, KeepsTypes DEF Typed
  <1>2. PICK r \in Results : result' = [result EXCEPT ![p] = r]
    OBVIOUS
  <1>3. Others(p)
    BY <1>2 DEF Typed, Others
  <1>4. Writes(p)
    BY DEF Writes
  <1> QED BY <1>1, <1>3, <1>4 DEF Fair, Typed

\* The common part of new, set and unset: the edited profile is in memory.
LEMMA EditedKeeps ==
  ASSUME Typed, NEW p \in Procs, Local(p), pc[p] = "edit", Edits(p), Permitted(p),
         Edited(p, EditOf(p)), Fresh(p)' => fs[job[p].profile] = Absent,
         UNCHANGED <<fs, version, wanted, job, unread, seen, inputs, config, todo>>,
         DOMAIN missed' = Procs, \A q \in Procs : q # p => missed'[q] = missed[q]
  PROVE  Fair(p) /\ Local(p)'
  <1>1. /\ pc' = [pc EXCEPT ![p] = "validate"] /\ result' = result
        /\ project' = [project EXCEPT ![p] = With(project[p], EditOf(p))]
    BY DEF Edited, Goto, Typed
  <1>2. Fair(p) /\ pc'[p] = "validate"
    <2>1. "validate" \in Labels /\ \E r \in Results : result' = [result EXCEPT ![p] = r]
      BY <1>1, SameResult DEF Labels
    <2>2. DOMAIN project' = Procs /\ \A q \in Procs : q # p => project'[q] = project[q]
      BY <1>1 DEF Typed
    <2> QED BY <1>1, <2>1, <2>2, MoveKeeps DEF Typed
  <1>3. job'[p] = job[p] /\ seen'[p] = seen[p] /\ fs' = fs
    OBVIOUS
  <1>4. /\ After(p)' = After(p) /\ (Permitted(p)' <=> Permitted(p))
        /\ (Edits(p)' <=> Edits(p))
    BY ONLY <1>3, SameJob
  <1>5. project'[p] = After(p)
    <2>1. project[p] = Before(p)
      BY DEF Local, Reading
    <2> QED BY <1>1, <2>1 DEF Typed, After
  <1>6. Alone(p, Names) => \A n \in Names : fs[n] = seen[p][n]
    BY DEF Local, Reading
  <1>7. Validating(p)'
    BY <1>2, <1>3, <1>4, <1>5, <1>6 DEF Validating, Alone
  <1>8. Place(p)'
    BY <1>2, <1>3, <1>4 DEF Place, Local
  <1>9. Reading(p)' /\ Storing(p)' /\ Checked(p)' /\ Writing(p)'
    BY <1>2 DEF Reading, Storing, Checked, Writing
  <1>10. Stored(p)' /\ Resolved(p)' /\ Written(p)'
    BY <1>2 DEF Stored, Resolved, Written, Succeeded
  <1> QED BY <1>2, <1>7, <1>8, <1>9, <1>10 DEF Local

LEMMA RefusedKeeps ==
  ASSUME Typed, NEW p \in Procs, Local(p), pc[p] # "idle", End(p, "refused"),
         UNCHANGED <<fs, version, wanted, job, unread, seen,
                     project, inputs, config, todo, missed>>
  PROVE  Fair(p) /\ Local(p)'
  <1>1. Writes(p) /\ DOMAIN fs' = Path /\ \A n \in Names : ProfileFile(fs'[n])
    BY DEF Writes, Typed
  <1> QED BY <1>1, EndKeeps

LEMMA ProfileNewKeeps ==
  ASSUME Typed, NEW p \in Procs, Local(p), ProfileNew(p)
  PROVE  Fair(p) /\ Local(p)'
  <1> DEFINE n == job[p].profile
             b == job[p].base
             allowed == /\ b # n
                        /\ b # None => b \in DOMAIN project[p]
                        /\ n \in DOMAIN project[p] => job[p].force
             there == fs[n] # Absent /\ ~job[p].force
  <1>1. /\ pc[p] = "edit" /\ job[p].cmd = "new"
        /\ UNCHANGED <<fs, version, wanted, job, count, unread, seen, inputs, config, todo>>
    BY DEF ProfileNew, command
  <1>2. CASE End(p, "refused") /\ UNCHANGED <<project, missed>>
    BY <1>1, <1>2, RefusedKeeps
  <1>3. CASE /\ allowed
             /\ missed' = [missed EXCEPT ![p] = IF there THEN {n} ELSE {}]
             /\ Edited(p, Profile(n, b, <<>>))
    <2>1. /\ DOMAIN missed' = Procs /\ \A q \in Procs : q # p => missed'[q] = missed[q]
          /\ missed'[p] = IF there THEN {n} ELSE {}
      BY <1>3 DEF Typed
    <2>2. project[p] = Before(p) /\ Loadable(seen[p])
      BY <1>1 DEF Local, Reading
    <2>3. Permitted(p) /\ Edits(p)
      BY <1>1, <1>3, <2>2 DEF Permitted, Edits
    <2>4. EditOf(p) = Profile(n, b, <<>>)
      BY <1>1 DEF EditOf
    <2>5. Fresh(p)' => fs[n] = Absent
      <3>1. Fresh(p)' => ~job[p].force /\ n \notin missed'[p]
        BY <1>1 DEF Fresh
      <3> QED BY <2>1, <3>1
    <2> QED BY <1>1, <1>3, <2>1, <2>3, <2>4, <2>5, EditedKeeps
  <1> QED BY <1>2, <1>3 DEF ProfileNew

LEMMA ProfileSetKeeps ==
  ASSUME Typed, NEW p \in Procs, Local(p), ProfileSet(p)
  PROVE  Fair(p) /\ Local(p)'
  <1> DEFINE n == job[p].profile
             known == n \in DOMAIN project[p] /\ job[p].option \in Options
  <1>1. /\ pc[p] = "edit" /\ job[p].cmd = "set"
        /\ UNCHANGED <<fs, version, wanted, job, count, unread,
                       seen, inputs, config, todo, missed>>
    BY DEF ProfileSet, command
  <1>2. CASE ~known
    <2>1. End(p, "refused") /\ project' = project
      BY <1>2 DEF ProfileSet
    <2> QED BY <1>1, <2>1, RefusedKeeps
  <1>3. CASE known
    <2>1. Edited(p, SetValue(project[p][n], job[p].option, job[p].value))
      BY <1>3 DEF ProfileSet
    <2>2. project[p] = Before(p) /\ Loadable(seen[p])
      BY <1>1 DEF Local, Reading
    <2>3. Permitted(p) /\ Edits(p)
      BY <1>1, <1>3, <2>2 DEF Permitted, Edits
    <2>4. EditOf(p) = SetValue(project[p][n], job[p].option, job[p].value)
      BY <1>1, <2>2 DEF EditOf
    <2>5. ~Fresh(p)'
      BY <1>1 DEF Fresh
    <2> QED BY <1>1, <2>1, <2>3, <2>4, <2>5, EditedKeeps DEF Typed
  <1> QED BY <1>2, <1>3

LEMMA ProfileUnsetKeeps ==
  ASSUME Typed, NEW p \in Procs, Local(p), ProfileUnset(p)
  PROVE  Fair(p) /\ Local(p)'
  <1> DEFINE n == job[p].profile
             set == n \in DOMAIN project[p] /\ ValueIndex(project[p][n], job[p].option) # 0
  <1>1. /\ pc[p] = "edit" /\ job[p].cmd = "unset"
        /\ UNCHANGED <<fs, version, wanted, job, count, unread,
                       seen, inputs, config, todo, missed>>
    BY DEF ProfileUnset, command
  <1>2. CASE ~set
    <2>1. End(p, "refused") /\ project' = project
      BY <1>2 DEF ProfileUnset
    <2> QED BY <1>1, <2>1, RefusedKeeps
  <1>3. CASE set
    <2>1. Edited(p, UnsetValue(project[p][n], job[p].option))
      BY <1>3 DEF ProfileUnset
    <2>2. project[p] = Before(p) /\ Loadable(seen[p])
      BY <1>1 DEF Local, Reading
    <2>3. Permitted(p) /\ Edits(p)
      BY <1>1, <1>3, <2>2 DEF Permitted, Edits
    <2>4. EditOf(p) = UnsetValue(project[p][n], job[p].option)
      BY <1>1, <2>2 DEF EditOf
    <2>5. ~Fresh(p)'
      BY <1>1 DEF Fresh
    <2> QED BY <1>1, <2>1, <2>3, <2>4, <2>5, EditedKeeps DEF Typed
  <1> QED BY <1>2, <1>3

LEMMA ProfileValidateKeeps ==
  ASSUME Typed, NEW p \in Procs, Local(p), ProfileValidate(p)
  PROVE  Fair(p) /\ Local(p)'
  <1>1. /\ pc[p] = "edit" /\ job[p].cmd = "validate"
        /\ UNCHANGED <<fs, version, wanted, job, count, unread, seen,
                       project, inputs, config, todo, missed>>
    BY DEF ProfileValidate, command
  <1>2. PICK r \in {"ok", "refused"} :
          pc' = [pc EXCEPT ![p] = "idle"] /\ result' = [result EXCEPT ![p] = r]
    BY DEF ProfileValidate, End
  <1>3. Fair(p) /\ pc'[p] = "idle"
    <2>1. "idle" \in Labels /\ r \in Results
      BY DEF Labels, Results
    <2>2. \E z \in Results : result' = [result EXCEPT ![p] = z]
      BY <1>2, <2>1
    <2> QED BY <1>1, <1>2, <2>1, <2>2, MoveKeeps DEF Typed
  <1>4. job'[p] = job[p] /\ job[p] \in Jobs[p]
    BY <1>1 DEF Local, Place
  <1>5. Place(p)' /\ Reading(p)' /\ Validating(p)' /\ Storing(p)' /\ Checked(p)' /\ Writing(p)'
    BY <1>3, <1>4 DEF Place, Reading, Validating, Storing, Checked, Writing
  <1>6. Stored(p)' /\ Resolved(p)' /\ Written(p)'
    BY <1>1, <1>4 DEF Stored, Resolved, Written, Edits, Generating
  <1> QED BY <1>3, <1>5, <1>6 DEF Local

LEMMA ValidateResolveKeeps ==
  ASSUME Typed, NEW p \in Procs, Local(p), ValidateResolve(p)
  PROVE  Fair(p) /\ Local(p)'
  <1>1. /\ pc[p] = "validate"
        /\ UNCHANGED <<fs, version, wanted, job, count, unread,
                       seen, project, inputs, config, missed>>
    BY DEF ValidateResolve, command
  <1>2. /\ Edits(p) /\ Permitted(p) /\ project[p] = After(p) /\ job[p] \in Jobs[p]
        /\ job[p].cmd # "validate"
    BY <1>1 DEF Local, Place, Validating, Edits
  <1>3. Files(seen[p])
    BY DEF Typed
  <1>4. project[p][job[p].profile] = EditOf(p) /\ EditOf(p).name = job[p].profile
    BY <1>2, <1>3, AfterFacts, EditFacts
  <1>5. CASE ~EditResolves(p)
    <2>1. End(p, "refused") /\ todo' = todo
      BY <1>5 DEF ValidateResolve
    <2> QED BY <1>1, <2>1, RefusedKeeps
  <1>6. CASE EditResolves(p)
    <2>1. PICK v \in Sorted(EditOf(p).values) :
            todo' = [todo EXCEPT ![p] = <<[path |-> ProfilePath(EditOf(p)),
                                           text |-> [EditOf(p) EXCEPT !.values = v]]>>]
      BY <1>4, <1>6 DEF ValidateResolve
    <2>2. PICK t : t = [EditOf(p) EXCEPT !.values = v]
      OBVIOUS
    <2>3. /\ t \in Asked(p) /\ todo'[p] = <<[path |-> job[p].profile, text |-> t]>>
          /\ DOMAIN todo' = Procs /\ \A q \in Procs : q # p => todo'[q] = todo[q]
      BY <1>4, <2>1, <2>2 DEF Typed, Asked, ProfilePath
    <2>4. pc' = [pc EXCEPT ![p] = "open"] /\ result' = result
      BY <1>6 DEF ValidateResolve, Goto
    <2>5. Fair(p) /\ pc'[p] = "open"
      <3>1. "open" \in Labels /\ \E r \in Results : result' = [result EXCEPT ![p] = r]
        BY <2>4, SameResult DEF Labels
      <3> QED BY <1>1, <2>3, <2>4, <3>1, MoveKeeps DEF Typed
    <2>6. job'[p] = job[p] /\ seen'[p] = seen[p] /\ missed'[p] = missed[p] /\ fs' = fs
      BY <1>1
    <2>7. /\ Asked(p)' = Asked(p) /\ (Approved(p)' <=> Approved(p))
          /\ (Fresh(p)' <=> Fresh(p)) /\ (Edits(p)' <=> Edits(p))
          /\ \A S : Alone(p, S)' <=> Alone(p, S)
      BY ONLY <2>6, SameJob
    <2>8. Approved(p)
      BY <1>2, <1>6 DEF Approved, EditResolves
    <2>9. /\ Alone(p, Names) => Elsewhere(p)
          /\ Fresh(p) => fs[job[p].profile] = Absent
      BY <1>1 DEF Local, Validating, Elsewhere
    <2>10. Alone(p, Names)' => Elsewhere(p)'
      BY <1>1, <2>6, <2>9 DEF Elsewhere, Alone
    <2>11. Storing(p)'
      BY <2>3, <2>5, <2>6, <2>7, <2>8, <2>9, <2>10 DEF Storing
    <2>12. Place(p)'
      BY <1>2, <2>5, <2>6 DEF Place
    <2>13. Reading(p)' /\ Validating(p)' /\ Checked(p)' /\ Writing(p)'
      BY <1>2, <2>5, <2>7 DEF Reading, Validating, Checked, Writing
    <2>14. Stored(p)' /\ Written(p)'
      BY <2>5 DEF Stored, Written, Succeeded
    <2>15. Resolved(p)'
      BY <1>2, <2>6 DEF Resolved, Edits, Generating
    <2> QED BY <2>5, <2>11, <2>12, <2>13, <2>14, <2>15 DEF Local
  <1> QED BY <1>5, <1>6

LEMMA ResolveGenKeeps ==
  ASSUME Typed, NEW p \in Procs, Local(p), ResolveGen(p)
  PROVE  Fair(p) /\ Local(p)'
  <1>1. /\ pc[p] = "resolve"
        /\ UNCHANGED <<fs, version, wanted, job, count, unread,
                       seen, project, inputs, todo, missed>>
    BY DEF ResolveGen, command
  <1>2. job[p] \in Jobs[p] /\ Generating(job[p]) /\ project[p] = Before(p)
    BY <1>1 DEF Local, Place, Reading
  <1>3. CASE ~Resolves(project[p], job[p].profile)
    <2>1. End(p, "refused") /\ config' = config
      BY <1>3 DEF ResolveGen
    <2> QED BY <1>1, <2>1, RefusedKeeps
  <1>4. CASE Resolves(project[p], job[p].profile)
    <2>1. /\ config' = [config EXCEPT ![p] = Effective(project[p], job[p].profile)]
          /\ pc' = [pc EXCEPT ![p] = IF version[p] = 1 THEN "inputs" ELSE "generate"]
          /\ result' = result
      BY <1>4 DEF ResolveGen, Goto
    <2>2. PICK l \in Labels : l = IF version[p] = 1 THEN "inputs" ELSE "generate"
      BY DEF Labels
    <2>3. Fair(p) /\ pc'[p] = l
      <3>1. \E r \in Results : result' = [result EXCEPT ![p] = r]
        BY <2>1, SameResult
      <3>2. pc' = [pc EXCEPT ![p] = l]
        BY <2>1, <2>2
      <3>3. DOMAIN config' = Procs /\ \A q \in Procs : q # p => config'[q] = config[q]
        BY <2>1 DEF Typed
      <3> QED BY <1>1, <3>1, <3>2, <3>3, MoveKeeps DEF Typed
    <2>4. /\ job'[p] = job[p] /\ seen'[p] = seen[p] /\ version'[p] = version[p]
          /\ config'[p] = Effective(Before(p), job[p].profile)
          /\ Before(p)' = Before(p)
      BY <1>1, <1>2, <2>1 DEF Typed, Before
    <2>5. Resolved(p)'
      BY <1>2, <1>4, <2>4 DEF Resolved
    <2>6. l \in {"inputs", "generate"} /\ (l = "generate" => version[p] # 1)
      BY <2>2
    <2>7. Place(p)' /\ Reading(p)'
      BY <1>2, <2>3, <2>4, <2>6 DEF Place, Reading, Generating
    <2>8. CASE l = "inputs"
      BY <2>3, <2>5, <2>7, <2>8, NotYet
    <2>9. CASE l = "generate"
      <3>1. ~Guarded(p)'
        BY <1>2, <2>4, <2>6, <2>9 DEF Guarded, Atomic
      <3>2. Checked(p)'
        BY <3>1 DEF Checked, Ahead
      <3>3. Validating(p)' /\ Storing(p)' /\ Writing(p)' /\ Stored(p)' /\ Written(p)'
        BY <2>3, <2>9 DEF Validating, Storing, Writing, Stored, Written, Succeeded
      <3> QED BY <2>3, <2>5, <2>7, <3>2, <3>3 DEF Local
    <2> QED BY <2>6, <2>8, <2>9
  <1> QED BY <1>3, <1>4

LEMMA CollectedInputsKeeps ==
  ASSUME Typed, NEW p \in Procs, Local(p), CollectedInputs(p)
  PROVE  Fair(p) /\ Local(p)'
  <1>1. /\ pc[p] = "reread"
        /\ UNCHANGED <<fs, version, wanted, job, count, unread, seen,
                       project, inputs, config, todo, missed>>
    BY DEF CollectedInputs, command
  <1>2. CASE Goto(p, "check")
    <2>1. pc' = [pc EXCEPT ![p] = "check"] /\ result' = result
      BY <1>2 DEF Goto
    <2>2. Fair(p) /\ pc'[p] = "check"
      <3>1. "check" \in Labels /\ \E r \in Results : result' = [result EXCEPT ![p] = r]
        BY <2>1, SameResult DEF Labels
      <3> QED BY <1>1, <2>1, <3>1, MoveKeeps DEF Typed
    <2>3. Place(p)' /\ Reading(p)'
      BY <1>1, <2>2 DEF Place, Reading, Local, Generating
    <2>4. Resolved(p)'
      BY <1>1, <2>2 DEF Resolved, Local, Before, Succeeded
    <2> QED BY <2>2, <2>3, <2>4, NotYet
  <1>3. CASE End(p, "failed")
    <2>1. Writes(p) /\ DOMAIN fs' = Path /\ \A n \in Names : ProfileFile(fs'[n])
      BY <1>1 DEF Writes, Typed
    <2> QED BY <1>1, <1>3, <2>1, EndKeeps
  <1> QED BY <1>2, <1>3 DEF CollectedInputs

LEMMA WhereKeeps ==
  ASSUME Typed, NEW p \in Procs, Local(p), Where(p)
  PROVE  Fair(p) /\ Local(p)'
  <1>1. /\ pc[p] = "where"
        /\ UNCHANGED <<fs, version, wanted, job, count, unread, seen,
                       project, inputs, config, todo, missed>>
    BY DEF Where, command
  <1>2. job[p] \in Jobs[p] /\ job[p].cmd = "migrate"
    BY <1>1 DEF Local, Place
  <1>3. CASE End(p, "refused")
    BY <1>1, <1>3, RefusedKeeps
  <1>4. CASE Goto(p, "load")
    <2>1. Fair(p) /\ pc'[p] = "load"
      <3>1. "load" \in Labels /\ pc' = [pc EXCEPT ![p] = "load"] /\ result' = result
        BY <1>4 DEF Goto, Labels
      <3>2. \E r \in Results : result' = [result EXCEPT ![p] = r]
        BY <3>1, SameResult
      <3> QED BY <1>1, <3>1, <3>2, MoveKeeps DEF Typed
    <2>2. Place(p)' /\ Reading(p)' /\ Resolved(p)'
      BY <1>1, <1>2, <2>1 DEF Place, Reading, Resolved, Generating
    <2> QED BY <2>1, <2>2, NotYet
  <1> QED BY <1>3, <1>4 DEF Where

LEMMA PreflightKeeps ==
  ASSUME Typed, NEW p \in Procs, Local(p), Preflight(p)
  PROVE  Fair(p) /\ Local(p)'
  <1>1. /\ pc[p] = "check"
        /\ UNCHANGED <<fs, version, wanted, job, count, unread,
                       seen, project, inputs, config, todo>>
    BY DEF Preflight, command
  <1>2. job[p] \in Jobs[p] /\ job[p].cmd \in {"gen", "init"}
    BY <1>1 DEF Local, Place
  <1>3. CASE End(p, "refused") /\ UNCHANGED missed
    BY <1>1, <1>3, RefusedKeeps
  <1>4. CASE /\ missed' = [missed EXCEPT ![p] = IF Guards(p) THEN Exists(p) ELSE {}]
             /\ Goto(p, "generate")
    <2>1. pc' = [pc EXCEPT ![p] = "generate"] /\ result' = result
      BY <1>4 DEF Goto
    <2>2. /\ DOMAIN missed' = Procs /\ \A q \in Procs : q # p => missed'[q] = missed[q]
          /\ missed'[p] = IF Guards(p) THEN Exists(p) ELSE {}
      BY <1>4 DEF Typed
    <2>3. Fair(p) /\ pc'[p] = "generate"
      <3>1. "generate" \in Labels /\ \E r \in Results : result' = [result EXCEPT ![p] = r]
        BY <2>1, SameResult DEF Labels
      <3> QED BY <1>1, <2>1, <2>2, <3>1, MoveKeeps DEF Typed
    <2>4. Place(p)' /\ Reading(p)' /\ Validating(p)' /\ Storing(p)' /\ Writing(p)'
      BY <1>1, <1>2, <2>3 DEF Place, Reading, Validating, Storing, Writing
    <2>5. Resolved(p)'
      BY <1>1, <2>3 DEF Resolved, Local, Before, Succeeded
    <2>6. Stored(p)' /\ Written(p)'
      BY <2>3 DEF Stored, Written, Succeeded
    <2>7. /\ \A i : PathOf(p, i)' = PathOf(p, i)
          /\ Guarded(p)' <=> Guarded(p)
      BY ONLY <1>1, SameArtifacts
    <2>8. PICK n : n = Len(wanted[p]) /\ n \in Nat /\ DOMAIN wanted[p] = 1..n
      BY <1>2, WantedFacts, ListFacts
    <2>9. ASSUME ~job[p].dry, Guarded(p), NEW i \in 1..n, PathOf(p, i) \notin missed'[p]
          PROVE  fs[PathOf(p, i)] = Absent
      <3>1. Guards(p)
        BY <2>9 DEF Guarded, Guards
      <3>2. PathOf(p, i) \notin Exists(p)
        BY <2>2, <2>9, <3>1
      <3> QED BY <2>8, <3>2 DEF Exists, Looked, PathOf
    <2>10. Checked(p)'
      <3> SUFFICES ASSUME ~job[p].dry, NEW i \in 1..n, Guarded(p), PathOf(p, i) \notin missed'[p]
                   PROVE  fs[PathOf(p, i)] = Absent
        BY <1>1, <2>3, <2>7, <2>8 DEF Checked, Ahead
      <3> QED BY <2>9
    <2> QED BY <2>3, <2>4, <2>5, <2>6, <2>10 DEF Local
  <1> QED BY <1>3, <1>4 DEF Preflight

LEMMA GenerateKeeps ==
  ASSUME Typed, NEW p \in Procs, Local(p), Generate(p)
  PROVE  Fair(p) /\ Local(p)'
  <1>1. /\ pc[p] = "generate"
        /\ UNCHANGED <<fs, version, wanted, job, count, unread,
                       seen, project, inputs, config, missed>>
    BY DEF Generate, command
  <1>2. job[p] \in Jobs[p] /\ job[p].cmd \in {"gen", "init", "migrate"}
    BY <1>1 DEF Local, Place
  <1>3. ~Edits(p) /\ ~Edits(p)' /\ ~ProfileCommand(job[p])
    BY <1>1, <1>2 DEF Edits, ProfileCommand
  <1>4. CASE job[p].dry /\ job[p].cmd # "migrate" /\ End(p, "ok") /\ todo' = todo
    <2>1. Fair(p) /\ pc'[p] = "idle"
      <3>1. /\ "idle" \in Labels /\ "ok" \in Results
            /\ pc' = [pc EXCEPT ![p] = "idle"] /\ result' = [result EXCEPT ![p] = "ok"]
        BY <1>4 DEF End, Labels, Results
      <3>2. \E r \in Results : result' = [result EXCEPT ![p] = r]
        BY <3>1
      <3> QED BY <1>1, <1>4, <3>1, <3>2, MoveKeeps DEF Typed
    <2>2. Place(p)' /\ Reading(p)' /\ Validating(p)' /\ Storing(p)' /\ Checked(p)' /\ Writing(p)'
      BY <1>1, <1>2, <2>1 DEF Place, Reading, Validating, Storing, Checked, Writing
    <2>3. Stored(p)' /\ Written(p)'
      BY <1>1, <1>3, <1>4 DEF Stored, Written
    <2>4. Resolved(p)'
      BY <1>1 DEF Resolved, Local, Before
    <2> QED BY <2>1, <2>2, <2>3, <2>4 DEF Local
  <1>5. CASE /\ job[p].dry => job[p].cmd = "migrate"
             /\ todo' = [todo EXCEPT ![p] = Texts(p)]
             /\ Goto(p, "open")
    <2>1. Fair(p) /\ pc'[p] = "open"
      <3>1. "open" \in Labels /\ pc' = [pc EXCEPT ![p] = "open"] /\ result' = result
        BY <1>5 DEF Goto, Labels
      <3>2. \E r \in Results : result' = [result EXCEPT ![p] = r]
        BY <3>1, SameResult
      <3>3. DOMAIN todo' = Procs /\ \A q \in Procs : q # p => todo'[q] = todo[q]
        BY <1>5 DEF Typed
      <3> QED BY <1>1, <3>1, <3>2, <3>3, MoveKeeps DEF Typed
    <2>2. Place(p)' /\ Reading(p)' /\ Validating(p)' /\ Checked(p)'
      BY <1>1, <1>2, <2>1 DEF Place, Reading, Validating, Checked
    <2>3. Storing(p)' /\ Stored(p)' /\ Written(p)'
      BY <1>3, <2>1 DEF Storing, Stored, Written, Succeeded
    <2>4. Resolved(p)'
      BY <1>1, <2>1 DEF Resolved, Local, Before, Succeeded
    <2>5. /\ \A i : PathOf(p, i)' = PathOf(p, i)
          /\ Guarded(p)' <=> Guarded(p)
          /\ \A k : Rest(p, k)' = Rest(p, k)
      BY ONLY <1>1, SameArtifacts
    <2>6. PICK n, w : n = Len(wanted[p]) /\ w = wanted[p]
      OBVIOUS
    <2>7. n \in Nat /\ DOMAIN w = 1..n
      BY <1>2, <2>6, WantedFacts, ListFacts
    <2>8. Texts(p) = Rest(p, 0)
      <3>1. Texts(p) = [i \in 1..n |-> Artifact(p, w[i])]
        BY <2>6, <2>7 DEF Texts
      <3>2. Rest(p, 0) = [i \in 1..(n - 0) |-> Artifact(p, w[0 + i])]
        BY <2>6 DEF Rest
      <3>3. n - 0 = n /\ \A i \in 1..n : 0 + i = i
        BY <2>7
      <3> QED BY ONLY <3>1, <3>2, <3>3
    <2>9. todo'[p] = Rest(p, 0)'
      BY <1>5, <2>5, <2>8 DEF Typed
    <2>10. ~job[p].dry
      BY <1>2, <1>5, JobFacts
    <2>11. Ahead(p, 0)
      BY <1>1, <2>10 DEF Local, Checked
    <2>12. Done(p, 0)' /\ Ahead(p, 0)'
      <3>1. Done(p, 0)'
        BY DEF Done
      <3>2. Ahead(p, 0)'
        BY <1>1, <2>1, <2>5, <2>11 DEF Ahead, Alone
      <3> QED BY <3>1, <3>2
    <2>13. Writing(p)'
      <3>1. 0 \in 0..Len(wanted'[p])
        BY <1>1, <2>6, <2>7
      <3>2. pc'[p] # "write"
        BY <2>1
      <3> QED BY ONLY <2>9, <2>12, <3>1, <3>2 DEF Writing
    <2> QED BY <2>1, <2>2, <2>3, <2>4, <2>13 DEF Local
  <1> QED BY <1>4, <1>5 DEF Generate

\* A command that stores a profile and finds its file still to be written.
LEMMA EditsFile ==
  ASSUME Typed, NEW p \in Procs, Local(p), pc[p] \in {"open", "write"}, Edits(p),
         todo[p] # <<>>
  PROVE  /\ job[p].profile \in Names /\ File(p).path = job[p].profile
         /\ File(p).text \in Asked(p)
         /\ todo[p] = <<[path |-> job[p].profile, text |-> File(p).text]>>
         /\ Tail(todo[p]) = <<>>
         /\ Fresh(p) => fs[job[p].profile] = IF pc[p] = "write" THEN Empty ELSE Absent
  <1>1. job[p] \in Jobs[p]
    BY DEF Local, Place
  <1>2. PICK t \in Asked(p) :
          /\ todo[p] = <<[path |-> job[p].profile, text |-> t]>>
          /\ Fresh(p) => fs[job[p].profile] = IF pc[p] = "write" THEN Empty ELSE Absent
    BY DEF Local, Storing
  <1>3. PICK r : r = [path |-> job[p].profile, text |-> t]
    OBVIOUS
  <1>4. todo[p] = <<r>> /\ r.path = job[p].profile /\ r.text = t
    BY <1>2, <1>3
  <1>5. File(p) = r /\ Tail(todo[p]) = <<>>
    BY <1>4 DEF File
  <1>6. job[p].profile \in Names
    BY <1>1, JobFacts DEF Edits, ProfileCommand
  <1> QED BY <1>2, <1>3, <1>4, <1>5, <1>6

\* A command that writes a list of files and has written the first k.
LEMMA ListsFile ==
  ASSUME Typed, NEW p \in Procs, Local(p), pc[p] \in {"open", "write"}, ~Edits(p),
         todo[p] # <<>>
  PROVE  \E n \in Nat, k \in Nat :
           /\ n = Len(wanted[p]) /\ k + 1 \in 1..n
           /\ todo[p] = Rest(p, k) /\ Tail(todo[p]) = Rest(p, k + 1)
           /\ File(p).path = PathOf(p, k + 1) /\ File(p).text = TextOf(p, k + 1)
           /\ Done(p, k) /\ Ahead(p, k)
           /\ \A i \in 1..n : PathOf(p, i) \in Path
  <1>1. job[p] \in Jobs[p] /\ job[p].cmd # "validate"
    BY DEF Local, Place
  <1>2. job[p].cmd \in {"gen", "init", "migrate"}
    BY <1>1, JobFacts DEF Edits
  <1>3. PICK n : n = Len(wanted[p]) /\ n \in Nat
    BY <1>1, <1>2, WantedFacts
  <1>4. PICK k \in 0..n : todo[p] = Rest(p, k) /\ Done(p, k) /\ Ahead(p, k)
    BY <1>3 DEF Local, Writing
  <1>5. /\ k = n => Rest(p, k) = <<>>
        /\ k # n => /\ Head(Rest(p, k)) = Artifact(p, wanted[p][k + 1])
                    /\ Tail(Rest(p, k)) = Rest(p, k + 1)
    <2>1. n \in Nat /\ n = Len(wanted[p]) /\ k \in 0..n
      BY <1>3, <1>4
    <2> QED BY ONLY <2>1, RestFacts
  <1>6. k # n /\ k \in Nat /\ k + 1 \in 1..n
    BY <1>3, <1>4, <1>5
  <1>7. /\ File(p) = Artifact(p, wanted[p][k + 1])
        /\ Tail(todo[p]) = Rest(p, k + 1)
    BY <1>4, <1>5, <1>6 DEF File
  <1>8. File(p).path = PathOf(p, k + 1) /\ File(p).text = TextOf(p, k + 1)
    BY <1>7 DEF PathOf, TextOf, Artifact
  <1>9. \A i \in 1..n : PathOf(p, i) \in Path
    BY <1>1, <1>2, <1>3, WantedFacts
  <1> QED BY <1>3, <1>4, <1>6, <1>7, <1>8, <1>9

\* One file changes, and a profile file only into a profile file.
LEMMA PutKeeps ==
  ASSUME Typed, NEW p \in Procs, Local(p), pc[p] \in {"open", "write"}, todo[p] # <<>>,
         NEW c, fs' = [fs EXCEPT ![File(p).path] = c],
         \/ c = Empty
         \/ c = File(p).text
         \/ c \in Torn(File(p).text)
  PROVE  /\ DOMAIN fs' = Path /\ Writes(p) /\ \A n \in Names : ProfileFile(fs'[n])
         /\ fs'[File(p).path] = c
         /\ \A f \in Path : f # File(p).path => fs'[f] = fs[f]
  <1>1. /\ File(p).path \in Path
        /\ File(p).path \in Names => ProfileFile(File(p).text)
    BY FileToWrite
  <1>2. PICK f, t : f = File(p).path /\ t = File(p).text
    OBVIOUS
  <1>3. /\ DOMAIN fs' = Path /\ fs'[f] = c
        /\ \A g \in Path : g # f => fs'[g] = fs[g]
    BY <1>1, <1>2 DEF Typed
  <1>4. f \in Names => ProfileFile(c)
    <2>1. ProfileFile(Empty)
      BY DEF ProfileFile, Empty
    <2> QED BY <1>1, <1>2, <2>1, TornFacts
  <1>5. \A n \in Names : ProfileFile(fs'[n])
    <2>1. \A n \in Names : n \in Path /\ ProfileFile(fs[n])
      BY DEF Path, Typed
    <2> QED BY ONLY <1>3, <1>4, <2>1
  <1>6. Writes(p)
    BY <1>2, <1>3 DEF Writes, WritesTo
  <1> QED BY <1>2, <1>3, <1>5, <1>6

\* A command that goes on writing.
LEMMA WritesOn ==
  ASSUME Typed, NEW p \in Procs, Local(p), pc[p] \in {"open", "write"},
         NEW l \in {"open", "write"}, pc' = [pc EXCEPT ![p] = l], result' = result,
         UNCHANGED <<version, wanted, job, unread, seen, project, inputs, config, missed>>,
         DOMAIN todo' = Procs, \A q \in Procs : q # p => todo'[q] = todo[q],
         DOMAIN fs' = Path, Writes(p), \A n \in Names : ProfileFile(fs'[n]),
         Edits(p) => Storing(p)', ~Edits(p) => Writing(p)'
  PROVE  Fair(p) /\ Local(p)'
  <1>1. pc'[p] = l /\ job'[p] = job[p] /\ seen'[p] = seen[p] /\ config'[p] = config[p]
    BY DEF Typed
  <1>2. Others(p)
    BY DEF Typed, Others
  <1>3. Typed'
    <2>1. l \in Labels /\ \E r \in Results : result' = [result EXCEPT ![p] = r]
      BY SameResult DEF Labels
    <2> QED BY <2>1, SameCommands, KeepsTypes DEF Typed
  <1>4. Place(p)'
    <2>1. Place(p)
      BY DEF Local
    <2> QED BY <1>1, <2>1 DEF Place
  <1>5. Edits(p)' <=> Edits(p)
    BY <1>1 DEF Edits
  <1>6. Storing(p)' /\ Writing(p)'
    BY <1>5 DEF Storing, Writing
  <1>7. Reading(p)' /\ Validating(p)' /\ Checked(p)'
    BY <1>1 DEF Reading, Validating, Checked
  <1>8. Stored(p)' /\ Written(p)'
    BY <1>1 DEF Stored, Written, Succeeded
  <1>9. Resolved(p)'
    <2>1. Resolved(p)
      BY DEF Local
    <2> QED BY <1>1, <2>1 DEF Resolved, Before, Succeeded
  <1> QED BY <1>2, <1>3, <1>4, <1>6, <1>7, <1>8, <1>9 DEF Fair, Local

LEMMA OpenKeeps ==
  ASSUME Typed, NEW p \in Procs, Local(p), Open(p)
  PROVE  Fair(p) /\ Local(p)'
  <1>1. /\ pc[p] = "open" /\ todo[p] # <<>>
        /\ UNCHANGED <<version, wanted, job, count, unread, seen,
                       project, inputs, config, missed>>
    BY DEF Open, command
  <1>2. CASE fs' = [fs EXCEPT ![File(p).path] = Empty] /\ Goto(p, "write") /\ todo' = todo
    <2>1. /\ DOMAIN fs' = Path /\ Writes(p) /\ \A n \in Names : ProfileFile(fs'[n])
          /\ fs'[File(p).path] = Empty
          /\ \A f \in Path : f # File(p).path => fs'[f] = fs[f]
      BY <1>1, <1>2, PutKeeps
    <2>2. pc' = [pc EXCEPT ![p] = "write"] /\ result' = result /\ pc'[p] = "write"
      BY <1>2 DEF Goto, Typed
    <2>3. /\ job'[p] = job[p] /\ seen'[p] = seen[p] /\ version'[p] = version[p]
          /\ wanted'[p] = wanted[p] /\ missed'[p] = missed[p]
          /\ inputs'[p] = inputs[p] /\ config'[p] = config[p] /\ todo'[p] = todo[p]
      BY <1>1, <1>2
    <2>4. ASSUME Edits(p) PROVE Storing(p)'
      <3>1. PICK n, t : n = job[p].profile /\ t = File(p).text
        OBVIOUS
      <3>2. /\ n \in Names /\ File(p).path = n /\ t \in Asked(p)
            /\ todo[p] = <<[path |-> n, text |-> t]>>
        BY <1>1, <2>4, <3>1, EditsFile
      <3>3. /\ Asked(p)' = Asked(p) /\ (Approved(p)' <=> Approved(p))
            /\ (Fresh(p)' <=> Fresh(p))
            /\ \A S : Alone(p, S)' <=> Alone(p, S)
        BY ONLY <2>3, SameJob
      <3>4. Approved(p) /\ (Alone(p, Names) => Elsewhere(p))
        BY <1>1, <2>4 DEF Local, Storing
      <3>5. Alone(p, Names) => Elsewhere(p)'
        <4>1. \A m \in Names \ {n} : fs'[m] = fs[m]
          BY <2>1, <3>2 DEF Path
        <4> QED BY <2>3, <3>1, <3>4, <4>1 DEF Elsewhere
      <3> QED BY <2>1, <2>2, <2>3, <3>1, <3>2, <3>3, <3>4, <3>5 DEF Storing, Alone
    <2>5. ASSUME ~Edits(p) PROVE Writing(p)'
      <3>1. PICK n \in Nat, k \in Nat :
              /\ n = Len(wanted[p]) /\ k + 1 \in 1..n
              /\ todo[p] = Rest(p, k)
              /\ File(p).path = PathOf(p, k + 1)
              /\ Done(p, k) /\ Ahead(p, k)
              /\ \A i \in 1..n : PathOf(p, i) \in Path
        BY <1>1, <2>5, ListsFile
      <3>2. /\ \A i : PathOf(p, i)' = PathOf(p, i) /\ TextOf(p, i)' = TextOf(p, i)
            /\ Guarded(p)' <=> Guarded(p)
            /\ \A j : Rest(p, j)' = Rest(p, j)
        BY ONLY <2>3, SameArtifacts
      <3>3. /\ \A i \in 1..n : PathOf(p, i) # PathOf(p, k + 1) =>
                    fs'[PathOf(p, i)] = fs[PathOf(p, i)]
            /\ fs'[PathOf(p, k + 1)] = Empty
        BY ONLY <2>1, <3>1
      <3>4. Done(p, k)'
        <4> SUFFICES ASSUME NEW i \in 1..k, Alone(p, {PathOf(p, i)}),
                            \A m \in (i + 1)..k : PathOf(p, m) # PathOf(p, i),
                            PathOf(p, k + 1) # PathOf(p, i)
                     PROVE  fs'[PathOf(p, i)] = TextOf(p, i)
          BY <2>2, <3>2 DEF Done, Alone
        <4>1. i \in 1..n
          BY <3>1
        <4>2. fs[PathOf(p, i)] = TextOf(p, i)
          BY <3>1 DEF Done
        <4> QED BY <3>3, <4>1, <4>2
      <3>5. Ahead(p, k)'
        <4> SUFFICES ASSUME NEW i \in (k + 1)..n, Guarded(p), Alone(p, {PathOf(p, i)}),
                            PathOf(p, i) \notin missed[p],
                            \A m \in 1..k : PathOf(p, m) # PathOf(p, i)
                     PROVE  fs'[PathOf(p, i)] =
                              IF PathOf(p, i) = PathOf(p, k + 1) THEN Empty ELSE Absent
          BY <2>2, <2>3, <3>1, <3>2 DEF Ahead, Alone
        <4>1. i \in 1..n
          BY <3>1
        <4>2. fs[PathOf(p, i)] = Absent
          BY <1>1, <3>1 DEF Ahead
        <4> QED BY <3>3, <4>1, <4>2
      <3>6. k \in 0..Len(wanted'[p]) /\ todo'[p] = Rest(p, k)' /\ k # Len(wanted'[p])
        BY <2>3, <3>1, <3>2
      <3> QED BY ONLY <3>4, <3>5, <3>6 DEF Writing
    <2>6. DOMAIN todo' = Procs /\ \A q \in Procs : q # p => todo'[q] = todo[q]
      BY <1>2 DEF Typed
    <2> QED BY <1>1, <2>1, <2>2, <2>4, <2>5, <2>6, WritesOn
  <1>3. CASE End(p, "failed") /\ todo' = [todo EXCEPT ![p] = <<>>] /\ fs' = fs
    <2>1. Writes(p) /\ DOMAIN fs' = Path /\ \A n \in Names : ProfileFile(fs'[n])
      BY <1>3 DEF Writes, Typed
    <2> QED BY <1>1, <1>3, <2>1, EndKeeps
  <1> QED BY <1>2, <1>3 DEF Open

\* A file of the list is written: the next one is to be written.
LEMMA WroteFile ==
  ASSUME Typed, NEW p \in Procs, Local(p), pc[p] \in {"open", "write"}, todo[p] # <<>>,
         fs' = [fs EXCEPT ![File(p).path] = File(p).text],
         pc'[p] = "open", todo'[p] = Tail(todo[p]), ~Edits(p),
         UNCHANGED <<version, wanted, job, seen, inputs, config, missed>>
  PROVE  Writing(p)'
  <1>1. /\ fs'[File(p).path] = File(p).text
        /\ \A f \in Path : f # File(p).path => fs'[f] = fs[f]
    BY PutKeeps
  <1>2. PICK n \in Nat, k \in Nat :
          /\ n = Len(wanted[p]) /\ k + 1 \in 1..n
          /\ todo[p] = Rest(p, k) /\ Tail(todo[p]) = Rest(p, k + 1)
          /\ File(p).path = PathOf(p, k + 1) /\ File(p).text = TextOf(p, k + 1)
          /\ Done(p, k) /\ Ahead(p, k)
          /\ \A i \in 1..n : PathOf(p, i) \in Path
    BY ListsFile
  <1>3. /\ \A i : PathOf(p, i)' = PathOf(p, i) /\ TextOf(p, i)' = TextOf(p, i)
        /\ Guarded(p)' <=> Guarded(p)
        /\ \A j : Rest(p, j)' = Rest(p, j)
    BY ONLY SameArtifacts, UNCHANGED <<version, wanted, job, seen, inputs, config, missed>>
  <1>4. /\ \A i \in 1..n : PathOf(p, i) # PathOf(p, k + 1) =>
                fs'[PathOf(p, i)] = fs[PathOf(p, i)]
        /\ fs'[PathOf(p, k + 1)] = TextOf(p, k + 1)
    BY ONLY <1>1, <1>2
  <1>5. Done(p, k + 1)'
    <2> SUFFICES ASSUME NEW i \in 1..(k + 1), Alone(p, {PathOf(p, i)}),
                        \A m \in (i + 1)..(k + 1) : PathOf(p, m) # PathOf(p, i)
                 PROVE  fs'[PathOf(p, i)] = TextOf(p, i)
      BY <1>3 DEF Done, Alone
    <2>1. CASE i = k + 1
      BY <1>4, <2>1
    <2>2. CASE i # k + 1
      <3>1. i \in 1..k /\ i \in 1..n /\ k + 1 \in (i + 1)..(k + 1)
        BY <1>2, <2>2
      <3>2. PathOf(p, k + 1) # PathOf(p, i)
        BY <3>1
      <3>3. \A m \in (i + 1)..k : PathOf(p, m) # PathOf(p, i)
        BY <1>2, <3>1
      <3>4. fs[PathOf(p, i)] = TextOf(p, i)
        BY <1>2, <3>1, <3>2, <3>3 DEF Done
      <3> QED BY <1>4, <3>1, <3>2, <3>4
    <2> QED BY <2>1, <2>2
  <1>6. Ahead(p, k + 1)'
    <2> SUFFICES ASSUME NEW i \in (k + 1 + 1)..n, Guarded(p), Alone(p, {PathOf(p, i)}),
                        PathOf(p, i) \notin missed[p],
                        \A m \in 1..(k + 1) : PathOf(p, m) # PathOf(p, i)
                 PROVE  fs'[PathOf(p, i)] = Absent
      BY <1>2, <1>3 DEF Ahead, Alone
    <2>1. /\ i \in (k + 1)..Len(wanted[p]) /\ i \in 1..n
          /\ k + 1 \in 1..(k + 1) /\ \A m \in 1..k : m \in 1..(k + 1)
      BY <1>2
    <2>2. PathOf(p, i) # PathOf(p, k + 1)
      BY <2>1
    <2>3. fs[PathOf(p, i)] = Absent
      BY <1>2, <2>1, <2>2 DEF Ahead
    <2> QED BY <1>4, <2>1, <2>2, <2>3
  <1>7. k + 1 \in 0..Len(wanted'[p]) /\ todo'[p] = Rest(p, k + 1)' /\ pc'[p] # "write"
    BY <1>2, <1>3
  <1> QED BY ONLY <1>5, <1>6, <1>7 DEF Writing

LEMMA WriteKeeps ==
  ASSUME Typed, NEW p \in Procs, Local(p), Write(p)
  PROVE  Fair(p) /\ Local(p)'
  <1>1. /\ pc[p] = "write"
        /\ UNCHANGED <<version, wanted, job, count, unread, seen,
                       project, inputs, config, missed>>
    BY DEF Write, command
  <1>2. todo[p] # <<>>
    BY <1>1, FileToWrite
  <1>3. CASE /\ fs' = [fs EXCEPT ![File(p).path] = File(p).text]
             /\ Goto(p, "open") /\ todo' = [todo EXCEPT ![p] = Tail(@)]
    <2>1. /\ DOMAIN fs' = Path /\ Writes(p) /\ \A n \in Names : ProfileFile(fs'[n])
          /\ fs'[File(p).path] = File(p).text
          /\ \A f \in Path : f # File(p).path => fs'[f] = fs[f]
      BY <1>1, <1>2, <1>3, PutKeeps
    <2>2. pc' = [pc EXCEPT ![p] = "open"] /\ result' = result /\ pc'[p] = "open"
      BY <1>3 DEF Goto, Typed
    <2>3. /\ DOMAIN todo' = Procs /\ todo'[p] = Tail(todo[p])
          /\ \A q \in Procs : q # p => todo'[q] = todo[q]
      BY <1>3 DEF Typed
    <2>4. ASSUME Edits(p) PROVE Storing(p)'
      <3>1. PICK n, t : n = job[p].profile /\ t = File(p).text
        OBVIOUS
      <3>2. /\ n \in Names /\ File(p).path = n /\ t \in Asked(p)
            /\ Tail(todo[p]) = <<>>
        BY <1>1, <1>2, <2>4, <3>1, EditsFile
      <3>3. job'[p] = job[p] /\ seen'[p] = seen[p]
        BY <1>1
      <3>4. /\ Asked(p)' = Asked(p) /\ (Approved(p)' <=> Approved(p))
            /\ \A S : Alone(p, S)' <=> Alone(p, S)
        BY ONLY <3>3, SameJob
      <3>5. Approved(p) /\ (Alone(p, Names) => Elsewhere(p))
        BY <1>1, <2>4 DEF Local, Storing
      <3>6. Alone(p, Names) => Elsewhere(p)'
        <4>1. \A m \in Names \ {n} : fs'[m] = fs[m]
          BY <2>1, <3>2 DEF Path
        <4> QED BY <3>1, <3>3, <3>5, <4>1 DEF Elsewhere
      <3>7. fs'[job'[p].profile] = t /\ t \in Asked(p)' /\ todo'[p] = <<>>
        BY <2>1, <2>3, <3>1, <3>2, <3>3, <3>4
      <3> QED BY ONLY <2>2, <3>4, <3>5, <3>6, <3>7 DEF Storing, Alone
    <2>5. ASSUME ~Edits(p) PROVE Writing(p)'
      BY <1>1, <1>2, <1>3, <2>2, <2>3, <2>5, WroteFile
    <2> QED BY <1>1, <2>1, <2>2, <2>3, <2>4, <2>5, WritesOn
  <1>4. CASE /\ \E text \in Torn(File(p).text) : fs' = [fs EXCEPT ![File(p).path] = text]
             /\ End(p, "failed") /\ todo' = [todo EXCEPT ![p] = <<>>]
    <2>1. Writes(p) /\ DOMAIN fs' = Path /\ \A n \in Names : ProfileFile(fs'[n])
      BY <1>1, <1>2, <1>4, PutKeeps
    <2> QED BY <1>1, <1>4, <2>1, EndKeeps
  <1> QED BY <1>3, <1>4 DEF Write

LEMMA ReplaceKeeps ==
  ASSUME Typed, NEW p \in Procs, Local(p), Replace(p)
  PROVE  Fair(p) /\ Local(p)'
  <1>1. /\ pc[p] = "open" /\ todo[p] # <<>> /\ Atomic(p)
        /\ UNCHANGED <<version, wanted, job, count, unread, seen,
                       project, inputs, config, missed>>
    BY DEF Replace, command
  <1>2. ~Edits(p)
    BY <1>1 DEF Atomic, Generating, Edits
  <1>3. CASE /\ fs' = [fs EXCEPT ![File(p).path] = File(p).text]
             /\ todo' = [todo EXCEPT ![p] = Tail(@)] /\ UNCHANGED <<pc, result>>
    <2>1. DOMAIN fs' = Path /\ Writes(p) /\ \A n \in Names : ProfileFile(fs'[n])
      BY <1>1, <1>3, PutKeeps
    <2>2. pc' = [pc EXCEPT ![p] = "open"] /\ result' = result /\ pc'[p] = "open"
      BY <1>1, <1>3 DEF Typed
    <2>3. /\ DOMAIN todo' = Procs /\ todo'[p] = Tail(todo[p])
          /\ \A q \in Procs : q # p => todo'[q] = todo[q]
      BY <1>3 DEF Typed
    <2>4. Writing(p)'
      BY <1>1, <1>2, <1>3, <2>2, <2>3, WroteFile
    <2> QED BY <1>1, <1>2, <2>1, <2>2, <2>3, <2>4, WritesOn
  <1>4. CASE End(p, "failed") /\ todo' = [todo EXCEPT ![p] = <<>>] /\ fs' = fs
    <2>1. Writes(p) /\ DOMAIN fs' = Path /\ \A n \in Names : ProfileFile(fs'[n])
      BY <1>4 DEF Writes, Typed
    <2> QED BY <1>1, <1>4, <2>1, EndKeeps
  <1> QED BY <1>3, <1>4 DEF Replace

LEMMA FinishKeeps ==
  ASSUME Typed, NEW p \in Procs, Local(p), Finish(p)
  PROVE  Fair(p) /\ Local(p)'
  <1>1. /\ pc[p] = "open" /\ todo[p] = <<>>
        /\ pc' = [pc EXCEPT ![p] = "idle"] /\ result' = [result EXCEPT ![p] = "ok"]
        /\ UNCHANGED <<fs, version, wanted, job, count, unread, seen,
                       project, inputs, config, todo, missed>>
    BY DEF Finish, End, command
  <1>2. Fair(p) /\ pc'[p] = "idle"
    <2>1. "idle" \in Labels /\ "ok" \in Results
      BY DEF Labels, Results
    <2>2. \E r \in Results : result' = [result EXCEPT ![p] = r]
      BY <1>1, <2>1
    <2> QED BY <1>1, <2>1, <2>2, MoveKeeps DEF Typed
  <1>3. /\ job'[p] = job[p] /\ seen'[p] = seen[p] /\ fs' = fs
        /\ version'[p] = version[p] /\ wanted'[p] = wanted[p] /\ inputs'[p] = inputs[p] /\ config'[p] = config[p]
    BY <1>1
  <1>4. job[p] \in Jobs[p] /\ job[p].cmd # "validate"
    BY <1>1 DEF Local, Place
  <1>5. Place(p)' /\ Reading(p)' /\ Validating(p)' /\ Storing(p)' /\ Checked(p)' /\ Writing(p)'
    BY <1>2, <1>3, <1>4 DEF Place, Reading, Validating, Storing, Checked, Writing
  <1>6. Resolved(p)'
    BY <1>1, <1>3 DEF Resolved, Local, Before
  <1>7. Stored(p)'
    <2> SUFFICES ASSUME Edits(p) PROVE Stored(p)'
      BY <1>3 DEF Stored, Edits
    <2>1. /\ Asked(p)' = Asked(p) /\ (Approved(p)' <=> Approved(p))
          /\ \A S : Alone(p, S)' <=> Alone(p, S)
      BY ONLY <1>3, SameJob
    <2>2. \A a : <<a>> # <<>>
      OBVIOUS
    <2>3. /\ Approved(p) /\ (Alone(p, Names) => Elsewhere(p))
          /\ \E t \in Asked(p) : Alone(p, Names) => fs[job[p].profile] = t
      BY <1>1, <2>2 DEF Local, Storing
    <2>4. Elsewhere(p)' <=> Elsewhere(p)
      BY <1>3 DEF Elsewhere
    <2> QED BY <1>3, <2>1, <2>3, <2>4 DEF Stored, Alone
  <1>8. Written(p)'
    <2> SUFFICES ASSUME job[p].cmd = "gen" PROVE Written(p)'
      BY <1>3 DEF Written, Generating
    <2>1. \A i : PathOf(p, i)' = PathOf(p, i) /\ TextOf(p, i)' = TextOf(p, i)
      BY ONLY <1>3, SameArtifacts
    <2>2. PICK n : n = Len(wanted[p]) /\ n \in Nat
      BY <1>4, WantedFacts
    <2>3. ~Edits(p)
      BY DEF Edits
    <2>4. PICK k \in 0..n : todo[p] = Rest(p, k) /\ Done(p, k)
      BY <1>1, <2>2, <2>3 DEF Local, Writing
    <2>5. k # n => Rest(p, k) # <<>>
      BY <2>2, <2>4, RestFacts
    <2>6. Done(p, n)
      BY <1>1, <2>4, <2>5
    <2>7. Done(p, n)'
      <3> SUFFICES ASSUME NEW i \in 1..n, Alone(p, {PathOf(p, i)}),
                          \A m \in (i + 1)..n : PathOf(p, m) # PathOf(p, i)
                   PROVE  fs[PathOf(p, i)] = TextOf(p, i)
        BY <1>3, <2>1 DEF Done, Alone
      <3> QED BY <1>1, <2>6 DEF Done
    <2>8. n = Len(wanted'[p])
      BY <1>3, <2>2
    <2> QED BY ONLY <2>7, <2>8 DEF Written
  <1> QED BY <1>2, <1>5, <1>6, <1>7, <1>8 DEF Local

LEMMA CrashKeeps ==
  ASSUME Typed, NEW p \in Procs, Local(p), Crash(p)
  PROVE  Fair(p) /\ Local(p)'
  <1>1. /\ pc[p] # "idle" /\ End(p, "crashed") /\ todo' = [todo EXCEPT ![p] = <<>>]
        /\ UNCHANGED <<version, wanted, job, count, unread, seen,
                       project, inputs, config, missed>>
    BY DEF Crash, command
  <1>2. Writes(p) /\ DOMAIN fs' = Path /\ \A n \in Names : ProfileFile(fs'[n])
    <2>1. CASE pc[p] = "write"
      <3>1. todo[p] # <<>>
        BY <2>1, FileToWrite
      <3>2. PICK text \in Torn(File(p).text) : fs' = [fs EXCEPT ![File(p).path] = text]
        BY <2>1 DEF Crash
      <3> QED BY <2>1, <3>1, <3>2, PutKeeps
    <2>2. CASE pc[p] # "write"
      BY <2>2 DEF Crash, Writes, Typed
    <2> QED BY <2>1, <2>2
  <1> QED BY <1>1, <1>2, EndKeeps

-----------------------------------------------------------------------------
\* The invariant, and what follows from it.

LEMMA InitKeeps ==
  ASSUME Init
  PROVE  CommandInvariant
  <1>1. /\ fs \in Trees /\ pc = [p \in Procs |-> "idle"] /\ job = [p \in Procs |-> [cmd |-> "none"]]
        /\ unread = [p \in Procs |-> {}] /\ seen = [p \in Procs |-> NoFiles]
        /\ DOMAIN version = Procs /\ DOMAIN wanted = Procs /\ DOMAIN missed = Procs
        /\ DOMAIN project = Procs /\ DOMAIN inputs = Procs
        /\ DOMAIN config = Procs /\ DOMAIN todo = Procs /\ result = [p \in Procs |-> "none"]
    BY DEF Init
  <1>2. Typed
    <2>1. DOMAIN fs = Path /\ \A n \in Names : ProfileFile(fs[n])
      BY <1>1, TreesAssumption
    <2>2. Files(NoFiles)
      BY DEF NoFiles, ProfileFile, Files, Absent
    <2>3. pc \in [Procs -> Labels] /\ result \in [Procs -> Results]
      BY <1>1 DEF Labels, Results
    <2>4. Given
      <3>1. \A p \in Procs : job[p].cmd = "none"
        BY <1>1
      <3>2. \A p \in Procs : job[p] \notin Jobs[p]
        BY <3>1, JobFacts
      <3> QED BY <1>1, <3>2 DEF Given
    <2> QED BY <1>1, <2>1, <2>2, <2>3, <2>4 DEF Typed
  <1>3. ASSUME NEW p \in Procs PROVE Local(p)
    <2>1. pc[p] = "idle" /\ job[p].cmd = "none" /\ result[p] = "none"
      BY <1>1
    <2>2. ~Succeeded(p) /\ ~Edits(p) /\ ~Generating(job[p])
      BY <2>1 DEF Succeeded, Edits, Generating
    <2>3. Place(p) /\ Reading(p) /\ Validating(p) /\ Storing(p) /\ Checked(p) /\ Writing(p)
      BY <2>1 DEF Place, Reading, Validating, Storing, Checked, Writing
    <2>4. Stored(p) /\ Resolved(p) /\ Written(p)
      BY <2>2 DEF Stored, Resolved, Written
    <2> QED BY <2>3, <2>4 DEF Local
  <1> QED BY <1>2, <1>3 DEF CommandInvariant

\* A step of a process, whichever it is.
LEMMA StepKeeps ==
  ASSUME Typed, NEW p \in Procs, Local(p), Start(p) \/ Step(p) \/ Crash(p)
  PROVE  Fair(p) /\ Local(p)'
  <1>1. CASE Start(p)
    BY <1>1, StartKeeps
  <1>2. CASE Crash(p)
    BY <1>2, CrashKeeps
  <1>3. CASE List(p) \/ Read(p) \/ Loaded(p)
    BY <1>3, ListKeeps, ReadKeeps, LoadedKeeps
  <1>4. CASE ProfileNew(p) \/ ProfileSet(p) \/ ProfileUnset(p) \/ ProfileValidate(p)
    BY <1>4, ProfileNewKeeps, ProfileSetKeeps, ProfileUnsetKeeps, ProfileValidateKeeps
  <1>5. CASE ValidateResolve(p) \/ ResolveGen(p) \/ CollectedInputs(p)
    BY <1>5, ValidateResolveKeeps, ResolveGenKeeps, CollectedInputsKeeps
  <1>6. CASE Preflight(p) \/ Where(p) \/ Generate(p)
    BY <1>6, PreflightKeeps, WhereKeeps, GenerateKeeps
  <1>7. CASE Open(p) \/ Write(p) \/ Replace(p) \/ Finish(p)
    BY <1>7, OpenKeeps, WriteKeeps, ReplaceKeeps, FinishKeeps
  <1> QED BY <1>1, <1>2, <1>3, <1>4, <1>5, <1>6, <1>7 DEF Step

LEMMA NextKeeps ==
  ASSUME CommandInvariant, [Next]_vars
  PROVE  CommandInvariant'
  <1>1. CASE Next
    <2>1. PICK p \in Procs : Start(p) \/ Step(p) \/ Crash(p)
      BY <1>1 DEF Next
    <2>2. Typed /\ Local(p)
      BY DEF CommandInvariant
    <2>3. Typed' /\ Others(p) /\ Writes(p) /\ Local(p)'
      BY <2>1, <2>2, StepKeeps DEF Fair
    <2>4. \A f \in Path : fs'[f] # fs[f] => job[p] \in Jobs[p] /\ f \in Targets(job[p])
      BY <2>2, <2>3, FileToWrite DEF Writes, WritesTo
    <2>5. ASSUME NEW q \in Procs, q # p PROVE Local(q)'
      <3>1. Local(q)
        BY DEF CommandInvariant
      <3> QED BY <2>2, <2>3, <2>4, <2>5, <3>1, OthersKeep
    <2> QED BY <2>3, <2>5 DEF CommandInvariant
  <1>2. CASE UNCHANGED vars
    <2>1. Typed'
      BY <1>2, SameCommands DEF vars, command, CommandInvariant, Typed
    <2>2. ASSUME NEW p \in Procs PROVE Local(p)'
      <3>1. Local(p)
        BY DEF CommandInvariant
      <3>2. /\ job'[p] = job[p] /\ seen'[p] = seen[p] /\ version'[p] = version[p]
            /\ wanted'[p] = wanted[p] /\ missed'[p] = missed[p]
            /\ inputs'[p] = inputs[p] /\ config'[p] = config[p] /\ pc' = pc /\ fs' = fs
            /\ todo' = todo /\ result' = result /\ project' = project /\ unread' = unread
        BY <1>2 DEF vars, command
      <3>3. /\ Before(p)' = Before(p) /\ After(p)' = After(p) /\ Asked(p)' = Asked(p)
            /\ (Permitted(p)' <=> Permitted(p)) /\ (Approved(p)' <=> Approved(p))
            /\ (Edits(p)' <=> Edits(p)) /\ (Fresh(p)' <=> Fresh(p))
        BY ONLY <3>2, SameJob
      <3>4. /\ \A i : PathOf(p, i)' = PathOf(p, i) /\ TextOf(p, i)' = TextOf(p, i)
            /\ Guarded(p)' <=> Guarded(p)
            /\ \A k : Rest(p, k)' = Rest(p, k)
        BY ONLY <3>2, SameArtifacts
      <3>5. Succeeded(p)' <=> Succeeded(p)
        BY <3>2 DEF Succeeded
      <3>6. /\ \A k : Done(p, k)' <=> Done(p, k)
            /\ \A k : Ahead(p, k)' <=> Ahead(p, k)
            /\ Elsewhere(p)' <=> Elsewhere(p)
        BY ONLY <3>2, <3>4 DEF Done, Ahead, Elsewhere, Alone
      <3>7. Place(p)' /\ Reading(p)' /\ Validating(p)'
        BY ONLY <3>1, <3>2, <3>3 DEF Local, Place, Reading, Validating, Alone
      <3>8. Storing(p)' /\ Stored(p)'
        BY ONLY <3>1, <3>2, <3>3, <3>5, <3>6 DEF Local, Storing, Stored, Alone
      <3>9. Resolved(p)' /\ Checked(p)' /\ Written(p)'
        BY ONLY <3>1, <3>2, <3>3, <3>4, <3>5, <3>6 DEF Local, Resolved, Checked, Written
      <3>10. Writing(p)'
        BY ONLY <3>1, <3>2, <3>3, <3>4, <3>6 DEF Local, Writing
      <3> QED BY ONLY <3>7, <3>8, <3>9, <3>10 DEF Local
    <2> QED BY <2>1, <2>2 DEF CommandInvariant
  <1> QED BY <1>1, <1>2

\* Whatever the commands of the processes and however their steps interleave,
\* every process knows what the files hold that only it writes: what it read
\* of the profiles while it edits one, what it has written of its artifacts
\* where it wrote last, and that those it saw no file of do not exist yet.
THEOREM CommandsAreLocal == Spec => []CommandInvariant
  <1>1. Init => CommandInvariant
    BY InitKeeps
  <1>2. CommandInvariant /\ [Next]_vars => CommandInvariant'
    BY NextKeeps
  <1> QED BY <1>1, <1>2, PTL DEF Spec

\* profile new, set and unset of cli/main.c store the profile they read with
\* exactly the change asked for, through the load, the edit in memory, the
\* sort by id and the write that truncates first.
THEOREM ProfileIsSavedAsAsked == Spec => []SavedAsAsked
  <1>1. CommandInvariant => SavedAsAsked
    <2> SUFFICES ASSUME CommandInvariant, NEW p \in Procs, Succeeded(p), Edits(p),
                        Alone(p, Names), InPlace(seen[p])
                 PROVE  LET n == job[p].profile
                            j == job[p]
                            old == seen[p][n]
                            now == fs[n]
                        IN  /\ now.k = "profile" /\ now.name = n
                            /\ now.base = IF j.cmd = "new" THEN j.base ELSE old.base
                            /\ (j.cmd = "new" \/ ~Repeats(old)) =>
                                \A o \in Options :
                                    Own(now, o) = CASE j.cmd = "new"                  -> None
                                                    [] j.cmd = "set" /\ o = j.option   -> j.value
                                                    [] j.cmd = "unset" /\ o = j.option -> None
                                                    [] OTHER                          -> Own(old, o)
      BY DEF SavedAsAsked
    <2>1. Typed /\ Stored(p) /\ job[p] \in Jobs[p]
      BY DEF CommandInvariant, Local, Place, Edits
    <2> QED BY <2>1, StoredAsAsked
  <1> QED BY <1>1, CommandsAreLocal, PTL

\* What new, set and unset resolved in memory before they wrote is what the
\* next command loads from the files: the project loads and the profile
\* resolves.
THEOREM SavedProfileIsResolved == Spec => []SavedProfileResolves
  <1>1. CommandInvariant => SavedProfileResolves
    <2> SUFFICES ASSUME CommandInvariant, NEW p \in Procs, Succeeded(p), Edits(p),
                        Alone(p, Names), InPlace(seen[p]),
                        NEW files, files = [n \in Names |-> fs[n]]
                 PROVE  /\ Loadable(files)
                        /\ ~Repeats(files[job[p].profile]) => Resolves(View(files), job[p].profile)
      BY DEF SavedProfileResolves
    <2>1. Typed /\ Stored(p) /\ job[p] \in Jobs[p]
      BY DEF CommandInvariant, Local, Place, Edits
    <2> QED BY <2>1, StoredResolves
  <1> QED BY <1>1, CommandsAreLocal, PTL

\* A gen of either version that reports success wrote the artifacts it was
\* asked for whole and from one set of resolved values, however many profiles
\* other processes edited meanwhile and whichever of its calls failed before.
\* Whatever the project names its build selections, each path holds the
\* artifact that comes last for it.
THEOREM GeneratedIsConsistent == Spec => []GenIsConsistent
  <1>1. CommandInvariant => GenIsConsistent
    <2> SUFFICES ASSUME CommandInvariant, NEW p \in Procs, Succeeded(p), Generating(job[p]),
                        ~job[p].dry, Alone(p, Paths(wanted[p]))
                 PROVE  /\ Resolves(View(seen[p]), job[p].profile)
                        /\ config[p] = Effective(View(seen[p]), job[p].profile)
                        /\ \A i \in DOMAIN wanted[p] : Final(wanted[p], i) =>
                              fs[wanted[p][i].path] = Artifact(p, wanted[p][i]).text
      BY DEF GenIsConsistent
    <2>1. Typed /\ Resolved(p) /\ Written(p) /\ job[p] \in Jobs[p]
      BY DEF CommandInvariant, Local, Place, Generating
    <2>2. /\ Resolves(View(seen[p]), job[p].profile)
          /\ config[p] = Effective(View(seen[p]), job[p].profile)
      BY <2>1 DEF Resolved, Before
    <2>3. PICK n : n = Len(wanted[p]) /\ n \in Nat /\ DOMAIN wanted[p] = 1..n
      BY <2>1, WantedFacts, ListFacts DEF Generating
    <2>4. ASSUME NEW i \in 1..n, Final(wanted[p], i) PROVE fs[PathOf(p, i)] = TextOf(p, i)
      <3>1. Alone(p, {PathOf(p, i)})
        <4>1. wanted[p][i] \in Range(wanted[p])
          BY <2>3 DEF Range
        <4>2. PathOf(p, i) \in Paths(wanted[p])
          BY <4>1 DEF Paths, PathOf
        <4> QED BY <4>2 DEF Alone
      <3>2. \A m \in (i + 1)..n : PathOf(p, m) # PathOf(p, i)
        BY <2>3, <2>4 DEF Final, PathOf
      <3>3. Done(p, n) /\ pc[p] # "write"
        BY <2>1, <2>3 DEF Written, Succeeded
      <3> QED BY <3>1, <3>2, <3>3 DEF Done
    <2> QED BY <2>2, <2>3, <2>4 DEF PathOf, TextOf
  <1> QED BY <1>1, CommandsAreLocal, PTL

\* Without --force profile new, init and gen of version 1 change no file that
\* existed when they looked and that they could read: init_preflight and
\* confit_cli_gen_preflight look at every file before the first is opened, new
\* at its one, and what is written later is what the command itself created.
THEOREM NothingOverwritten == Spec => UnforcedKeeps
  <1>1. ASSUME CommandInvariant, [Next]_vars, NEW f \in Path, fs'[f] # fs[f]
        PROVE  \E p \in Procs : WritesTo(p, f) /\ (MayChange(p, f) \/ f \in missed[p])
    <2>1. PICK p \in Procs : Start(p) \/ Step(p) \/ Crash(p)
      BY <1>1 DEF Next, vars
    <2>2. Typed /\ Local(p)
      BY <1>1 DEF CommandInvariant
    <2>3. WritesTo(p, f)
      BY <1>1, <2>1, <2>2, StepKeeps DEF Fair, Writes
    <2>4. pc[p] \in {"open", "write"} /\ todo[p] # <<>> /\ File(p).path = f
      BY <2>3 DEF WritesTo
    <2>5. ASSUME Alone(p, {f}), ~Atomic(p), job[p].cmd \notin {"set", "unset"}, ~job[p].force,
                 f \notin Already(p), f \notin missed[p]
          PROVE  fs[f] = Absent \/ (pc[p] = "write" /\ fs[f] = Empty)
      <3>1. CASE Edits(p)
        <4>1. /\ File(p).path = job[p].profile
              /\ Fresh(p) => fs[job[p].profile] = IF pc[p] = "write" THEN Empty ELSE Absent
          BY <2>2, <2>4, <3>1, EditsFile
        <4>2. Fresh(p)
          BY <2>4, <2>5, <3>1, <4>1 DEF Fresh, Edits
        <4> QED BY <2>4, <4>1, <4>2
      <3>2. CASE ~Edits(p)
        <4>1. PICK n \in Nat, k \in Nat :
                /\ n = Len(wanted[p]) /\ k + 1 \in 1..n /\ todo[p] = Rest(p, k)
                /\ File(p).path = PathOf(p, k + 1) /\ Ahead(p, k)
          BY <2>2, <2>4, <3>2, ListsFile
        <4>2. Len(todo[p]) = n - k
          BY <4>1 DEF Rest
        <4>3. \A m \in 1..k : PathOf(p, m) # f
          <5>1. 1..k = 1..(Len(wanted[p]) - Len(todo[p]))
            BY <4>1, <4>2
          <5> QED BY <2>5, <5>1 DEF Already, PathOf
        <4>4. Guarded(p)
          BY <2>5 DEF Guarded
        <4>5. k + 1 \in (k + 1)..Len(wanted[p])
          BY <4>1
        <4> QED BY <2>4, <2>5, <4>1, <4>3, <4>4, <4>5 DEF Ahead
      <3> QED BY <3>1, <3>2
    <2>6. MayChange(p, f) \/ f \in missed[p]
      BY <2>5 DEF MayChange
    <2> QED BY <2>3, <2>6
  <1>2. CommandInvariant /\ [Next]_vars =>
          [\A f \in Path : fs'[f] # fs[f] =>
              \E p \in Procs : WritesTo(p, f) /\ (MayChange(p, f) \/ f \in missed[p])]_vars
    BY <1>1
  <1> QED BY <1>2, CommandsAreLocal, PTL DEF Spec, UnforcedKeeps
-----------------------------------------------------------------------------
\* The compat command.

\* One of the inputs that the projects and the suite can be.
InputIsGiven == \E family \in Inputs : input \in family

\* The [[assert]] headers of a directory, the lines of their tables and their
\* places, as in the properties.
HeadersIn(files) ==
    UNION {{f} \X {k \in DOMAIN files[f] :
                     files[f][k].t = "header" /\ files[f][k].key = "assert"} : f \in DOMAIN files}
LinesIn(files, h, keys) ==
    {k \in (h[2] + 1)..Len(files[h[1]]) :
        /\ files[h[1]][k].t = "field" /\ files[h[1]][k].key \in keys
        /\ \A j \in (h[2] + 1)..k : files[h[1]][j].t # "header"}
OrdinalIn(files, h) ==
    Cardinality({g \in HeadersIn(files) : g[1] < h[1] \/ (g[1] = h[1] /\ g[2] <= h[2])})

\* What has been read when line l of document f comes next.
IsRead(f, l, g, k) == g < f \/ (g = f /\ k < l)
ReadHeaders(files, f, l) == {h \in HeadersIn(files) : IsRead(f, l, h[1], h[2])}
ReadLines(files, f, l, h, keys) == {k \in LinesIn(files, h, keys) : IsRead(f, l, h[1], k)}
GreatestOf(S) == CHOOSE k \in S : \A j \in S : j <= k
LastRead(files, f, l, h, keys) == files[h[1]][GreatestOf(ReadLines(files, f, l, h, keys))]
ReadCondition(files, f, l, h, keys) ==
    IF ReadLines(files, f, l, h, keys) = {} THEN NoCondition
    ELSE ParseCondition(LastRead(files, f, l, h, keys).value)

\* The assertion that the lines read so far make.
ReadAssertion(files, f, l, h) ==
    [when |-> ReadCondition(files, f, l, h, {"when"}),
     action |-> IF ReadLines(files, f, l, h, {"requires", "forbids"}) = {} THEN "requires"
                ELSE LastRead(files, f, l, h, {"requires", "forbids"}).key,
     condition |-> ReadCondition(files, f, l, h, {"requires", "forbids"}),
     message |-> IF ReadLines(files, f, l, h, {"message"}) = {} THEN Missing
                 ELSE LastRead(files, f, l, h, {"message"}).value]

\* The table of header h is the one that the next line belongs to.
IsOpen(files, f, l, h) ==
    /\ h[1] = f /\ h[2] < l
    /\ \A j \in (h[2] + 1)..(l - 1) : files[f][j].t # "header"

\* Table t and suite s are those of the lines that have been read.
DirectoryRead(files, f, l, t, s) ==
    /\ f \in 1..(Len(files) + 1) /\ l \in Nat \ {0}
    /\ f <= Len(files) => l <= Len(files[f]) + 1
    /\ f > Len(files) => l = 1
    /\ IsSequence(s) /\ Len(s) = Cardinality(ReadHeaders(files, f, l))
    /\ \A i \in DOMAIN s : \E h \in ReadHeaders(files, f, l) : OrdinalIn(files, h) = i
    /\ \A h \in ReadHeaders(files, f, l) :
            OrdinalIn(files, h) \in DOMAIN s /\ s[OrdinalIn(files, h)] = ReadAssertion(files, f, l, h)
    /\ t = "assert" <=> \E h \in ReadHeaders(files, f, l) : IsOpen(files, f, l, h)

\* What an assertion comes to with the values of these projects.
HoldersIn(projects, o) == {p \in DOMAIN projects : o \in DOMAIN projects[p].values}
FirstIn(S) == CHOOSE p \in S : \A q \in S : p <= q
ConditionIn(projects, c) ==
    IF HoldersIn(projects, c.option) = {} THEN "unknown"
    ELSE IF ValuesEqual(projects[FirstIn(HoldersIn(projects, c.option))].values[c.option], c.equals)
         THEN "yes" ELSE "no"
OutcomeIn(projects, a) ==
    LET when == ConditionIn(projects, a.when)
        condition == ConditionIn(projects, a.condition)
    IN  CASE when = "unknown"      -> [state |-> "fail", reason |-> "unknown option"]
          [] when = "no"           -> [state |-> "skipped", reason |-> "none"]
          [] when = "yes" /\ condition = "unknown" ->
                [state |-> "fail", reason |-> "unknown option"]
          [] OTHER -> [state  |-> IF (condition = "yes") = (a.action = "requires")
                                  THEN "pass" ELSE "fail",
                       reason |-> "message"]

\* The first failure among the results.
FirstFailure ==
    \/ /\ diagnostic.at = 0
       /\ \A i \in DOMAIN results : results[i].state # "fail"
    \/ /\ diagnostic.at \in DOMAIN results /\ results[diagnostic.at].state = "fail"
       /\ \A i \in 1..(diagnostic.at - 1) : results[i].state # "fail"

V1Inv ==
    /\ stage \notin {"load", "bind", "evaluate"}
    /\ DirectoryRead(input.files, file, line, table, suite)
    /\ IsSequence(results) /\ Len(results) <= Len(suite)
    /\ stage \in {"dispatch", "parse"} => results = <<>> /\ diagnostic = NoDiagnostic
    /\ stage = "check" => diagnostic = NoDiagnostic \/ diagnostic.at # 0
    /\ (stage = "check" \/ Published) =>
        /\ file > Len(input.files)
        /\ \A i \in DOMAIN suite : ~Incomplete(suite[i])
        /\ FirstFailure
    /\ \A i \in DOMAIN results : results[i] = OutcomeIn(input.projects, suite[i])
    /\ Published =>
        /\ Len(results) = Len(suite)
        /\ verdict = "ok" <=> \A i \in DOMAIN results : results[i].state # "fail"

\* The options of these projects under their joined names, and the references
\* that are spelled like one of them without naming an option.
OptionsIn(projects) ==
    UNION {{[internal |-> Internal(projects[p].alias, o), project |-> p, option |-> o] :
                o \in DOMAIN projects[p].values} : p \in DOMAIN projects}
IsBinding(projects, b) ==
    b \in [1..Cardinality(OptionsIn(projects)) -> OptionsIn(projects)] /\ IsInjective(b)
NamesOption(projects, r, p) ==
    p \in DOMAIN projects /\ projects[p].alias = r.alias /\ r.id \in DOMAIN projects[p].values
CapturedIn(projects, r) ==
    /\ \A p \in DOMAIN projects : ~NamesOption(projects, r, p)
    /\ \E p \in DOMAIN projects :
        \E o \in DOMAIN projects[p].values : Internal(projects[p].alias, o) = Reference(r)

\* A constraint is judged on the values that its references name, and these
\* are among its traces.
ReadFor(c, entry) == IF entry.state = "skipped" THEN Range(c.when.args) ELSE References(c)
Judged(projects, c, entry) ==
    /\ entry.state = StateIn(projects, c)
    /\ \A r \in ReadFor(c, entry) :
        \E p \in DOMAIN projects : NamesOption(projects, r, p) /\ <<p, r.id>> \in entry.traces

AliasesDiffer(projects) ==
    \A p, q \in DOMAIN projects : p # q => projects[p].alias # projects[q].alias
AllVersion2(projects) == \A p \in DOMAIN projects : projects[p].version = 2
InIdOrder(constraints, s) ==
    \E order \in IdOrders(constraints) :
        s = [k \in 1..Len(constraints) |-> ParseConstraint(constraints[order[k]])]

V2Inv ==
    /\ stage \notin {"parse", "check"}
    /\ stage \in {"dispatch", "load", "bind"} => results = <<>>
    /\ stage \in {"load", "bind", "evaluate"} \/ Published => AllVersion2(input.projects)
    /\ stage \in {"bind", "evaluate"} \/ Published =>
            ~SuiteIsBad(input.suite) /\ InIdOrder(input.suite.constraints, suite)
    /\ stage = "evaluate" \/ Published =>
        /\ AliasesDiffer(input.projects)
        /\ IsBinding(input.projects, bindings)
        /\ IsSequence(results) /\ Len(results) <= Len(suite)
        /\ \A i \in DOMAIN results :
                (\A r \in References(suite[i]) : ~CapturedIn(input.projects, r)) =>
                    Judged(input.projects, suite[i], results[i])
    /\ Published =>
        /\ Len(results) = Len(suite)
        /\ verdict = "ok" <=> \A i \in DOMAIN results : results[i].state # "fail"
        /\ FirstFailure

CompatInv ==
    /\ InputIsGiven
    /\ stage \in {"dispatch", "parse", "check", "load", "bind", "evaluate", "done"}
    /\ stage # "done" => verdict = "none"
    /\ IF IsV1 THEN V1Inv ELSE V2Inv

-----------------------------------------------------------------------------
\* Sequences.

LEMMA SequenceFacts ==
  ASSUME NEW s, IsSequence(s)
  PROVE  Len(s) \in Nat /\ DOMAIN s = 1..Len(s) /\ s \in Seq(Range(s))
  <1>1. PICK n, t : n = Len(s) /\ t = [k \in 1..n |-> s[k]]
    OBVIOUS
  <1>2. n \in Nat /\ s = t
    BY <1>1 DEF IsSequence
  <1>3. DOMAIN s = 1..n
    BY <1>1, <1>2
  <1>4. s \in [1..n -> Range(s)]
    BY <1>1, <1>2, <1>3 DEF Range
  <1>5. s \in Seq(Range(s))
    BY <1>2, <1>4
  <1> QED BY <1>1, <1>2, <1>3, <1>5

LEMMA SequenceIntro ==
  ASSUME NEW S, NEW s, s \in Seq(S)
  PROVE  IsSequence(s)
  <1>1. Len(s) \in Nat /\ s \in [1..Len(s) -> S]
    OBVIOUS
  <1> QED BY <1>1 DEF IsSequence

LEMMA AppendSequence ==
  ASSUME NEW s, NEW x, IsSequence(s)
  PROVE  /\ IsSequence(Append(s, x)) /\ Len(Append(s, x)) = Len(s) + 1
         /\ DOMAIN Append(s, x) = 1..(Len(s) + 1)
         /\ \A i \in 1..Len(s) : Append(s, x)[i] = s[i]
         /\ Append(s, x)[Len(s) + 1] = x
  <1>1. PICK S : S = Range(s) \cup {x}
    OBVIOUS
  <1>2. Len(s) \in Nat /\ DOMAIN s = 1..Len(s) /\ s \in Seq(Range(s))
    BY SequenceFacts
  <1>3. s \in Seq(S) /\ x \in S
    BY <1>1, <1>2
  <1>4. Append(s, x) \in Seq(S)
    BY <1>3
  <1>5. IsSequence(Append(s, x))
    BY <1>4, SequenceIntro
  <1> QED BY <1>2, <1>3, <1>4, <1>5

LEMMA FunctionSequence ==
  ASSUME NEW s, NEW t, NEW S, IsSequence(s), t \in [DOMAIN s -> S]
  PROVE  IsSequence(t) /\ Len(t) = Len(s)
  <1>1. Len(s) \in Nat /\ DOMAIN s = 1..Len(s)
    BY SequenceFacts
  <1>2. t \in Seq(S) /\ Len(t) = Len(s)
    BY <1>1
  <1> QED BY <1>2, SequenceIntro

-----------------------------------------------------------------------------
\* The headers of a directory and their places.

\* A directory is a list of lists of lines.
IsDirectory(files) == IsSequence(files) /\ \A f \in DOMAIN files : IsSequence(files[f])

LEMMA DirectoryFacts ==
  ASSUME NEW files, IsDirectory(files)
  PROVE  /\ Len(files) \in Nat /\ DOMAIN files = 1..Len(files)
         /\ \A f \in 1..Len(files) : Len(files[f]) \in Nat /\ DOMAIN files[f] = 1..Len(files[f])
  BY SequenceFacts DEF IsDirectory

LEMMA HeaderFacts ==
  ASSUME NEW files, IsDirectory(files)
  PROVE  /\ \A h \in HeadersIn(files) :
              /\ h = <<h[1], h[2]>>
              /\ h[1] \in 1..Len(files) /\ h[2] \in 1..Len(files[h[1]])
              /\ h[1] \in Nat /\ h[2] \in Nat /\ Len(files[h[1]]) \in Nat
              /\ files[h[1]][h[2]].t = "header" /\ files[h[1]][h[2]].key = "assert"
         /\ \A f \in 1..Len(files) : \A k \in 1..Len(files[f]) :
              <<f, k>> \in HeadersIn(files) <=>
                  files[f][k].t = "header" /\ files[f][k].key = "assert"
  <1>1. /\ Len(files) \in Nat /\ DOMAIN files = 1..Len(files)
        /\ \A f \in 1..Len(files) : Len(files[f]) \in Nat /\ DOMAIN files[f] = 1..Len(files[f])
    BY DirectoryFacts
  <1>2. ASSUME NEW h \in HeadersIn(files)
        PROVE  /\ h = <<h[1], h[2]>>
               /\ h[1] \in 1..Len(files) /\ h[2] \in 1..Len(files[h[1]])
               /\ h[1] \in Nat /\ h[2] \in Nat /\ Len(files[h[1]]) \in Nat
               /\ files[h[1]][h[2]].t = "header" /\ files[h[1]][h[2]].key = "assert"
    <2>1. PICK f \in DOMAIN files :
            h \in {f} \X {k \in DOMAIN files[f] : files[f][k].t = "header" /\ files[f][k].key = "assert"}
      BY DEF HeadersIn
    <2>2. /\ h = <<h[1], h[2]>> /\ h[1] = f /\ h[2] \in DOMAIN files[f]
          /\ files[f][h[2]].t = "header" /\ files[f][h[2]].key = "assert"
      BY <2>1
    <2> QED BY <1>1, <2>1, <2>2
  <1>3. ASSUME NEW f \in 1..Len(files), NEW k \in 1..Len(files[f])
        PROVE  <<f, k>> \in HeadersIn(files) <=>
                  files[f][k].t = "header" /\ files[f][k].key = "assert"
    <2>1. ASSUME files[f][k].t = "header" /\ files[f][k].key = "assert"
          PROVE  <<f, k>> \in HeadersIn(files)
      <3>1. <<f, k>> \in {f} \X {i \in DOMAIN files[f] : files[f][i].t = "header" /\ files[f][i].key = "assert"}
        BY <1>1, <2>1
      <3> QED BY <1>1, <3>1 DEF HeadersIn
    <2>2. ASSUME <<f, k>> \in HeadersIn(files)
          PROVE  files[f][k].t = "header" /\ files[f][k].key = "assert"
      <3>1. PICK h : h = <<f, k>>
        OBVIOUS
      <3>2. h[1] = f /\ h[2] = k
        BY <3>1
      <3> QED BY <1>2, <2>2, <3>1, <3>2
    <2> QED BY <2>1, <2>2
  <1> QED BY <1>2, <1>3

\* The headers of one document and of the first n documents are finitely many.
LEMMA HeadersAreFinite ==
  ASSUME NEW files, IsDirectory(files)
  PROVE  IsFiniteSet(HeadersIn(files))
  <1> DEFINE In(n) == {h \in HeadersIn(files) : h[1] <= n}
             Of(n) == {h \in HeadersIn(files) : h[1] = n}
             S == {n \in Nat : IsFiniteSet(In(n))}
  <1>1. /\ Len(files) \in Nat
        /\ \A f \in 1..Len(files) : Len(files[f]) \in Nat /\ DOMAIN files[f] = 1..Len(files[f])
    BY DirectoryFacts
  <1>2. \A h \in HeadersIn(files) :
              /\ h = <<h[1], h[2]>>
              /\ h[1] \in 1..Len(files) /\ h[2] \in 1..Len(files[h[1]])
              /\ h[1] \in Nat /\ h[2] \in Nat /\ Len(files[h[1]]) \in Nat
    BY HeaderFacts
  <1>3. ASSUME NEW n \in Nat PROVE IsFiniteSet(Of(n))
    <2> DEFINE T == {h[2] : h \in Of(n)}
               back == [k \in T |-> <<n, k>>]
    <2>1. IsFiniteSet(T)
      <3>1. T \in SUBSET Nat /\ \A k \in T : k <= (IF n \in 1..Len(files) THEN Len(files[n]) ELSE 0)
        BY <1>2
      <3>2. (IF n \in 1..Len(files) THEN Len(files[n]) ELSE 0) \in Nat
        BY <1>1
      <3> HIDE DEF T
      <3> QED BY <3>1, <3>2, FS_BoundedSetOfNaturals
    <2>2. back \in Surjection(T, Of(n))
      <3>1. \A h \in Of(n) : h[2] \in T /\ h = <<n, h[2]>>
        BY <1>2
      <3>2. \A k \in T : <<n, k>> \in Of(n)
        <4>1. ASSUME NEW k \in T PROVE <<n, k>> \in Of(n)
          <5>1. PICK h \in Of(n) : k = h[2]
            OBVIOUS
          <5>2. h = <<n, k>>
            BY <3>1, <5>1
          <5> QED BY <5>1, <5>2
        <4> QED BY <4>1
      <3> HIDE DEF T, Of
      <3> QED BY <3>1, <3>2 DEF Surjection
    <2> HIDE DEF T, Of, back
    <2> QED BY <2>1, <2>2, FS_Surjection
  <1>4. 0 \in S
    <2>1. In(0) = {}
      BY <1>2
    <2> QED BY <2>1, FS_EmptySet
  <1>5. ASSUME NEW n \in Nat, n \in S PROVE n + 1 \in S
    <2>1. In(n + 1) = In(n) \cup Of(n + 1)
      BY <1>2
    <2>2. IsFiniteSet(Of(n + 1)) /\ IsFiniteSet(In(n))
      BY <1>3, <1>5
    <2>3. IsFiniteSet(In(n) \cup Of(n + 1))
      <3> HIDE DEF In, Of
      <3> QED BY ONLY <2>2, FS_Union
    <2>4. IsFiniteSet(In(n + 1))
      BY ONLY <2>1, <2>3
    <2> QED BY <2>4
  <1>6. Len(files) \in S
    <2> HIDE DEF S
    <2> QED BY <1>1, <1>4, <1>5, Induction
  <1>7. In(Len(files)) = HeadersIn(files)
    BY <1>1, <1>2
  <1> QED BY <1>6, <1>7

\* The place of a header counts the headers up to it, so it grows with them.
LEMMA OrdinalFacts ==
  ASSUME NEW files, IsDirectory(files)
  PROVE  /\ \A h \in HeadersIn(files) : OrdinalIn(files, h) \in Nat \ {0}
         /\ \A g, h \in HeadersIn(files) :
              OrdinalIn(files, g) = OrdinalIn(files, h) => g = h
  <1> DEFINE Upto(h) == {g \in HeadersIn(files) : g[1] < h[1] \/ (g[1] = h[1] /\ g[2] <= h[2])}
  <1>1. \A h \in HeadersIn(files) : h = <<h[1], h[2]>> /\ h[1] \in Nat /\ h[2] \in Nat
    BY HeaderFacts
  <1>2. ASSUME NEW h PROVE OrdinalIn(files, h) = Cardinality(Upto(h))
    BY DEF OrdinalIn
  <1>3. ASSUME NEW h \in HeadersIn(files)
        PROVE  IsFiniteSet(Upto(h)) /\ Cardinality(Upto(h)) \in Nat \ {0}
    <2>1. Upto(h) \in SUBSET HeadersIn(files) /\ h \in Upto(h)
      BY <1>1
    <2>2. IsFiniteSet(Upto(h))
      <3> HIDE DEF Upto
      <3> QED BY <2>1, HeadersAreFinite, FS_Subset
    <2> HIDE DEF Upto
    <2>3. Cardinality(Upto(h)) \in Nat
      BY <2>2, FS_CardinalityType
    <2>4. Cardinality(Upto(h)) # 0
      BY <2>1, <2>2, FS_EmptySet
    <2> QED BY <2>2, <2>3, <2>4
  <1>4. ASSUME NEW g \in HeadersIn(files), NEW h \in HeadersIn(files),
               g[1] < h[1] \/ (g[1] = h[1] /\ g[2] < h[2])
        PROVE  Cardinality(Upto(g)) # Cardinality(Upto(h))
    <2>1. Upto(g) \in SUBSET Upto(h) /\ h \in Upto(h) /\ h \notin Upto(g)
      BY <1>1, <1>4
    <2>2. IsFiniteSet(Upto(h))
      BY <1>3
    <2> HIDE DEF Upto
    <2>3. Cardinality(Upto(h)) = Cardinality(Upto(g)) => Upto(h) = Upto(g)
      BY <2>1, <2>2, FS_Subset
    <2> QED BY <2>1, <2>3
  <1>5. ASSUME NEW g \in HeadersIn(files), NEW h \in HeadersIn(files),
               OrdinalIn(files, g) = OrdinalIn(files, h)
        PROVE  g = h
    <2>1. Cardinality(Upto(g)) = Cardinality(Upto(h))
      BY <1>2, <1>5
    <2> HIDE DEF Upto
    <2>2. ~(g[1] < h[1] \/ (g[1] = h[1] /\ g[2] < h[2]))
      BY <1>4, <2>1
    <2>3. ~(h[1] < g[1] \/ (h[1] = g[1] /\ h[2] < g[2]))
      BY <1>4, <2>1
    <2>4. g[1] = h[1] /\ g[2] = h[2]
      BY <1>1, <2>2, <2>3
    <2> QED BY <1>1, <2>4
  <1> HIDE DEF Upto
  <1>6. \A h \in HeadersIn(files) : OrdinalIn(files, h) \in Nat \ {0}
    BY <1>2, <1>3
  <1> QED BY <1>5, <1>6

\* The headers read before a header and the header itself are those up to it.
LEMMA NextOrdinal ==
  ASSUME NEW files, NEW f, NEW l, IsDirectory(files), <<f, l>> \in HeadersIn(files)
  PROVE  /\ ReadHeaders(files, f, l + 1) = ReadHeaders(files, f, l) \cup {<<f, l>>}
         /\ <<f, l>> \notin ReadHeaders(files, f, l)
         /\ OrdinalIn(files, <<f, l>>) = Cardinality(ReadHeaders(files, f, l + 1))
         /\ Cardinality(ReadHeaders(files, f, l + 1)) = Cardinality(ReadHeaders(files, f, l)) + 1
  <1>1. \A h \in HeadersIn(files) : h = <<h[1], h[2]>> /\ h[1] \in Nat /\ h[2] \in Nat
    BY HeaderFacts
  <1>2. PICK h : h = <<f, l>>
    OBVIOUS
  <1>3. h[1] = f /\ h[2] = l /\ f \in Nat /\ l \in Nat /\ h \in HeadersIn(files)
    BY <1>1, <1>2
  <1>4. {g \in HeadersIn(files) : g[1] < h[1] \/ (g[1] = h[1] /\ g[2] <= h[2])}
            = ReadHeaders(files, f, l + 1)
    BY <1>1, <1>3 DEF ReadHeaders, IsRead
  <1>5. ReadHeaders(files, f, l + 1) = ReadHeaders(files, f, l) \cup {h}
    BY <1>1, <1>2, <1>3 DEF ReadHeaders, IsRead
  <1>6. h \notin ReadHeaders(files, f, l)
    BY <1>3 DEF ReadHeaders, IsRead
  <1>7. OrdinalIn(files, h) = Cardinality(ReadHeaders(files, f, l + 1))
    BY <1>4 DEF OrdinalIn
  <1>8. IsFiniteSet(ReadHeaders(files, f, l))
    <2>1. ReadHeaders(files, f, l) \in SUBSET HeadersIn(files)
      BY DEF ReadHeaders
    <2> QED BY <2>1, HeadersAreFinite, FS_Subset
  <1>9. Cardinality(ReadHeaders(files, f, l) \cup {h}) = Cardinality(ReadHeaders(files, f, l)) + 1
    BY <1>6, <1>8, FS_AddElement
  <1> QED BY <1>2, <1>5, <1>6, <1>7, <1>9

\* A line that is no [[assert]] header adds none.
LEMMA SameHeaders ==
  ASSUME NEW files, NEW f \in Nat, NEW l \in Nat, IsDirectory(files), <<f, l>> \notin HeadersIn(files)
  PROVE  ReadHeaders(files, f, l + 1) = ReadHeaders(files, f, l)
  <1>1. \A h \in HeadersIn(files) : h = <<h[1], h[2]>> /\ h[1] \in Nat /\ h[2] \in Nat
    BY HeaderFacts
  <1>2. ASSUME NEW h \in HeadersIn(files)
        PROVE  IsRead(f, l + 1, h[1], h[2]) <=> IsRead(f, l, h[1], h[2])
    <2>1. h[1] = f => h[2] # l
      BY <1>1, <1>2
    <2> QED BY <1>1, <2>1 DEF IsRead
  <1> QED BY <1>2 DEF ReadHeaders

-----------------------------------------------------------------------------
\* The lines of a table that have been read.

LEMMA LineFacts ==
  ASSUME NEW files, NEW f, NEW l, NEW keys, IsDirectory(files), f \in Nat, l \in Nat,
         NEW h \in ReadHeaders(files, f, l)
  PROVE  /\ h \in HeadersIn(files) /\ h = <<h[1], h[2]>> /\ h[1] \in Nat /\ h[2] \in Nat
         /\ h[1] \in 1..Len(files) /\ h[2] \in 1..Len(files[h[1]]) /\ Len(files[h[1]]) \in Nat
         /\ h[1] < f \/ (h[1] = f /\ h[2] < l)
         /\ ReadLines(files, f, l, h, keys) \in SUBSET Nat
         /\ \A k \in ReadLines(files, f, l, h, keys) :
              k \in 1..Len(files[h[1]]) /\ (h[1] = f => k < l) /\ files[h[1]][k].t = "field"
  <1>1. h \in HeadersIn(files) /\ IsRead(f, l, h[1], h[2])
    BY DEF ReadHeaders
  <1>2. /\ h = <<h[1], h[2]>> /\ h[1] \in Nat /\ h[2] \in Nat
        /\ h[1] \in 1..Len(files) /\ h[2] \in 1..Len(files[h[1]]) /\ Len(files[h[1]]) \in Nat
    BY <1>1, HeaderFacts
  <1>3. ASSUME NEW k \in ReadLines(files, f, l, h, keys)
        PROVE  /\ k \in Nat /\ k \in 1..Len(files[h[1]]) /\ (h[1] = f => k < l)
               /\ files[h[1]][k].t = "field"
    <2>1. k \in LinesIn(files, h, keys) /\ IsRead(f, l, h[1], k)
      BY DEF ReadLines
    <2>2. k \in (h[2] + 1)..Len(files[h[1]]) /\ files[h[1]][k].t = "field"
      BY <2>1 DEF LinesIn
    <2> QED BY <1>2, <2>1, <2>2 DEF IsRead
  <1> QED BY <1>1, <1>2, <1>3 DEF IsRead

\* A field is a line of the open table and of no other.
LEMMA FieldLines ==
  ASSUME NEW files, NEW f, NEW l, NEW keys, IsDirectory(files),
         f \in 1..Len(files), l \in 1..Len(files[f]), files[f][l].t = "field",
         NEW h \in ReadHeaders(files, f, l)
  PROVE  /\ IsOpen(files, f, l, h) /\ files[f][l].key \in keys =>
              ReadLines(files, f, l + 1, h, keys) = ReadLines(files, f, l, h, keys) \cup {l}
         /\ ~(IsOpen(files, f, l, h) /\ files[f][l].key \in keys) =>
              ReadLines(files, f, l + 1, h, keys) = ReadLines(files, f, l, h, keys)
  <1>0. f \in Nat /\ l \in Nat /\ Len(files[f]) \in Nat
    BY DirectoryFacts
  <1>1. /\ h \in HeadersIn(files) /\ h[1] \in Nat /\ h[2] \in Nat
        /\ h[1] < f \/ (h[1] = f /\ h[2] < l)
    BY <1>0, LineFacts
  <1>2. ASSUME NEW k \in LinesIn(files, h, keys)
        PROVE  k \in Nat /\ (k = l /\ h[1] = f => IsOpen(files, f, l, h) /\ files[f][l].key \in keys)
    <2>1. /\ k \in (h[2] + 1)..Len(files[h[1]]) /\ files[h[1]][k].key \in keys
          /\ \A j \in (h[2] + 1)..k : files[h[1]][j].t # "header"
      BY DEF LinesIn
    <2>2. k \in Nat
      BY <1>1, <2>1, HeaderFacts
    <2>3. ASSUME k = l /\ h[1] = f PROVE IsOpen(files, f, l, h) /\ files[f][l].key \in keys
      <3>1. \A j \in (h[2] + 1)..(l - 1) : j \in (h[2] + 1)..k
        BY <1>0, <1>1, <2>3
      <3> QED BY <1>1, <2>1, <2>3, <3>1 DEF IsOpen
    <2> QED BY <2>2, <2>3
  <1>3. ASSUME IsOpen(files, f, l, h), files[f][l].key \in keys PROVE l \in LinesIn(files, h, keys)
    <2>1. h[1] = f /\ h[2] < l /\ \A j \in (h[2] + 1)..(l - 1) : files[f][j].t # "header"
      BY <1>3 DEF IsOpen
    <2>2. l \in (h[2] + 1)..Len(files[h[1]])
      BY <1>0, <1>1, <2>1
    <2>3. \A j \in (h[2] + 1)..l : files[f][j].t # "header"
      <3>1. ASSUME NEW j \in (h[2] + 1)..l PROVE files[f][j].t # "header"
        <4>1. j = l \/ j \in (h[2] + 1)..(l - 1)
          BY <1>0, <1>1
        <4>2. files[f][l].t # "header"
          OBVIOUS
        <4> QED BY <2>1, <4>1, <4>2
      <3> QED BY <3>1
    <2> QED BY <1>3, <2>1, <2>2, <2>3 DEF LinesIn
  <1>4. ASSUME NEW k \in ReadLines(files, f, l + 1, h, keys)
        PROVE  k \in ReadLines(files, f, l, h, keys) \/
                 (k = l /\ IsOpen(files, f, l, h) /\ files[f][l].key \in keys)
    <2>1. k \in LinesIn(files, h, keys) /\ (h[1] < f \/ (h[1] = f /\ k < l + 1))
      BY DEF ReadLines, IsRead
    <2>2. k \in Nat /\ (k = l /\ h[1] = f => IsOpen(files, f, l, h) /\ files[f][l].key \in keys)
      BY <1>2, <2>1
    <2>3. CASE h[1] = f /\ k = l
      BY <2>2, <2>3
    <2>4. CASE ~(h[1] = f /\ k = l)
      <3>1. h[1] < f \/ (h[1] = f /\ k < l)
        BY <1>0, <2>1, <2>2, <2>4
      <3> QED BY <2>1, <3>1 DEF ReadLines, IsRead
    <2> QED BY <2>3, <2>4
  <1>5. ASSUME NEW k \in ReadLines(files, f, l, h, keys)
        PROVE  k \in ReadLines(files, f, l + 1, h, keys)
    <2>1. k \in LinesIn(files, h, keys) /\ (h[1] < f \/ (h[1] = f /\ k < l))
      BY DEF ReadLines, IsRead
    <2>2. k \in Nat
      BY <1>2, <2>1
    <2>3. h[1] < f \/ (h[1] = f /\ k < l + 1)
      BY <1>0, <2>1, <2>2
    <2> QED BY <2>1, <2>3 DEF ReadLines, IsRead
  <1>6. ASSUME IsOpen(files, f, l, h), files[f][l].key \in keys
        PROVE  l \in ReadLines(files, f, l + 1, h, keys)
    <2>1. h[1] = f
      BY <1>6 DEF IsOpen
    <2> QED BY <1>0, <1>3, <1>6, <2>1 DEF ReadLines, IsRead
  <1> QED BY <1>4, <1>5, <1>6

LEMMA LinesStay ==
  ASSUME NEW files, NEW f, NEW l, NEW keys, IsDirectory(files),
         f \in 1..Len(files), l \in 1..Len(files[f]), files[f][l].t = "field",
         NEW h \in ReadHeaders(files, f, l), NEW m, m = l + 1,
         ~(IsOpen(files, f, l, h) /\ files[f][l].key \in keys)
  PROVE  ReadLines(files, f, m, h, keys) = ReadLines(files, f, l, h, keys)
  <1>1. CASE ~IsOpen(files, f, l, h)
    <2>1. ReadLines(files, f, l + 1, h, keys) = ReadLines(files, f, l, h, keys)
      BY <1>1, FieldLines
    <2> QED BY <2>1
  <1>2. CASE files[f][l].key \notin keys
    <2>1. ReadLines(files, f, l + 1, h, keys) = ReadLines(files, f, l, h, keys)
      BY <1>2, FieldLines
    <2> QED BY <2>1
  <1> QED BY <1>1, <1>2

\* A header is a line of no table.
LEMMA HeaderLines ==
  ASSUME NEW files, NEW f, NEW l, NEW keys, IsDirectory(files),
         f \in 1..Len(files), l \in 1..Len(files[f]), files[f][l].t = "header",
         NEW h \in ReadHeaders(files, f, l)
  PROVE  ReadLines(files, f, l + 1, h, keys) = ReadLines(files, f, l, h, keys)
  <1>0. f \in Nat /\ l \in Nat /\ Len(files[f]) \in Nat
    BY DirectoryFacts
  <1>1. ASSUME NEW k \in LinesIn(files, h, keys)
        PROVE  IsRead(f, l + 1, h[1], k) <=> IsRead(f, l, h[1], k)
    <2>1. k \in (h[2] + 1)..Len(files[h[1]]) /\ files[h[1]][k].t = "field"
      BY DEF LinesIn
    <2>2. h[1] = f => k # l
      BY <2>1
    <2>3. h[1] \in Nat /\ h[2] \in Nat /\ Len(files[h[1]]) \in Nat
      BY <1>0, LineFacts
    <2> QED BY <1>0, <2>1, <2>2, <2>3 DEF IsRead
  <1> QED BY <1>1 DEF ReadLines

\* The lines of a table come after its header.
LEMMA NoLinesYet ==
  ASSUME NEW files, NEW h, NEW f, NEW l, NEW keys, IsDirectory(files), h = <<f, l>>,
         f \in 1..Len(files), l \in 1..Len(files[f])
  PROVE  ReadLines(files, f, l + 1, h, keys) = {}
  <1>0. f \in Nat /\ l \in Nat /\ Len(files[f]) \in Nat /\ h[1] = f /\ h[2] = l
    BY DirectoryFacts
  <1>1. ASSUME NEW k \in ReadLines(files, f, l + 1, h, keys) PROVE FALSE
    <2>1. k \in (l + 1)..Len(files[f]) /\ k < l + 1
      BY <1>0 DEF ReadLines, LinesIn, IsRead
    <2> QED BY <1>0, <2>1
  <1> QED BY <1>1

\* The end of a document.
LEMMA EndLines ==
  ASSUME NEW files, NEW f, NEW l, NEW keys, IsDirectory(files),
         f \in 1..Len(files), l = Len(files[f]) + 1
  PROVE  /\ ReadHeaders(files, f + 1, 1) = ReadHeaders(files, f, l)
         /\ \A h \in ReadHeaders(files, f, l) :
              ReadLines(files, f + 1, 1, h, keys) = ReadLines(files, f, l, h, keys)
  <1>0. f \in Nat /\ l \in Nat /\ Len(files[f]) \in Nat
    BY DirectoryFacts
  <1>1. ASSUME NEW h \in HeadersIn(files)
        PROVE  IsRead(f + 1, 1, h[1], h[2]) <=> IsRead(f, l, h[1], h[2])
    <2>1. h[1] \in Nat /\ h[2] \in 1..Len(files[h[1]]) /\ Len(files[h[1]]) \in Nat
      BY HeaderFacts
    <2> QED BY <1>0, <2>1 DEF IsRead
  <1>2. ASSUME NEW h \in ReadHeaders(files, f, l)
        PROVE  ReadLines(files, f + 1, 1, h, keys) = ReadLines(files, f, l, h, keys)
    <2>1. h[1] \in Nat /\ h[2] \in Nat /\ Len(files[h[1]]) \in Nat
      BY <1>0, LineFacts
    <2>2. ASSUME NEW k \in LinesIn(files, h, keys)
          PROVE  IsRead(f + 1, 1, h[1], k) <=> IsRead(f, l, h[1], k)
      <3>1. k \in (h[2] + 1)..Len(files[h[1]])
        BY DEF LinesIn
      <3> QED BY <1>0, <2>1, <3>1 DEF IsRead
    <2> QED BY <2>2 DEF ReadLines
  <1> QED BY <1>1, <1>2 DEF ReadHeaders

\* The open table is that of the last header.
LEMMA OpenIsLast ==
  ASSUME NEW files, NEW f, NEW l, IsDirectory(files), f \in 1..Len(files), l \in 1..(Len(files[f]) + 1),
         NEW h \in ReadHeaders(files, f, l), IsOpen(files, f, l, h)
  PROVE  /\ OrdinalIn(files, h) = Cardinality(ReadHeaders(files, f, l))
         /\ \A g \in ReadHeaders(files, f, l) : IsOpen(files, f, l, g) => g = h
  <1>0. f \in Nat /\ l \in Nat /\ Len(files[f]) \in Nat
    BY DirectoryFacts
  <1>1. h[1] = f /\ h[2] < l /\ \A j \in (h[2] + 1)..(l - 1) : files[f][j].t # "header"
    BY DEF IsOpen
  <1>2. \A g \in HeadersIn(files) :
            g = <<g[1], g[2]>> /\ g[1] \in Nat /\ g[2] \in Nat /\ files[g[1]][g[2]].t = "header"
    BY HeaderFacts
  <1>3. h \in HeadersIn(files)
    BY DEF ReadHeaders
  <1>4. ASSUME NEW g \in HeadersIn(files)
        PROVE  (g[1] < h[1] \/ (g[1] = h[1] /\ g[2] <= h[2])) <=> IsRead(f, l, g[1], g[2])
    <2>1. g[1] = f /\ g[2] > h[2] => g[2] >= l
      <3>1. g[1] = f => g[2] \notin (h[2] + 1)..(l - 1)
        BY <1>1, <1>2
      <3> QED BY <1>0, <1>2, <1>3, <3>1
    <2> QED BY <1>0, <1>1, <1>2, <1>3, <2>1 DEF IsRead
  <1>5. {g \in HeadersIn(files) : g[1] < h[1] \/ (g[1] = h[1] /\ g[2] <= h[2])} = ReadHeaders(files, f, l)
    BY <1>4 DEF ReadHeaders
  <1>6. OrdinalIn(files, h) = Cardinality(ReadHeaders(files, f, l))
    BY <1>5 DEF OrdinalIn
  <1>7. ASSUME NEW g \in ReadHeaders(files, f, l), IsOpen(files, f, l, g) PROVE g = h
    <2>1. g \in HeadersIn(files) /\ g[1] = f /\ g[2] < l /\ \A j \in (g[2] + 1)..(l - 1) : files[f][j].t # "header"
      BY <1>7 DEF IsOpen, ReadHeaders
    <2>2. g[2] \notin (h[2] + 1)..(l - 1) /\ h[2] \notin (g[2] + 1)..(l - 1)
      BY <1>1, <1>2, <1>3, <2>1
    <2>3. g[2] = h[2]
      BY <1>0, <1>1, <1>2, <1>3, <2>1, <2>2
    <2> QED BY <1>1, <1>2, <1>3, <2>1, <2>3
  <1> QED BY <1>6, <1>7

\* The greatest of a set to which a greater number is added.
LEMMA GreatestAdded ==
  ASSUME NEW S \in SUBSET Nat, NEW l \in Nat, \A k \in S : k < l
  PROVE  GreatestOf(S \cup {l}) = l
  <1>1. PICK T : T = S \cup {l}
    OBVIOUS
  <1>2. l \in T /\ \A j \in T : j <= l
    BY <1>1
  <1>3. GreatestOf(T) \in T /\ \A j \in T : j <= GreatestOf(T)
    BY <1>2 DEF GreatestOf
  <1>4. PICK g : g = GreatestOf(T)
    OBVIOUS
  <1>5. g \in Nat /\ l <= g /\ g <= l
    BY <1>1, <1>2, <1>3, <1>4
  <1>6. g = l
    BY <1>5
  <1> QED BY <1>1, <1>4, <1>6

-----------------------------------------------------------------------------
\* Reading the directory line by line.

\* The same lines make the same assertion.
LEMMA SameAssertion ==
  ASSUME NEW files, NEW f, NEW l, NEW g, NEW m, NEW h,
         \A keys : ReadLines(files, g, m, h, keys) = ReadLines(files, f, l, h, keys)
  PROVE  ReadAssertion(files, g, m, h) = ReadAssertion(files, f, l, h)
  BY DEF ReadAssertion, ReadCondition, LastRead

\* A field that is read sets that field of the assertion.
LEMMA FieldIsSet ==
  ASSUME NEW files, NEW f, NEW l, IsDirectory(files),
         f \in 1..Len(files), l \in 1..Len(files[f]), files[f][l].t = "field",
         files[f][l].key \in {"when", "requires", "forbids", "message"},
         NEW h \in ReadHeaders(files, f, l), IsOpen(files, f, l, h)
  PROVE  ReadAssertion(files, f, l + 1, h) = SetField(ReadAssertion(files, f, l, h), files[f][l])
  <1> DEFINE Now(keys) == ReadLines(files, f, l, h, keys)
             Then(keys) == ReadLines(files, f, l + 1, h, keys)
  <1>0. f \in Nat /\ l \in Nat /\ Len(files[f]) \in Nat /\ h[1] = f
    BY DirectoryFacts DEF IsOpen
  <1>1. ASSUME NEW keys, files[f][l].key \in keys
        PROVE  Then(keys) # {} /\ GreatestOf(Then(keys)) = l
    <2>1. Then(keys) = Now(keys) \cup {l}
      BY <1>1, FieldLines
    <2>2. Now(keys) \in SUBSET Nat /\ \A k \in Now(keys) : k < l
      BY <1>0, LineFacts
    <2> HIDE DEF Now, Then
    <2> QED BY <1>0, <2>1, <2>2, GreatestAdded
  <1>2. ASSUME NEW keys, files[f][l].key \notin keys
        PROVE  Then(keys) = Now(keys)
    BY <1>2, FieldLines
  <1>3. ASSUME NEW keys, files[f][l].key \in keys
        PROVE  /\ ReadCondition(files, f, l + 1, h, keys) = ParseCondition(files[f][l].value)
               /\ LastRead(files, f, l + 1, h, keys) = files[f][l] /\ Then(keys) # {}
    BY <1>0, <1>1, <1>3 DEF ReadCondition, LastRead
  <1>4. ASSUME NEW keys, files[f][l].key \notin keys
        PROVE  /\ ReadCondition(files, f, l + 1, h, keys) = ReadCondition(files, f, l, h, keys)
               /\ LastRead(files, f, l + 1, h, keys) = LastRead(files, f, l, h, keys)
               /\ Then(keys) = Now(keys)
    BY <1>2, <1>4 DEF ReadCondition, LastRead
  <1> HIDE DEF Now, Then
  <1>5. PICK w, q, m : w = {"when"} /\ q = {"requires", "forbids"} /\ m = {"message"}
    OBVIOUS
  <1>6. ASSUME NEW n
        PROVE  ReadAssertion(files, f, n, h) =
            [when |-> ReadCondition(files, f, n, h, w),
             action |-> IF ReadLines(files, f, n, h, q) = {} THEN "requires"
                        ELSE LastRead(files, f, n, h, q).key,
             condition |-> ReadCondition(files, f, n, h, q),
             message |-> IF ReadLines(files, f, n, h, m) = {} THEN Missing
                         ELSE LastRead(files, f, n, h, m).value]
    BY <1>5 DEF ReadAssertion
  <1>7. CASE files[f][l].key = "when"
    <2>1. files[f][l].key \in w /\ files[f][l].key \notin q /\ files[f][l].key \notin m
      BY <1>5, <1>7
    <2> QED BY <1>3, <1>4, <1>6, <1>7, <2>1 DEF SetField, Now, Then
  <1>8. CASE files[f][l].key = "message"
    <2>1. files[f][l].key \notin w /\ files[f][l].key \notin q /\ files[f][l].key \in m
      BY <1>5, <1>8
    <2> QED BY <1>3, <1>4, <1>6, <1>8, <2>1 DEF SetField, Now, Then
  <1>9. CASE files[f][l].key \in {"requires", "forbids"}
    <2>1. files[f][l].key \notin w /\ files[f][l].key \in q /\ files[f][l].key \notin m
      BY <1>5, <1>9
    <2>2. ASSUME NEW a
          PROVE  SetField(a, files[f][l]) = [when |-> a.when, action |-> files[f][l].key,
                       condition |-> ParseCondition(files[f][l].value), message |-> a.message]
      BY <1>9 DEF SetField
    <2>3. /\ ReadCondition(files, f, l + 1, h, q) = ParseCondition(files[f][l].value)
          /\ LastRead(files, f, l + 1, h, q) = files[f][l] /\ ReadLines(files, f, l + 1, h, q) # {}
      BY <1>3, <2>1 DEF Then
    <2>4. /\ ReadCondition(files, f, l + 1, h, w) = ReadCondition(files, f, l, h, w)
          /\ LastRead(files, f, l + 1, h, m) = LastRead(files, f, l, h, m)
          /\ ReadLines(files, f, l + 1, h, m) = ReadLines(files, f, l, h, m)
      BY <1>4, <2>1 DEF Now, Then
    <2>6. ReadAssertion(files, f, l + 1, h) =
            [when |-> ReadCondition(files, f, l, h, w), action |-> files[f][l].key,
             condition |-> ParseCondition(files[f][l].value),
             message |-> IF ReadLines(files, f, l, h, m) = {} THEN Missing
                         ELSE LastRead(files, f, l, h, m).value]
      BY <1>6, <2>3, <2>4
    <2>7. SetField(ReadAssertion(files, f, l, h), files[f][l]) =
            [when |-> ReadCondition(files, f, l, h, w), action |-> files[f][l].key,
             condition |-> ParseCondition(files[f][l].value),
             message |-> IF ReadLines(files, f, l, h, m) = {} THEN Missing
                         ELSE LastRead(files, f, l, h, m).value]
      BY <1>6, <2>2
    <2> QED BY <2>6, <2>7
  <1> QED BY <1>7, <1>8, <1>9

LEMMA ReadingFacts ==
  ASSUME NEW files, NEW f, NEW l, NEW t, NEW s, IsDirectory(files), DirectoryRead(files, f, l, t, s),
         f <= Len(files)
  PROVE  /\ f \in 1..Len(files) /\ l \in 1..(Len(files[f]) + 1) /\ f \in Nat /\ l \in Nat
         /\ Len(files[f]) \in Nat /\ Len(files) \in Nat
         /\ Len(s) \in Nat /\ DOMAIN s = 1..Len(s)
  <1>1. /\ Len(files) \in Nat
        /\ \A g \in 1..Len(files) : Len(files[g]) \in Nat
    BY DirectoryFacts
  <1>2. /\ f \in 1..(Len(files) + 1) /\ l \in Nat \ {0} /\ l <= Len(files[f]) + 1 /\ IsSequence(s)
    BY DEF DirectoryRead
  <1>3. f \in 1..Len(files)
    BY <1>1, <1>2
  <1>4. Len(s) \in Nat /\ DOMAIN s = 1..Len(s)
    BY <1>2, SequenceFacts
  <1> QED BY <1>1, <1>2, <1>3, <1>4

\* An [[assert]] header starts an assertion; any header ends the table before it.
LEMMA ReadHeaderLine ==
  ASSUME NEW files, NEW f, NEW l, NEW t, NEW s, IsDirectory(files), DirectoryRead(files, f, l, t, s),
         f <= Len(files), l <= Len(files[f]), files[f][l].t = "header"
  PROVE  DirectoryRead(files, f, l + 1, files[f][l].key,
                 IF files[f][l].key = "assert" THEN Append(s, NewAssertion) ELSE s)
  <1>0. /\ f \in 1..Len(files) /\ l \in 1..(Len(files[f]) + 1) /\ f \in Nat /\ l \in Nat
        /\ Len(files[f]) \in Nat /\ Len(files) \in Nat
        /\ Len(s) \in Nat /\ DOMAIN s = 1..Len(s)
    BY ReadingFacts
  <1>1. /\ l \in 1..Len(files[f]) /\ f \in 1..(Len(files) + 1) /\ l + 1 \in Nat \ {0}
        /\ l + 1 <= Len(files[f]) + 1 /\ ~(f > Len(files))
    BY <1>0
  <1>2. /\ IsSequence(s) /\ Len(s) = Cardinality(ReadHeaders(files, f, l))
        /\ \A i \in DOMAIN s : \E h \in ReadHeaders(files, f, l) : OrdinalIn(files, h) = i
        /\ \A h \in ReadHeaders(files, f, l) :
              OrdinalIn(files, h) \in DOMAIN s /\ s[OrdinalIn(files, h)] = ReadAssertion(files, f, l, h)
    BY DEF DirectoryRead
  <1>3. ASSUME NEW h \in ReadHeaders(files, f, l)
        PROVE  ReadAssertion(files, f, l + 1, h) = ReadAssertion(files, f, l, h)
    <2>1. ASSUME NEW keys
          PROVE  ReadLines(files, f, l + 1, h, keys) = ReadLines(files, f, l, h, keys)
      <3>1. f \in 1..Len(files) /\ l \in 1..Len(files[f]) /\ files[f][l].t = "header"
        BY <1>0, <1>1
      <3> QED BY <3>1, HeaderLines
    <2> QED BY <2>1, SameAssertion
  <1>4. ASSUME NEW h \in ReadHeaders(files, f, l) PROVE ~IsOpen(files, f, l + 1, h)
    <2>1. h[1] \in Nat /\ h[2] \in Nat /\ (h[1] < f \/ (h[1] = f /\ h[2] < l))
      BY <1>0, LineFacts
    <2>2. h[1] = f => l \in (h[2] + 1)..(l + 1 - 1)
      BY <1>0, <2>1
    <2> QED BY <2>2 DEF IsOpen
  <1>5. CASE files[f][l].key = "assert"
    <2> DEFINE new == <<f, l>>
               longer == Append(s, NewAssertion)
    <2>1. new \in HeadersIn(files)
      BY <1>0, <1>1, <1>5, HeaderFacts
    <2>2. /\ ReadHeaders(files, f, l + 1) = ReadHeaders(files, f, l) \cup {new}
          /\ OrdinalIn(files, new) = Cardinality(ReadHeaders(files, f, l + 1))
          /\ Cardinality(ReadHeaders(files, f, l + 1)) = Cardinality(ReadHeaders(files, f, l)) + 1
      BY <2>1, NextOrdinal
    <2>3. /\ IsSequence(longer) /\ Len(longer) = Len(s) + 1 /\ DOMAIN longer = 1..(Len(s) + 1)
          /\ \A i \in 1..Len(s) : longer[i] = s[i]
          /\ longer[Len(s) + 1] = NewAssertion
      BY <1>2, AppendSequence
    <2>4. ReadAssertion(files, f, l + 1, new) = NewAssertion
      <3>1. ASSUME NEW keys PROVE ReadLines(files, f, l + 1, new, keys) = {}
        BY <1>0, <1>1, NoLinesYet
      <3> HIDE DEF new
      <3> QED BY <3>1 DEF ReadAssertion, ReadCondition, NewAssertion
    <2>5. IsOpen(files, f, l + 1, new)
      <3>1. new[1] = f /\ new[2] = l
        OBVIOUS
      <3> HIDE DEF new
      <3>2. \A j \in (l + 1)..(l + 1 - 1) : FALSE
        BY <1>0
      <3> QED BY <1>0, <3>1, <3>2 DEF IsOpen
    <2> HIDE DEF new, longer
    <2>6. OrdinalIn(files, new) = Len(s) + 1
      BY <1>2, <2>2
    <2>7. ASSUME NEW i \in DOMAIN longer
          PROVE  \E h \in ReadHeaders(files, f, l + 1) : OrdinalIn(files, h) = i
      <3>1. CASE i = Len(s) + 1
        BY <2>2, <2>6, <3>1
      <3>2. CASE i # Len(s) + 1
        <4>1. i \in DOMAIN s
          BY <1>0, <2>3, <3>2
        <4> QED BY <1>2, <2>2, <4>1
      <3> QED BY <3>1, <3>2
    <2>8. ASSUME NEW h \in ReadHeaders(files, f, l + 1)
          PROVE  /\ OrdinalIn(files, h) \in DOMAIN longer
                 /\ longer[OrdinalIn(files, h)] = ReadAssertion(files, f, l + 1, h)
      <3>1. CASE h = new
        BY <1>0, <2>3, <2>4, <2>6, <3>1
      <3>2. CASE h # new
        <4>1. h \in ReadHeaders(files, f, l)
          BY <2>2, <3>2
        <4>2. OrdinalIn(files, h) \in 1..Len(s) /\ s[OrdinalIn(files, h)] = ReadAssertion(files, f, l, h)
          BY <1>0, <1>2, <4>1
        <4>3. OrdinalIn(files, h) \in 1..(Len(s) + 1)
          BY <1>0, <4>2
        <4> QED BY <1>3, <2>3, <4>1, <4>2, <4>3
      <3> QED BY <3>1, <3>2
    <2>9. Len(longer) = Cardinality(ReadHeaders(files, f, l + 1))
      BY <1>2, <2>2, <2>3
    <2>10. \E h \in ReadHeaders(files, f, l + 1) : IsOpen(files, f, l + 1, h)
      BY <2>2, <2>5
    <2>11. DirectoryRead(files, f, l + 1, files[f][l].key, longer)
      BY <1>1, <1>5, <2>3, <2>7, <2>8, <2>9, <2>10 DEF DirectoryRead
    <2> QED BY <1>5, <2>11 DEF longer
  <1>6. CASE files[f][l].key # "assert"
    <2>1. <<f, l>> \notin HeadersIn(files)
      BY <1>0, <1>1, <1>6, HeaderFacts
    <2>2. ReadHeaders(files, f, l + 1) = ReadHeaders(files, f, l)
      BY <1>0, <2>1, SameHeaders
    <2>3. ~ \E h \in ReadHeaders(files, f, l + 1) : IsOpen(files, f, l + 1, h)
      BY <1>4, <2>2
    <2>4. \A h \in ReadHeaders(files, f, l + 1) :
              OrdinalIn(files, h) \in DOMAIN s /\ s[OrdinalIn(files, h)] = ReadAssertion(files, f, l + 1, h)
      BY <1>2, <1>3, <2>2
    <2>5. DirectoryRead(files, f, l + 1, files[f][l].key, s)
      BY <1>1, <1>2, <1>6, <2>2, <2>3, <2>4 DEF DirectoryRead
    <2> QED BY <1>6, <2>5
  <1> QED BY <1>5, <1>6

\* A field changes the assertion of the open table.
LEMMA ReadFieldLine ==
  ASSUME NEW files, NEW f, NEW l, NEW t, NEW s, IsDirectory(files), DirectoryRead(files, f, l, t, s),
         f <= Len(files), l <= Len(files[f]), files[f][l].t = "field",
         t = "assert" => files[f][l].key \in {"when", "requires", "forbids", "message"}
  PROVE  /\ t = "assert" => Len(s) \in DOMAIN s
         /\ DirectoryRead(files, f, l + 1, t,
                    IF t = "assert" THEN [s EXCEPT ![Len(s)] = SetField(@, files[f][l])] ELSE s)
  <1>0. /\ f \in 1..Len(files) /\ l \in 1..(Len(files[f]) + 1) /\ f \in Nat /\ l \in Nat
        /\ Len(files[f]) \in Nat /\ Len(files) \in Nat
        /\ Len(s) \in Nat /\ DOMAIN s = 1..Len(s)
    BY ReadingFacts
  <1>1. /\ l \in 1..Len(files[f]) /\ f \in 1..(Len(files) + 1) /\ l + 1 \in Nat \ {0}
        /\ l + 1 <= Len(files[f]) + 1 /\ ~(f > Len(files))
    BY <1>0
  <1>2. /\ IsSequence(s) /\ Len(s) = Cardinality(ReadHeaders(files, f, l))
        /\ \A i \in DOMAIN s : \E h \in ReadHeaders(files, f, l) : OrdinalIn(files, h) = i
        /\ \A h \in ReadHeaders(files, f, l) :
              OrdinalIn(files, h) \in DOMAIN s /\ s[OrdinalIn(files, h)] = ReadAssertion(files, f, l, h)
        /\ t = "assert" <=> \E h \in ReadHeaders(files, f, l) : IsOpen(files, f, l, h)
    BY DEF DirectoryRead
  <1>3. ReadHeaders(files, f, l + 1) = ReadHeaders(files, f, l)
    <2>1. <<f, l>> \notin HeadersIn(files)
      BY <1>0, <1>1, HeaderFacts
    <2> QED BY <1>0, <2>1, SameHeaders
  <1>4. ASSUME NEW h \in ReadHeaders(files, f, l)
        PROVE  IsOpen(files, f, l + 1, h) <=> IsOpen(files, f, l, h)
    <2>1. h[1] \in Nat /\ h[2] \in Nat /\ (h[1] < f \/ (h[1] = f /\ h[2] < l))
      BY <1>0, LineFacts
    <2>2. ASSUME IsOpen(files, f, l, h) PROVE IsOpen(files, f, l + 1, h)
      <3>1. h[1] = f /\ h[2] < l + 1 /\ \A j \in (h[2] + 1)..(l - 1) : files[f][j].t # "header"
        BY <1>0, <2>1, <2>2 DEF IsOpen
      <3>2. ASSUME NEW j \in (h[2] + 1)..(l + 1 - 1) PROVE files[f][j].t # "header"
        <4>1. j \in (h[2] + 1)..(l - 1) \/ j = l
          BY <1>0, <2>1
        <4>2. files[f][l].t # "header"
          OBVIOUS
        <4> QED BY <3>1, <4>1, <4>2
      <3> QED BY <1>0, <2>1, <3>1, <3>2 DEF IsOpen
    <2>3. ASSUME IsOpen(files, f, l + 1, h) PROVE IsOpen(files, f, l, h)
      <3>1. h[1] = f /\ \A j \in (h[2] + 1)..(l + 1 - 1) : files[f][j].t # "header"
        BY <1>0, <2>1, <2>3 DEF IsOpen
      <3>2. ASSUME NEW j \in (h[2] + 1)..(l - 1) PROVE files[f][j].t # "header"
        <4>1. j \in (h[2] + 1)..(l + 1 - 1)
          BY <1>0, <2>1
        <4> QED BY <3>1, <4>1
      <3>3. h[2] < l
        BY <1>0, <2>1, <3>1
      <3> QED BY <3>1, <3>2, <3>3 DEF IsOpen
    <2> QED BY <2>2, <2>3
  <1>5. ASSUME NEW h \in ReadHeaders(files, f, l), ~IsOpen(files, f, l, h)
        PROVE  ReadAssertion(files, f, l + 1, h) = ReadAssertion(files, f, l, h)
    <2>1. ASSUME NEW keys
          PROVE  ReadLines(files, f, l + 1, h, keys) = ReadLines(files, f, l, h, keys)
      <3>1. f \in 1..Len(files) /\ l \in 1..Len(files[f]) /\ files[f][l].t = "field"
        BY <1>0, <1>1
      <3>2. ~(IsOpen(files, f, l, h) /\ files[f][l].key \in keys)
        BY <1>5
      <3>3. PICK m : m = l + 1
        OBVIOUS
      <3>4. ReadLines(files, f, m, h, keys) = ReadLines(files, f, l, h, keys)
        BY <3>1, <3>2, <3>3, LinesStay
      <3> QED BY <3>3, <3>4
    <2> QED BY <2>1, SameAssertion
  <1>6. CASE t = "assert"
    <2> DEFINE next == [s EXCEPT ![Len(s)] = SetField(@, files[f][l])]
    <2>1. PICK h \in ReadHeaders(files, f, l) : IsOpen(files, f, l, h)
      BY <1>2, <1>6
    <2>2. /\ OrdinalIn(files, h) = Len(s)
          /\ \A g \in ReadHeaders(files, f, l) : IsOpen(files, f, l, g) => g = h
      BY <1>0, <1>2, <2>1, OpenIsLast
    <2>3. Len(s) \in DOMAIN s /\ s[Len(s)] = ReadAssertion(files, f, l, h)
      BY <1>2, <2>1, <2>2
    <2>4. ReadAssertion(files, f, l + 1, h) = SetField(s[Len(s)], files[f][l])
      BY <1>0, <1>1, <1>6, <2>1, <2>3, FieldIsSet
    <2>5. /\ IsSequence(next) /\ Len(next) = Len(s) /\ DOMAIN next = DOMAIN s
          /\ \A j \in DOMAIN s : next[j] = IF j = Len(s) THEN SetField(s[Len(s)], files[f][l]) ELSE s[j]
      <3>1. PICK x, S : x = SetField(s[Len(s)], files[f][l]) /\ S = Range(s) \cup {x}
        OBVIOUS
      <3>2. s \in [DOMAIN s -> S]
        <4>1. s \in Seq(Range(s))
          BY <1>2, SequenceFacts
        <4> QED BY <1>0, <3>1, <4>1
      <3>3. next \in [DOMAIN s -> S]
        BY <3>1, <3>2
      <3>4. DOMAIN next = DOMAIN s /\ \A j \in DOMAIN s : next[j] = IF j = Len(s) THEN x ELSE s[j]
        BY <2>3, <3>1, <3>2
      <3> HIDE DEF next
      <3>5. IsSequence(next) /\ Len(next) = Len(s)
        BY <1>2, <3>3, FunctionSequence
      <3> QED BY <3>1, <3>4, <3>5
    <2> HIDE DEF next
    <2>6. ASSUME NEW g \in ReadHeaders(files, f, l + 1)
          PROVE  /\ OrdinalIn(files, g) \in DOMAIN next
                 /\ next[OrdinalIn(files, g)] = ReadAssertion(files, f, l + 1, g)
      <3>1. g \in ReadHeaders(files, f, l)
        BY <1>3
      <3>2. OrdinalIn(files, g) \in DOMAIN s /\ s[OrdinalIn(files, g)] = ReadAssertion(files, f, l, g)
        BY <1>2, <3>1
      <3>3. CASE g = h
        BY <2>2, <2>3, <2>4, <2>5, <3>3
      <3>4. CASE g # h
        <4>1. OrdinalIn(files, g) # Len(s)
          <5>1. g \in HeadersIn(files) /\ h \in HeadersIn(files)
            BY <2>1, <3>1 DEF ReadHeaders
          <5> QED BY <2>2, <3>4, <5>1, OrdinalFacts
        <4>2. ReadAssertion(files, f, l + 1, g) = ReadAssertion(files, f, l, g)
          BY <1>5, <2>2, <3>1, <3>4
        <4> QED BY <2>5, <3>2, <4>1, <4>2
      <3> QED BY <3>3, <3>4
    <2>7. \E g \in ReadHeaders(files, f, l + 1) : IsOpen(files, f, l + 1, g)
      BY <1>3, <1>4, <2>1
    <2>8. Len(next) = Cardinality(ReadHeaders(files, f, l + 1))
      BY <1>2, <1>3, <2>5
    <2>9. \A i \in DOMAIN next : \E g \in ReadHeaders(files, f, l + 1) : OrdinalIn(files, g) = i
      BY <1>2, <1>3, <2>5
    <2>10. DirectoryRead(files, f, l + 1, t, next)
      BY <1>1, <1>6, <2>5, <2>6, <2>7, <2>8, <2>9 DEF DirectoryRead
    <2> QED BY <1>6, <2>3, <2>10 DEF next
  <1>7. CASE t # "assert"
    <2>1. \A h \in ReadHeaders(files, f, l) : ~IsOpen(files, f, l, h)
      BY <1>2, <1>7
    <2>2. ~ \E g \in ReadHeaders(files, f, l + 1) : IsOpen(files, f, l + 1, g)
      BY <1>3, <1>4, <2>1
    <2>3. \A h \in ReadHeaders(files, f, l + 1) :
              OrdinalIn(files, h) \in DOMAIN s /\ s[OrdinalIn(files, h)] = ReadAssertion(files, f, l + 1, h)
      BY <1>2, <1>3, <1>5, <2>1
    <2>4. DirectoryRead(files, f, l + 1, t, s)
      BY <1>1, <1>2, <1>3, <1>7, <2>2, <2>3 DEF DirectoryRead
    <2> QED BY <1>7, <2>4
  <1> QED BY <1>6, <1>7

\* The next document starts outside of any table.
LEMMA ReadEnd ==
  ASSUME NEW files, NEW f, NEW l, NEW t, NEW s, IsDirectory(files), DirectoryRead(files, f, l, t, s),
         f <= Len(files), l > Len(files[f])
  PROVE  DirectoryRead(files, f + 1, 1, "none", s)
  <1>0. /\ f \in 1..Len(files) /\ l \in 1..(Len(files[f]) + 1) /\ f \in Nat /\ l \in Nat
        /\ Len(files[f]) \in Nat /\ Len(files) \in Nat
    BY ReadingFacts
  <1>1. l = Len(files[f]) + 1 /\ f + 1 \in 1..(Len(files) + 1)
    BY <1>0
  <1>2. /\ IsSequence(s) /\ Len(s) = Cardinality(ReadHeaders(files, f, l))
        /\ \A i \in DOMAIN s : \E h \in ReadHeaders(files, f, l) : OrdinalIn(files, h) = i
        /\ \A h \in ReadHeaders(files, f, l) :
              OrdinalIn(files, h) \in DOMAIN s /\ s[OrdinalIn(files, h)] = ReadAssertion(files, f, l, h)
    BY DEF DirectoryRead
  <1>3. ReadHeaders(files, f + 1, 1) = ReadHeaders(files, f, l)
    BY <1>0, <1>1, EndLines
  <1>4. ASSUME NEW h \in ReadHeaders(files, f, l)
        PROVE  ReadAssertion(files, f + 1, 1, h) = ReadAssertion(files, f, l, h)
    <2>1. \A keys : ReadLines(files, f + 1, 1, h, keys) = ReadLines(files, f, l, h, keys)
      BY <1>0, <1>1, EndLines
    <2> QED BY <2>1, SameAssertion
  <1>5. ASSUME NEW h \in ReadHeaders(files, f + 1, 1) PROVE ~IsOpen(files, f + 1, 1, h)
    <2>1. h[2] \in 1..Len(files[h[1]])
      BY HeaderFacts DEF ReadHeaders
    <2>2. Len(files[h[1]]) \in Nat
      BY HeaderFacts DEF ReadHeaders
    <2> QED BY <2>1, <2>2 DEF IsOpen
  <1>6. f + 1 <= Len(files) => 1 <= Len(files[f + 1]) + 1
    <2>1. f + 1 <= Len(files) => Len(files[f + 1]) \in Nat
      BY <1>1, <1>0, DirectoryFacts
    <2> QED BY <2>1
  <1> QED BY <1>1, <1>2, <1>3, <1>4, <1>5, <1>6 DEF DirectoryRead

LEMMA ReadingStarts ==
  ASSUME NEW files, IsDirectory(files)
  PROVE  DirectoryRead(files, 1, 1, "none", <<>>)
  <1>1. /\ Len(files) \in Nat
        /\ \A g \in 1..Len(files) : Len(files[g]) \in Nat
    BY DirectoryFacts
  <1>2. ReadHeaders(files, 1, 1) = {}
    <2>1. ASSUME NEW h \in ReadHeaders(files, 1, 1) PROVE FALSE
      <3>1. h \in HeadersIn(files) /\ (h[1] < 1 \/ (h[1] = 1 /\ h[2] < 1))
        BY DEF ReadHeaders, IsRead
      <3>2. h[1] \in 1..Len(files) /\ h[2] \in 1..Len(files[h[1]]) /\ h[1] \in Nat /\ h[2] \in Nat
        BY <3>1, HeaderFacts
      <3> QED BY <3>1, <3>2
    <2> QED BY <2>1
  <1>3. Cardinality({}) = 0
    BY FS_EmptySet
  <1>4. IsSequence(<<>>) /\ Len(<<>>) = 0
    BY DEF IsSequence
  <1>5. 1 \in 1..(Len(files) + 1) /\ (1 <= Len(files) => 1 <= Len(files[1]) + 1)
    BY <1>1
  <1>6. PICK s : s = <<>>
    OBVIOUS
  <1>7. IsSequence(s) /\ Len(s) = Cardinality(ReadHeaders(files, 1, 1)) /\ DOMAIN s = {}
    <2>1. IsSequence(s) /\ Len(s) = 0
      BY <1>4, <1>6
    <2>2. DOMAIN s = {}
      BY <1>6
    <2>3. Cardinality(ReadHeaders(files, 1, 1)) = 0
      BY <1>2, <1>3
    <2> QED BY <2>1, <2>2, <2>3
  <1>8. "none" # "assert" /\ 1 \in Nat \ {0}
    OBVIOUS
  <1>9. DirectoryRead(files, 1, 1, "none", s)
    BY <1>2, <1>5, <1>7, <1>8 DEF DirectoryRead
  <1> QED BY <1>6, <1>9

\* At the end everything has been read.
LEMMA ReadingComplete ==
  ASSUME NEW files, NEW f, NEW l, IsDirectory(files), f \in Nat, f > Len(files)
  PROVE  /\ ReadHeaders(files, f, l) = HeadersIn(files)
         /\ \A h \in HeadersIn(files) : \A keys : ReadLines(files, f, l, h, keys) = LinesIn(files, h, keys)
  <1>1. Len(files) \in Nat
    BY DirectoryFacts
  <1>2. ASSUME NEW h \in HeadersIn(files), NEW k PROVE IsRead(f, l, h[1], k)
    <2>1. h[1] \in 1..Len(files) /\ h[1] \in Nat
      BY HeaderFacts
    <2> QED BY <1>1, <2>1 DEF IsRead
  <1> QED BY <1>2 DEF ReadHeaders, ReadLines

-----------------------------------------------------------------------------
\* The version 1 command.

LEMMA InputFacts ==
  ASSUME InputIsGiven
  PROVE  IsDirectory(input.files) /\ IsSequence(input.projects)
  BY InputsAssumption DEF InputIsGiven, IsDirectory

LEMMA SourceFacts ==
  /\ AssertHeaders = HeadersIn(input.files)
  /\ \A h, keys : LinesOf(h, keys) = LinesIn(input.files, h, keys)
  /\ \A h : Ordinal(h) = OrdinalIn(input.files, h)
  <1>1. AssertHeaders = HeadersIn(input.files)
    BY DEF AssertHeaders, HeadersIn
  <1>2. ASSUME NEW h, NEW keys PROVE LinesOf(h, keys) = LinesIn(input.files, h, keys)
    BY DEF LinesOf, LinesIn
  <1>3. ASSUME NEW h PROVE Ordinal(h) = OrdinalIn(input.files, h)
    BY <1>1 DEF Ordinal, OrdinalIn
  <1> QED BY <1>1, <1>2, <1>3

LEMMA OutcomeFacts ==
  ASSUME NEW a
  PROVE  Outcome(a) = OutcomeIn(input.projects, a)
  <1>1. ASSUME NEW c PROVE EvaluateCondition(c) = ConditionIn(input.projects, c)
    <2>1. Holders(c.option) = HoldersIn(input.projects, c.option)
      BY DEF Holders, HoldersIn
    <2>2. Holder(c.option) = FirstIn(HoldersIn(input.projects, c.option))
      BY <2>1 DEF Holder, FirstIn
    <2> QED BY <2>1, <2>2 DEF EvaluateCondition, ConditionIn, FindResolvedValue
  <1> QED BY <1>1 DEF Outcome, OutcomeIn

\* When the directory has been read, its assertions are those of the source.
LEMMA SuiteOfSource ==
  ASSUME InputIsGiven, DirectoryRead(input.files, file, line, table, suite), file > Len(input.files),
         \A i \in DOMAIN suite : ~Incomplete(suite[i])
  PROVE  /\ Len(suite) = Cardinality(AssertHeaders)
         /\ \A i \in DOMAIN suite : \E h \in AssertHeaders : Ordinal(h) = i
         /\ \A h \in AssertHeaders :
              /\ Ordinal(h) \in DOMAIN suite
              /\ suite[Ordinal(h)].when = ParseCondition(LastOf(h, {"when"}).value)
              /\ suite[Ordinal(h)].action = LastOf(h, {"requires", "forbids"}).key
              /\ suite[Ordinal(h)].condition = ParseCondition(LastOf(h, {"requires", "forbids"}).value)
              /\ suite[Ordinal(h)].message = LastOf(h, {"message"}).value
  <1>1. IsDirectory(input.files)
    BY InputFacts
  <1>2. PICK files : files = input.files
    OBVIOUS
  <1>3. file \in Nat /\ file > Len(files) /\ IsDirectory(files) /\ DirectoryRead(files, file, line, table, suite)
    <2>1. Len(files) \in Nat
      BY <1>1, <1>2, DirectoryFacts
    <2>2. file \in 1..(Len(files) + 1)
      BY <1>2 DEF DirectoryRead
    <2> QED BY <1>1, <1>2, <2>1, <2>2
  <1>4. /\ ReadHeaders(files, file, line) = HeadersIn(files)
        /\ \A h \in HeadersIn(files) : \A keys :
                ReadLines(files, file, line, h, keys) = LinesIn(files, h, keys)
    BY <1>3, ReadingComplete
  <1>5. /\ Len(suite) = Cardinality(HeadersIn(files))
        /\ \A i \in DOMAIN suite : \E h \in HeadersIn(files) : OrdinalIn(files, h) = i
        /\ \A h \in HeadersIn(files) :
              /\ OrdinalIn(files, h) \in DOMAIN suite
              /\ suite[OrdinalIn(files, h)] = ReadAssertion(files, file, line, h)
    BY <1>3, <1>4 DEF DirectoryRead
  <1>6. ASSUME NEW h, NEW keys, ReadLines(files, file, line, h, keys) = LinesIn(files, h, keys)
        PROVE  LastRead(files, file, line, h, keys) = LastOf(h, keys)
    BY <1>2, <1>6, SourceFacts DEF LastRead, LastOf, GreatestOf
  <1>7. ASSUME NEW h \in AssertHeaders
        PROVE  /\ Ordinal(h) \in DOMAIN suite
               /\ suite[Ordinal(h)].when = ParseCondition(LastOf(h, {"when"}).value)
               /\ suite[Ordinal(h)].action = LastOf(h, {"requires", "forbids"}).key
               /\ suite[Ordinal(h)].condition = ParseCondition(LastOf(h, {"requires", "forbids"}).value)
               /\ suite[Ordinal(h)].message = LastOf(h, {"message"}).value
    <2>1. h \in HeadersIn(files) /\ Ordinal(h) = OrdinalIn(files, h)
      BY <1>2, SourceFacts
    <2>2. PICK a, w, q, m : /\ a = suite[Ordinal(h)] /\ w = {"when"} /\ q = {"requires", "forbids"}
                            /\ m = {"message"}
      OBVIOUS
    <2>3. Ordinal(h) \in DOMAIN suite /\ a = ReadAssertion(files, file, line, h) /\ ~Incomplete(a)
      BY <1>5, <2>1, <2>2
    <2>4. /\ LastRead(files, file, line, h, w) = LastOf(h, w)
          /\ LastRead(files, file, line, h, q) = LastOf(h, q)
          /\ LastRead(files, file, line, h, m) = LastOf(h, m)
      BY <1>4, <1>6, <2>1
    <2>5. a = [when |-> ReadCondition(files, file, line, h, w),
               action |-> IF ReadLines(files, file, line, h, q) = {} THEN "requires"
                          ELSE LastRead(files, file, line, h, q).key,
               condition |-> ReadCondition(files, file, line, h, q),
               message |-> IF ReadLines(files, file, line, h, m) = {} THEN Missing
                           ELSE LastRead(files, file, line, h, m).value]
      BY <2>2, <2>3 DEF ReadAssertion
    <2>6. NoCondition.option = Missing
      BY DEF NoCondition
    <2>7. a.when.option # Missing /\ a.condition.option # Missing /\ a.message # Missing
      BY <2>3 DEF Incomplete
    <2>8. ReadLines(files, file, line, h, w) # {} /\ ReadLines(files, file, line, h, q) # {}
      BY <2>5, <2>6, <2>7 DEF ReadCondition
    <2>9. ReadLines(files, file, line, h, m) # {}
      BY <2>5, <2>7
    <2>10. /\ a.when = ParseCondition(LastOf(h, w).value)
           /\ a.condition = ParseCondition(LastOf(h, q).value)
      BY <2>4, <2>5, <2>8 DEF ReadCondition
    <2>11. a.action = LastOf(h, q).key /\ a.message = LastOf(h, m).value
      BY <2>4, <2>5, <2>8, <2>9
    <2> QED BY <2>2, <2>3, <2>10, <2>11
  <1> QED BY <1>2, <1>5, <1>7, SourceFacts

\* One more result.
LEMMA FailureAppended ==
  ASSUME NEW r, NEW d, NEW s, NEW o, IsSequence(r), NEW e,
         \/ d = 0 /\ \A i \in DOMAIN r : r[i].state # "fail"
         \/ d \in DOMAIN r /\ r[d].state = "fail" /\ \A i \in 1..(d - 1) : r[i].state # "fail",
         s = Append(r, o),
         e = IF o.state = "fail" /\ d = 0 THEN Len(r) + 1 ELSE d
  PROVE  \/ e = 0 /\ \A i \in DOMAIN s : s[i].state # "fail"
         \/ e \in DOMAIN s /\ s[e].state = "fail" /\ \A i \in 1..(e - 1) : s[i].state # "fail"
  <1>1. Len(r) \in Nat /\ DOMAIN r = 1..Len(r)
    BY SequenceFacts
  <1>2. /\ DOMAIN s = 1..(Len(r) + 1) /\ \A i \in 1..Len(r) : s[i] = r[i]
        /\ s[Len(r) + 1] = o
    BY AppendSequence
  <1>3. CASE d = 0 /\ o.state = "fail"
    <2>1. e = Len(r) + 1
      BY <1>3
    <2>2. \A i \in 1..(e - 1) : i \in 1..Len(r)
      BY <1>1, <2>1
    <2>3. \A i \in DOMAIN r : r[i].state # "fail"
      BY <1>1, <1>3
    <2> QED BY <1>1, <1>2, <1>3, <2>1, <2>2, <2>3
  <1>4. CASE d = 0 /\ o.state # "fail"
    <2>1. e = 0 /\ \A i \in DOMAIN r : r[i].state # "fail"
      BY <1>1, <1>4
    <2>2. ASSUME NEW i \in DOMAIN s PROVE s[i].state # "fail"
      <3>1. i \in 1..Len(r) \/ i = Len(r) + 1
        BY <1>1, <1>2
      <3> QED BY <1>1, <1>2, <1>4, <2>1, <3>1
    <2> QED BY <2>1, <2>2
  <1>5. CASE d # 0
    <2>1. e = d /\ d \in 1..Len(r) /\ r[d].state = "fail" /\ \A i \in 1..(d - 1) : r[i].state # "fail"
      BY <1>1, <1>5
    <2>2. d \in DOMAIN s /\ \A i \in 1..(d - 1) : i \in 1..Len(r)
      BY <1>1, <1>2, <2>1
    <2> QED BY <1>2, <2>1, <2>2
  <1> QED BY <1>3, <1>4, <1>5

\* Every step keeps the input.
LEMMA SameInput ==
  ASSUME CompatNext \/ UNCHANGED compatVars
  PROVE  input' = input
  BY DEF CompatNext, Dispatch, OpenTable, Field, EndDocument, ValidateSuite, CheckAssertion, FinishCheck,
         LoadFile, ValidateProjects, EvaluateConstraint, FinishEvaluation, Finished, compatVars

LEMMA V1Step ==
  ASSUME CompatInv, IsV1, CompatNext
  PROVE  /\ stage' \in {"dispatch", "parse", "check", "load", "bind", "evaluate", "done"}
         /\ stage' # "done" => verdict' = "none"
         /\ V1Inv'
  <1>0. IsDirectory(input.files) /\ IsV1' /\ input' = input
    BY SameInput, InputFacts DEF CompatInv, IsV1, SchemaVersions
  <1>1. /\ V1Inv /\ stage \in {"dispatch", "parse", "check", "load", "bind", "evaluate", "done"}
        /\ stage # "done" => verdict = "none"
    BY DEF CompatInv
  <1>2. stage \notin {"load", "bind", "evaluate"}
    BY <1>1 DEF V1Inv
  <1>3. CASE Dispatch
    <2>1. CASE stage' = "done"
      <3>1. ~Published'
        BY <1>3, <2>1 DEF Dispatch, Stop, Published
      <3> QED BY <1>0, <1>1, <1>3, <2>1, <3>1 DEF Dispatch, V1Inv
    <2>2. CASE stage' # "done"
      <3>1. /\ stage' = "parse" /\ verdict' = verdict /\ diagnostic' = diagnostic
            /\ UNCHANGED <<file, line, table, suite, results>> /\ stage = "dispatch"
        BY <1>3, <2>2 DEF Dispatch, Stop, IsV1
      <3>2. ~Published'
        BY <3>1 DEF Published
      <3> QED BY <1>0, <1>1, <3>1, <3>2 DEF V1Inv
    <2> QED BY <2>1, <2>2
  <1>4. CASE OpenTable
    <2>1. /\ stage = "parse" /\ file <= Len(input.files) /\ line <= Len(input.files[file])
          /\ input.files[file][line].t = "header" /\ UNCHANGED <<file, results>>
      BY <1>4 DEF OpenTable, AtLine, TheLine, Document
    <2>2. results = <<>> /\ diagnostic = NoDiagnostic /\ DirectoryRead(input.files, file, line, table, suite)
      BY <1>1, <2>1 DEF V1Inv
    <2>3. CASE stage' = "done"
      <3>1. ~Published' /\ UNCHANGED <<line, table, suite>>
        BY <1>4, <2>1, <2>3 DEF OpenTable, Stop, Published, NextLine
      <3> QED BY <1>0, <1>1, <2>1, <2>3, <3>1 DEF V1Inv
    <2>4. CASE stage' # "done"
      <3>1. /\ stage' = "parse" /\ line' = line + 1 /\ UNCHANGED <<verdict, diagnostic>>
            /\ table' = input.files[file][line].key
            /\ suite' = IF input.files[file][line].key = "assert" THEN Append(suite, NewAssertion) ELSE suite
        BY <1>4, <2>1, <2>4 DEF OpenTable, Stop, NextLine, TheLine, Document
      <3>2. DirectoryRead(input.files, file, line', table', suite')
        BY <1>0, <2>1, <2>2, <3>1, ReadHeaderLine
      <3>3. DirectoryRead(input.files, file, line, table, suite)'
        BY <1>0, <2>1, <3>2
      <3>4. IsSequence(results') /\ Len(results') <= Len(suite') /\ DOMAIN results' = {}
        <4>1. IsSequence(suite')
          BY <3>2 DEF DirectoryRead
        <4>2. Len(suite') \in Nat
          BY <4>1, SequenceFacts
        <4>3. results' = <<>> /\ IsSequence(results')
          BY <1>1, <2>1, <2>2 DEF V1Inv
        <4> QED BY <4>2, <4>3
      <3>5. ~Published'
        BY <3>1 DEF Published
      <3> QED BY <1>1, <2>1, <2>2, <3>1, <3>3, <3>4, <3>5 DEF V1Inv
    <2> QED BY <2>3, <2>4
  <1>5. CASE Field
    <2>1. /\ stage = "parse" /\ file <= Len(input.files) /\ line <= Len(input.files[file])
          /\ input.files[file][line].t = "field" /\ UNCHANGED <<file, results, table>>
      BY <1>5 DEF Field, AtLine, TheLine, Document
    <2>2. results = <<>> /\ diagnostic = NoDiagnostic /\ DirectoryRead(input.files, file, line, table, suite)
      BY <1>1, <2>1 DEF V1Inv
    <2>3. CASE stage' = "done"
      <3>1. ~Published' /\ UNCHANGED <<line, suite>>
        BY <1>5, <2>1, <2>3 DEF Field, Stop, Published, NextLine
      <3> QED BY <1>0, <1>1, <2>1, <2>3, <3>1 DEF V1Inv
    <2>4. CASE stage' # "done"
      <3>1. /\ stage' = "parse" /\ line' = line + 1 /\ UNCHANGED <<verdict, diagnostic>>
            /\ Known(input.files[file][line].key)
            /\ suite' = IF table = "assert"
                        THEN [suite EXCEPT ![Len(suite)] = SetField(@, input.files[file][line])] ELSE suite
        BY <1>5, <2>1, <2>4 DEF Field, Stop, NextLine, TheLine, Document
      <3>2. table = "assert" => input.files[file][line].key \in {"when", "requires", "forbids", "message"}
        BY <3>1 DEF Known
      <3>3. DirectoryRead(input.files, file, line', table, suite')
        BY <1>0, <2>1, <2>2, <3>1, <3>2, ReadFieldLine
      <3>4. DirectoryRead(input.files, file, line, table, suite)'
        BY <1>0, <2>1, <3>3
      <3>5. IsSequence(results') /\ Len(results') <= Len(suite') /\ DOMAIN results' = {}
        <4>1. IsSequence(suite')
          BY <3>3 DEF DirectoryRead
        <4>2. Len(suite') \in Nat
          BY <4>1, SequenceFacts
        <4>3. results' = <<>> /\ IsSequence(results')
          BY <1>1, <2>1, <2>2 DEF V1Inv
        <4> QED BY <4>2, <4>3
      <3>6. ~Published'
        BY <3>1 DEF Published
      <3> QED BY <1>1, <2>1, <2>2, <3>1, <3>4, <3>5, <3>6 DEF V1Inv
    <2> QED BY <2>3, <2>4
  <1>6. CASE EndDocument
    <2>1. /\ stage = "parse" /\ file <= Len(input.files) /\ line > Len(input.files[file])
          /\ file' = file + 1 /\ line' = 1 /\ table' = "none"
          /\ UNCHANGED <<stage, suite, results, verdict, diagnostic>>
      BY <1>6 DEF EndDocument, Document
    <2>2. DirectoryRead(input.files, file, line, table, suite)
      BY <1>1 DEF V1Inv
    <2>3. DirectoryRead(input.files, file', line', table', suite')
      BY <1>0, <2>1, <2>2, ReadEnd
    <2>4. DirectoryRead(input.files, file, line, table, suite)'
      BY <1>0, <2>3
    <2>5. ~Published'
      BY <2>1 DEF Published
    <2> QED BY <1>0, <1>1, <2>1, <2>4, <2>5 DEF V1Inv
  <1>7. CASE ValidateSuite
    <2>1. /\ stage = "parse" /\ file > Len(input.files)
          /\ UNCHANGED <<file, line, table, suite, results>>
      BY <1>7 DEF ValidateSuite
    <2>2. CASE stage' = "done"
      <3>1. ~Published'
        BY <1>7, <2>1, <2>2 DEF ValidateSuite, Stop, Published
      <3> QED BY <1>0, <1>1, <2>1, <2>2, <3>1 DEF V1Inv
    <2>3. CASE stage' # "done"
      <3>1. /\ stage' = "check" /\ UNCHANGED <<verdict, diagnostic>>
            /\ \A i \in DOMAIN suite : ~Incomplete(suite[i])
        BY <1>7, <2>1, <2>3 DEF ValidateSuite, Stop
      <3>2. ~Published'
        BY <3>1 DEF Published
      <3>3. results = <<>> /\ diagnostic = NoDiagnostic
        BY <1>1, <2>1 DEF V1Inv
      <3>4. FirstFailure'
        BY <2>1, <3>1, <3>3 DEF FirstFailure, NoDiagnostic
      <3> QED BY <1>0, <1>1, <2>1, <3>1, <3>2, <3>3, <3>4 DEF V1Inv
    <2> QED BY <2>2, <2>3
  <1>8. CASE CheckAssertion
    <2> DEFINE n == Len(results) + 1
               o == OutcomeIn(input.projects, suite[n])
    <2>1. /\ stage = "check" /\ Len(results) < Len(suite)
          /\ results' = Append(results, o)
          /\ diagnostic' = IF o.state = "fail" /\ diagnostic = NoDiagnostic
                           THEN [reason |-> o.reason, at |-> n] ELSE diagnostic
          /\ UNCHANGED <<stage, file, line, table, suite, verdict>>
      BY <1>8, OutcomeFacts DEF CheckAssertion
    <2>2. /\ IsSequence(results) /\ IsSequence(suite) /\ FirstFailure
          /\ diagnostic = NoDiagnostic \/ diagnostic.at # 0
      BY <1>1, <2>1 DEF V1Inv, DirectoryRead
    <2>3. Len(results) \in Nat /\ Len(suite) \in Nat /\ DOMAIN results = 1..Len(results)
      BY <2>2, SequenceFacts
    <2>4. /\ IsSequence(results') /\ Len(results') = Len(results) + 1
          /\ DOMAIN results' = 1..(Len(results) + 1)
          /\ \A i \in 1..Len(results) : results'[i] = results[i]
          /\ results'[Len(results) + 1] = o
      BY <2>1, <2>2, AppendSequence
    <2>5. diagnostic = NoDiagnostic <=> diagnostic.at = 0
      BY <2>2 DEF NoDiagnostic
    <2> HIDE DEF o
    <2>6. diagnostic'.at = IF o.state = "fail" /\ diagnostic.at = 0 THEN Len(results) + 1 ELSE diagnostic.at
      BY <2>1, <2>5
    <2>7. FirstFailure'
      <3>1. PICK d, e : d = diagnostic.at /\ e = diagnostic'.at
        OBVIOUS
      <3>2. \/ d = 0 /\ \A i \in DOMAIN results : results[i].state # "fail"
            \/ d \in DOMAIN results /\ results[d].state = "fail" /\ \A i \in 1..(d - 1) : results[i].state # "fail"
        BY <2>2, <3>1 DEF FirstFailure
      <3>3. e = IF o.state = "fail" /\ d = 0 THEN Len(results) + 1 ELSE d
        BY <2>6, <3>1
      <3>4. \/ e = 0 /\ \A i \in DOMAIN results' : results'[i].state # "fail"
            \/ e \in DOMAIN results' /\ results'[e].state = "fail" /\ \A i \in 1..(e - 1) : results'[i].state # "fail"
        BY <2>1, <2>2, <3>2, <3>3, FailureAppended
      <3> QED BY <3>1, <3>4 DEF FirstFailure
    <2>8. diagnostic' = NoDiagnostic \/ diagnostic'.at # 0
      BY <2>1, <2>2, <2>3, <2>6
    <2>9. ASSUME NEW i \in DOMAIN results' PROVE results'[i] = OutcomeIn(input'.projects, suite'[i])
      <3>1. CASE i = n
        BY <1>0, <2>1, <2>4, <3>1 DEF o
      <3>2. CASE i # n
        <4>1. i \in DOMAIN results /\ results'[i] = results[i]
          BY <2>3, <2>4, <3>2
        <4>2. results[i] = OutcomeIn(input.projects, suite[i])
          BY <1>1, <4>1 DEF V1Inv
        <4> QED BY <1>0, <2>1, <4>1, <4>2
      <3> QED BY <3>1, <3>2
    <2>10. Len(results') <= Len(suite')
      BY <2>1, <2>3, <2>4
    <2>11. ~Published' /\ stage' = "check" /\ verdict' = "none"
      BY <1>1, <2>1 DEF Published
    <2>12. /\ DirectoryRead(input.files, file, line, table, suite)'
           /\ file' > Len(input'.files) /\ \A i \in DOMAIN suite' : ~Incomplete(suite'[i])
      BY <1>0, <1>1, <2>1 DEF V1Inv
    <2> QED BY <2>4, <2>7, <2>8, <2>9, <2>10, <2>11, <2>12 DEF V1Inv
  <1>9. CASE FinishCheck
    <2>1. /\ stage = "check" /\ Len(results) = Len(suite) /\ stage' = "done"
          /\ verdict' = IF \E i \in DOMAIN results : results[i].state = "fail" THEN "compatibility" ELSE "ok"
          /\ UNCHANGED <<file, line, table, suite, results, diagnostic>>
      BY <1>9 DEF FinishCheck
    <2>2. verdict' = "ok" <=> \A i \in DOMAIN results : results[i].state # "fail"
      BY <2>1
    <2>3. FirstFailure'
      BY <1>1, <2>1 DEF V1Inv, FirstFailure
    <2>4. /\ DirectoryRead(input.files, file, line, table, suite)' /\ IsSequence(results')
          /\ Len(results') <= Len(suite')
          /\ \A i \in DOMAIN results' : results'[i] = OutcomeIn(input'.projects, suite'[i])
          /\ file' > Len(input'.files) /\ \A i \in DOMAIN suite' : ~Incomplete(suite'[i])
      BY <1>0, <1>1, <2>1 DEF V1Inv
    <2> QED BY <2>1, <2>2, <2>3, <2>4 DEF V1Inv
  <1>10. CASE Finished
    <2>1. UNCHANGED compatVars
      BY <1>10 DEF Finished
    <2> QED BY <1>1, <2>1 DEF V1Inv, compatVars, FirstFailure, Published
  <1>11. ~LoadFile /\ ~ValidateProjects /\ ~EvaluateConstraint /\ ~FinishEvaluation
    BY <1>2 DEF LoadFile, ValidateProjects, EvaluateConstraint, FinishEvaluation
  <1> QED BY <1>3, <1>4, <1>5, <1>6, <1>7, <1>8, <1>9, <1>10, <1>11 DEF CompatNext

-----------------------------------------------------------------------------
\* The binary search for a binding.

LEMMA MiddleFacts ==
  ASSUME NEW low \in Nat, NEW high \in Nat, low < high
  PROVE  Middle(low, high) \in Nat /\ low <= Middle(low, high) /\ Middle(low, high) < high
  BY DEF Middle

\* The places that the search may still be at, and what one turn does to them.
Bounds(n) == (0..n) \X (0..n)

LEMMA NarrowFacts ==
  ASSUME NEW n \in Nat, NEW id, NEW q \in Bounds(n)
  PROVE  /\ Narrow(id, q) \in Bounds(n)
         /\ q[1] < q[2] /\ bindings[Middle(q[1], q[2]) + 1].internal = id => Narrow(id, q) = q
         /\ q[1] >= q[2] => Narrow(id, q) = q
         /\ q[1] < q[2] /\ bindings[Middle(q[1], q[2]) + 1].internal # id =>
                Narrow(id, q)[2] - Narrow(id, q)[1] < q[2] - q[1]
  <1>1. PICK low, high, m, x : /\ low = q[1] /\ high = q[2] /\ m = Middle(low, high)
                               /\ x = bindings[m + 1].internal
    OBVIOUS
  <1>2. low \in 0..n /\ high \in 0..n /\ q = <<low, high>> /\ low \in Nat /\ high \in Nat
    BY <1>1 DEF Bounds
  <1>3. Narrow(id, q) = IF low >= high \/ x = id THEN q
                        ELSE IF Precedes(x, id) THEN <<m + 1, high>> ELSE <<low, m>>
    BY <1>1 DEF Narrow
  <1>4. low < high => m \in Nat /\ low <= m /\ m < high
    BY <1>1, <1>2, MiddleFacts
  <1>5. CASE low >= high \/ x = id
    <2>1. Narrow(id, q) = q
      BY <1>3, <1>5
    <2> QED BY <1>1, <1>2, <1>5, <2>1
  <1>6. CASE low < high /\ x # id /\ Precedes(x, id)
    <2>1. Narrow(id, q) = <<m + 1, high>>
      BY <1>2, <1>3, <1>6
    <2>2. m + 1 \in 0..n /\ high - (m + 1) < high - low
      BY <1>2, <1>4, <1>6
    <2> QED BY <1>1, <1>2, <1>6, <2>1, <2>2 DEF Bounds
  <1>7. CASE low < high /\ x # id /\ ~Precedes(x, id)
    <2>1. Narrow(id, q) = <<low, m>>
      BY <1>2, <1>3, <1>7
    <2>2. m \in 0..n /\ m - low < high - low
      BY <1>2, <1>4, <1>7
    <2> QED BY <1>1, <1>2, <1>7, <2>1, <2>2 DEF Bounds
  <1> QED BY <1>2, <1>5, <1>6, <1>7

\* The turns of the search.
Search(n, id, run) ==
    /\ run \in [0..n -> Bounds(n)] /\ run[0] = <<0, n>>
    /\ \A turn \in 1..n : run[turn] = Narrow(id, run[turn - 1])
    /\ FindBinding(id) = IF run[n][1] < run[n][2] THEN Middle(run[n][1], run[n][2]) + 1 ELSE 0

LEMMA SearchLoop ==
  ASSUME NEW id, Len(bindings) \in Nat
  PROVE  \E run : Search(Len(bindings), id, run)
  <1>1. PICK N : N = Len(bindings) /\ N \in Nat
    OBVIOUS
  <1> DEFINE Go(before) == Narrow(id, before)
             T == Bounds(N)
             G == [x \in T \X (1..N) |-> Go(x[1])]
             Body(f) == [turn \in 0..Len(bindings) |->
                            IF turn = 0 THEN <<0, Len(bindings)>> ELSE Go(f[turn - 1])]
             Solution == CHOOSE g : g = Body(g)
  <1>2. \A before \in T : Go(before) \in T
    BY <1>1, NarrowFacts
  <1>3. G \in [T \X (1..N) -> T] /\ <<0, N>> \in T
    <2>1. <<0, N>> \in T
      BY <1>1 DEF Bounds
    <2> HIDE DEF Go, T
    <2> QED BY <1>2, <2>1
  <1>4. PICK f : Recursion(f, N, T, <<0, N>>, G)
    <2>1. PICK e : e = <<0, N>>
      OBVIOUS
    <2> HIDE DEF G, T
    <2>2. \E f : Recursion(f, N, T, e, G)
      BY ONLY <1>1, <1>3, <2>1, RecursionTo
    <2> QED BY <2>1, <2>2
  <1>5. \A n \in 1..N : f[n] = Go(f[n - 1])
    <2> SUFFICES ASSUME NEW n \in 1..N PROVE f[n] = Go(f[n - 1])
      OBVIOUS
    <2>1. n - 1 \in 0..N
      BY <1>1
    <2> HIDE DEF Go, T
    <2>2. <<f[n - 1], n>> \in T \X (1..N)
      BY <1>4, <2>1 DEF Recursion
    <2> QED BY <1>4, <2>2 DEF Recursion
  <1>6. f = Body(f)
    <2> HIDE DEF Go, T
    <2>1. f \in [0..N -> T] /\ f[0] = <<0, N>>
      BY <1>4 DEF Recursion
    <2>2. \A turn \in 0..N : f[turn] = IF turn = 0 THEN <<0, N>> ELSE Go(f[turn - 1])
      <3>1. ASSUME NEW turn \in 0..N, turn # 0 PROVE f[turn] = Go(f[turn - 1])
        <4>1. turn \in 1..N
          BY <1>1, <3>1
        <4> QED BY <1>5, <4>1
      <3> QED BY <2>1, <3>1
    <2>3. f = [turn \in 0..N |-> f[turn]]
      BY <2>1
    <2>4. f = [turn \in 0..N |-> IF turn = 0 THEN <<0, N>> ELSE Go(f[turn - 1])]
      BY <2>2, <2>3
    <2> QED BY <1>1, <2>4
  <1>7. Solution = Body(Solution)
    <2> HIDE DEF Body
    <2> QED BY <1>6
  <1>8. FindBinding(id) = IF Solution[N][1] < Solution[N][2]
                          THEN Middle(Solution[N][1], Solution[N][2]) + 1 ELSE 0
    BY <1>1 DEF FindBinding
  <1> HIDE DEF Solution, Go
  <1>9. /\ Solution[0] = <<0, N>> /\ \A n \in 1..N : Solution[n] = Go(Solution[n - 1])
        /\ Solution = [n \in 0..N |-> Solution[n]]
    BY <1>1, <1>7
  <1>10. \A n \in 0..N : Solution[n] \in T
    <2> DEFINE Good == {n \in Nat : n \in 0..N => Solution[n] \in T}
    <2> HIDE DEF T
    <2>1. 0 \in Good
      BY <1>3, <1>9
    <2>2. ASSUME NEW n \in Nat, n \in Good PROVE n + 1 \in Good
      <3> SUFFICES ASSUME n + 1 \in 0..N PROVE Solution[n + 1] \in T
        OBVIOUS
      <3>1. n \in 0..N /\ n + 1 \in 1..N /\ (n + 1) - 1 = n
        BY <1>1
      <3>2. Solution[n] \in T /\ Solution[n + 1] = Go(Solution[n])
        BY <1>9, <2>2, <3>1
      <3> QED BY <1>2, <3>1, <3>2
    <2>3. Nat \subseteq Good
      <3> HIDE DEF Good
      <3> QED BY <2>1, <2>2, Induction
    <2> QED BY <1>1, <2>3
  <1> HIDE DEF T
  <1>11. Solution \in [0..N -> T]
    BY <1>9, <1>10
  <1>12. Search(N, id, Solution)
    BY <1>8, <1>9, <1>11 DEF Search, Go, T
  <1> QED BY <1>1, <1>12

\* The search finds nothing but a binding of that name.
LEMMA FoundBinding ==
  ASSUME NEW id, Len(bindings) \in Nat, FindBinding(id) # 0
  PROVE  FindBinding(id) \in 1..Len(bindings) /\ bindings[FindBinding(id)].internal = id
  <1>1. PICK n : n = Len(bindings) /\ n \in Nat
    OBVIOUS
  <1>2. PICK run : Search(n, id, run)
    BY <1>1, SearchLoop
  <1>3. /\ run \in [0..n -> Bounds(n)] /\ run[0] = <<0, n>>
        /\ \A turn \in 1..n : run[turn] = Narrow(id, run[turn - 1])
        /\ FindBinding(id) = IF run[n][1] < run[n][2] THEN Middle(run[n][1], run[n][2]) + 1 ELSE 0
    BY <1>2 DEF Search
  <1> DEFINE Hit(q) == q[1] < q[2] => bindings[Middle(q[1], q[2]) + 1].internal = id
             Good(turn) == Hit(run[turn]) \/ run[turn][2] - run[turn][1] <= n - turn
             S == {turn \in Nat : turn <= n => Good(turn)}
  <1>4. 0 \in S
    BY <1>1, <1>3
  <1>5. ASSUME NEW turn \in Nat, turn \in S PROVE turn + 1 \in S
    <2> SUFFICES ASSUME turn + 1 <= n PROVE Good(turn + 1)
      OBVIOUS
    <2>1. PICK q, s : q = run[turn] /\ s = run[turn + 1]
      OBVIOUS
    <2>2. turn \in 0..n /\ turn + 1 \in 1..n /\ turn + 1 \in 0..n /\ (turn + 1) - 1 = turn
      BY <1>1
    <2>3. q \in Bounds(n) /\ s \in Bounds(n) /\ s = Narrow(id, q)
      BY <1>3, <2>1, <2>2
    <2>4. q[1] \in Int /\ q[2] \in Int /\ s[1] \in Int /\ s[2] \in Int
      BY <1>1, <2>3 DEF Bounds
    <2>5. Hit(q) \/ q[2] - q[1] <= n - turn
      BY <1>5, <2>1, <2>2
    <2>6. CASE Hit(q)
      <3>1. s = q
        BY <1>1, <2>3, <2>4, <2>6, NarrowFacts
      <3> QED BY <2>1, <2>6, <3>1
    <2>7. CASE ~Hit(q)
      <3>1. s[2] - s[1] < q[2] - q[1]
        BY <1>1, <2>3, <2>4, <2>7, NarrowFacts
      <3>2. s[2] - s[1] <= n - (turn + 1)
        BY <1>1, <2>4, <2>5, <2>7, <3>1
      <3> QED BY <2>1, <3>2
    <2> QED BY <2>6, <2>7
  <1>6. n \in S
    <2> HIDE DEF S
    <2> QED BY <1>1, <1>4, <1>5, Induction
  <1>7. PICK q : q = run[n] /\ q \in Bounds(n) /\ q[1] \in Nat /\ q[2] \in Nat /\ q[2] <= n
    BY <1>1, <1>3 DEF Bounds
  <1>8. q[1] < q[2] /\ FindBinding(id) = Middle(q[1], q[2]) + 1
    BY <1>3, <1>7
  <1>9. Hit(q)
    BY <1>1, <1>6, <1>7, <1>8
  <1>10. Middle(q[1], q[2]) \in Nat /\ Middle(q[1], q[2]) < q[2]
    BY <1>7, <1>8, MiddleFacts
  <1> QED BY <1>1, <1>7, <1>8, <1>9, <1>10

-----------------------------------------------------------------------------
\* The options of the projects and their bindings.

\* What the proofs about version 2 need of the projects.
AreProjects(projects) ==
    /\ IsSequence(projects)
    /\ \A p \in DOMAIN projects :
        /\ DOMAIN projects[p] = {"alias", "version", "loads", "values"}
        /\ IsFiniteSet(DOMAIN projects[p].values)
        /\ \A o \in DOMAIN projects[p].values :
            projects[p].values[o].type = "bool" => projects[p].values[o].value \in {"y", "n", Unset}

LEMMA OptionFacts ==
  ASSUME NEW projects
  PROVE  /\ \A x \in OptionsIn(projects) :
              /\ x.project \in DOMAIN projects /\ x.option \in DOMAIN projects[x.project].values
              /\ x = [internal |-> Internal(projects[x.project].alias, x.option),
                      project |-> x.project, option |-> x.option]
              /\ x.internal = Internal(projects[x.project].alias, x.option)
         /\ \A p \in DOMAIN projects : \A o \in DOMAIN projects[p].values :
              [internal |-> Internal(projects[p].alias, o), project |-> p, option |-> o] \in OptionsIn(projects)
  <1>1. ASSUME NEW x \in OptionsIn(projects)
        PROVE  /\ x.project \in DOMAIN projects /\ x.option \in DOMAIN projects[x.project].values
               /\ x = [internal |-> Internal(projects[x.project].alias, x.option),
                       project |-> x.project, option |-> x.option]
               /\ x.internal = Internal(projects[x.project].alias, x.option)
    <2>1. PICK p \in DOMAIN projects :
            x \in {[internal |-> Internal(projects[p].alias, o), project |-> p, option |-> o] :
                     o \in DOMAIN projects[p].values}
      BY DEF OptionsIn
    <2>2. PICK o \in DOMAIN projects[p].values :
            x = [internal |-> Internal(projects[p].alias, o), project |-> p, option |-> o]
      BY <2>1
    <2>3. x.project = p /\ x.option = o
      BY <2>2
    <2> QED BY <2>2, <2>3
  <1>2. ASSUME NEW p \in DOMAIN projects, NEW o \in DOMAIN projects[p].values
        PROVE  [internal |-> Internal(projects[p].alias, o), project |-> p, option |-> o] \in OptionsIn(projects)
    BY DEF OptionsIn
  <1> QED BY <1>1, <1>2

LEMMA OptionsAreFinite ==
  ASSUME NEW projects, AreProjects(projects)
  PROVE  IsFiniteSet(OptionsIn(projects)) /\ Cardinality(OptionsIn(projects)) \in Nat
  <1> DEFINE In(n) == {x \in OptionsIn(projects) : x.project <= n}
             Of(n) == {x \in OptionsIn(projects) : x.project = n}
             S == {n \in Nat : IsFiniteSet(In(n))}
  <1>1. Len(projects) \in Nat /\ DOMAIN projects = 1..Len(projects)
    BY SequenceFacts DEF AreProjects
  <1>2. \A x \in OptionsIn(projects) :
              /\ x.project \in 1..Len(projects) /\ x.option \in DOMAIN projects[x.project].values
              /\ x = [internal |-> Internal(projects[x.project].alias, x.option),
                      project |-> x.project, option |-> x.option]
    BY <1>1, OptionFacts
  <1>3. ASSUME NEW n \in Nat PROVE IsFiniteSet(Of(n))
    <2>1. CASE n \in 1..Len(projects)
      <3> DEFINE T == DOMAIN projects[n].values
                 Record(o) == [internal |-> Internal(projects[n].alias, o), project |-> n, option |-> o]
                 record == [o \in T |-> Record(o)]
      <3>1. IsFiniteSet(T)
        BY <1>1, <2>1 DEF AreProjects
      <3>2. \A x \in Of(n) : x.option \in T /\ x = Record(x.option)
        BY <1>2
      <3>3. \A o \in T : Record(o) \in Of(n)
        <4>1. ASSUME NEW o \in T PROVE Record(o) \in Of(n)
          <5>1. Record(o) \in OptionsIn(projects)
            BY <1>1, <2>1, OptionFacts
          <5>2. Record(o).project = n
            OBVIOUS
          <5> QED BY <5>1, <5>2
        <4> QED BY <4>1
      <3>4. record \in Surjection(T, Of(n))
        <4> HIDE DEF T, Of, Record
        <4> QED BY <3>2, <3>3 DEF Surjection
      <3> HIDE DEF T, Of, record
      <3> QED BY <3>1, <3>4, FS_Surjection
    <2>2. CASE n \notin 1..Len(projects)
      <3>1. Of(n) = {}
        BY <1>2, <2>2
      <3> QED BY <3>1, FS_EmptySet
    <2> QED BY <2>1, <2>2
  <1>4. 0 \in S
    <2>1. In(0) = {}
      BY <1>1, <1>2
    <2> QED BY <2>1, FS_EmptySet
  <1>5. ASSUME NEW n \in Nat, n \in S PROVE n + 1 \in S
    <2>1. In(n + 1) = In(n) \cup Of(n + 1)
      BY <1>1, <1>2
    <2>2. IsFiniteSet(Of(n + 1)) /\ IsFiniteSet(In(n))
      BY <1>3, <1>5
    <2>3. IsFiniteSet(In(n) \cup Of(n + 1))
      <3> HIDE DEF In, Of
      <3> QED BY ONLY <2>2, FS_Union
    <2>4. IsFiniteSet(In(n + 1))
      BY ONLY <2>1, <2>3
    <2> HIDE DEF In
    <2> QED BY <2>4
  <1>6. Len(projects) \in S
    <2> HIDE DEF S
    <2> QED BY <1>1, <1>4, <1>5, Induction
  <1>7. In(Len(projects)) = OptionsIn(projects)
    BY <1>1, <1>2
  <1>8. IsFiniteSet(OptionsIn(projects))
    BY <1>6, <1>7
  <1> QED BY <1>8, FS_CardinalityType

\* Every option is bound.
LEMMA EveryOptionIsBound ==
  ASSUME NEW projects, NEW b, AreProjects(projects), IsBinding(projects, b)
  PROVE  /\ Len(b) \in Nat /\ DOMAIN b = 1..Len(b)
         /\ \A i \in DOMAIN b : b[i] \in OptionsIn(projects)
         /\ \A x \in OptionsIn(projects) : \E i \in DOMAIN b : b[i] = x
  <1>1. PICK n, O : n = Cardinality(O) /\ O = OptionsIn(projects)
    OBVIOUS
  <1>2. IsFiniteSet(O) /\ n \in Nat
    BY <1>1, OptionsAreFinite
  <1>3. b \in [1..n -> O] /\ IsInjective(b)
    BY <1>1 DEF IsBinding
  <1>4. b \in Injection(1..n, O)
    BY <1>3 DEF Injection
  <1>5. IsFiniteSet(1..n) /\ Cardinality(1..n) = n
    BY <1>2, FS_Interval
  <1>6. b \in Surjection(1..n, O)
    BY ONLY <1>1, <1>2, <1>4, <1>5, FS_Injection
  <1>7. \A x \in O : \E i \in 1..n : b[i] = x
    BY <1>6 DEF Surjection
  <1>8. Len(b) = n /\ DOMAIN b = 1..n
    BY <1>2, <1>3
  <1> QED BY <1>1, <1>2, <1>3, <1>7, <1>8

\* An order of n things is onto.
LEMMA OrderIsOnto ==
  ASSUME NEW n \in Nat, NEW order \in [1..n -> 1..n], IsInjective(order)
  PROVE  \A k \in 1..n : \E i \in 1..n : order[i] = k
  <1>1. order \in Injection(1..n, 1..n)
    BY DEF Injection
  <1>2. IsFiniteSet(1..n)
    BY FS_Interval
  <1>3. order \in Surjection(1..n, 1..n)
    BY ONLY <1>1, <1>2, FS_Injection
  <1> QED BY <1>3 DEF Surjection

\* A reference that is found, and not captured, is bound to the option it names.
LEMMA ReferenceIsResolved ==
  ASSUME NEW r, NEW b, AreProjects(input.projects), IsBinding(input.projects, bindings),
         AliasesDiffer(input.projects), ~CapturedIn(input.projects, r),
         \A i, j \in DOMAIN bindings : i # j => bindings[i].internal # bindings[j].internal,
         b = FindBinding(Reference(r)), b # 0
  PROVE  /\ NamesOption(input.projects, r, bindings[b].project)
         /\ bindings[b].option = r.id
         /\ Named(input.projects, r) = ValueOf(bindings[b]).value
  <1>1. PICK projects : projects = input.projects
    OBVIOUS
  <1>2. /\ Len(bindings) \in Nat /\ DOMAIN bindings = 1..Len(bindings)
        /\ \A i \in DOMAIN bindings : bindings[i] \in OptionsIn(projects)
        /\ \A x \in OptionsIn(projects) : \E i \in DOMAIN bindings : bindings[i] = x
    BY <1>1, EveryOptionIsBound
  <1>3. b \in DOMAIN bindings /\ bindings[b].internal = Reference(r)
    BY <1>2, FoundBinding
  <1>4. PICK q, o : q = bindings[b].project /\ o = bindings[b].option
    OBVIOUS
  <1>5. /\ q \in DOMAIN projects /\ o \in DOMAIN projects[q].values
        /\ Internal(projects[q].alias, o) = Reference(r)
    BY <1>2, <1>3, <1>4, OptionFacts
  <1>6. PICK p \in DOMAIN projects : NamesOption(projects, r, p)
    BY <1>1, <1>5 DEF CapturedIn
  <1>7. projects[p].alias = r.alias /\ r.id \in DOMAIN projects[p].values
    BY <1>6 DEF NamesOption
  <1>8. PICK x : x = [internal |-> Internal(projects[p].alias, r.id), project |-> p, option |-> r.id]
    OBVIOUS
  <1>9. x \in OptionsIn(projects) /\ x.internal = Reference(r) /\ x.project = p /\ x.option = r.id
    BY <1>7, <1>8, OptionFacts DEF Reference
  <1>10. PICK i \in DOMAIN bindings : bindings[i] = x
    BY <1>2, <1>9
  <1>11. i = b
    BY <1>3, <1>9, <1>10
  <1>12. \A k \in DOMAIN projects : projects[k].alias = r.alias => k = p
    BY <1>1, <1>7 DEF AliasesDiffer
  <1>13. (CHOOSE k \in DOMAIN projects : projects[k].alias = r.alias) = p
    BY <1>7, <1>12
  <1>14. Named(projects, r) = projects[p].values[r.id].value
    BY <1>13 DEF Named
  <1>15. ValueOf(bindings[b]) = projects[p].values[r.id]
    BY <1>1, <1>9, <1>10, <1>11 DEF ValueOf
  <1> QED BY <1>1, <1>6, <1>9, <1>10, <1>11, <1>14, <1>15

-----------------------------------------------------------------------------
\* Expressions.

\* A reference of a well-typed expression that is not captured is traced under
\* the option that it names, and this option has the operand as its value.
LEMMA OperandIsNamed ==
  ASSUME NEW e, AreProjects(input.projects), IsBinding(input.projects, bindings),
         AliasesDiffer(input.projects), WellTyped(e),
         \A k \in DOMAIN e.args : ~CapturedIn(input.projects, e.args[k]),
         NEW k \in DOMAIN e.args
  PROVE  /\ Operand(e, k) = Named(input.projects, e.args[k])
         /\ e.op # "defined" => Operand(e, k) \in {"y", "n", Unset}
         /\ \E p \in DOMAIN input.projects :
                NamesOption(input.projects, e.args[k], p) /\ <<p, e.args[k].id>> \in CollectReferences(e)
  <1>1. PICK r, b, x, projects : /\ r = e.args[k] /\ b = FindBinding(Reference(r)) /\ x = bindings[b]
                                 /\ projects = input.projects
    OBVIOUS
  <1>2. /\ \A i, j \in DOMAIN bindings : i # j => bindings[i].internal # bindings[j].internal
        /\ b # 0 /\ (e.op # "defined" => ValueOf(x).type = "bool")
    BY <1>1 DEF WellTyped
  <1>3. /\ NamesOption(projects, r, x.project) /\ x.option = r.id
        /\ Named(projects, r) = ValueOf(x).value
    BY <1>1, <1>2, ReferenceIsResolved
  <1>4. Operand(e, k) = ValueOf(x).value
    BY <1>1 DEF Operand
  <1>5. x.project \in DOMAIN projects /\ r.id \in DOMAIN projects[x.project].values
    BY <1>3 DEF NamesOption
  <1>6. ValueOf(x) = projects[x.project].values[r.id]
    BY <1>1, <1>3 DEF ValueOf
  <1>7. e.op # "defined" => ValueOf(x).value \in {"y", "n", Unset}
    BY <1>1, <1>2, <1>5, <1>6 DEF AreProjects
  <1>8. <<x.project, r.id>> \in CollectReferences(e)
    BY <1>1, <1>3 DEF CollectReferences
  <1> QED BY <1>1, <1>3, <1>4, <1>5, <1>7, <1>8

\* The result of a well-typed expression is what holds of the values named.
LEMMA EvaluateIsRight ==
  ASSUME NEW e, AreProjects(input.projects), IsBinding(input.projects, bindings),
         AliasesDiffer(input.projects), IsExpression(e), WellTyped(e),
         \A k \in DOMAIN e.args : ~CapturedIn(input.projects, e.args[k])
  PROVE  /\ Evaluate(e) \in {"y", "n", Bad}
         /\ Evaluate(e) = "y" => HoldsIn(input.projects, e) = TRUE
         /\ Evaluate(e) = "n" => HoldsIn(input.projects, e) = FALSE
  <1>1. e.op \in {"true", "defined", "ref", "not", "and"} /\ Len(e.args) = Arity[e.op]
    BY DEF IsExpression, Arity
  <1>2. DOMAIN e.args = 1..Arity[e.op]
    BY SequenceFacts DEF IsExpression
  <1>3. ASSUME NEW k \in DOMAIN e.args
        PROVE  /\ Operand(e, k) = Named(input.projects, e.args[k])
               /\ e.op # "defined" => Operand(e, k) \in {"y", "n", Unset}
    BY <1>3, OperandIsNamed
  <1>4. "y" # "n" /\ Bad # "y" /\ Bad # "n" /\ Unset # "y" /\ Unset # "n"
    BY DEF Bad, Unset
  <1>5. CASE e.op = "true"
    <2>1. Evaluate(e) = "y" /\ HoldsIn(input.projects, e) = TRUE
      BY <1>5 DEF Evaluate, HoldsIn
    <2> QED BY <2>1
  <1>6. CASE e.op = "defined"
    <2>1. 1 \in DOMAIN e.args
      BY <1>2, <1>6 DEF Arity
    <2>2. Evaluate(e) = IF Operand(e, 1) = Unset THEN "n" ELSE "y"
      BY <1>6 DEF Evaluate
    <2>3. HoldsIn(input.projects, e) = (Operand(e, 1) # Unset)
      BY <1>3, <1>6, <2>1 DEF HoldsIn
    <2> QED BY <2>2, <2>3
  <1>7. CASE e.op = "ref"
    <2>1. 1 \in DOMAIN e.args
      BY <1>2, <1>7 DEF Arity
    <2>2. Evaluate(e) = IF Operand(e, 1) = Unset THEN Bad ELSE Operand(e, 1)
      BY <1>7 DEF Evaluate
    <2>3. HoldsIn(input.projects, e) = (Operand(e, 1) = "y")
      BY <1>3, <1>7, <2>1 DEF HoldsIn
    <2>4. Operand(e, 1) \in {"y", "n", Unset}
      BY <1>3, <1>7, <2>1
    <2> QED BY <1>4, <2>2, <2>3, <2>4
  <1>8. CASE e.op = "not"
    <2>1. 1 \in DOMAIN e.args
      BY <1>2, <1>8 DEF Arity
    <2>2. Evaluate(e) = IF Operand(e, 1) = Unset THEN Bad ELSE IF Operand(e, 1) = "y" THEN "n" ELSE "y"
      BY <1>8 DEF Evaluate
    <2>3. HoldsIn(input.projects, e) = (Operand(e, 1) = "n")
      BY <1>3, <1>8, <2>1 DEF HoldsIn
    <2>4. Operand(e, 1) \in {"y", "n", Unset}
      BY <1>3, <1>8, <2>1
    <2> QED BY <1>4, <2>2, <2>3, <2>4
  <1>9. CASE e.op = "and"
    <2>1. 1 \in DOMAIN e.args /\ 2 \in DOMAIN e.args
      BY <1>2, <1>9 DEF Arity
    <2>2. Evaluate(e) = IF Operand(e, 1) = Unset THEN Bad
                        ELSE IF Operand(e, 1) = "n" THEN "n"
                        ELSE IF Operand(e, 2) = Unset THEN Bad ELSE Operand(e, 2)
      BY <1>9 DEF Evaluate
    <2>3. HoldsIn(input.projects, e) = (Operand(e, 1) = "y" /\ Operand(e, 2) = "y")
      BY <1>3, <1>9, <2>1 DEF HoldsIn
    <2>4. Operand(e, 1) \in {"y", "n", Unset} /\ Operand(e, 2) \in {"y", "n", Unset}
      BY <1>3, <1>9, <2>1
    <2> QED BY <1>4, <2>2, <2>3, <2>4
  <1> QED BY <1>1, <1>5, <1>6, <1>7, <1>8, <1>9

\* The constraints of a suite that was accepted have well-formed expressions.
LEMMA ParsedConstraint ==
  ASSUME NEW c, c.id \in Nat, ~ConstraintIsBad(c),
         \A part \in {c.when, c.require, c.forbid} :
                IsSequence(part) /\ Len(part) \in 0..1 /\ \A x \in Range(part) : IsExpression(x)
  PROVE  /\ IsExpression(ParseConstraint(c).when) /\ IsExpression(ParseConstraint(c).condition)
         /\ ParseConstraint(c).id = c.id
  <1>1. PICK w, q, f, a : /\ w = c.when /\ q = c.require /\ f = c.forbid
                          /\ a = ParseConstraint(c)
    OBVIOUS
  <1>2. /\ a.id = c.id
        /\ a.when = (IF w = <<>> THEN [op |-> "true", args |-> <<>>] ELSE w[1])
        /\ a.condition = (q \o f)[1]
    BY <1>1 DEF ParseConstraint
  <1>3. ASSUME NEW s \in {w, q, f}
        PROVE  /\ s \in Seq(Range(s)) /\ Len(s) \in {0, 1} /\ (Len(s) = 1 => IsExpression(s[1]))
               /\ (Len(s) = 0 <=> s = <<>>)
    <2>1. IsSequence(s) /\ Len(s) \in 0..1 /\ \A x \in Range(s) : IsExpression(x)
      BY <1>1, <1>3
    <2>2. s \in Seq(Range(s)) /\ DOMAIN s = 1..Len(s)
      BY <2>1, SequenceFacts
    <2>3. Len(s) = 1 => s[1] \in Range(s)
      BY <2>2 DEF Range
    <2> QED BY <2>1, <2>2, <2>3
  <1>4. IsExpression(a.when)
    <2>1. CASE w = <<>>
      <3>1. PICK e : e = [op |-> "true", args |-> <<>>]
        OBVIOUS
      <3>2. e.op = "true" /\ e.args = <<>>
        BY <3>1
      <3>3. IsSequence(e.args)
        <4>1. e.args \in Seq({})
          BY <3>2
        <4> QED BY <4>1, SequenceIntro
      <3>4. e.op \in DOMAIN Arity /\ Arity[e.op] = 0
        BY <3>2 DEF Arity
      <3>5. IsExpression(e)
        BY <3>2, <3>3, <3>4 DEF IsExpression
      <3> QED BY <1>2, <2>1, <3>1, <3>5
    <2>2. CASE w # <<>>
      BY <1>2, <1>3, <2>2
    <2> QED BY <2>1, <2>2
  <1>5. IsExpression(a.condition)
    <2>1. Len(q) # Len(f)
      BY <1>1 DEF ConstraintIsBad
    <2>2. PICK S : S = Range(q) \cup Range(f)
      OBVIOUS
    <2>3. q \in Seq(S) /\ f \in Seq(S)
      BY <1>3, <2>2
    <2>4. CASE Len(q) = 1
      <3>1. (q \o f)[1] = q[1]
        BY <1>3, <2>3, <2>4
      <3> QED BY <1>2, <1>3, <2>4, <3>1
    <2>5. CASE Len(q) = 0
      <3>1. q = <<>> /\ Len(f) = 1
        BY <1>3, <2>1, <2>5
      <3>2. (q \o f)[1] = f[1]
        BY <2>3, <3>1
      <3> QED BY <1>2, <1>3, <3>1, <3>2
    <2> QED BY <1>3, <2>4, <2>5
  <1> QED BY <1>1, <1>2, <1>4, <1>5

\* The suite that is evaluated is the one that was loaded, in id order.
LEMMA SuiteFacts ==
  ASSUME InputIsGiven, ~SuiteIsBad(input.suite), InIdOrder(input.suite.constraints, suite)
  PROVE  /\ IsSequence(suite) /\ Len(suite) = Len(input.suite.constraints)
         /\ DOMAIN suite = DOMAIN input.suite.constraints
         /\ \A i \in DOMAIN suite :
              /\ IsExpression(suite[i].when) /\ IsExpression(suite[i].condition)
              /\ \E k \in DOMAIN suite : suite[i] = ParseConstraint(input.suite.constraints[k])
         /\ \A k \in DOMAIN suite : \E i \in DOMAIN suite :
                suite[i] = ParseConstraint(input.suite.constraints[k])
         /\ \A i, j \in DOMAIN suite : i < j => suite[i].id < suite[j].id
  <1>1. PICK constraints, n : constraints = input.suite.constraints /\ n = Len(constraints)
    OBVIOUS
  <1>2. IsSequence(constraints)
    BY <1>1, InputsAssumption DEF InputIsGiven
  <1>3. n \in Nat /\ DOMAIN constraints = 1..n
    BY <1>1, <1>2, SequenceFacts
  <1>4. ASSUME NEW k \in 1..n
        PROVE  /\ constraints[k].id \in Nat /\ ~ConstraintIsBad(constraints[k])
               /\ \A part \in {constraints[k].when, constraints[k].require, constraints[k].forbid} :
                    IsSequence(part) /\ Len(part) \in 0..1 /\ \A x \in Range(part) : IsExpression(x)
    <2>1. ~ConstraintIsBad(constraints[k])
      BY <1>1, <1>3 DEF SuiteIsBad
    <2> QED BY <1>1, <1>3, <2>1, InputsAssumption DEF InputIsGiven
  <1>5. ASSUME NEW k \in 1..n, NEW j \in 1..n, k # j PROVE constraints[k].id # constraints[j].id
    BY <1>1, <1>3, <1>5 DEF SuiteIsBad
  <1>6. PICK order \in IdOrders(constraints) :
            suite = [k \in 1..n |-> ParseConstraint(constraints[order[k]])]
    BY <1>1 DEF InIdOrder
  <1>7. /\ order \in [1..n -> 1..n] /\ IsInjective(order)
        /\ \A i, j \in 1..n : i < j => constraints[order[i]].id <= constraints[order[j]].id
    BY <1>1 DEF IdOrders
  <1>8. DOMAIN suite = 1..n /\ \A i \in 1..n : suite[i] = ParseConstraint(constraints[order[i]])
    BY <1>6
  <1>9. IsSequence(suite) /\ Len(suite) = n
    <2>1. suite \in [DOMAIN constraints -> Range(suite)]
      BY <1>3, <1>6, <1>8 DEF Range
    <2> QED BY <1>1, <1>2, <2>1, FunctionSequence
  <1>10. ASSUME NEW i \in 1..n
         PROVE  IsExpression(suite[i].when) /\ IsExpression(suite[i].condition)
                /\ suite[i].id = constraints[order[i]].id
    <2>1. PICK k : k = order[i] /\ k \in 1..n
      BY <1>7
    <2>2. PICK c : c = constraints[k]
      OBVIOUS
    <2>3. /\ c.id \in Nat /\ ~ConstraintIsBad(c)
          /\ \A part \in {c.when, c.require, c.forbid} :
                    IsSequence(part) /\ Len(part) \in 0..1 /\ \A x \in Range(part) : IsExpression(x)
      BY <1>4, <2>1, <2>2
    <2>4. /\ IsExpression(ParseConstraint(c).when) /\ IsExpression(ParseConstraint(c).condition)
          /\ ParseConstraint(c).id = c.id
      BY <2>3, ParsedConstraint
    <2> QED BY <1>8, <2>1, <2>2, <2>4
  <1>11. ASSUME NEW k \in 1..n PROVE \E i \in 1..n : suite[i] = ParseConstraint(constraints[k])
    <2>1. PICK i \in 1..n : order[i] = k
      BY <1>3, <1>7, OrderIsOnto
    <2> QED BY <1>8, <2>1
  <1>12. ASSUME NEW i \in 1..n, NEW j \in 1..n, i < j PROVE suite[i].id < suite[j].id
    <2>1. PICK k, m : k = order[i] /\ m = order[j] /\ k \in 1..n /\ m \in 1..n
      BY <1>7
    <2>2. k # m
      BY <1>3, <1>7, <1>12, <2>1 DEF IsInjective
    <2>3. constraints[k].id \in Nat /\ constraints[m].id \in Nat /\ constraints[k].id # constraints[m].id
      BY <1>4, <1>5, <2>1, <2>2
    <2>4. constraints[k].id <= constraints[m].id
      BY <1>7, <1>12, <2>1
    <2> QED BY <1>10, <2>1, <2>3, <2>4
  <1>13. ASSUME NEW i \in 1..n PROVE \E k \in 1..n : suite[i] = ParseConstraint(constraints[k])
    BY <1>7, <1>8
  <1> QED BY <1>1, <1>3, <1>8, <1>9, <1>10, <1>11, <1>12, <1>13

\* One result.
LEMMA ConstraintIsJudged ==
  ASSUME NEW c, NEW entry, AreProjects(input.projects), IsBinding(input.projects, bindings),
         AliasesDiffer(input.projects), IsExpression(c.when), IsExpression(c.condition),
         \A r \in References(c) : ~CapturedIn(input.projects, r),
         \/ /\ EvaluateExpression(c.when) = "n"
            /\ entry = [state |-> "skipped", traces |-> CollectReferences(c.when)]
         \/ /\ EvaluateExpression(c.when) = "y" /\ EvaluateExpression(c.condition) # Bad
            /\ entry = [state |-> IF (EvaluateExpression(c.condition) = "y") = (c.action = "require")
                                   THEN "pass" ELSE "fail",
                         traces |-> CollectReferences(c.when) \cup CollectReferences(c.condition)]
  PROVE  Judged(input.projects, c, entry)
  <1>1. PICK projects : projects = input.projects
    OBVIOUS
  <1>2. "y" # "n" /\ Bad # "y" /\ Bad # "n"
    BY DEF Bad
  <1>3. ASSUME NEW e \in {c.when, c.condition}, EvaluateExpression(e) # Bad
        PROVE  /\ EvaluateExpression(e) \in {"y", "n"}
               /\ HoldsIn(projects, e) = (EvaluateExpression(e) = "y")
               /\ \A r \in Range(e.args) : \E p \in DOMAIN projects :
                        NamesOption(projects, r, p) /\ <<p, r.id>> \in CollectReferences(e)
    <2>1. WellTyped(e) /\ EvaluateExpression(e) = Evaluate(e)
      BY <1>3 DEF EvaluateExpression
    <2>2. IsExpression(e)
      BY <1>3
    <2>3. \A k \in DOMAIN e.args : ~CapturedIn(projects, e.args[k])
      BY <1>1, <1>3 DEF References, Range
    <2>4. /\ Evaluate(e) \in {"y", "n", Bad}
          /\ Evaluate(e) = "y" => HoldsIn(projects, e) = TRUE
          /\ Evaluate(e) = "n" => HoldsIn(projects, e) = FALSE
      BY <1>1, <2>1, <2>2, <2>3, EvaluateIsRight
    <2>5. ASSUME NEW r \in Range(e.args)
          PROVE  \E p \in DOMAIN projects :
                        NamesOption(projects, r, p) /\ <<p, r.id>> \in CollectReferences(e)
      <3>1. PICK k \in DOMAIN e.args : r = e.args[k]
        BY DEF Range
      <3> QED BY <1>1, <2>1, <2>3, <3>1, OperandIsNamed
    <2> QED BY <1>2, <1>3, <2>1, <2>4, <2>5
  <1>4. CASE EvaluateExpression(c.when) = "n"
    <2>1. entry.state = "skipped" /\ entry.traces = CollectReferences(c.when)
      BY <1>2, <1>4
    <2>2. /\ HoldsIn(projects, c.when) = FALSE
          /\ \A r \in Range(c.when.args) : \E p \in DOMAIN projects :
                        NamesOption(projects, r, p) /\ <<p, r.id>> \in CollectReferences(c.when)
      BY <1>2, <1>3, <1>4
    <2>3. StateIn(projects, c) = "skipped"
      BY <2>2 DEF StateIn
    <2>4. ReadFor(c, entry) = Range(c.when.args)
      BY <2>1 DEF ReadFor
    <2> QED BY <1>1, <2>1, <2>2, <2>3, <2>4 DEF Judged
  <1>5. CASE EvaluateExpression(c.when) # "n"
    <2>1. /\ EvaluateExpression(c.when) = "y" /\ EvaluateExpression(c.condition) # Bad
          /\ entry.state = IF (EvaluateExpression(c.condition) = "y") = (c.action = "require")
                            THEN "pass" ELSE "fail"
          /\ entry.traces = CollectReferences(c.when) \cup CollectReferences(c.condition)
      BY <1>5
    <2>2. /\ HoldsIn(projects, c.when) = TRUE
          /\ HoldsIn(projects, c.condition) = (EvaluateExpression(c.condition) = "y")
          /\ \A r \in Range(c.when.args) : \E p \in DOMAIN projects :
                        NamesOption(projects, r, p) /\ <<p, r.id>> \in CollectReferences(c.when)
          /\ \A r \in Range(c.condition.args) : \E p \in DOMAIN projects :
                        NamesOption(projects, r, p) /\ <<p, r.id>> \in CollectReferences(c.condition)
      BY <1>2, <1>3, <2>1
    <2>3. StateIn(projects, c) = IF (EvaluateExpression(c.condition) = "y") = (c.action = "require")
                                 THEN "pass" ELSE "fail"
      BY <2>2 DEF StateIn
    <2>4. ReadFor(c, entry) = References(c)
      BY <2>1 DEF ReadFor
    <2>5. ASSUME NEW r \in References(c)
          PROVE  \E p \in DOMAIN projects : NamesOption(projects, r, p) /\ <<p, r.id>> \in entry.traces
      BY <2>1, <2>2 DEF References
    <2> QED BY <1>1, <2>1, <2>3, <2>4, <2>5 DEF Judged
  <1> QED BY <1>4, <1>5

-----------------------------------------------------------------------------
\* The version 2 command.

LEMMA ProjectFacts ==
  ASSUME InputIsGiven, AllVersion2(input.projects)
  PROVE  AreProjects(input.projects)
  <1>1. IsSequence(input.projects)
    BY InputFacts
  <1>2. ASSUME NEW p \in DOMAIN input.projects
        PROVE  /\ DOMAIN input.projects[p] = {"alias", "version", "loads", "values"}
               /\ IsFiniteSet(DOMAIN input.projects[p].values)
               /\ \A o \in DOMAIN input.projects[p].values :
                    input.projects[p].values[o].type = "bool" =>
                        input.projects[p].values[o].value \in {"y", "n", Unset}
    BY InputsAssumption DEF InputIsGiven, AllVersion2
  <1> QED BY <1>1, <1>2 DEF AreProjects

LEMMA V2Step ==
  ASSUME CompatInv, ~IsV1, CompatNext
  PROVE  /\ stage' \in {"dispatch", "parse", "check", "load", "bind", "evaluate", "done"}
         /\ stage' # "done" => verdict' = "none"
         /\ V2Inv'
  <1>0. input' = input
    BY SameInput
  <1>1. /\ V2Inv /\ stage \in {"dispatch", "parse", "check", "load", "bind", "evaluate", "done"}
        /\ stage # "done" => verdict = "none"
        /\ InputIsGiven
    BY DEF CompatInv
  <1>2. stage \notin {"parse", "check"}
    BY <1>1 DEF V2Inv
  <1>3. CASE Dispatch
    <2>1. CASE stage' = "done"
      <3>1. ~Published'
        BY <1>3, <2>1 DEF Dispatch, Stop, Published
      <3> QED BY <2>1, <3>1 DEF V2Inv
    <2>2. CASE stage' # "done"
      <3>1. /\ stage' = "load" /\ SchemaVersions = {2} /\ verdict' = verdict /\ results' = results
            /\ stage = "dispatch"
        BY <1>3, <2>2 DEF Dispatch, Stop, IsV1
      <3>2. AllVersion2(input.projects)
        BY <3>1 DEF AllVersion2, SchemaVersions
      <3>3. AllVersion2(input'.projects)
        BY <1>0, <3>2
      <3>4. ~Published' /\ results' = <<>>
        BY <1>1, <3>1 DEF Published, V2Inv
      <3> QED BY <1>1, <3>1, <3>3, <3>4 DEF V2Inv
    <2> QED BY <2>1, <2>2
  <1>4. CASE LoadFile
    <2>1. CASE stage' = "done"
      <3>1. ~Published'
        BY <1>4, <2>1 DEF LoadFile, Stop, Published
      <3> QED BY <2>1, <3>1 DEF V2Inv
    <2>2. CASE stage' # "done"
      <3>1. /\ stage = "load" /\ stage' = "bind" /\ verdict' = verdict /\ results' = results
            /\ ~SuiteIsBad(input.suite)
            /\ \E order \in IdOrders(input.suite.constraints) :
                  suite' = [k \in 1..Len(input.suite.constraints) |->
                            ParseConstraint(input.suite.constraints[order[k]])]
        BY <1>4, <2>2 DEF LoadFile, Stop
      <3>2. InIdOrder(input.suite.constraints, suite')
        BY <3>1 DEF InIdOrder
      <3>3. ~SuiteIsBad(input'.suite) /\ InIdOrder(input'.suite.constraints, suite')
        BY <1>0, <3>1, <3>2
      <3>4. ~Published' /\ results' = <<>> /\ AllVersion2(input'.projects)
        BY <1>0, <1>1, <3>1 DEF Published, V2Inv
      <3> QED BY <1>1, <3>1, <3>3, <3>4 DEF V2Inv
    <2> QED BY <2>1, <2>2
  <1>5. CASE ValidateProjects
    <2>1. CASE stage' = "done"
      <3>1. ~Published'
        BY <1>5, <2>1 DEF ValidateProjects, Stop, Published
      <3> QED BY <2>1, <3>1 DEF V2Inv
    <2>2. CASE stage' # "done"
      <3>1. /\ stage = "bind" /\ stage' = "evaluate" /\ verdict' = verdict /\ results' = results
            /\ suite' = suite /\ bindings' \in SortedBindings
            /\ \A p, q \in DOMAIN input.projects :
                    p # q => input.projects[p].alias # input.projects[q].alias
        BY <1>5, <2>2 DEF ValidateProjects, Stop
      <3>2. AliasesDiffer(input.projects)
        BY <3>1 DEF AliasesDiffer
      <3>3. OptionBindings = OptionsIn(input.projects)
        BY DEF OptionBindings, OptionsIn
      <3>4. IsBinding(input.projects, bindings')
        BY <3>1, <3>3 DEF SortedBindings, IsBinding
      <3>5. ~Published' /\ results' = <<>>
        BY <1>1, <3>1 DEF Published, V2Inv
      <3>6. /\ AllVersion2(input.projects) /\ ~SuiteIsBad(input.suite)
            /\ InIdOrder(input.suite.constraints, suite)
        BY <1>1, <3>1 DEF V2Inv
      <3>7. IsSequence(results') /\ DOMAIN results' = {} /\ Len(results') <= Len(suite')
        <4>1. results' \in Seq({})
          BY <3>5
        <4>2. IsSequence(suite)
          BY <1>1, <3>6, SuiteFacts
        <4>3. Len(suite) \in Nat
          BY <4>2, SequenceFacts
        <4>4. IsSequence(results')
          BY <4>1, SequenceIntro
        <4> QED BY <3>1, <3>5, <4>3, <4>4
      <3>8. AllVersion2(input'.projects) /\ AliasesDiffer(input'.projects) /\ IsBinding(input'.projects, bindings')
        BY <1>0, <3>2, <3>4, <3>6
      <3>9. ~SuiteIsBad(input'.suite) /\ InIdOrder(input'.suite.constraints, suite')
        BY <1>0, <3>1, <3>6
      <3> QED BY <1>1, <3>1, <3>5, <3>7, <3>8, <3>9 DEF V2Inv
    <2> QED BY <2>1, <2>2
  <1>6. CASE EvaluateConstraint
    <2>1. CASE stage' = "done"
      <3>1. ~Published'
        BY <1>1, <1>6, <2>1 DEF EvaluateConstraint, Stop, Published
      <3> QED BY <2>1, <3>1 DEF V2Inv
    <2>2. CASE stage' # "done"
      <3>1. PICK n, c, entry : /\ n = Len(results) + 1 /\ c = suite[n]
                                /\ results' = Append(results, entry)
                                /\ \/ /\ EvaluateExpression(c.when) = "n"
                                      /\ entry = [state |-> "skipped", traces |-> CollectReferences(c.when)]
                                   \/ /\ EvaluateExpression(c.when) = "y" /\ EvaluateExpression(c.condition) # Bad
                                      /\ entry =
                                            [state  |-> IF (EvaluateExpression(c.condition) = "y") =
                                                                (c.action = "require")
                                                        THEN "pass" ELSE "fail",
                                             traces |-> CollectReferences(c.when) \cup
                                                            CollectReferences(c.condition)]
        BY <1>6, <2>2 DEF EvaluateConstraint, Stop
      <3>2. /\ stage = "evaluate" /\ Len(results) < Len(suite) /\ stage' = "evaluate"
            /\ UNCHANGED <<suite, bindings, verdict>>
        BY <1>6, <2>2 DEF EvaluateConstraint, Stop
      <3>3. /\ AllVersion2(input.projects) /\ ~SuiteIsBad(input.suite)
            /\ InIdOrder(input.suite.constraints, suite)
            /\ AliasesDiffer(input.projects) /\ IsBinding(input.projects, bindings) /\ IsSequence(results)
            /\ \A i \in DOMAIN results :
                  (\A r \in References(suite[i]) : ~CapturedIn(input.projects, r)) =>
                        Judged(input.projects, suite[i], results[i])
        BY <1>1, <3>2 DEF V2Inv
      <3>4. IsSequence(suite) /\ Len(results) \in Nat /\ Len(suite) \in Nat /\ DOMAIN suite = 1..Len(suite)
        BY <1>1, <3>3, SuiteFacts, SequenceFacts
      <3>5. n \in DOMAIN suite /\ IsExpression(c.when) /\ IsExpression(c.condition)
        <4>1. n \in DOMAIN suite
          BY <3>1, <3>2, <3>4
        <4> QED BY <1>1, <3>1, <3>3, <4>1, SuiteFacts
      <3>6. AreProjects(input.projects)
        BY <1>1, <3>3, ProjectFacts
      <3>7. (\A r \in References(c) : ~CapturedIn(input.projects, r)) => Judged(input.projects, c, entry)
        BY <3>1, <3>3, <3>5, <3>6, ConstraintIsJudged
      <3>8. /\ IsSequence(results') /\ Len(results') = Len(results) + 1
            /\ DOMAIN results' = 1..(Len(results) + 1)
            /\ \A i \in 1..Len(results) : results'[i] = results[i]
            /\ results'[Len(results) + 1] = entry
        BY <3>1, <3>3, AppendSequence
      <3>9. ASSUME NEW i \in DOMAIN results', \A r \in References(suite'[i]) : ~CapturedIn(input'.projects, r)
            PROVE  Judged(input'.projects, suite'[i], results'[i])
        <4>1. \A r \in References(suite[i]) : ~CapturedIn(input.projects, r)
          BY <1>0, <3>2, <3>9
        <4>2. CASE i = n
          <5>1. Judged(input.projects, c, entry)
            BY <3>1, <3>7, <4>1, <4>2
          <5> QED BY <1>0, <3>1, <3>2, <3>8, <4>2, <5>1
        <4>3. CASE i # n
          <5>1. i \in DOMAIN results /\ results'[i] = results[i]
            <6>1. DOMAIN results = 1..Len(results)
              BY <3>3, SequenceFacts
            <6> QED BY <3>1, <3>4, <3>8, <4>3, <6>1
          <5>2. Judged(input.projects, suite[i], results[i])
            BY <3>3, <4>1, <5>1
          <5> QED BY <1>0, <3>2, <5>1, <5>2
        <4> QED BY <4>2, <4>3
      <3>10. Len(results') <= Len(suite')
        BY <3>2, <3>4, <3>8
      <3>11. AllVersion2(input'.projects) /\ AliasesDiffer(input'.projects) /\ IsBinding(input'.projects, bindings')
        BY <1>0, <3>2, <3>3
      <3>12. ~SuiteIsBad(input'.suite) /\ InIdOrder(input'.suite.constraints, suite')
        BY <1>0, <3>2, <3>3
      <3>13. ~Published'
        BY <3>2 DEF Published
      <3> QED BY <1>1, <3>2, <3>8, <3>9, <3>10, <3>11, <3>12, <3>13 DEF V2Inv
    <2> QED BY <2>1, <2>2
  <1>7. CASE FinishEvaluation
    <2> DEFINE failed == {i \in DOMAIN results : results[i].state = "fail"}
    <2>1. /\ stage = "evaluate" /\ Len(results) = Len(suite) /\ stage' = "done"
          /\ failed = {} => verdict' = "ok" /\ diagnostic'.at = 0
          /\ failed # {} =>
                /\ verdict' = "compatibility"
                /\ diagnostic'.at = CHOOSE i \in failed : \A j \in failed : i <= j
          /\ UNCHANGED <<suite, bindings, results>>
      <3>1. /\ stage = "evaluate" /\ Len(results) = Len(suite)
            /\ UNCHANGED <<suite, bindings, results>>
        BY <1>7 DEF FinishEvaluation
      <3>2. failed = {} => Stop("ok", "none")
        BY <1>7 DEF FinishEvaluation
      <3>3. failed # {} =>
                /\ stage' = "done" /\ verdict' = "compatibility"
                /\ diagnostic' = [reason |-> "message",
                                  at |-> CHOOSE i \in failed : \A j \in failed : i <= j]
        BY <1>7 DEF FinishEvaluation
      <3> HIDE DEF failed
      <3>4. failed = {} => stage' = "done" /\ verdict' = "ok" /\ diagnostic'.at = 0
        BY <3>2 DEF Stop
      <3>5. failed # {} => diagnostic'.at = CHOOSE i \in failed : \A j \in failed : i <= j
        BY <3>3
      <3> QED BY <3>1, <3>3, <3>4, <3>5
    <2>2. /\ AllVersion2(input.projects) /\ ~SuiteIsBad(input.suite)
          /\ InIdOrder(input.suite.constraints, suite)
          /\ AliasesDiffer(input.projects) /\ IsBinding(input.projects, bindings) /\ IsSequence(results)
          /\ Len(results) <= Len(suite)
          /\ \A i \in DOMAIN results :
                  (\A r \in References(suite[i]) : ~CapturedIn(input.projects, r)) =>
                        Judged(input.projects, suite[i], results[i])
      BY <1>1, <2>1 DEF V2Inv
    <2>3. Len(results) \in Nat /\ DOMAIN results = 1..Len(results)
      BY <2>2, SequenceFacts
    <2>4. verdict' = "ok" <=> \A i \in DOMAIN results' : results'[i].state # "fail"
      BY <2>1
    <2>5. FirstFailure'
      <3>1. CASE failed = {}
        BY <2>1, <3>1 DEF FirstFailure
      <3>2. CASE failed # {}
        <4>1. failed \in SUBSET Nat
          BY <2>3
        <4>2. \E i \in failed : \A j \in failed : i <= j
          <5> HIDE DEF failed
          <5> QED BY <3>2, <4>1, LeastNatural
        <4>3. PICK d : d = diagnostic'.at
          OBVIOUS
        <4>4. d \in failed /\ \A j \in failed : d <= j
          <5> HIDE DEF failed
          <5> QED BY <2>1, <3>2, <4>2, <4>3
        <4>5. \A i \in 1..(d - 1) : results[i].state # "fail"
          BY <2>3, <4>4
        <4> QED BY <2>1, <4>3, <4>4, <4>5 DEF FirstFailure
      <3> QED BY <3>1, <3>2
    <2> HIDE DEF failed
    <2>6. AllVersion2(input'.projects) /\ AliasesDiffer(input'.projects) /\ IsBinding(input'.projects, bindings')
      BY <1>0, <2>1, <2>2
    <2>7. ~SuiteIsBad(input'.suite) /\ InIdOrder(input'.suite.constraints, suite')
      BY <1>0, <2>1, <2>2
    <2>8. /\ IsSequence(results') /\ Len(results') <= Len(suite') /\ Len(results') = Len(suite')
          /\ \A i \in DOMAIN results' :
                  (\A r \in References(suite'[i]) : ~CapturedIn(input'.projects, r)) =>
                        Judged(input'.projects, suite'[i], results'[i])
      BY <1>0, <2>1, <2>2
    <2> QED BY <2>1, <2>4, <2>5, <2>6, <2>7, <2>8 DEF V2Inv
  <1>8. CASE Finished
    <2>1. UNCHANGED compatVars
      BY <1>8 DEF Finished
    <2> QED BY <1>1, <2>1 DEF V2Inv, compatVars, FirstFailure, Published
  <1>9. /\ ~OpenTable /\ ~Field /\ ~EndDocument /\ ~ValidateSuite /\ ~CheckAssertion /\ ~FinishCheck
    BY <1>2 DEF OpenTable, Field, EndDocument, ValidateSuite, CheckAssertion, FinishCheck, AtLine
  <1> QED BY <1>3, <1>4, <1>5, <1>6, <1>7, <1>8, <1>9 DEF CompatNext

-----------------------------------------------------------------------------
\* The compat command is right.

LEMMA CompatStarts ==
  ASSUME CompatInit
  PROVE  CompatInv
  <1>1. /\ InputIsGiven /\ stage = "dispatch" /\ file = 1 /\ line = 1 /\ table = "none"
        /\ suite = <<>> /\ results = <<>> /\ verdict = "none" /\ diagnostic = NoDiagnostic
    BY DEF CompatInit, InputIsGiven
  <1>2. IsDirectory(input.files)
    BY <1>1, InputFacts
  <1>3. DirectoryRead(input.files, file, line, table, suite)
    BY <1>1, <1>2, ReadingStarts
  <1>4. ~Published
    BY <1>1 DEF Published
  <1>5. results \in Seq({}) /\ Len(results) <= Len(suite) /\ DOMAIN results = {}
    BY <1>1
  <1>6. IsSequence(results)
    BY <1>5, SequenceIntro
  <1>7. V1Inv
    BY <1>1, <1>3, <1>4, <1>5, <1>6 DEF V1Inv
  <1>8. V2Inv
    BY <1>1, <1>4 DEF V2Inv
  <1> QED BY <1>1, <1>7, <1>8 DEF CompatInv

LEMMA CompatStep ==
  ASSUME CompatInv, [CompatNext]_compatVars
  PROVE  CompatInv'
  <1>1. input' = input
    BY SameInput
  <1>2. InputIsGiven' /\ (IsV1' <=> IsV1)
    BY <1>1 DEF CompatInv, InputIsGiven, IsV1, SchemaVersions
  <1>3. CASE UNCHANGED compatVars
    BY <1>3 DEF CompatInv, InputIsGiven, IsV1, SchemaVersions, V1Inv, V2Inv, compatVars, FirstFailure, Published
  <1>4. CASE CompatNext /\ IsV1
    BY <1>2, <1>4, V1Step DEF CompatInv
  <1>5. CASE CompatNext /\ ~IsV1
    BY <1>2, <1>5, V2Step DEF CompatInv
  <1> QED BY <1>3, <1>4, <1>5

THEOREM CompatInvariant == CompatSpec => []CompatInv
  <1>1. CompatInit => CompatInv
    BY CompatStarts
  <1>2. CompatInv /\ [CompatNext]_compatVars => CompatInv'
    BY CompatStep
  <1> QED BY <1>1, <1>2, PTL DEF CompatSpec

\* confit_compat_parse_file: however the tables are interleaved and however
\* often a field is repeated, the suite that is checked is that of the source.
THEOREM SuiteIsRead == CompatSpec => []SuiteIsSource
  <1>1. CompatInv => SuiteIsSource
    <2> SUFFICES ASSUME CompatInv, IsV1, stage = "check" PROVE SuiteIsSource
      BY DEF SuiteIsSource
    <2>1. /\ InputIsGiven /\ DirectoryRead(input.files, file, line, table, suite) /\ file > Len(input.files)
          /\ \A i \in DOMAIN suite : ~Incomplete(suite[i])
      BY DEF CompatInv, V1Inv
    <2> QED BY <2>1, SuiteOfSource DEF SuiteIsSource
  <1> QED BY <1>1, CompatInvariant, PTL

\* Both checkers name the first failure, in the order of the suite.
THEOREM FirstFailureIsNamed == CompatSpec => []DiagnosticIsFirst
  <1>1. CompatInv => DiagnosticIsFirst
    <2> SUFFICES ASSUME CompatInv, stage = "done", verdict = "compatibility" PROVE DiagnosticIsFirst
      BY DEF DiagnosticIsFirst
    <2>1. Published /\ verdict # "ok"
      BY DEF Published
    <2>2. FirstFailure /\ ~ \A i \in DOMAIN results : results[i].state # "fail"
      BY <2>1 DEF CompatInv, V1Inv, V2Inv
    <2>3. PICK d : d = diagnostic.at
      OBVIOUS
    <2>4. /\ d \in DOMAIN results /\ results[d].state = "fail"
          /\ \A i \in 1..(d - 1) : results[i].state # "fail"
      BY <2>2, <2>3 DEF FirstFailure
    <2>5. ASSUME ~IsV1, NEW i \in 1..(d - 1) PROVE suite[i].id < suite[d].id
      <3>1. /\ InputIsGiven /\ ~SuiteIsBad(input.suite) /\ InIdOrder(input.suite.constraints, suite)
            /\ IsSequence(results) /\ Len(results) = Len(suite)
        BY <2>1, <2>5 DEF CompatInv, V2Inv
      <3>2. IsSequence(suite) /\ \A k, j \in DOMAIN suite : k < j => suite[k].id < suite[j].id
        BY <3>1, SuiteFacts
      <3>3. /\ Len(suite) \in Nat /\ DOMAIN suite = 1..Len(suite) /\ DOMAIN results = 1..Len(results)
        BY <3>1, <3>2, SequenceFacts
      <3>4. d \in DOMAIN suite /\ i \in DOMAIN suite /\ i < d
        BY <2>4, <3>1, <3>3
      <3> QED BY <3>2, <3>4
    <2> QED BY <2>3, <2>4, <2>5 DEF DiagnosticIsFirst
  <1> QED BY <1>1, CompatInvariant, PTL

\* An assertion fails exactly if the source's rule is broken.
LEMMA ConditionFacts ==
  ASSUME NEW c, IsSequence(input.projects)
  PROVE  /\ ConditionIn(input.projects, c) = "unknown" <=> Nobody(c)
         /\ ConditionIn(input.projects, c) = "yes" <=> Matches(c)
         /\ ConditionIn(input.projects, c) \in {"unknown", "yes", "no"}
  <1>1. PICK projects, H, o : projects = input.projects /\ o = c.option /\ H = HoldersIn(projects, o)
    OBVIOUS
  <1>2. Len(projects) \in Nat /\ DOMAIN projects = 1..Len(projects)
    BY <1>1, SequenceFacts
  <1>3. \A p : p \in H <=> p \in 1..Len(projects) /\ o \in DOMAIN projects[p].values
    BY <1>1, <1>2 DEF HoldersIn
  <1>4. Nobody(c) <=> H = {}
    BY <1>1, <1>2, <1>3 DEF Nobody
  <1>5. CASE H = {}
    <2>1. ~Matches(c)
      BY <1>1, <1>2, <1>3, <1>5 DEF Matches
    <2>2. ConditionIn(projects, c) = "unknown"
      BY <1>1, <1>5 DEF ConditionIn
    <2> QED BY <1>1, <1>4, <1>5, <2>1, <2>2
  <1>6. CASE H # {}
    <2>1. H \in SUBSET Nat
      BY <1>2, <1>3
    <2>2. PICK p \in H : \A q \in H : p <= q
      BY <1>6, <2>1, LeastNatural
    <2>3. FirstIn(H) = p
      <3>1. FirstIn(H) \in H /\ \A q \in H : FirstIn(H) <= q
        BY <2>2 DEF FirstIn
      <3>2. PICK f : f = FirstIn(H)
        OBVIOUS
      <3>3. f \in Nat /\ p \in Nat /\ f <= p /\ p <= f
        BY <2>1, <2>2, <3>1, <3>2
      <3> QED BY <3>2, <3>3
    <2>4. \A k \in 1..Len(projects) :
              (k \in H /\ \A q \in 1..(k - 1) : o \notin DOMAIN projects[q].values) <=> k = p
      <3>1. ASSUME NEW k \in 1..Len(projects), k \in H,
                   \A q \in 1..(k - 1) : o \notin DOMAIN projects[q].values
            PROVE  k = p
        <4>1. p <= k /\ p \in Nat /\ k \in Nat /\ p >= 1 /\ o \in DOMAIN projects[p].values
          BY <1>2, <1>3, <2>2, <3>1
        <4>2. p \notin 1..(k - 1)
          BY <3>1, <4>1
        <4> QED BY <4>1, <4>2
      <3>2. ASSUME NEW q \in 1..(p - 1) PROVE o \notin DOMAIN projects[q].values
        <4>1. p \in 1..Len(projects)
          BY <1>3, <2>2
        <4>2. q \in 1..Len(projects) /\ q < p
          BY <1>2, <4>1
        <4>3. q \notin H
          BY <2>1, <2>2, <4>2
        <4> QED BY <1>3, <4>2, <4>3
      <3> QED BY <2>2, <3>1, <3>2
    <2>5. p \in 1..Len(projects)
      BY <1>3, <2>2
    <2>6. Matches(c) <=> \E k \in 1..Len(projects) :
                            /\ k \in H /\ \A q \in 1..(k - 1) : o \notin DOMAIN projects[q].values
                            /\ ValuesEqual(projects[k].values[o], c.equals)
      BY <1>1, <1>2, <1>3 DEF Matches
    <2>7. Matches(c) <=> ValuesEqual(projects[p].values[o], c.equals)
      BY <2>4, <2>5, <2>6
    <2>8. ConditionIn(projects, c) = IF ValuesEqual(projects[p].values[o], c.equals) THEN "yes" ELSE "no"
      BY <1>1, <1>6, <2>3 DEF ConditionIn
    <2> QED BY <1>1, <1>4, <1>6, <2>7, <2>8
  <1> QED BY <1>5, <1>6

LEMMA OutcomeIsRight ==
  ASSUME NEW h, NEW a, IsSequence(input.projects),
         a.when = ParseCondition(LastOf(h, {"when"}).value),
         a.action = LastOf(h, {"requires", "forbids"}).key,
         a.condition = ParseCondition(LastOf(h, {"requires", "forbids"}).value)
  PROVE  OutcomeIn(input.projects, a).state = "fail" <=> BreaksAssertion(h)
  <1>1. PICK w, c : w = ConditionIn(input.projects, a.when) /\ c = ConditionIn(input.projects, a.condition)
    OBVIOUS
  <1>2. /\ w = "unknown" <=> Nobody(a.when)
        /\ w = "yes" <=> Matches(a.when)
        /\ w \in {"unknown", "yes", "no"}
    BY <1>1, ConditionFacts
  <1>3. /\ c = "unknown" <=> Nobody(a.condition)
        /\ c = "yes" <=> Matches(a.condition)
        /\ c \in {"unknown", "yes", "no"}
    BY <1>1, ConditionFacts
  <1>4. OutcomeIn(input.projects, a).state = "fail" <=>
            w = "unknown" \/ (w = "yes" /\ (c = "unknown" \/ ~((c = "yes") <=> (a.action = "requires"))))
    <2>1. PICK x : x = OutcomeIn(input.projects, a)
      OBVIOUS
    <2>2. x = CASE w = "unknown" -> [state |-> "fail", reason |-> "unknown option"]
                [] w = "no"      -> [state |-> "skipped", reason |-> "none"]
                [] w = "yes" /\ c = "unknown" -> [state |-> "fail", reason |-> "unknown option"]
                [] OTHER -> [state  |-> IF (c = "yes") = (a.action = "requires") THEN "pass" ELSE "fail",
                             reason |-> "message"]
      BY <1>1, <2>1 DEF OutcomeIn
    <2>3. CASE w = "unknown"
      <3>1. x = [state |-> "fail", reason |-> "unknown option"]
        BY <2>2, <2>3
      <3>2. x.state = "fail"
        BY <3>1
      <3> QED BY <2>1, <2>3, <3>2
    <2>4. CASE w = "no"
      <3>1. x = [state |-> "skipped", reason |-> "none"]
        BY <2>2, <2>4
      <3>2. x.state = "skipped"
        BY <3>1
      <3> QED BY <2>1, <2>4, <3>2
    <2>5. CASE w = "yes" /\ c = "unknown"
      <3>1. x = [state |-> "fail", reason |-> "unknown option"]
        BY <2>2, <2>5
      <3>2. x.state = "fail"
        BY <3>1
      <3> QED BY <2>1, <2>5, <3>2
    <2>6. CASE w = "yes" /\ c # "unknown"
      <3>1. x = [state |-> IF (c = "yes") = (a.action = "requires") THEN "pass" ELSE "fail", reason |-> "message"]
        BY <2>2, <2>6
      <3>2. x.state = IF (c = "yes") <=> (a.action = "requires") THEN "pass" ELSE "fail"
        BY <3>1
      <3> QED BY <2>1, <2>6, <3>2
    <2> QED BY <1>2, <2>3, <2>4, <2>5, <2>6
  <1>5. BreaksAssertion(h) <=>
            Nobody(a.when) \/ (Matches(a.when) /\
                (Nobody(a.condition) \/ ~((a.action = "requires") <=> Matches(a.condition))))
    <2>1. Matches(a.condition) \in BOOLEAN
      BY DEF Matches
    <2> QED BY <2>1 DEF BreaksAssertion
  <1> QED BY <1>2, <1>3, <1>4, <1>5

LEMMA V1Report ==
  ASSUME CompatInv, IsV1
  PROVE  ReportIsExplained
  <1>1. TracesExplain /\ ReferencesExist
    BY DEF TracesExplain, ReferencesExist
  <1>2. ASSUME Published PROVE verdict = "ok" <=> \A h \in AssertHeaders : ~BreaksAssertion(h)
    <2>1. /\ InputIsGiven /\ DirectoryRead(input.files, file, line, table, suite) /\ file > Len(input.files)
          /\ \A i \in DOMAIN suite : ~Incomplete(suite[i])
          /\ IsSequence(results) /\ Len(results) = Len(suite)
          /\ verdict = "ok" <=> \A i \in DOMAIN results : results[i].state # "fail"
          /\ \A i \in DOMAIN results : results[i] = OutcomeIn(input.projects, suite[i])
      BY <1>2 DEF CompatInv, V1Inv
    <2>2. IsSequence(suite)
      BY <2>1 DEF DirectoryRead
    <2>3. DOMAIN suite = DOMAIN results
      BY <2>1, <2>2, SequenceFacts
    <2>4. ASSUME NEW h \in AssertHeaders
          PROVE  /\ Ordinal(h) \in DOMAIN results
                 /\ results[Ordinal(h)].state = "fail" <=> BreaksAssertion(h)
      <3>1. PICK a : a = suite[Ordinal(h)]
        OBVIOUS
      <3>2. /\ Ordinal(h) \in DOMAIN suite
            /\ a.when = ParseCondition(LastOf(h, {"when"}).value)
            /\ a.action = LastOf(h, {"requires", "forbids"}).key
            /\ a.condition = ParseCondition(LastOf(h, {"requires", "forbids"}).value)
        BY <2>1, <3>1, SuiteOfSource
      <3>3. IsSequence(input.projects)
        BY <2>1, InputFacts
      <3>4. OutcomeIn(input.projects, a).state = "fail" <=> BreaksAssertion(h)
        BY <3>2, <3>3, OutcomeIsRight
      <3> QED BY <2>1, <2>3, <3>1, <3>2, <3>4
    <2>5. \A i \in DOMAIN results : \E h \in AssertHeaders : Ordinal(h) = i
      BY <2>1, <2>3, SuiteOfSource
    <2> QED BY <2>1, <2>4, <2>5
  <1>3. ReportIsRight
    BY <1>2 DEF ReportIsRight
  <1> QED BY <1>1, <1>3 DEF ReportIsExplained

\* The projects with another value of one option.
Altered(projects, p, o, v) == [projects EXCEPT ![p].values[o].value = v]

\* A change of an option that a reference does not name changes nothing for it.
LEMMA SameNamed ==
  ASSUME NEW projects, NEW p \in DOMAIN projects, NEW o \in DOMAIN projects[p].values, NEW v, NEW altered,
         NEW r, NEW q, AreProjects(projects), AliasesDiffer(projects),
         altered = Altered(projects, p, o, v),
         NamesOption(projects, r, q), <<q, r.id>> # <<p, o>>
  PROVE  Named(altered, r) = Named(projects, r)
  <1>1. PICK w : w = [projects[p].values EXCEPT ![o].value = v]
    OBVIOUS
  <1>2. PICK x : x = [projects[p] EXCEPT !.values = w]
    OBVIOUS
  <1>3. altered = [projects EXCEPT ![p] = x]
    BY <1>1, <1>2 DEF Altered
  <1>4. DOMAIN altered = DOMAIN projects /\ altered[p] = x /\ \A k \in DOMAIN projects \ {p} : altered[k] = projects[k]
    BY <1>3
  <1>5. x.alias = projects[p].alias /\ x.values = w
    BY <1>2 DEF AreProjects
  <1>6. \A k \in DOMAIN projects : altered[k].alias = projects[k].alias
    BY <1>4, <1>5
  <1>7. q \in DOMAIN projects /\ projects[q].alias = r.alias /\ r.id \in DOMAIN projects[q].values
    BY DEF NamesOption
  <1>8. \A k \in DOMAIN projects : projects[k].alias = r.alias <=> k = q
    BY <1>7 DEF AliasesDiffer
  <1>9. (CHOOSE k \in DOMAIN projects : projects[k].alias = r.alias) = q
    BY <1>7, <1>8
  <1>10. (CHOOSE k \in DOMAIN altered : altered[k].alias = r.alias) = q
    BY <1>4, <1>6, <1>7, <1>8
  <1>11. altered[q].values[r.id] = projects[q].values[r.id]
    <2>1. CASE q # p
      BY <1>4, <1>7, <2>1
    <2>2. CASE q = p
      <3>1. r.id # o /\ r.id \in DOMAIN projects[p].values
        BY <1>7, <2>2
      <3>2. w[r.id] = projects[p].values[r.id]
        BY <1>1, <3>1
      <3> QED BY <1>4, <1>5, <2>2, <3>2
    <2> QED BY <2>1, <2>2
  <1> QED BY <1>9, <1>10, <1>11 DEF Named

\* An expression depends on the options that its references name.
LEMMA SameHolds ==
  ASSUME NEW projects, NEW altered, NEW e, IsExpression(e),
         \A r \in Range(e.args) : Named(altered, r) = Named(projects, r)
  PROVE  HoldsIn(altered, e) = HoldsIn(projects, e)
  <1>1. e.op \in {"true", "defined", "ref", "not", "and"}
    BY DEF IsExpression, Arity
  <1>2. DOMAIN e.args = 1..Arity[e.op]
    BY SequenceFacts DEF IsExpression
  <1>3. \A k \in DOMAIN e.args : Named(altered, e.args[k]) = Named(projects, e.args[k])
    BY DEF Range
  <1>4. CASE e.op = "true"
    BY <1>4 DEF HoldsIn
  <1>5. CASE e.op \in {"defined", "ref", "not"}
    <2>1. 1 \in DOMAIN e.args
      BY <1>2, <1>5 DEF Arity
    <2>2. Named(altered, e.args[1]) = Named(projects, e.args[1])
      BY <1>3, <2>1
    <2> QED BY <1>5, <2>2 DEF HoldsIn
  <1>6. CASE e.op = "and"
    <2>1. 1 \in DOMAIN e.args /\ 2 \in DOMAIN e.args
      BY <1>2, <1>6 DEF Arity
    <2>2. /\ Named(altered, e.args[1]) = Named(projects, e.args[1])
          /\ Named(altered, e.args[2]) = Named(projects, e.args[2])
      BY <1>3, <2>1
    <2> QED BY <1>6, <2>2 DEF HoldsIn
  <1> QED BY <1>1, <1>4, <1>5, <1>6

\* The traces of a judged constraint explain it.
LEMMA JudgedIsExplained ==
  ASSUME NEW projects, NEW p \in DOMAIN projects, NEW o \in DOMAIN projects[p].values, NEW v, NEW altered,
         AreProjects(projects), AliasesDiffer(projects), NEW c, NEW entry,
         altered = Altered(projects, p, o, v),
         IsExpression(c.when), IsExpression(c.condition),
         Judged(projects, c, entry), <<p, o>> \notin entry.traces
  PROVE  StateIn(altered, c) = entry.state
  <1>1. /\ entry.state = StateIn(projects, c)
        /\ \A r \in ReadFor(c, entry) :
              \E q \in DOMAIN projects : NamesOption(projects, r, q) /\ <<q, r.id>> \in entry.traces
    BY DEF Judged
  <1>2. ASSUME NEW r \in ReadFor(c, entry) PROVE Named(altered, r) = Named(projects, r)
    <2>1. PICK q \in DOMAIN projects : NamesOption(projects, r, q) /\ <<q, r.id>> \in entry.traces
      BY <1>1
    <2>2. <<q, r.id>> # <<p, o>>
      BY <2>1
    <2> QED BY <2>1, <2>2, SameNamed
  <1>3. CASE entry.state = "skipped"
    <2>1. \A r \in Range(c.when.args) : Named(altered, r) = Named(projects, r)
      BY <1>2, <1>3 DEF ReadFor
    <2>2. HoldsIn(altered, c.when) = HoldsIn(projects, c.when)
      BY <2>1, SameHolds
    <2>3. ~HoldsIn(projects, c.when)
      BY <1>1, <1>3 DEF StateIn
    <2> QED BY <1>3, <2>2, <2>3 DEF StateIn
  <1>4. CASE entry.state # "skipped"
    <2>1. /\ \A r \in Range(c.when.args) : Named(altered, r) = Named(projects, r)
          /\ \A r \in Range(c.condition.args) : Named(altered, r) = Named(projects, r)
      BY <1>2, <1>4 DEF ReadFor, References
    <2>2. /\ HoldsIn(altered, c.when) = HoldsIn(projects, c.when)
          /\ HoldsIn(altered, c.condition) = HoldsIn(projects, c.condition)
      BY <2>1, SameHolds
    <2> QED BY <1>1, <2>2 DEF StateIn
  <1> QED BY <1>3, <1>4

LEMMA V2Report ==
  ASSUME CompatInv, ~IsV1
  PROVE  ReportIsExplained
  <1> SUFFICES ASSUME Published, \A i \in DOMAIN suite : \A r \in References(suite[i]) : ~Captured(r)
               PROVE  ReportIsRight /\ TracesExplain /\ ReferencesExist
    BY DEF ReportIsExplained, ReportIsRight, TracesExplain, ReferencesExist
  <1>1. /\ InputIsGiven /\ AllVersion2(input.projects) /\ ~SuiteIsBad(input.suite)
        /\ InIdOrder(input.suite.constraints, suite)
        /\ AliasesDiffer(input.projects) /\ IsSequence(results) /\ Len(results) = Len(suite)
        /\ \A i \in DOMAIN results :
              (\A r \in References(suite[i]) : ~CapturedIn(input.projects, r)) =>
                    Judged(input.projects, suite[i], results[i])
        /\ verdict = "ok" <=> \A i \in DOMAIN results : results[i].state # "fail"
    BY DEF CompatInv, V2Inv
  <1>2. /\ IsSequence(suite) /\ DOMAIN suite = DOMAIN input.suite.constraints
        /\ \A i \in DOMAIN suite :
              /\ IsExpression(suite[i].when) /\ IsExpression(suite[i].condition)
              /\ \E k \in DOMAIN suite : suite[i] = ParseConstraint(input.suite.constraints[k])
        /\ \A k \in DOMAIN suite : \E i \in DOMAIN suite :
                suite[i] = ParseConstraint(input.suite.constraints[k])
    BY <1>1, SuiteFacts
  <1>3. DOMAIN results = DOMAIN suite
    BY <1>1, <1>2, SequenceFacts
  <1>4. \A r : (CapturedIn(input.projects, r) <=> Captured(r)) /\
               ((\E p \in DOMAIN input.projects : NamesOption(input.projects, r, p)) <=> HasOption(r))
    BY DEF CapturedIn, Captured, HasOption, NamesOption
  <1>5. \A i \in DOMAIN results : Judged(input.projects, suite[i], results[i])
    BY <1>1, <1>3, <1>4
  <1>6. ReportIsRight
    <2>1. \A i \in DOMAIN suite : results[i].state = StateIn(input.projects, suite[i])
      BY <1>3, <1>5 DEF Judged
    <2>2. verdict = "ok" <=> \A k \in DOMAIN input.suite.constraints :
                StateIn(input.projects, ParseConstraint(input.suite.constraints[k])) # "fail"
      <3>1. PICK S, T : /\ S = {StateIn(input.projects, suite[i]) : i \in DOMAIN suite}
                        /\ T = {StateIn(input.projects, ParseConstraint(input.suite.constraints[k])) :
                                    k \in DOMAIN suite}
        OBVIOUS
      <3>2. S = T
        <4>1. ASSUME NEW x \in S PROVE x \in T
          <5>1. PICK i \in DOMAIN suite : x = StateIn(input.projects, suite[i])
            BY <3>1
          <5>2. PICK k \in DOMAIN suite : suite[i] = ParseConstraint(input.suite.constraints[k])
            BY <1>2
          <5> QED BY <3>1, <5>1, <5>2
        <4>2. ASSUME NEW x \in T PROVE x \in S
          <5>1. PICK k \in DOMAIN suite :
                  x = StateIn(input.projects, ParseConstraint(input.suite.constraints[k]))
            BY <3>1
          <5>2. PICK i \in DOMAIN suite : suite[i] = ParseConstraint(input.suite.constraints[k])
            BY <1>2
          <5> QED BY <3>1, <5>1, <5>2
        <4> QED BY <4>1, <4>2
      <3>3. verdict = "ok" <=> "fail" \notin S
        BY <1>1, <1>3, <2>1, <3>1
      <3> QED BY <1>2, <3>1, <3>2, <3>3
    <2> QED BY <2>2 DEF ReportIsRight
  <1>7. ReferencesExist
    <2>1. ASSUME NEW i \in DOMAIN results, NEW r \in ReferencesRead(i) PROVE HasOption(r)
      <3>1. r \in ReadFor(suite[i], results[i])
        BY <2>1 DEF ReferencesRead, ReadFor
      <3> QED BY <1>4, <1>5, <3>1 DEF Judged
    <2> QED BY <2>1 DEF ReferencesExist
  <1>8. TracesExplain
    <2>1. AreProjects(input.projects)
      BY <1>1, ProjectFacts
    <2>2. ASSUME NEW i \in DOMAIN results, NEW p \in DOMAIN input.projects,
                 NEW o \in DOMAIN input.projects[p].values, NEW v, <<p, o>> \notin results[i].traces
          PROVE  StateIn([input.projects EXCEPT ![p].values[o].value = v], suite[i]) = results[i].state
      <3>1. PICK projects, altered : projects = input.projects /\ altered = Altered(projects, p, o, v)
        OBVIOUS
      <3>2. StateIn(altered, suite[i]) = results[i].state
        <4>1. PICK c, entry : c = suite[i] /\ entry = results[i]
          OBVIOUS
        <4>2. /\ IsExpression(c.when) /\ IsExpression(c.condition) /\ Judged(projects, c, entry)
              /\ <<p, o>> \notin entry.traces /\ p \in DOMAIN projects
              /\ o \in DOMAIN projects[p].values /\ AreProjects(projects) /\ AliasesDiffer(projects)
          BY <1>1, <1>2, <1>3, <1>5, <2>1, <2>2, <3>1, <4>1
        <4>3. StateIn(altered, c) = entry.state
          BY <3>1, <4>2, JudgedIsExplained
        <4> QED BY <4>1, <4>3
      <3> QED BY <3>1, <3>2 DEF Altered
    <2> QED BY <2>2 DEF TracesExplain
  <1> QED BY <1>6, <1>7, <1>8

\* confit_compat_check_report and confit_v2_compat_check: the report says ok
\* exactly if no rule of the source is broken, and in version 2, if no reference
\* is captured by a joined name, every reference that is read exists and the
\* traces of a result name all that it depends on.
THEOREM ReportsAreExplained == CompatSpec => []ReportIsExplained
  <1>1. CompatInv => ReportIsExplained
    BY V1Report, V2Report
  <1> QED BY <1>1, CompatInvariant, PTL
=============================================================================
