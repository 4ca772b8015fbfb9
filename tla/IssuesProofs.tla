---------------------------- MODULE IssuesProofs ----------------------------
(***************************************************************************)
(* What holds of the issue queue for any machines, writers, attachments,   *)
(* retries and number of writes: its types; that a number names one file   *)
(* of an issue; that what is gone from a queue does not come back; and,    *)
(* where no first issue is filed beside an adoption, that nothing of a     *)
(* queue is lost.                                                          *)
(*                                                                         *)
(* The invariant says of every queue that each commit goes on from the one *)
(* before: it files at most the issue of its own number, takes away only   *)
(* what somebody deleted, and only adds files, of one kind.  Two queues    *)
(* that share a commit share all before it, so what a machine has beyond   *)
(* the remote's is of other numbers, and the replay of it renames none of  *)
(* its issues.  What the folds compute is proved by induction on sets of   *)
(* positions: a set that is not empty has a least number (Least), from the *)
(* well-foundedness of the natural numbers.                                *)
(***************************************************************************)
EXTENDS Issues, FiniteSetTheorems, WellFoundedInduction, SequenceTheorems, TLAPS

-----------------------------------------------------------------------------
(* Files and their numbers.                                                *)

\* The tree after k commits of h, the issues it has, and the numbers of h's
\* commits.
TreeAt(h, k) == IF k = 0 THEN NoTree ELSE h[k].tree
IdsAt(h, k) == DOMAIN TreeAt(h, k).issues
Numbered(h) == {h[k].n : k \in DOMAIN h}

\* The files of an issue, whose directory and number are one file's.
IsFile(p) == p = [dir |-> p.dir, seq |-> p.seq, name |-> p.name] /\ p.seq \in Nat

FilesOK(f) ==
    /\ IsFiniteSet(DOMAIN f)
    /\ \A p \in DOMAIN f : IsFile(p)
    /\ \A p, q \in DOMAIN f : p.dir = q.dir /\ p.seq = q.seq => p = q

\* An issue refers to attachments of its own.
IssueOK(i) ==
    /\ DOMAIN i = {"title", "body", "files"} /\ DOMAIN i.body = {"text", "refs"}
    /\ FilesOK(i.files)
    /\ \A p \in i.body.refs : p \in DOMAIN i.files /\ p.dir = "attachments"

\* A tree is of such issues.
TreeOK(t) ==
    /\ DOMAIN t = {"issues", "order"}
    /\ \A id \in DOMAIN t.issues : IssueOK(t.issues[id])

\* Files added, of one kind.
Extends(f, g) == \A p \in DOMAIN f : p \in DOMAIN g /\ g[p] = f[p]
OneKind(f, g) == \A p, q \in DOMAIN g \ DOMAIN f : p.dir = q.dir

\* The tree u goes on from t by the commit n; what is gone is deleted.
Continues(t, u, n, gone) ==
    /\ DOMAIN u.issues \ DOMAIN t.issues \subseteq {n}
    /\ DOMAIN t.issues \ DOMAIN u.issues \subseteq gone
    /\ \A id \in DOMAIN t.issues \cap DOMAIN u.issues :
          /\ Extends(t.issues[id].files, u.issues[id].files)
          /\ OneKind(t.issues[id].files, u.issues[id].files)

\* A queue of such commits, each of another number.
HistoryOK(h, gone) ==
    /\ h \in Seq(ToSet(h))
    /\ \A j, k \in DOMAIN h : h[j].n = h[k].n => j = k
    /\ \A k \in DOMAIN h : TreeOK(h[k].tree) /\ Continues(TreeAt(h, k - 1), h[k].tree, h[k].n, gone)

\* A number in both is a commit in both, with all before it.
Agree(a, b) ==
    \A i \in DOMAIN a, j \in DOMAIN b : a[i].n = b[j].n => i = j /\ SubSeq(a, 1, i) = SubSeq(b, 1, i)
\* The two have different commits at one place.
Diverge(a, b) == \E i \in DOMAIN a \cap DOMAIN b : a[i] # b[i]

\* A set of numbers that is not empty has a least one.
LEMMA Least == ASSUME NEW T, T \subseteq Nat, T # {} PROVE \E x \in T : \A y \in T : x <= y
<1>. DEFINE R == {p \in Nat \X Nat : p[1] < p[2]}
<1>1. IsWellFoundedOn(R, Nat)
  BY NatLessThanWellFounded DEF OpToRel
<1>2. PICK x \in T : \A y \in T : ~(<<y, x>> \in R)
  BY <1>1, WFMin
<1>3. \A y \in T : ~(y < x)
  BY <1>2
<1>. QED BY <1>3

\* So a set with 0 and each one's successor has them all.
LEMMA Inducted ==
  ASSUME NEW T, 0 \in T, \A n \in Nat : n \in T => n + 1 \in T
  PROVE  \A n \in Nat : n \in T
<1>. SUFFICES ASSUME Nat \ T # {} PROVE FALSE
  OBVIOUS
<1>2. PICK x \in Nat \ T : \A y \in Nat \ T : x <= y
  BY Least
<1>. QED BY <1>2, x - 1 \in Nat

\* The same up to some number, from some number.
LEMMA InductedUpTo ==
  ASSUME NEW T, NEW c \in Nat, NEW n \in Nat, c \in T, \A k \in c .. n - 1 : k \in T => k + 1 \in T
  PROVE  \A k \in c .. n : k \in T
<1>. DEFINE U == {j \in Nat : c + j <= n => c + j \in T}
<1>1. 0 \in U
  OBVIOUS
<1>2. \A j \in Nat : j \in U => j + 1 \in U
  <2>1. SUFFICES ASSUME NEW j \in Nat, j \in U, c + (j + 1) <= n PROVE c + (j + 1) \in T
    OBVIOUS
  <2>2. c + j \in c .. n - 1 /\ c + j \in T
    BY <2>1
  <2>3. (c + j) + 1 \in T
    BY <2>2
  <2>. QED BY <2>3, (c + j) + 1 = c + (j + 1)
<1>3. \A j \in Nat : j \in U
  <2>. HIDE DEF U
  <2>. QED BY <1>1, <1>2, Inducted
<1>4. SUFFICES ASSUME NEW k \in c .. n PROVE k \in T
  OBVIOUS
<1>5. k - c \in Nat /\ c + (k - c) = k
  OBVIOUS
<1>. QED BY <1>3, <1>5

\* The greatest of bounded numbers is the one chosen.
LEMMA MaxIs ==
  ASSUME NEW t, t \subseteq Nat, t # {}, NEW b \in Nat, \A y \in t : y <= b
  PROVE  Max(t) \in t /\ \A y \in t : Max(t) >= y
<1>. DEFINE U == {j \in Nat : \A y \in t : j >= y}
<1>1. b \in U /\ U \subseteq Nat
  OBVIOUS
<1>2. PICK x \in U : \A y \in U : x <= y
  BY <1>1, Least
<1>3. x \in t
  <2>1. SUFFICES ASSUME x \notin t PROVE FALSE
    OBVIOUS
  <2>2. PICK y \in t : TRUE
    OBVIOUS
  <2>3. x - 1 \in U
    BY <2>1, <2>2, <1>2
  <2>. QED BY <2>3, <1>2
<1>. QED BY <1>2, <1>3 DEF Max

\* The numbers of finitely many files have a bound.
LEMMA Bounded ==
  ASSUME NEW S, IsFiniteSet(S), \A p \in S : p.seq \in Nat
  PROVE  \E b \in Nat : \A p \in S : p.seq <= b
<1>. DEFINE n == Cardinality(S)
<1>1. PICK f \in Bijection(1 .. n, S) : n \in Nat
  BY FS_CardinalityType DEF ExistsBijection
<1>2. f \in [1 .. n -> S] /\ \A p \in S : \E i \in 1 .. n : f[i] = p
  BY <1>1 DEF Bijection, Injection, Surjection
<1>. HIDE DEF n
<1>. DEFINE T == {k \in Nat : \E b \in Nat : \A i \in 1 .. n : i <= k => f[i].seq <= b}
<1>3. 0 \in T
  BY <1>1
<1>4. \A k \in Nat : k \in T => k + 1 \in T
  <2>1. SUFFICES ASSUME NEW k \in Nat, k \in T PROVE k + 1 \in T
    OBVIOUS
  <2>2. PICK b \in Nat : \A i \in 1 .. n : i <= k => f[i].seq <= b
    BY <2>1
  <2>3. CASE k + 1 \in 1 .. n
    <3>1. f[k + 1].seq \in Nat
      BY <2>3, <1>2
    <3>2. PICK c \in Nat : b <= c /\ f[k + 1].seq <= c
      BY <3>1, b + f[k + 1].seq \in Nat
    <3>3. \A i \in 1 .. n : i <= k + 1 => f[i].seq <= c
      <4>1. SUFFICES ASSUME NEW i \in 1 .. n, i <= k + 1 PROVE f[i].seq <= c
        OBVIOUS
      <4>2. f[i].seq \in Nat
        BY <1>2
      <4>3. CASE i = k + 1
        BY <4>3, <3>2
      <4>4. CASE i # k + 1
        BY <4>1, <4>2, <4>4, <2>2, <3>2, <1>1
      <4>. QED BY <4>3, <4>4
    <3>. QED BY <3>3
  <2>4. CASE k + 1 \notin 1 .. n
    <3>1. \A i \in 1 .. n : i <= k + 1 => i <= k
      BY <2>4, <1>1
    <3>2. \A i \in 1 .. n : i <= k + 1 => f[i].seq <= b
      BY <2>2, <3>1
    <3>. QED BY <3>2
  <2>. QED BY <2>3, <2>4
<1>5. n \in T
  <2>. HIDE DEF T
  <2>. QED BY <1>1, <1>3, <1>4, Inducted
<1>6. PICK b \in Nat : \A i \in 1 .. n : i <= n => f[i].seq <= b
  BY <1>5
<1>7. \A p \in S : p.seq <= b
  <2>1. TAKE p \in S
  <2>2. PICK i \in 1 .. n : f[i] = p
    BY <1>2
  <2>3. f[i].seq <= b
    BY <1>6, <1>1
  <2>. QED BY <2>2, <2>3
<1>. QED BY <1>7

\* The last number of a directory.
LEMMA LastNumberIs ==
  ASSUME NEW files, FilesOK(files), NEW dir
  PROVE  /\ LastNumber(files, dir) \in Nat
         /\ \A p \in DOMAIN files : p.dir = dir => p.seq <= LastNumber(files, dir)
<1>. DEFINE t == {0} \cup Numbers(files, dir)
<1>1. PICK b \in Nat : \A p \in DOMAIN files : p.seq <= b
  BY Bounded DEF FilesOK, IsFile
<1>2. t \subseteq Nat /\ t # {} /\ \A y \in t : y <= b
  BY <1>1 DEF Numbers, FilesOK, IsFile
<1>3. Max(t) \in t /\ \A y \in t : Max(t) >= y
  BY <1>2, MaxIs
<1>4. \A p \in DOMAIN files : p.dir = dir => p.seq \in t
  BY DEF Numbers
<1>5. Max(t) = LastNumber(files, dir)
  BY DEF LastNumber
<1>6. \A p \in DOMAIN files : p.seq \in Nat
  BY DEF FilesOK, IsFile
<1>. HIDE DEF t
<1>. QED BY <1>2, <1>3, <1>4, <1>5, <1>6

\* In the order of the numbers.
Sorted(s) == \A i, j \in DOMAIN s : i < j => s[i].seq < s[j].seq

\* Files of different numbers stand in the order of these, each once.
LEMMA ByPathIs ==
  ASSUME NEW files, IsFiniteSet(files), \A p \in files : p.seq \in Nat,
         \A p, q \in files : p.seq = q.seq => p = q
  PROVE  \E n \in Nat : /\ ByPath(files) \in [1 .. n -> files]
                        /\ \A p \in files : \E i \in 1 .. n : ByPath(files)[i] = p
                        /\ \A i, j \in 1 .. n : ByPath(files)[i] = ByPath(files)[j] => i = j
<1>. DEFINE T == {n \in Nat : \A F \in SUBSET files :
                     Cardinality(F) = n => \E s \in [1 .. n -> F] : Sorted(s)}
<1>1. 0 \in T
  <2>1. SUFFICES ASSUME NEW F \in SUBSET files PROVE \E s \in [1 .. 0 -> F] : Sorted(s)
    OBVIOUS
  <2>2. [i \in 1 .. 0 |-> 0] \in [1 .. 0 -> F] /\ Sorted([i \in 1 .. 0 |-> 0])
    BY DEF Sorted
  <2>. QED BY <2>2
<1>2. \A n \in Nat : n \in T => n + 1 \in T
  <2>1. SUFFICES ASSUME NEW n \in Nat, n \in T, NEW F \in SUBSET files, Cardinality(F) = n + 1
                 PROVE  \E s \in [1 .. n + 1 -> F] : Sorted(s)
    OBVIOUS
  <2>2. IsFiniteSet(F)
    BY FS_Subset
  <2>3. F # {}
    BY <2>1, FS_EmptySet, n + 1 # 0
  <2>. DEFINE U == {p.seq : p \in F}
  <2>4. PICK b \in Nat : \A p \in F : p.seq <= b
    BY <2>2, Bounded
  <2>5. U \subseteq Nat /\ U # {} /\ \A y \in U : y <= b
    BY <2>3, <2>4
  <2>6. Max(U) \in U /\ \A y \in U : Max(U) >= y
    BY <2>5, MaxIs
  <2>7. PICK p \in F : p.seq = Max(U)
    BY <2>6
  <2>. DEFINE G == F \ {p}
  <2>8. G \in SUBSET files /\ Cardinality(G) = n
    <3>1. Cardinality(G) = Cardinality(F) - 1
      BY <2>2, FS_RemoveElement
    <3>. QED BY <3>1, <2>1
  <2>9. PICK s \in [1 .. n -> G] : Sorted(s)
    BY <2>1, <2>8
  <2>. DEFINE t == [i \in 1 .. n + 1 |-> IF i = n + 1 THEN p ELSE s[i]]
  <2>10. t \in [1 .. n + 1 -> F]
    OBVIOUS
  <2>11. \A i \in 1 .. n : s[i].seq < p.seq
    <3>1. TAKE i \in 1 .. n
    <3>2. s[i] \in F /\ s[i] # p
      OBVIOUS
    <3>3. s[i].seq \in U /\ s[i].seq \in Nat /\ p.seq \in Nat /\ s[i].seq # p.seq
      BY <3>2
    <3>4. p.seq >= s[i].seq
      BY <3>3, <2>6, <2>7
    <3>. QED BY <3>3, <3>4
  <2>12. Sorted(t)
    <3>1. SUFFICES ASSUME NEW i \in 1 .. n + 1, NEW j \in 1 .. n + 1, i < j PROVE t[i].seq < t[j].seq
      BY DEF Sorted
    <3>2. i \in 1 .. n /\ t[i] = s[i]
      BY <3>1
    <3>3. CASE j = n + 1
      BY <3>2, <3>3, <2>11
    <3>4. CASE j # n + 1
      <4>1. j \in 1 .. n /\ t[j] = s[j]
        BY <3>4
      <4>2. DOMAIN s = 1 .. n
        OBVIOUS
      <4>. QED BY <3>1, <3>2, <4>1, <4>2, <2>9 DEF Sorted
    <3>. QED BY <3>3, <3>4
  <2>. QED BY <2>10, <2>12
<1>. DEFINE n == Cardinality(files)
           s == ByPath(files)
<1>3. n \in Nat
  BY FS_CardinalityType
<1>4. n \in T
  <2>. HIDE DEF T, n
  <2>. QED BY <1>1, <1>2, <1>3, Inducted
<1>5. \E r \in [1 .. n -> files] : Sorted(r)
  BY <1>4
<1>6. s \in [1 .. n -> files] /\ Sorted(s)
  <2>1. s = CHOOSE r \in [1 .. n -> files] : Sorted(r)
    BY DEF ByPath, Sorted
  <2>. HIDE DEF s, T, n
  <2>. QED BY <2>1, <1>5
<1>. HIDE DEF s
<1>7. \A i, j \in 1 .. n : s[i] = s[j] => i = j
  <2>1. SUFFICES ASSUME NEW i \in 1 .. n, NEW j \in 1 .. n, s[i] = s[j], i < j PROVE FALSE
    <3>. HIDE DEF n, T
    <3>. QED BY <1>3
  <2>2. DOMAIN s = 1 .. n /\ s[i].seq \in Nat
    <3>. HIDE DEF n, T
    <3>. QED BY <1>6
  <2>3. s[i].seq < s[i].seq
    BY <2>1, <2>2, <1>6 DEF Sorted
  <2>. QED BY <2>2, <2>3
<1>8. s \in Injection(1 .. n, files)
  BY <1>6, <1>7 DEF Injection, IsInjective
<1>9. Cardinality(1 .. n) = n
  <2>. HIDE DEF n
  <2>1. Cardinality(1 .. n) = IF 1 > n THEN 0 ELSE n - 1 + 1
    BY <1>3, FS_Interval
  <2>. QED BY <2>1, <1>3
<1>10. s \in Surjection(1 .. n, files)
  BY <1>8, <1>9, FS_Injection
<1>11. \A p \in files : \E i \in 1 .. n : s[i] = p
  BY <1>10 DEF Surjection
<1>. HIDE DEF n, T
<1>. QED BY <1>3, <1>6, <1>7, <1>11 DEF s

-----------------------------------------------------------------------------
(* New files put beside the remote's.                                      *)

\* One step of the fold of PutFiles, and the fold as a function.
PutStep(blobs, acc, p) ==
    LET to == Renumbered(acc.files, p)
    IN [files |-> With(acc.files, to, blobs[p]),
        moved |-> IF to = p THEN acc.moved ELSE With(acc.moved, p, to)]

PutIter(f, k, s, blobs, r) ==
    f = [t \in SUBSET (1 .. k) |->
            IF t = {} THEN r ELSE PutStep(blobs, f[t \ {Max(t)}], s[Max(t)])]

\* PutFiles is that function at the whole list.
LEMMA PutFolds ==
  ASSUME NEW paths, NEW blobs, NEW r, NEW n \in Nat, DOMAIN ByPath(paths) = 1 .. n
  PROVE  \E acc : /\ acc[0] = r
                  /\ \A k \in 1 .. n : acc[k] = PutStep(blobs, acc[k - 1], ByPath(paths)[k])
                  /\ PutFiles(paths, blobs, r) = acc[n]
<1>. DEFINE s == ByPath(paths)
           T == {k \in Nat : \E f : PutIter(f, k, s, blobs, r)}
<1>1. 0 \in T
  <2>. DEFINE f == [t \in SUBSET (1 .. 0) |-> r]
  <2>1. \A t \in SUBSET (1 .. 0) : t = {}
    OBVIOUS
  <2>2. PutIter(f, 0, s, blobs, r)
    BY <2>1 DEF PutIter
  <2>. QED BY <2>2
<1>2. ASSUME NEW k \in Nat, k \in T PROVE k + 1 \in T
  <2>1. PICK f : PutIter(f, k, s, blobs, r)
    BY <1>2
  <2>. DEFINE g == [t \in SUBSET (1 .. k + 1) |->
                      IF k + 1 \in t THEN PutStep(blobs, f[t \ {k + 1}], s[k + 1]) ELSE f[t]]
  <2>2. \A t \in SUBSET (1 .. k + 1) : k + 1 \notin t => t \in SUBSET (1 .. k)
    OBVIOUS
  <2>3. \A t \in SUBSET (1 .. k + 1) : k + 1 \in t => t \ {k + 1} \in SUBSET (1 .. k) /\ k + 1 \notin t \ {k + 1}
    OBVIOUS
  <2>4. \A t \in SUBSET (1 .. k) : t # {} => t \ {Max(t)} \in SUBSET (1 .. k)
    OBVIOUS
  <2>5. \A t \in SUBSET (1 .. k + 1) : k + 1 \in t => Max(t) = k + 1
    <3>1. SUFFICES ASSUME NEW t \in SUBSET (1 .. k + 1), k + 1 \in t PROVE Max(t) = k + 1
      OBVIOUS
    <3>2. t \in SUBSET (0 .. k + 1)
      OBVIOUS
    <3>3. Max(t) \in t /\ \A y \in t : Max(t) >= y
      <4>1. k + 1 \in Nat /\ t # {} /\ t \subseteq Nat /\ \A y \in t : y <= k + 1
        BY <3>1, <3>2
      <4>. QED BY <4>1, MaxIs
    <3>. HIDE DEF g, T
    <3>4. Max(t) \in 1 .. k + 1 /\ Max(t) >= k + 1
      BY <3>1, <3>3
    <3>. QED BY <3>4
  <2>6. \A t \in SUBSET (1 .. k) : g[t] = f[t]
    OBVIOUS
  <2>7. \A t \in SUBSET (1 .. k + 1) :
           g[t] = IF t = {} THEN r ELSE PutStep(blobs, g[t \ {Max(t)}], s[Max(t)])
    <3>1. TAKE t \in SUBSET (1 .. k + 1)
    <3>2. CASE k + 1 \in t
      <4>1. g[t \ {k + 1}] = f[t \ {k + 1}]
        BY <3>2, <2>3, <2>6
      <4>. QED BY <3>2, <4>1, <2>5
    <3>3. CASE k + 1 \notin t
      <4>1. t \in SUBSET (1 .. k) /\ g[t] = f[t]
        BY <3>3, <2>2
      <4>2. f[t] = IF t = {} THEN r ELSE PutStep(blobs, f[t \ {Max(t)}], s[Max(t)])
        BY <4>1, <2>1 DEF PutIter
      <4>3. t # {} => g[t \ {Max(t)}] = f[t \ {Max(t)}]
        BY <4>1, <2>4, <2>6
      <4>. QED BY <4>1, <4>2, <4>3
    <3>. QED BY <3>2, <3>3
  <2>8. PutIter(g, k + 1, s, blobs, r)
    <3>. HIDE DEF s
    <3>. DEFINE h == [t \in SUBSET (1 .. k + 1) |->
            IF t = {} THEN r ELSE PutStep(blobs, g[t \ {Max(t)}], s[Max(t)])]
    <3>1. g = h
      BY <2>7
    <3>. QED BY <3>1 DEF PutIter
  <2>. QED BY <2>8
<1>3. n \in T
  <2>. HIDE DEF T
  <2>. QED BY <1>1, <1>2, Inducted
<1>. DEFINE it == CHOOSE f : PutIter(f, n, s, blobs, r)
<1>4. PutIter(it, n, s, blobs, r)
  BY <1>3
<1>5. PutFiles(paths, blobs, r) = it[1 .. n]
  BY DEF PutFiles, FoldLeft, MapThenFoldSet, PutIter, PutStep
<1>6. \A k \in 1 .. n : Max(1 .. k) = k /\ (1 .. k) \ {k} = 1 .. k - 1
  <2>. TAKE k \in 1 .. n
  <2>1. 1 .. k \subseteq Nat /\ 1 .. k # {} /\ k \in Nat /\ \A y \in 1 .. k : y <= k
    OBVIOUS
  <2>3. Max(1 .. k) \in 1 .. k /\ \A y \in 1 .. k : Max(1 .. k) >= y
    BY <2>1, MaxIs
  <2>2. Max(1 .. k) \in 1 .. k /\ Max(1 .. k) >= k
    BY <2>3
  <2>. QED BY <2>2
<1>. DEFINE acc == [k \in 0 .. n |-> it[1 .. k]]
<1>7. acc[0] = r
  <2>1. 1 .. 0 = {} /\ {} \in SUBSET (1 .. n) /\ 0 \in 0 .. n
    OBVIOUS
  <2>2. it[{}] = r
    <3>. HIDE DEF it, s
    <3>. QED BY <2>1, <1>4 DEF PutIter
  <2>. QED BY <2>1, <2>2
<1>8. ASSUME NEW k \in 1 .. n PROVE acc[k] = PutStep(blobs, acc[k - 1], s[k])
  <2>1. 1 .. k \in SUBSET (1 .. n) /\ 1 .. k # {} /\ k - 1 \in 0 .. n /\ k \in 0 .. n
    OBVIOUS
  <2>3. acc[k] = it[1 .. k] /\ acc[k - 1] = it[1 .. k - 1]
    <3>. HIDE DEF it
    <3>. QED BY <2>1
  <2>2. it[1 .. k] = PutStep(blobs, it[(1 .. k) \ {Max(1 .. k)}], s[Max(1 .. k)])
    <3>. HIDE DEF it, s
    <3>. QED BY <2>1, <1>4 DEF PutIter
  <2>. HIDE DEF it, s, acc
  <2>. QED BY <2>2, <2>3, <1>6
<1>9. acc[n] = it[1 .. n]
  <2>. HIDE DEF it
  <2>. QED OBVIOUS
<1>. HIDE DEF acc, it
<1>. QED BY <1>5, <1>7, <1>8, <1>9

\* A path a file may take: of the same kind, and free.
LEMMA RenumberedIs ==
  ASSUME NEW files, FilesOK(files), NEW path, IsFile(path)
  PROVE  /\ IsFile(Renumbered(files, path))
         /\ Renumbered(files, path).dir = path.dir
         /\ \A q \in DOMAIN files : q.dir = path.dir => q.seq # Renumbered(files, path).seq
<1>. DEFINE last == LastNumber(files, path.dir)
<1>1. last \in Nat /\ \A q \in DOMAIN files : q.dir = path.dir => q.seq <= last
  BY LastNumberIs
<1>2. \A q \in DOMAIN files : q.seq \in Nat
  BY DEF FilesOK, IsFile
<1>3. CASE path.seq \in Numbers(files, path.dir)
  <2>. HIDE DEF last
  <2>. DEFINE to == [path EXCEPT !.seq = last + 1]
  <2>1. path = [dir |-> path.dir, seq |-> path.seq, name |-> path.name]
    BY DEF IsFile
  <2>2. to = [dir |-> path.dir, seq |-> last + 1, name |-> path.name]
    BY <2>1
  <2>. HIDE DEF to
  <2>3. to.seq = last + 1 /\ to.dir = path.dir /\ to.name = path.name
    BY <2>2
  <2>4. IsFile(to)
    BY <2>2, <2>3, <1>1 DEF IsFile
  <2>5. \A q \in DOMAIN files : q.dir = path.dir => q.seq # to.seq
    BY <2>3, <1>1, <1>2
  <2>6. Renumbered(files, path) = to
    BY <1>3 DEF Renumbered, last, to
  <2>. QED BY <2>3, <2>4, <2>5, <2>6
<1>4. CASE path.seq \notin Numbers(files, path.dir)
  <2>1. Renumbered(files, path) = path
    BY <1>4 DEF Renumbered
  <2>2. \A q \in DOMAIN files : q.dir = path.dir => q.seq # path.seq
    BY <1>4 DEF Numbers
  <2>. QED BY <2>1, <2>2
<1>. QED BY <1>3, <1>4

\* One file more.
LEMMA WithFile ==
  ASSUME NEW files, FilesOK(files), NEW to, IsFile(to), NEW blob,
         \A q \in DOMAIN files : q.dir = to.dir => q.seq # to.seq
  PROVE  /\ FilesOK(With(files, to, blob)) /\ Extends(files, With(files, to, blob))
         /\ DOMAIN With(files, to, blob) = DOMAIN files \cup {to}
         /\ to \notin DOMAIN files
<1>1. DOMAIN With(files, to, blob) = DOMAIN files \cup {to} /\ to \notin DOMAIN files
  BY DEF With
<1>2. With(files, to, blob)[to] = blob /\ \A q \in DOMAIN files : With(files, to, blob)[q] = files[q]
  BY <1>1 DEF With
<1>3. IsFiniteSet(DOMAIN files \cup {to})
  BY FS_AddElement DEF FilesOK
<1>. HIDE DEF With
<1>4. FilesOK(With(files, to, blob))
  BY <1>1, <1>3 DEF FilesOK
<1>. QED BY <1>1, <1>2, <1>4 DEF Extends

\* Files added twice are files added.
LEMMA ExtendsOn ==
  ASSUME NEW f, NEW g, NEW h, Extends(f, g), Extends(g, h)
  PROVE  Extends(f, h)
BY DEF Extends

\* Where the file p is found, of what a replay moved.
Landed(p, blob, moved, files) ==
    IF p \in DOMAIN moved
    THEN moved[p] \in DOMAIN files /\ moved[p].dir = p.dir /\ files[moved[p]] = blob
    ELSE p \in DOMAIN files /\ files[p] = blob

\* What has landed stays so when files are added.
LEMMA LandedOn ==
  ASSUME NEW p, NEW blob, NEW moved, NEW files, Landed(p, blob, moved, files),
         NEW after, Extends(files, after)
  PROVE  Landed(p, blob, moved, after)
BY DEF Landed, Extends

\* One file put: it goes to to.
Puts(files, moved, p, blob, to, put, went) ==
    /\ to = Renumbered(files, p)
    /\ put = With(files, to, blob)
    /\ went = IF to = p THEN moved ELSE With(moved, p, to)

\* What one step does.
LEMMA PutStepIs ==
  ASSUME NEW files, FilesOK(files), NEW moved, NEW p, IsFile(p), p \notin DOMAIN moved, NEW blob,
         NEW to, NEW put, NEW went, Puts(files, moved, p, blob, to, put, went)
  PROVE  /\ to.dir = p.dir
         /\ FilesOK(put) /\ Extends(files, put)
         /\ DOMAIN put = DOMAIN files \cup {to}
         /\ DOMAIN went \in {DOMAIN moved, DOMAIN moved \cup {p}}
         /\ \A q \in DOMAIN moved : went[q] = moved[q]
         /\ Landed(p, blob, went, put)
<1>. to = Renumbered(files, p) /\ put = With(files, to, blob)
  BY DEF Puts
<1>1. IsFile(to) /\ to.dir = p.dir /\ \A q \in DOMAIN files : q.dir = to.dir => q.seq # to.seq
  BY RenumberedIs
<1>2. FilesOK(put) /\ Extends(files, put)
  BY <1>1, WithFile
<1>3. DOMAIN put = DOMAIN files \cup {to} /\ put[to] = blob
  BY DEF With
<1>4. CASE to = p
  BY <1>1, <1>2, <1>3, <1>4 DEF Landed, Puts
<1>5. CASE to # p
  <2>1. /\ DOMAIN went = DOMAIN moved \cup {p} /\ went[p] = to
        /\ \A q \in DOMAIN moved : went[q] = moved[q]
    BY <1>5 DEF With, Puts
  <2>2. Landed(p, blob, went, put)
    BY <2>1, <1>1, <1>3 DEF Landed
  <2>. QED BY <2>1, <2>2, <1>1, <1>2, <1>3
<1>. QED BY <1>4, <1>5

\* New files of one kind, and these put beside what there is.
NewFiles(new, r, dir) ==
    /\ IsFiniteSet(new) /\ FilesOK(r.files)
    /\ \A p \in new : IsFile(p) /\ p \notin DOMAIN r.moved
    /\ \A p \in new : p.dir = dir
    /\ \A p, q \in new : p.seq = q.seq => p = q
FilesPut(new, blobs, r, dir, put) ==
    /\ FilesOK(put.files) /\ Extends(r.files, put.files)
    /\ \A q \in DOMAIN put.files \ DOMAIN r.files : q.dir = dir
    /\ \A p \in new : Landed(p, blobs[p], put.moved, put.files)
    /\ DOMAIN r.moved \subseteq DOMAIN put.moved
    /\ DOMAIN put.moved \subseteq DOMAIN r.moved \cup new
    /\ \A q \in DOMAIN r.moved : put.moved[q] = r.moved[q]

\* All of them land, and nothing there is moved or lost.
LEMMA PutFilesIs ==
  ASSUME NEW new, NEW blobs, NEW r, NEW dir, NewFiles(new, r, dir)
  PROVE  FilesPut(new, blobs, r, dir, PutFiles(new, blobs, r))
<1>. /\ IsFiniteSet(new) /\ FilesOK(r.files)
     /\ \A p \in new : IsFile(p) /\ p \notin DOMAIN r.moved
     /\ \A p \in new : p.dir = dir
     /\ \A p, q \in new : p.seq = q.seq => p = q
  BY DEF NewFiles
<1>. DEFINE s == ByPath(new)
<1>1. PICK n \in Nat : /\ s \in [1 .. n -> new]
                       /\ \A p \in new : \E i \in 1 .. n : s[i] = p
                       /\ \A i, j \in 1 .. n : s[i] = s[j] => i = j
  <2>1. \A p \in new : p.seq \in Nat
    BY DEF IsFile
  <2>. QED BY <2>1, ByPathIs
<1>2. DOMAIN s = 1 .. n
  BY <1>1
<1>3. PICK acc : /\ acc[0] = r
                 /\ \A k \in 1 .. n : acc[k] = PutStep(blobs, acc[k - 1], s[k])
                 /\ PutFiles(new, blobs, r) = acc[n]
  BY <1>1, <1>2, PutFolds
<1>. HIDE DEF s
<1>. DEFINE Q(k) == /\ FilesOK(acc[k].files) /\ Extends(r.files, acc[k].files)
                    /\ \A q \in DOMAIN acc[k].files \ DOMAIN r.files : q.dir = dir
                    /\ \A i \in 1 .. n : i <= k => Landed(s[i], blobs[s[i]], acc[k].moved, acc[k].files)
                    /\ \A i \in 1 .. n : i > k => s[i] \notin DOMAIN acc[k].moved
                    /\ DOMAIN r.moved \subseteq DOMAIN acc[k].moved
                    /\ DOMAIN acc[k].moved \subseteq DOMAIN r.moved \cup new
                    /\ \A q \in DOMAIN r.moved : acc[k].moved[q] = r.moved[q]
            T == {k \in 0 .. n : Q(k)}
<1>4. 0 \in T
  <2>1. Extends(r.files, r.files)
    BY DEF Extends
  <2>2. \A i \in 1 .. n : s[i] \in new
    BY <1>1
  <2>3. \A i \in 1 .. n : ~(i <= 0)
    OBVIOUS
  <2>4. 0 \in 0 .. n
    OBVIOUS
  <2>. QED BY <1>3, <2>1, <2>2, <2>3, <2>4
<1>5. \A k \in 0 .. n - 1 : k \in T => k + 1 \in T
  <2>1. SUFFICES ASSUME NEW k \in 0 .. n - 1, Q(k) PROVE Q(k + 1)
    OBVIOUS
  <2>. DEFINE a == acc[k]
              b == acc[k + 1]
              p == s[k + 1]
              to == Renumbered(a.files, p)
  <2>2. k + 1 \in 1 .. n /\ (k + 1) - 1 = k
    OBVIOUS
  <2>3. b = PutStep(blobs, a, p)
    BY <2>2, <1>3
  <2>4. p \in new /\ IsFile(p) /\ p.dir = dir
    BY <2>2, <1>1
  <2>5. p \notin DOMAIN a.moved /\ FilesOK(a.files)
    BY <2>1, <2>2
  <2>6. /\ to.dir = p.dir
        /\ FilesOK(b.files) /\ Extends(a.files, b.files)
        /\ DOMAIN b.files = DOMAIN a.files \cup {to}
        /\ DOMAIN b.moved \in {DOMAIN a.moved, DOMAIN a.moved \cup {p}}
        /\ \A q \in DOMAIN a.moved : b.moved[q] = a.moved[q]
        /\ Landed(p, blobs[p], b.moved, b.files)
    <3>. HIDE DEF a, b, p, to
    <3>. DEFINE blob == blobs[p]
                files == a.files
                moved == a.moved
                put == b.files
                went == b.moved
    <3>1. Puts(files, moved, p, blob, to, put, went)
      BY <2>3 DEF PutStep, Puts, to
    <3>2. FilesOK(files) /\ p \notin DOMAIN moved
      BY <2>5
    <3>3. /\ to.dir = p.dir
          /\ FilesOK(put) /\ Extends(files, put)
          /\ DOMAIN put = DOMAIN files \cup {to}
          /\ DOMAIN went \in {DOMAIN moved, DOMAIN moved \cup {p}}
          /\ \A q \in DOMAIN moved : went[q] = moved[q]
          /\ Landed(p, blob, went, put)
      <4>. HIDE DEF blob, files, moved, put, went
      <4>. QED BY <2>4, <3>1, <3>2, PutStepIs
    <3>. QED BY <3>3
  <2>. HIDE DEF to, b
  <2>7. Extends(r.files, b.files)
    BY <2>1, <2>6, ExtendsOn
  <2>8. \A q \in DOMAIN b.files \ DOMAIN r.files : q.dir = dir
    BY <2>1, <2>4, <2>6
  <2>9. ASSUME NEW i \in 1 .. n, i <= k + 1 PROVE Landed(s[i], blobs[s[i]], b.moved, b.files)
    <3>1. CASE i = k + 1
      BY <3>1, <2>6
    <3>2. CASE i # k + 1
      <4>1. i <= k
        BY <2>9, <3>2
      <4>2. Landed(s[i], blobs[s[i]], a.moved, a.files)
        BY <4>1, <2>1
      <4>3. s[i] # p
        BY <3>2, <1>1, <2>2
      <4>4. Landed(s[i], blobs[s[i]], b.moved, a.files)
        BY <4>2, <4>3, <2>6 DEF Landed
      <4>. QED BY <4>4, <2>6, LandedOn
    <3>. QED BY <3>1, <3>2
  <2>10. ASSUME NEW i \in 1 .. n, i > k + 1 PROVE s[i] \notin DOMAIN b.moved
    <3>1. s[i] \notin DOMAIN a.moved
      BY <2>10, <2>1
    <3>2. s[i] # p
      BY <2>10, <1>1, <2>2
    <3>. QED BY <3>1, <3>2, <2>6
  <2>11. /\ DOMAIN r.moved \subseteq DOMAIN b.moved
         /\ DOMAIN b.moved \subseteq DOMAIN r.moved \cup new
         /\ \A q \in DOMAIN r.moved : b.moved[q] = r.moved[q]
    BY <2>1, <2>4, <2>6
  <2>. QED BY <2>6, <2>7, <2>8, <2>9, <2>10, <2>11 DEF b
<1>6. n \in T
  <2>1. n \in 0 .. n /\ 0 \in Nat
    OBVIOUS
  <2>2. \A k \in 0 .. n : k \in T
    <3>. HIDE DEF T
    <3>. QED BY <1>4, <1>5, <2>1, InductedUpTo
  <2>. QED BY <2>1, <2>2
<1>7. \A p \in new : Landed(p, blobs[p], acc[n].moved, acc[n].files)
  <2>1. TAKE p \in new
  <2>2. PICK i \in 1 .. n : s[i] = p
    BY <1>1
  <2>3. i <= n
    OBVIOUS
  <2>4. Landed(s[i], blobs[s[i]], acc[n].moved, acc[n].files)
    BY <1>6, <2>3
  <2>. QED BY <2>2, <2>4
<1>8. Q(n)
  BY <1>6
<1>. HIDE DEF T
<1>. QED BY <1>3, <1>7, <1>8 DEF FilesPut

-----------------------------------------------------------------------------
(* References that follow.                                                 *)

\* What was moved of the attachments; a step of Followed, and its fold.
Attached(moved) == {p \in DOMAIN moved : p.dir = "attachments"}

FollowStep(moved, acc, p) == {IF q = p THEN moved[p] ELSE q : q \in acc}

FollowIter(f, k, s, moved, refs) ==
    f = [t \in SUBSET (1 .. k) |->
            IF t = {} THEN refs ELSE FollowStep(moved, f[t \ {Max(t)}], s[Max(t)])]

\* Followed is that function at the whole list.
LEMMA FollowFolds ==
  ASSUME NEW refs, NEW moved, NEW n \in Nat, DOMAIN ByPath(Attached(moved)) = 1 .. n
  PROVE  \E acc : /\ acc[0] = refs
                  /\ \A k \in 1 .. n : acc[k] = FollowStep(moved, acc[k - 1], ByPath(Attached(moved))[k])
                  /\ Followed(refs, moved) = acc[n]
<1>. DEFINE s == ByPath(Attached(moved))
           T == {k \in Nat : \E f : FollowIter(f, k, s, moved, refs)}
<1>1. 0 \in T
  <2>. DEFINE f == [t \in SUBSET (1 .. 0) |-> refs]
  <2>1. \A t \in SUBSET (1 .. 0) : t = {}
    OBVIOUS
  <2>2. FollowIter(f, 0, s, moved, refs)
    BY <2>1 DEF FollowIter
  <2>. QED BY <2>2
<1>2. ASSUME NEW k \in Nat, k \in T PROVE k + 1 \in T
  <2>1. PICK f : FollowIter(f, k, s, moved, refs)
    BY <1>2
  <2>. DEFINE g == [t \in SUBSET (1 .. k + 1) |->
                      IF k + 1 \in t THEN FollowStep(moved, f[t \ {k + 1}], s[k + 1]) ELSE f[t]]
  <2>2. \A t \in SUBSET (1 .. k + 1) : k + 1 \notin t => t \in SUBSET (1 .. k)
    OBVIOUS
  <2>3. \A t \in SUBSET (1 .. k + 1) : k + 1 \in t => t \ {k + 1} \in SUBSET (1 .. k) /\ k + 1 \notin t \ {k + 1}
    OBVIOUS
  <2>4. \A t \in SUBSET (1 .. k) : t # {} => t \ {Max(t)} \in SUBSET (1 .. k)
    OBVIOUS
  <2>5. \A t \in SUBSET (1 .. k + 1) : k + 1 \in t => Max(t) = k + 1
    <3>1. SUFFICES ASSUME NEW t \in SUBSET (1 .. k + 1), k + 1 \in t PROVE Max(t) = k + 1
      OBVIOUS
    <3>2. t \in SUBSET (0 .. k + 1)
      OBVIOUS
    <3>3. Max(t) \in t /\ \A y \in t : Max(t) >= y
      <4>1. k + 1 \in Nat /\ t # {} /\ t \subseteq Nat /\ \A y \in t : y <= k + 1
        BY <3>1, <3>2
      <4>. QED BY <4>1, MaxIs
    <3>. HIDE DEF g, T
    <3>4. Max(t) \in 1 .. k + 1 /\ Max(t) >= k + 1
      BY <3>1, <3>3
    <3>. QED BY <3>4
  <2>6. \A t \in SUBSET (1 .. k) : g[t] = f[t]
    OBVIOUS
  <2>7. \A t \in SUBSET (1 .. k + 1) :
           g[t] = IF t = {} THEN refs ELSE FollowStep(moved, g[t \ {Max(t)}], s[Max(t)])
    <3>1. TAKE t \in SUBSET (1 .. k + 1)
    <3>2. CASE k + 1 \in t
      <4>1. g[t \ {k + 1}] = f[t \ {k + 1}]
        BY <3>2, <2>3, <2>6
      <4>. QED BY <3>2, <4>1, <2>5
    <3>3. CASE k + 1 \notin t
      <4>1. t \in SUBSET (1 .. k) /\ g[t] = f[t]
        BY <3>3, <2>2
      <4>2. f[t] = IF t = {} THEN refs ELSE FollowStep(moved, f[t \ {Max(t)}], s[Max(t)])
        BY <4>1, <2>1 DEF FollowIter
      <4>3. t # {} => g[t \ {Max(t)}] = f[t \ {Max(t)}]
        BY <4>1, <2>4, <2>6
      <4>. QED BY <4>1, <4>2, <4>3
    <3>. QED BY <3>2, <3>3
  <2>8. FollowIter(g, k + 1, s, moved, refs)
    <3>. HIDE DEF s
    <3>. DEFINE h == [t \in SUBSET (1 .. k + 1) |->
            IF t = {} THEN refs ELSE FollowStep(moved, g[t \ {Max(t)}], s[Max(t)])]
    <3>1. g = h
      BY <2>7
    <3>. QED BY <3>1 DEF FollowIter
  <2>. QED BY <2>8
<1>3. n \in T
  <2>. HIDE DEF T
  <2>. QED BY <1>1, <1>2, Inducted
<1>. DEFINE it == CHOOSE f : FollowIter(f, n, s, moved, refs)
<1>4. FollowIter(it, n, s, moved, refs)
  BY <1>3
<1>5. Followed(refs, moved) = it[1 .. n]
  BY DEF Followed, Attached, FoldLeft, MapThenFoldSet, FollowIter, FollowStep
<1>6. \A k \in 1 .. n : Max(1 .. k) = k /\ (1 .. k) \ {k} = 1 .. k - 1
  <2>. TAKE k \in 1 .. n
  <2>. HIDE DEF T, s, it
  <2>4. k \in Nat /\ k \in 1 .. k
    OBVIOUS
  <2>5. 1 .. k # {}
    BY <2>4
  <2>6. \A y \in 1 .. k : y \in Nat /\ y <= k
    BY <2>4
  <2>1. 1 .. k \subseteq Nat /\ 1 .. k # {} /\ k \in Nat /\ \A y \in 1 .. k : y <= k
    BY <2>4, <2>5, <2>6
  <2>3. Max(1 .. k) \in 1 .. k /\ \A y \in 1 .. k : Max(1 .. k) >= y
    BY <2>1, MaxIs
  <2>2. Max(1 .. k) \in 1 .. k /\ Max(1 .. k) >= k
    BY <2>3
  <2>. QED BY <2>2
<1>. DEFINE acc == [k \in 0 .. n |-> it[1 .. k]]
<1>7. acc[0] = refs
  <2>1. 1 .. 0 = {} /\ {} \in SUBSET (1 .. n) /\ 0 \in 0 .. n
    OBVIOUS
  <2>2. it[{}] = refs
    <3>. HIDE DEF it, s
    <3>. QED BY <2>1, <1>4 DEF FollowIter
  <2>. QED BY <2>1, <2>2
<1>8. ASSUME NEW k \in 1 .. n PROVE acc[k] = FollowStep(moved, acc[k - 1], s[k])
  <2>1. 1 .. k \in SUBSET (1 .. n) /\ 1 .. k # {} /\ k - 1 \in 0 .. n /\ k \in 0 .. n
    OBVIOUS
  <2>3. acc[k] = it[1 .. k] /\ acc[k - 1] = it[1 .. k - 1]
    <3>. HIDE DEF it
    <3>. QED BY <2>1
  <2>2. it[1 .. k] = FollowStep(moved, it[(1 .. k) \ {Max(1 .. k)}], s[Max(1 .. k)])
    <3>. HIDE DEF it, s
    <3>. QED BY <2>1, <1>4 DEF FollowIter
  <2>. HIDE DEF it, s, acc
  <2>. QED BY <2>2, <2>3, <1>6
<1>9. acc[n] = it[1 .. n]
  <2>. HIDE DEF it
  <2>. QED OBVIOUS
<1>. HIDE DEF acc, it
<1>. QED BY <1>5, <1>7, <1>8, <1>9


\* References lead to files there are, wherever these were moved.
LEMMA FollowedIs ==
  ASSUME NEW refs, NEW moved, NEW files, NEW f, FilesOK(f), DOMAIN moved \subseteq DOMAIN f,
         \A p \in DOMAIN moved : moved[p] \in DOMAIN files /\ moved[p].dir = p.dir,
         \A p \in refs : p.dir = "attachments" /\ (p \in DOMAIN moved \/ p \in DOMAIN files)
  PROVE  \A q \in Followed(refs, moved) : q \in DOMAIN files /\ q.dir = "attachments"
<1>. DEFINE new == Attached(moved)
            s == ByPath(new)
<1>1. PICK n \in Nat : /\ s \in [1 .. n -> new]
                       /\ \A p \in new : \E i \in 1 .. n : s[i] = p
  <2>1. IsFiniteSet(new)
    BY FS_Subset, new \in SUBSET DOMAIN f DEF FilesOK, Attached
  <2>2. \A p \in new : p.seq \in Nat
    BY DEF FilesOK, IsFile, Attached
  <2>3. \A p, q \in new : p.seq = q.seq => p = q
    BY DEF FilesOK, Attached
  <2>. HIDE DEF new
  <2>. QED BY <2>1, <2>2, <2>3, ByPathIs
<1>2. DOMAIN s = 1 .. n
  BY <1>1
<1>3. PICK acc : /\ acc[0] = refs
                 /\ \A k \in 1 .. n : acc[k] = FollowStep(moved, acc[k - 1], s[k])
                 /\ Followed(refs, moved) = acc[n]
  <2>1. DOMAIN ByPath(Attached(moved)) = 1 .. n
    BY <1>2
  <2>2. \E acc : /\ acc[0] = refs
                 /\ \A k \in 1 .. n : acc[k] = FollowStep(moved, acc[k - 1], ByPath(Attached(moved))[k])
                 /\ Followed(refs, moved) = acc[n]
    BY <2>1, FollowFolds
  <2>. QED BY <2>2
<1>. HIDE DEF s
<1>4. \A i \in 1 .. n : s[i] \in DOMAIN moved /\ s[i].dir = "attachments"
  <2>1. \A i \in 1 .. n : s[i] \in new
    <3>. HIDE DEF new
    <3>. QED BY <1>1
  <2>. QED BY <2>1 DEF Attached
<1>. DEFINE Q(k) == \A q \in acc[k] : /\ q.dir = "attachments"
                                      /\ q \in DOMAIN files \/ \E i \in 1 .. n : i > k /\ s[i] = q
            T == {k \in 0 .. n : Q(k)}
<1>5. 0 \in T
  <2>0. 0 \in 0 .. n
    OBVIOUS
  <2>1. SUFFICES ASSUME NEW q \in refs
                 PROVE  q.dir = "attachments" /\ (q \in DOMAIN files \/ \E i \in 1 .. n : i > 0 /\ s[i] = q)
    BY <1>3, <2>0
  <2>2. CASE q \in DOMAIN moved
    <3>1. q \in new
      BY <2>2 DEF Attached
    <3>2. PICK i \in 1 .. n : s[i] = q
      <4>. HIDE DEF new
      <4>. QED BY <3>1, <1>1
    <3>. QED BY <3>2
  <2>. QED BY <2>2
<1>6. \A k \in 0 .. n - 1 : k \in T => k + 1 \in T
  <2>1. SUFFICES ASSUME NEW k \in 0 .. n - 1, Q(k), NEW q \in acc[k + 1]
                 PROVE  q.dir = "attachments" /\ (q \in DOMAIN files \/ \E i \in 1 .. n : i > k + 1 /\ s[i] = q)
    OBVIOUS
  <2>2. k + 1 \in 1 .. n /\ (k + 1) - 1 = k
    OBVIOUS
  <2>. DEFINE p == s[k + 1]
  <2>3. q \in {IF x = p THEN moved[p] ELSE x : x \in acc[k]}
    BY <2>1, <2>2, <1>3 DEF FollowStep
  <2>4. PICK x \in acc[k] : q = IF x = p THEN moved[p] ELSE x
    BY <2>3
  <2>5. CASE x = p
    BY <2>2, <2>4, <2>5, <1>4
  <2>6. CASE x # p
    <3>1. q = x
      BY <2>4, <2>6
    <3>2. CASE x \notin DOMAIN files
      <4>1. PICK i \in 1 .. n : i > k /\ s[i] = x
        BY <3>2, <2>1
      <4>2. i # k + 1
        BY <4>1, <2>6
      <4>. QED BY <3>1, <4>1, <4>2, <2>1
    <3>. QED BY <3>1, <3>2, <2>1
  <2>. QED BY <2>5, <2>6
<1>7. n \in T
  <2>1. n \in 0 .. n /\ 0 \in Nat
    OBVIOUS
  <2>2. \A k \in 0 .. n : k \in T
    <3>. HIDE DEF T
    <3>. QED BY <1>5, <1>6, <2>1, InductedUpTo
  <2>. QED BY <2>1, <2>2
<1>8. \A q \in acc[n] : q.dir = "attachments" /\ (q \in DOMAIN files \/ \E i \in 1 .. n : i > n /\ s[i] = q)
  BY <1>7
<1>9. \A i \in 1 .. n : ~(i > n)
  OBVIOUS
<1>. QED BY <1>3, <1>8, <1>9

-----------------------------------------------------------------------------
(* What each write makes of a tree.                                        *)

\* Paths are files, and of their own kind.
LEMMA AttachmentPathIs ==
  ASSUME NEW seq \in Nat, NEW name
  PROVE  /\ IsFile(AttachmentPath(seq, name))
         /\ AttachmentPath(seq, name).dir = "attachments" /\ AttachmentPath(seq, name).seq = seq
BY DEF AttachmentPath, IsFile

\* Likewise of a comment's.
LEMMA CommentPathIs ==
  ASSUME NEW seq \in Nat
  PROVE  /\ IsFile(CommentPath(seq))
         /\ CommentPath(seq).dir = "comments" /\ CommentPath(seq).seq = seq
BY DEF CommentPath, IsFile

\* The issue v is the issue i with what a write adds.
Adds(i, v) ==
    /\ IssueOK(v)
    /\ Extends(i.files, v.files)
    /\ OneKind(i.files, v.files)

\* Attachments add to an issue,
LEMMA WithAttachmentsIs ==
  ASSUME NEW i, IssueOK(i), NEW S, NEW names \in Seq(S), NEW n
  PROVE  Adds(i, WithAttachments(i, names, n))
<1>. DEFINE first == LastNumber(i.files, "attachments")
            path(x) == AttachmentPath(first + x, names[x])
            paths == {path(x) : x \in DOMAIN names}
            v == WithAttachments(i, names, n)
            files == i.files
            put == Beside(files, [p \in paths |-> <<n, p.seq>>])
<1>1. first \in Nat /\ \A p \in DOMAIN files : p.dir = "attachments" => p.seq <= first
  BY LastNumberIs DEF IssueOK
<1>2. DOMAIN names = 1 .. Len(names) /\ Len(names) \in Nat
  OBVIOUS
<1>3. \A x \in DOMAIN names : IsFile(path(x)) /\ path(x).dir = "attachments" /\ path(x).seq = first + x
  <2>. HIDE DEF first
  <2>1. TAKE x \in DOMAIN names
  <2>2. first + x \in Nat
    BY <1>1, <1>2
  <2>. QED BY <2>2, AttachmentPathIs
<1>4. IsFiniteSet(paths)
  <2>. DEFINE f == [x \in DOMAIN names |-> path(x)]
  <2>1. f \in Surjection(DOMAIN names, paths)
    <3>. HIDE DEF path
    <3>. QED BY DEF Surjection
  <2>2. IsFiniteSet(DOMAIN names)
    BY <1>2, FS_Interval
  <2>. HIDE DEF f, paths
  <2>. QED BY <2>1, <2>2, FS_Surjection
<1>5. DOMAIN put = DOMAIN files \cup paths /\ \A p \in DOMAIN files : put[p] = files[p]
  <2>. HIDE DEF paths, files
  <2>. QED BY DEF Beside
<1>6. \A p \in paths : IsFile(p) /\ p.dir = "attachments" /\ p.seq \in Nat /\ p.seq > first
  <2>1. SUFFICES ASSUME NEW x \in DOMAIN names
                 PROVE  IsFile(path(x)) /\ path(x).dir = "attachments" /\ path(x).seq \in Nat /\ path(x).seq > first
    OBVIOUS
  <2>2. x \in Nat /\ x > 0
    BY <1>2
  <2>. HIDE DEF path, first
  <2>. QED BY <1>1, <1>3, <2>2
<1>7. \A p, q \in paths : p.seq = q.seq => p = q
  <2>1. SUFFICES ASSUME NEW x \in DOMAIN names, NEW y \in DOMAIN names, path(x).seq = path(y).seq
                 PROVE  path(x) = path(y)
    OBVIOUS
  <2>2. first + x = first + y
    <3>. HIDE DEF path, first
    <3>. QED BY <1>3, <2>1
  <2>3. x = y
    <3>. HIDE DEF path, first
    <3>. QED BY <1>1, <1>2, <2>2
  <2>. QED BY <2>3
<1>8. FilesOK(files)
  BY DEF IssueOK
<1>9. FilesOK(put)
  <2>1. IsFiniteSet(DOMAIN put)
    <3>1. IsFiniteSet(DOMAIN files)
      BY <1>8 DEF FilesOK
    <3>. HIDE DEF paths, put, files
    <3>. QED BY <3>1, <1>4, <1>5, FS_Union
  <2>2. \A p \in DOMAIN put : IsFile(p)
    <3>1. \A p \in DOMAIN files : IsFile(p)
      BY <1>8 DEF FilesOK
    <3>. HIDE DEF paths, put, files
    <3>. QED BY <3>1, <1>5, <1>6
  <2>3. ASSUME NEW p \in DOMAIN put, NEW q \in DOMAIN put, p.dir = q.dir, p.seq = q.seq PROVE p = q
    <3>1. \A x \in DOMAIN files, y \in paths : ~(x.dir = y.dir /\ x.seq = y.seq)
      <4>1. \A x \in DOMAIN files : x.seq \in Nat
        BY <1>8 DEF FilesOK, IsFile
      <4>. HIDE DEF paths, put, files, first
      <4>. QED BY <4>1, <1>1, <1>6
    <3>2. \A x, y \in DOMAIN files : x.dir = y.dir /\ x.seq = y.seq => x = y
      BY <1>8 DEF FilesOK
    <3>. HIDE DEF paths, put, files, first
    <3>3. CASE p \in DOMAIN files /\ q \in DOMAIN files
      BY <3>2, <3>3, <2>3
    <3>4. CASE p \in paths /\ q \in paths
      BY <3>4, <1>7, <2>3
    <3>5. CASE p \in DOMAIN files /\ q \in paths
      BY <3>1, <3>5, <2>3
    <3>6. CASE p \in paths /\ q \in DOMAIN files
      BY <3>1, <3>6, <2>3
    <3>. QED BY <1>5, <3>3, <3>4, <3>5, <3>6
  <2>. HIDE DEF put
  <2>. QED BY <2>1, <2>2, <2>3 DEF FilesOK
<1>. DEFINE body == [text |-> n, refs |-> i.body.refs \cup paths]
<1>10. DOMAIN v = {"title", "body", "files"} /\ v.files = put /\ v.body = body
  <2>1. v = [i EXCEPT !.files = put, !.body = body]
    BY DEF WithAttachments
  <2>. HIDE DEF v, put, body
  <2>. QED BY <2>1 DEF IssueOK
<1>11. DOMAIN body = {"text", "refs"} /\ body.refs = i.body.refs \cup paths
  <2>. HIDE DEF paths
  <2>. QED OBVIOUS
<1>12. \A p \in v.body.refs : p \in DOMAIN v.files /\ p.dir = "attachments"
  <2>1. \A p \in i.body.refs : p \in DOMAIN files /\ p.dir = "attachments"
    BY DEF IssueOK
  <2>. HIDE DEF v, paths, put, files, body
  <2>. QED BY <2>1, <1>5, <1>6, <1>10, <1>11
<1>13. IssueOK(v)
  <2>. HIDE DEF v, put, body
  <2>. QED BY <1>9, <1>10, <1>11, <1>12 DEF IssueOK
<1>14. Extends(i.files, v.files)
  <2>. HIDE DEF v, put, paths
  <2>. QED BY <1>5, <1>10 DEF Extends
<1>15. OneKind(i.files, v.files)
  <2>. HIDE DEF v, put, paths, files
  <2>. QED BY <1>5, <1>6, <1>10 DEF OneKind, files
<1>. HIDE DEF v
<1>. QED BY <1>13, <1>14, <1>15 DEF Adds, v

\* a new issue has nothing amiss,
LEMMA NewIssueIs ==
  ASSUME NEW n
  PROVE  IssueOK(NewIssue(n))
<1>. DEFINE i == NewIssue(n)
<1>1. DOMAIN i = {"title", "body", "files"} /\ DOMAIN i.body = {"text", "refs"} /\ i.body.refs = {} /\ i.files = << >>
  BY DEF NewIssue
<1>2. DOMAIN << >> = {}
  OBVIOUS
<1>3. FilesOK(<< >>)
  BY <1>2, FS_EmptySet DEF FilesOK
<1>. HIDE DEF i
<1>. QED BY <1>1, <1>3 DEF IssueOK, i

\* an edit adds no file,
LEMMA EditedIs ==
  ASSUME NEW i, IssueOK(i), NEW n
  PROVE  Adds(i, [i EXCEPT !.title = n]) /\ Adds(i, [i EXCEPT !.body.text = n])
<1>. DEFINE v == [i EXCEPT !.title = n]
            w == [i EXCEPT !.body.text = n]
<1>1. DOMAIN v = DOMAIN i /\ v.files = i.files /\ v.body = i.body
  BY DEF IssueOK
<1>2. /\ DOMAIN w = DOMAIN i /\ w.files = i.files
      /\ DOMAIN w.body = DOMAIN i.body /\ w.body.refs = i.body.refs
  BY DEF IssueOK
<1>. HIDE DEF v, w
<1>3. IssueOK(v) /\ IssueOK(w)
  BY <1>1, <1>2 DEF IssueOK
<1>4. Extends(i.files, i.files) /\ OneKind(i.files, i.files)
  BY DEF Extends, OneKind
<1>. QED BY <1>1, <1>2, <1>3, <1>4 DEF Adds, v, w

\* and a comment adds one.
LEMMA CommentedIs ==
  ASSUME NEW i, IssueOK(i), NEW blob
  PROVE  Adds(i, [i EXCEPT !.files = With(@, CommentPath(LastNumber(i.files, "comments") + 1), blob)])
<1>. DEFINE files == i.files
            to == CommentPath(LastNumber(files, "comments") + 1)
            put == With(files, to, blob)
            v == [i EXCEPT !.files = put]
<1>1. FilesOK(files)
  BY DEF IssueOK
<1>2. LastNumber(files, "comments") \in Nat /\ \A p \in DOMAIN files : p.dir = "comments" => p.seq <= LastNumber(files, "comments")
  BY <1>1, LastNumberIs
<1>3. IsFile(to) /\ to.dir = "comments" /\ to.seq = LastNumber(files, "comments") + 1
  <2>1. LastNumber(files, "comments") + 1 \in Nat
    BY <1>2
  <2>. QED BY <2>1, CommentPathIs
<1>4. \A p \in DOMAIN files : p.dir = to.dir => p.seq # to.seq
  <2>1. \A p \in DOMAIN files : p.seq \in Nat
    BY <1>1 DEF FilesOK, IsFile
  <2>. HIDE DEF to, files
  <2>. QED BY <2>1, <1>2, <1>3
<1>5. FilesOK(put) /\ Extends(files, put) /\ DOMAIN put = DOMAIN files \cup {to}
  <2>. HIDE DEF to, files
  <2>. QED BY <1>1, <1>3, <1>4, WithFile
<1>6. OneKind(files, put)
  <2>. HIDE DEF put, files, to
  <2>. QED BY <1>5 DEF OneKind
<1>. HIDE DEF put
<1>7. DOMAIN v = DOMAIN i /\ v.files = put /\ v.body = i.body
  BY DEF IssueOK
<1>. HIDE DEF v
<1>8. IssueOK(v)
  <2>1. \A p \in i.body.refs : p \in DOMAIN put /\ p.dir = "attachments"
    <3>1. \A p \in i.body.refs : p \in DOMAIN files /\ p.dir = "attachments"
      BY DEF IssueOK
    <3>. HIDE DEF files
    <3>. QED BY <3>1, <1>5
  <2>. QED BY <2>1, <1>5, <1>7 DEF IssueOK
<1>. QED BY <1>5, <1>6, <1>7, <1>8 DEF Adds, v, put, to, files

-----------------------------------------------------------------------------
\* The tree t with the issue v for id.
LEMMA PlacedIs ==
  ASSUME NEW t, TreeOK(t), NEW id, NEW v, IssueOK(v), NEW n, NEW gone,
         id \in DOMAIN t.issues => Adds(t.issues[id], v),
         id \notin DOMAIN t.issues => id = n
  PROVE  TreeOK(Placed(t, id, v)) /\ Continues(t, Placed(t, id, v), n, gone)
<1>. DEFINE u == Placed(t, id, v)
            issues == With(t.issues, id, v)
<1>1. DOMAIN issues = DOMAIN t.issues \cup {id} /\ issues[id] = v /\ \A x \in DOMAIN t.issues \ {id} : issues[x] = t.issues[x]
  BY DEF With
<1>. HIDE DEF issues
<1>2. DOMAIN u = {"issues", "order"} /\ u.issues = issues
  <2>1. u = [t EXCEPT !.issues = issues]
    BY DEF Placed, issues
  <2>. HIDE DEF u
  <2>. QED BY <2>1 DEF TreeOK
<1>. HIDE DEF u
<1>3. TreeOK(u)
  BY <1>1, <1>2 DEF TreeOK
<1>4. ASSUME NEW x \in DOMAIN t.issues \cap DOMAIN u.issues
      PROVE  /\ Extends(t.issues[x].files, u.issues[x].files)
             /\ OneKind(t.issues[x].files, u.issues[x].files)
  <2>1. CASE x = id
    BY <2>1, <1>1, <1>2 DEF Adds
  <2>2. CASE x # id
    BY <2>2, <1>1, <1>2, <1>4 DEF Extends, OneKind
  <2>. QED BY <2>1, <2>2
<1>5. Continues(t, u, n, gone)
  BY <1>1, <1>2, <1>4 DEF Continues
<1>. QED BY <1>3, <1>5 DEF u

\* The tree without an issue.
LEMMA DeletedIs ==
  ASSUME NEW t, TreeOK(t), NEW id, NEW n
  PROVE  TreeOK(Deleted(t, id)) /\ Continues(t, Deleted(t, id), n, {id})
<1>. DEFINE u == Deleted(t, id)
<1>1. /\ DOMAIN u = {"issues", "order"} /\ DOMAIN u.issues = DOMAIN t.issues \ {id}
      /\ \A x \in DOMAIN u.issues : u.issues[x] = t.issues[x]
  BY DEF Deleted
<1>. HIDE DEF u
<1>. QED BY <1>1 DEF TreeOK, Continues, Extends, OneKind, u

\* The tree in another order.
LEMMA ReorderedIs ==
  ASSUME NEW t, TreeOK(t), NEW id, NEW to, NEW n, NEW gone
  PROVE  TreeOK(Reordered(t, id, to)) /\ Continues(t, Reordered(t, id, to), n, gone)
<1>. DEFINE u == Reordered(t, id, to)
<1>1. DOMAIN u = {"issues", "order"} /\ u.issues = t.issues
  <2>. DEFINE order == Moved(Ordered(t), id, to)
  <2>1. u = [t EXCEPT !.order = order]
    BY DEF Reordered
  <2>. HIDE DEF u, order
  <2>. QED BY <2>1 DEF TreeOK
<1>. HIDE DEF u
<1>. QED BY <1>1 DEF TreeOK, Continues, Extends, OneKind, u

\* Every write goes on from the tree it was decided on.
LEMMA WrittenIs ==
  ASSUME NEW t, TreeOK(t), NEW op \in Writes(t), NEW n, n \notin DOMAIN t.issues
  PROVE  /\ TreeOK(Written(op, t, n))
         /\ Continues(t, Written(op, t, n), n, IF op.kind = "delete" THEN {op.id} ELSE {})
         /\ op.kind \in Kind
         /\ op.kind = "delete" => op.id \in DOMAIN t.issues
<1>1. CASE op \in [kind : {"file"}, names : {<< >>} \cup Attachments]
  <2>1. op.kind = "file" /\ op.names \in Seq(STRING)
    <3>1. op.names \in {<< >>} \cup Attachments /\ op.kind = "file"
      BY <1>1
    <3>2. << >> \in Seq(STRING)
      OBVIOUS
    <3>3. \A names \in Attachments : names \in Seq(STRING)
      BY IssuesAssumption
    <3>. QED BY <3>1, <3>2, <3>3
  <2>. DEFINE v == WithAttachments(NewIssue(n), op.names, n)
  <2>2. Adds(NewIssue(n), v)
    BY <2>1, NewIssueIs, WithAttachmentsIs
  <2>3. IssueOK(v)
    BY <2>2 DEF Adds
  <2>4. Written(op, t, n) = Placed(t, n, v)
    BY <2>1 DEF Written, Filed
  <2>5. TreeOK(Placed(t, n, v)) /\ Continues(t, Placed(t, n, v), n, {})
    <3>. HIDE DEF v
    <3>. QED BY <2>3, PlacedIs
  <2>. QED BY <2>1, <2>4, <2>5 DEF Kind
<1>2. CASE op \in [kind : {"edit"}, id : DOMAIN t.issues, field : {"title", "body"}]
  <2>1. op.kind = "edit" /\ op.id \in DOMAIN t.issues /\ op.field \in {"title", "body"}
    BY <1>2
  <2>. DEFINE i == t.issues[op.id]
              v == IF op.field = "title" THEN [i EXCEPT !.title = n] ELSE [i EXCEPT !.body.text = n]
  <2>2. IssueOK(i)
    BY <2>1 DEF TreeOK
  <2>3. Adds(i, v)
    <3>1. Adds(i, [i EXCEPT !.title = n]) /\ Adds(i, [i EXCEPT !.body.text = n])
      <4>. HIDE DEF i
      <4>. QED BY <2>2, EditedIs
    <3>. QED BY <3>1
  <2>4. Written(op, t, n) = Placed(t, op.id, v)
    BY <2>1 DEF Written, Updated
  <2>5. TreeOK(Placed(t, op.id, v)) /\ Continues(t, Placed(t, op.id, v), n, {})
    <3>1. IssueOK(v)
      BY <2>3 DEF Adds
    <3>. DEFINE id == op.id
    <3>2. id \in DOMAIN t.issues => Adds(t.issues[id], v)
      BY <2>3
    <3>. HIDE DEF v, id
    <3>. QED BY <3>1, <3>2, <2>1, PlacedIs DEF id
  <2>. QED BY <2>1, <2>4, <2>5 DEF Kind
<1>3. CASE op \in [kind : {"comment", "delete"}, id : DOMAIN t.issues]
  <2>1. op.kind \in {"comment", "delete"} /\ op.id \in DOMAIN t.issues
    BY <1>3
  <2>2. CASE op.kind = "delete"
    <3>1. Written(op, t, n) = Deleted(t, op.id)
      BY <2>2 DEF Written
    <3>. QED BY <2>1, <2>2, <3>1, DeletedIs DEF Kind
  <2>3. CASE op.kind = "comment"
    <3>. DEFINE i == t.issues[op.id]
                v == [i EXCEPT !.files = With(@, CommentPath(LastNumber(i.files, "comments") + 1), <<n, 0>>)]
    <3>2. IssueOK(i)
      BY <2>1 DEF TreeOK
    <3>3. Adds(i, v)
      <4>. HIDE DEF i
      <4>. QED BY <3>2, CommentedIs
    <3>4. Written(op, t, n) = Placed(t, op.id, v)
      BY <2>3 DEF Written, Updated
    <3>5. TreeOK(Placed(t, op.id, v)) /\ Continues(t, Placed(t, op.id, v), n, {})
      <4>1. IssueOK(v)
        BY <3>3 DEF Adds
      <4>. DEFINE id == op.id
      <4>2. id \in DOMAIN t.issues => Adds(t.issues[id], v)
        BY <3>3
      <4>. HIDE DEF v, id
      <4>. QED BY <4>1, <4>2, <2>1, PlacedIs DEF id
    <3>. QED BY <2>1, <2>3, <3>4, <3>5 DEF Kind
  <2>. QED BY <2>1, <2>2, <2>3
<1>4. CASE op \in [kind : {"attach"}, id : DOMAIN t.issues, names : Attachments]
  <2>1. op.kind = "attach" /\ op.id \in DOMAIN t.issues /\ op.names \in Seq(STRING)
    <3>1. op.kind = "attach" /\ op.id \in DOMAIN t.issues /\ op.names \in Attachments
      BY <1>4
    <3>. QED BY <3>1, IssuesAssumption
  <2>. DEFINE i == t.issues[op.id]
              v == WithAttachments(i, op.names, n)
  <2>2. IssueOK(i)
    BY <2>1 DEF TreeOK
  <2>3. Adds(i, v)
    <3>. HIDE DEF i
    <3>. QED BY <2>1, <2>2, WithAttachmentsIs
  <2>4. Written(op, t, n) = Placed(t, op.id, v)
    BY <2>1 DEF Written, Updated
  <2>5. TreeOK(Placed(t, op.id, v)) /\ Continues(t, Placed(t, op.id, v), n, {})
    <3>1. IssueOK(v)
      BY <2>3 DEF Adds
    <3>. DEFINE id == op.id
    <3>2. id \in DOMAIN t.issues => Adds(t.issues[id], v)
      BY <2>3
    <3>. HIDE DEF v, id
    <3>. QED BY <3>1, <3>2, <2>1, PlacedIs DEF id
  <2>. QED BY <2>1, <2>4, <2>5 DEF Kind
<1>5. CASE op \in [kind : {"move"}, id : DOMAIN t.issues, to : 1 .. Cardinality(DOMAIN t.issues)]
  <2>1. op.kind = "move"
    BY <1>5
  <2>2. Written(op, t, n) = Reordered(t, op.id, op.to)
    BY <2>1 DEF Written
  <2>. QED BY <2>1, <2>2, ReorderedIs DEF Kind
<1>. QED BY <1>1, <1>2, <1>3, <1>4, <1>5 DEF Writes

-----------------------------------------------------------------------------
(* Sequences of commits.                                                   *)

\* A sequence is known by its length and what stands in it.
IsHistory(h) == h \in Seq(ToSet(h))

\* Its length and its positions.
LEMMA HistoryIs ==
  ASSUME NEW h, IsHistory(h)
  PROVE  /\ Len(h) \in Nat /\ DOMAIN h = 1 .. Len(h) /\ h \in [1 .. Len(h) -> ToSet(h)]
         /\ h = << >> <=> Len(h) = 0
<1>. DEFINE S == ToSet(h)
<1>1. h \in Seq(S)
  BY DEF IsHistory
<1>. HIDE DEF S
<1>2. Len(h) \in Nat /\ DOMAIN h = 1 .. Len(h) /\ h \in [1 .. Len(h) -> S]
  BY <1>1, LenProperties
<1>3. h = << >> <=> Len(h) = 0
  BY <1>1, EmptySeq
<1>. QED BY <1>2, <1>3 DEF S

\* Every sequence is one.
LEMMA SeqIsHistory ==
  ASSUME NEW S, NEW h \in Seq(S)
  PROVE  IsHistory(h)
<1>1. h \in [1 .. Len(h) -> S] /\ Len(h) \in Nat /\ DOMAIN h = 1 .. Len(h)
  BY LenProperties
<1>2. \A i \in 1 .. Len(h) : h[i] \in ToSet(h)
  BY <1>1 DEF ToSet
<1>3. h \in [1 .. Len(h) -> ToSet(h)]
  BY <1>1, <1>2
<1>. QED BY <1>1, <1>3 DEF IsHistory

\* Two of one length with the same commits are the same.
LEMMA SameHistory ==
  ASSUME NEW a, IsHistory(a), NEW b, IsHistory(b), Len(a) = Len(b), \A i \in 1 .. Len(a) : a[i] = b[i]
  PROVE  a = b
<1>1. a \in [1 .. Len(a) -> ToSet(a)] /\ b \in [1 .. Len(b) -> ToSet(b)]
  BY HistoryIs
<1>. QED BY <1>1

\* A prefix, by its length and commits;
LEMMA PrefixIs ==
  ASSUME NEW h, IsHistory(h), NEW k \in 0 .. Len(h)
  PROVE  /\ IsHistory(SubSeq(h, 1, k)) /\ Len(SubSeq(h, 1, k)) = k
         /\ DOMAIN SubSeq(h, 1, k) = 1 .. k
         /\ \A i \in 1 .. k : SubSeq(h, 1, k)[i] = h[i]
<1>. DEFINE S == ToSet(h)
            p == SubSeq(h, 1, k)
<1>1. Len(h) \in Nat /\ h \in [1 .. Len(h) -> S]
  BY HistoryIs
<1>. HIDE DEF S
<1>2. \A i \in 1 .. k : h[i] \in S
  BY <1>1
<1>3. k \in Int /\ 1 \in Int /\ (IF 1 <= k THEN k - 1 + 1 ELSE 0) = k /\ k - 1 + 1 = k
  BY <1>1
<1>4. /\ p \in Seq(S) /\ Len(p) = IF 1 <= k THEN k - 1 + 1 ELSE 0
      /\ \A i \in 1 .. k - 1 + 1 : p[i] = h[1 + i - 1]
  BY <1>2, <1>3, SubSeqProperties
<1>5. \A i \in 1 .. k : p[i] = h[i]
  <2>1. TAKE i \in 1 .. k
  <2>2. 1 + i - 1 = i
    BY <1>3
  <2>. QED BY <1>3, <1>4, <2>2
<1>. HIDE DEF p
<1>6. Len(p) = k /\ IsHistory(p)
  BY <1>3, <1>4, SeqIsHistory
<1>. QED BY <1>5, <1>6, HistoryIs DEF p

\* the longest is all of it;
LEMMA WholePrefix ==
  ASSUME NEW h, IsHistory(h)
  PROVE  SubSeq(h, 1, Len(h)) = h
<1>1. Len(h) \in 0 .. Len(h)
  BY HistoryIs
<1>. DEFINE p == SubSeq(h, 1, Len(h))
<1>2. IsHistory(p) /\ Len(p) = Len(h) /\ \A i \in 1 .. Len(h) : p[i] = h[i]
  BY <1>1, PrefixIs
<1>. HIDE DEF p
<1>3. p = h
  BY <1>2, SameHistory
<1>. QED BY <1>3 DEF p

\* and two are the same where their commits are.
LEMMA SamePrefix ==
  ASSUME NEW a, IsHistory(a), NEW b, IsHistory(b), NEW k \in Nat, k <= Len(a), k <= Len(b)
  PROVE  SubSeq(a, 1, k) = SubSeq(b, 1, k) <=> \A i \in 1 .. k : a[i] = b[i]
<1>1. k \in 0 .. Len(a) /\ k \in 0 .. Len(b)
  BY HistoryIs
<1>. DEFINE p == SubSeq(a, 1, k)
            q == SubSeq(b, 1, k)
<1>5. IsHistory(p) /\ Len(p) = k /\ \A i \in 1 .. k : p[i] = a[i]
  BY <1>1, PrefixIs
<1>6. IsHistory(q) /\ Len(q) = k /\ \A i \in 1 .. k : q[i] = b[i]
  BY <1>1, PrefixIs
<1>2. /\ IsHistory(p) /\ Len(p) = k /\ \A i \in 1 .. k : p[i] = a[i]
      /\ IsHistory(q) /\ Len(q) = k /\ \A i \in 1 .. k : q[i] = b[i]
  BY <1>5, <1>6
<1>. HIDE DEF p, q
<1>3. ASSUME \A i \in 1 .. k : a[i] = b[i] PROVE p = q
  BY <1>2, <1>3, SameHistory
<1>4. ASSUME p = q PROVE \A i \in 1 .. k : a[i] = b[i]
  BY <1>2, <1>4
<1>. QED BY <1>3, <1>4 DEF p, q

\* One commit more.
LEMMA AppendIs ==
  ASSUME NEW h, IsHistory(h), NEW c
  PROVE  /\ IsHistory(Append(h, c)) /\ Len(Append(h, c)) = Len(h) + 1
         /\ DOMAIN Append(h, c) = 1 .. Len(h) + 1
         /\ \A i \in 1 .. Len(h) : Append(h, c)[i] = h[i]
         /\ Append(h, c)[Len(h) + 1] = c
<1>. DEFINE S == ToSet(h) \cup {c}
            g == Append(h, c)
<1>1. Len(h) \in Nat /\ h \in [1 .. Len(h) -> ToSet(h)]
  BY HistoryIs
<1>2. h \in [1 .. Len(h) -> S]
  BY <1>1
<1>3. h \in Seq(S) /\ c \in S
  <2>1. c \in S
    OBVIOUS
  <2>. HIDE DEF S
  <2>. QED BY <1>1, <1>2, <2>1
<1>. HIDE DEF S
<1>4. g \in Seq(S) /\ Len(g) = Len(h) + 1 /\ (\A i \in 1 .. Len(h) : g[i] = h[i]) /\ g[Len(h) + 1] = c
  BY <1>3, AppendProperties
<1>. HIDE DEF g
<1>5. IsHistory(g)
  BY <1>4, SeqIsHistory
<1>6. DOMAIN g = 1 .. Len(g)
  BY <1>5, HistoryIs
<1>. QED BY <1>4, <1>5, <1>6 DEF g

\* The tip is the tree after the last commit.
LEMMA TipIs ==
  ASSUME NEW h, IsHistory(h)
  PROVE  Tip(h) = TreeAt(h, Len(h))
BY HistoryIs DEF Tip, TreeAt, Last

\* Likewise of a prefix.
LEMMA TipOfPrefix ==
  ASSUME NEW h, IsHistory(h), NEW k \in 0 .. Len(h)
  PROVE  Tip(SubSeq(h, 1, k)) = TreeAt(h, k)
<1>. DEFINE p == SubSeq(h, 1, k)
<1>1. IsHistory(p) /\ Len(p) = k /\ \A i \in 1 .. k : p[i] = h[i]
  BY PrefixIs
<1>. HIDE DEF p
<1>2. Tip(p) = TreeAt(p, k)
  BY <1>1, TipIs
<1>3. k # 0 => k \in 1 .. k
  BY HistoryIs
<1>4. TreeAt(p, k) = TreeAt(h, k)
  BY <1>1, <1>3 DEF TreeAt
<1>. QED BY <1>2, <1>4 DEF p

-----------------------------------------------------------------------------
\* What the two have in common: the longest prefix of both.
LEMMA CommonIs ==
  ASSUME NEW a, IsHistory(a), NEW b, IsHistory(b)
  PROVE  /\ Common(a, b) \in Nat /\ Common(a, b) <= Len(a) /\ Common(a, b) <= Len(b)
         /\ \A i \in 1 .. Common(a, b) : a[i] = b[i]
         /\ Common(a, b) < Len(a) /\ Common(a, b) < Len(b) => a[Common(a, b) + 1] # b[Common(a, b) + 1]
         /\ Common(a, b) = Common(b, a)
<1>. DEFINE M == Min({Len(a), Len(b)})
            S == {n \in 1 .. M : SubSeq(a, 1, n) = SubSeq(b, 1, n)}
<1>1. Len(a) \in Nat /\ Len(b) \in Nat
  BY HistoryIs
<1>2. M \in Nat /\ M <= Len(a) /\ M <= Len(b) /\ (M = Len(a) \/ M = Len(b))
  <2>. DEFINE T == {Len(a), Len(b)}
  <2>1. \E x \in T : \A y \in T : x <= y
    BY <1>1
  <2>2. M \in T /\ \A y \in T : M <= y
    <3>1. M = CHOOSE x \in T : \A y \in T : x <= y
      BY DEF Min
    <3>. HIDE DEF T, M
    <3>. QED BY <2>1, <3>1
  <2>. HIDE DEF M
  <2>. QED BY <1>1, <2>2
<1>. HIDE DEF M
<1>3. \A n \in 1 .. M : n \in S <=> \A i \in 1 .. n : a[i] = b[i]
  <2>1. TAKE n \in 1 .. M
  <2>2. n \in Nat /\ n <= Len(a) /\ n <= Len(b)
    BY <1>1, <1>2
  <2>3. SubSeq(a, 1, n) = SubSeq(b, 1, n) <=> \A i \in 1 .. n : a[i] = b[i]
    BY <2>2, SamePrefix
  <2>. QED BY <2>3
<1>4. PICK c \in 0 .. M : /\ \A i \in 1 .. c : a[i] = b[i]
                          /\ c < M => a[c + 1] # b[c + 1]
  <2>. DEFINE D == {k \in 0 .. M : \E i \in 1 .. M : i <= k + 1 /\ a[i] # b[i]} \cup {M}
  <2>1. D \subseteq Nat /\ D # {}
    BY <1>2
  <2>2. PICK c \in D : \A y \in D : c <= y
    BY <2>1, Least
  <2>3. c \in 0 .. M
    BY <1>2
  <2>4. \A i \in 1 .. c : a[i] = b[i]
    <3>1. SUFFICES ASSUME NEW i \in 1 .. c, a[i] # b[i] PROVE FALSE
      OBVIOUS
    <3>2. i \in 1 .. M /\ i - 1 \in 0 .. M /\ i <= (i - 1) + 1 /\ i - 1 < c
      BY <1>2, <2>3
    <3>3. i - 1 \in D
      BY <3>1, <3>2
    <3>4. c <= i - 1
      BY <2>2, <3>3
    <3>. HIDE DEF D
    <3>. QED BY <3>2, <3>4, <2>3
  <2>5. ASSUME c < M PROVE a[c + 1] # b[c + 1]
    <3>1. PICK i \in 1 .. M : i <= c + 1 /\ a[i] # b[i]
      BY <2>5, <1>2
    <3>2. i \notin 1 .. c
      BY <2>4, <3>1
    <3>3. i = c + 1
      BY <3>1, <3>2, <2>3, <1>2
    <3>. QED BY <3>1, <3>3
  <2>. QED BY <2>3, <2>4, <2>5
<1>5. S = 1 .. c
  <2>1. ASSUME NEW n \in 1 .. M, n \in S PROVE n \in 1 .. c
    <3>1. \A i \in 1 .. n : a[i] = b[i]
      BY <2>1, <1>3
    <3>2. c < n => c < M /\ c + 1 \in 1 .. n
      BY <1>2, <1>4
    <3>3. ~(c < n)
      BY <3>1, <3>2, <1>4
    <3>. QED BY <3>3, <1>2, <1>4
  <2>2. ASSUME NEW n \in 1 .. c PROVE n \in S
    <3>1. n \in 1 .. M /\ \A i \in 1 .. n : i \in 1 .. c
      BY <1>2, <1>4
    <3>2. \A i \in 1 .. n : a[i] = b[i]
      BY <3>1, <1>4
    <3>. HIDE DEF S
    <3>. QED BY <3>1, <3>2, <1>3
  <2>. QED BY <2>1, <2>2
<1>6. Cardinality(1 .. c) = c
  <2>1. Cardinality(1 .. c) = IF 1 > c THEN 0 ELSE c - 1 + 1
    BY <1>2, <1>4, FS_Interval
  <2>. QED BY <2>1, <1>2, <1>4
<1>7. Common(a, b) = c
  <2>1. Common(a, b) = Cardinality(S)
    BY DEF Common, M
  <2>. HIDE DEF S
  <2>. QED BY <2>1, <1>5, <1>6
<1>8. Common(b, a) = Common(a, b)
  <2>1. {Len(a), Len(b)} = {Len(b), Len(a)}
    OBVIOUS
  <2>2. Common(b, a) = Cardinality({n \in 1 .. M : SubSeq(b, 1, n) = SubSeq(a, 1, n)})
    BY <2>1 DEF Common, M
  <2>3. {n \in 1 .. M : SubSeq(b, 1, n) = SubSeq(a, 1, n)} = S
    OBVIOUS
  <2>4. Common(a, b) = Cardinality(S)
    BY DEF Common, M
  <2>. HIDE DEF S
  <2>. QED BY <2>2, <2>3, <2>4
<1>9. c \in Nat /\ c <= Len(a) /\ c <= Len(b) /\ (c < Len(a) /\ c < Len(b) => c < M)
  BY <1>1, <1>2, <1>4
<1>. HIDE DEF S
<1>. QED BY <1>4, <1>7, <1>8, <1>9

-----------------------------------------------------------------------------
(* Queues whose every commit goes on from the one before.                  *)

\* What such a queue is, by its positions;
LEMMA HistoryOKIs ==
  ASSUME NEW h, NEW gone, HistoryOK(h, gone)
  PROVE  /\ IsHistory(h) /\ Len(h) \in Nat /\ DOMAIN h = 1 .. Len(h)
         /\ \A k \in 1 .. Len(h) : Continues(TreeAt(h, k - 1), TreeAt(h, k), h[k].n, gone)
         /\ \A k \in 0 .. Len(h) : TreeOK(TreeAt(h, k))
         /\ \A j, k \in 1 .. Len(h) : h[j].n = h[k].n => j = k
<1>1. IsHistory(h)
  BY DEF HistoryOK, IsHistory
<1>2. Len(h) \in Nat /\ DOMAIN h = 1 .. Len(h)
  BY <1>1, HistoryIs
<1>3. \A k \in 1 .. Len(h) : k # 0 /\ TreeAt(h, k) = h[k].tree
  BY <1>2 DEF TreeAt
<1>4. TreeOK(NoTree)
  BY DEF NoTree, TreeOK
<1>5. \A k \in 0 .. Len(h) : TreeOK(TreeAt(h, k))
  <2>1. TAKE k \in 0 .. Len(h)
  <2>2. CASE k = 0
    BY <2>2, <1>4 DEF TreeAt
  <2>3. CASE k # 0
    <3>1. k \in 1 .. Len(h)
      BY <2>3, <1>2
    <3>. QED BY <3>1, <1>2, <1>3 DEF HistoryOK
  <2>. QED BY <2>2, <2>3
<1>6. \A k \in 1 .. Len(h) : Continues(TreeAt(h, k - 1), TreeAt(h, k), h[k].n, gone)
  BY <1>2, <1>3 DEF HistoryOK
<1>7. \A j, k \in 1 .. Len(h) : h[j].n = h[k].n => j = k
  BY <1>2 DEF HistoryOK
<1>. QED BY <1>1, <1>2, <1>5, <1>6, <1>7

\* and the other way.
LEMMA IsHistoryOK ==
  ASSUME NEW h, NEW gone, IsHistory(h),
         \A j, k \in 1 .. Len(h) : h[j].n = h[k].n => j = k,
         \A k \in 1 .. Len(h) : TreeOK(h[k].tree) /\ Continues(TreeAt(h, k - 1), h[k].tree, h[k].n, gone)
  PROVE  HistoryOK(h, gone)
BY HistoryIs DEF HistoryOK, IsHistory

\* An issue is the commit's that filed it, and there ever since.
LEMMA Born ==
  ASSUME NEW h, NEW gone, HistoryOK(h, gone), NEW k \in 0 .. Len(h), NEW id \in IdsAt(h, k)
  PROVE  \E b \in 1 .. k : h[b].n = id /\ \A j \in b .. k : id \in IdsAt(h, j)
<1>. DEFINE Q(x) == \A i \in IdsAt(h, x) : \E b \in 1 .. x : h[b].n = i /\ \A j \in b .. x : i \in IdsAt(h, j)
            T == {x \in 0 .. Len(h) : Q(x)}
<1>1. Len(h) \in Nat
  BY HistoryOKIs
<1>2. 0 \in T
  <2>1. IdsAt(h, 0) = {}
    BY DEF IdsAt, TreeAt, NoTree
  <2>. QED BY <1>1, <2>1
<1>3. \A x \in 0 .. Len(h) - 1 : x \in T => x + 1 \in T
  <2>1. SUFFICES ASSUME NEW x \in 0 .. Len(h) - 1, Q(x), NEW i \in IdsAt(h, x + 1)
                 PROVE  \E b \in 1 .. x + 1 : h[b].n = i /\ \A j \in b .. x + 1 : i \in IdsAt(h, j)
    BY <1>1
  <2>2. x + 1 \in 1 .. Len(h) /\ (x + 1) - 1 = x
    BY <1>1
  <2>3. Continues(TreeAt(h, x), TreeAt(h, x + 1), h[x + 1].n, gone)
    <3>1. Continues(TreeAt(h, (x + 1) - 1), TreeAt(h, x + 1), h[x + 1].n, gone)
      BY <2>2, HistoryOKIs
    <3>. QED BY <3>1, <2>2
  <2>4. CASE i \in IdsAt(h, x)
    <3>1. PICK b \in 1 .. x : h[b].n = i /\ \A j \in b .. x : i \in IdsAt(h, j)
      BY <2>1, <2>4
    <3>2. b \in 1 .. x + 1 /\ \A j \in b .. x + 1 : j \in b .. x \/ j = x + 1
      OBVIOUS
    <3>. QED BY <3>1, <3>2, <2>1
  <2>5. CASE i \notin IdsAt(h, x)
    <3>1. i = h[x + 1].n
      BY <2>1, <2>3, <2>5 DEF Continues, IdsAt
    <3>2. x + 1 \in 1 .. x + 1 /\ \A j \in x + 1 .. x + 1 : j = x + 1
      OBVIOUS
    <3>. QED BY <3>1, <3>2, <2>1
  <2>. QED BY <2>4, <2>5
<1>4. \A x \in 0 .. Len(h) : x \in T
  <2>1. 0 \in Nat
    OBVIOUS
  <2>. HIDE DEF T
  <2>. QED BY <1>1, <1>2, <1>3, <2>1, InductedUpTo
<1>. QED BY <1>4

\* So an issue has the number of a commit.
LEMMA HeldNumbered ==
  ASSUME NEW h, NEW gone, HistoryOK(h, gone), NEW k \in 0 .. Len(h)
  PROVE  \A id \in IdsAt(h, k) : id \in Numbered(h)
<1>1. TAKE id \in IdsAt(h, k)
<1>2. PICK b \in 1 .. k : h[b].n = id
  BY Born
<1>3. b \in DOMAIN h
  BY HistoryOKIs
<1>. QED BY <1>2, <1>3 DEF Numbered

\* Nobody has it before.
LEMMA Unborn ==
  ASSUME NEW h, NEW gone, HistoryOK(h, gone), NEW k \in 1 .. Len(h), NEW j \in 0 .. k - 1
  PROVE  h[k].n \notin IdsAt(h, j)
<1>1. SUFFICES ASSUME h[k].n \in IdsAt(h, j) PROVE FALSE
  OBVIOUS
<1>2. Len(h) \in Nat /\ j \in 0 .. Len(h)
  BY HistoryOKIs
<1>3. PICK b \in 1 .. j : h[b].n = h[k].n
  BY <1>1, <1>2, Born
<1>4. b \in 1 .. Len(h) /\ b # k
  BY <1>2
<1>. QED BY <1>3, <1>4, HistoryOKIs

\* What is there early and late is there between.
LEMMA Between ==
  ASSUME NEW h, NEW gone, HistoryOK(h, gone),
         NEW k \in 0 .. Len(h), NEW l \in 0 .. k, NEW j \in 0 .. l,
         NEW id \in IdsAt(h, j), id \in IdsAt(h, k)
  PROVE  id \in IdsAt(h, l)
<1>1. Len(h) \in Nat /\ j \in 0 .. Len(h)
  BY HistoryOKIs
<1>2. PICK b \in 1 .. k : h[b].n = id /\ \A x \in b .. k : id \in IdsAt(h, x)
  BY Born
<1>3. PICK c \in 1 .. j : h[c].n = id
  BY <1>1, Born
<1>4. b \in 1 .. Len(h) /\ c \in 1 .. Len(h)
  BY <1>1
<1>5. b = c
  BY <1>2, <1>3, <1>4, HistoryOKIs
<1>6. l \in b .. k
  BY <1>1, <1>5
<1>. QED BY <1>2, <1>6

\* What nobody deletes stays.
LEMMA Stays ==
  ASSUME NEW h, NEW gone, HistoryOK(h, gone),
         NEW k \in 0 .. Len(h), NEW j \in 0 .. k, NEW id \in IdsAt(h, j), id \notin gone
  PROVE  id \in IdsAt(h, k)
<1>. DEFINE T == {x \in j .. k : id \in IdsAt(h, x)}
<1>1. Len(h) \in Nat /\ j \in Nat /\ k \in Nat /\ j <= k /\ k <= Len(h)
  BY HistoryOKIs
<1>2. j \in T
  BY <1>1
<1>3. \A x \in j .. k - 1 : x \in T => x + 1 \in T
  <2>1. SUFFICES ASSUME NEW x \in j .. k - 1, id \in IdsAt(h, x) PROVE id \in IdsAt(h, x + 1)
    BY <1>1
  <2>2. x + 1 \in 1 .. Len(h) /\ (x + 1) - 1 = x
    BY <1>1
  <2>3. Continues(TreeAt(h, x), TreeAt(h, x + 1), h[x + 1].n, gone)
    <3>1. Continues(TreeAt(h, (x + 1) - 1), TreeAt(h, x + 1), h[x + 1].n, gone)
      BY <2>2, HistoryOKIs
    <3>. QED BY <3>1, <2>2
  <2>. QED BY <2>1, <2>3 DEF Continues, IdsAt
<1>4. \A x \in j .. k : x \in T
  <2>. HIDE DEF T
  <2>. QED BY <1>1, <1>2, <1>3, InductedUpTo
<1>. QED BY <1>1, <1>4

\* The files of an issue stay while it does.
LEMMA FilesStay ==
  ASSUME NEW h, NEW gone, HistoryOK(h, gone),
         NEW k \in 0 .. Len(h), NEW j \in 0 .. k, NEW id \in IdsAt(h, j), id \in IdsAt(h, k)
  PROVE  Extends(TreeAt(h, j).issues[id].files, TreeAt(h, k).issues[id].files)
<1>. DEFINE F(x) == TreeAt(h, x).issues[id].files
            T == {x \in j .. k : Extends(F(j), F(x))}
<1>1. Len(h) \in Nat /\ j \in Nat /\ k \in Nat /\ j <= k /\ k <= Len(h)
  BY HistoryOKIs
<1>2. j \in T
  BY <1>1 DEF Extends
<1>3. \A x \in j .. k - 1 : x \in T => x + 1 \in T
  <2>1. SUFFICES ASSUME NEW x \in j .. k - 1, Extends(F(j), F(x)) PROVE Extends(F(j), F(x + 1))
    BY <1>1
  <2>2. x + 1 \in 1 .. Len(h) /\ (x + 1) - 1 = x /\ x \in 0 .. k /\ j \in 0 .. x /\ x + 1 \in 0 .. k /\ j \in 0 .. x + 1
    BY <1>1
  <2>3. id \in IdsAt(h, x) /\ id \in IdsAt(h, x + 1)
    BY <2>2, Between
  <2>4. Continues(TreeAt(h, x), TreeAt(h, x + 1), h[x + 1].n, gone)
    <3>1. Continues(TreeAt(h, (x + 1) - 1), TreeAt(h, x + 1), h[x + 1].n, gone)
      BY <2>2, HistoryOKIs
    <3>. QED BY <3>1, <2>2
  <2>5. Extends(F(x), F(x + 1))
    BY <2>3, <2>4 DEF Continues, IdsAt
  <2>. HIDE DEF F
  <2>. QED BY <2>1, <2>5, ExtendsOn
<1>4. \A x \in j .. k : x \in T
  <2>. HIDE DEF T
  <2>. QED BY <1>1, <1>2, <1>3, InductedUpTo
<1>. QED BY <1>1, <1>4

\* The empty queue, a prefix and one commit more are such queues.
LEMMA NoneOK ==
  ASSUME NEW gone
  PROVE  HistoryOK(<< >>, gone)
<1>1. << >> \in Seq({}) /\ Len(<< >>) = 0
  OBVIOUS
<1>2. IsHistory(<< >>)
  BY <1>1, SeqIsHistory
<1>. QED BY <1>1, <1>2, IsHistoryOK

\* A prefix is one.
LEMMA PrefixOK ==
  ASSUME NEW h, NEW gone, HistoryOK(h, gone), NEW k \in 0 .. Len(h)
  PROVE  HistoryOK(SubSeq(h, 1, k), gone)
<1>. DEFINE p == SubSeq(h, 1, k)
<1>1. IsHistory(h) /\ Len(h) \in Nat
  BY HistoryOKIs
<1>2. IsHistory(p) /\ Len(p) = k /\ \A i \in 1 .. k : p[i] = h[i]
  BY <1>1, PrefixIs
<1>. HIDE DEF p
<1>3. \A i \in 1 .. k : i \in 1 .. Len(h)
  BY <1>1
<1>4. \A i, j \in 1 .. k : p[i].n = p[j].n => i = j
  <2>1. \A i, j \in 1 .. k : h[i].n = h[j].n => i = j
    BY <1>3, HistoryOKIs
  <2>. QED BY <1>2, <2>1
<1>5. ASSUME NEW i \in 1 .. k
      PROVE  TreeOK(p[i].tree) /\ Continues(TreeAt(p, i - 1), p[i].tree, p[i].n, gone)
  <2>1. TreeAt(p, i - 1) = TreeAt(h, i - 1)
    <3>1. i - 1 # 0 => i - 1 \in 1 .. k
      BY <1>1
    <3>. QED BY <3>1, <1>2 DEF TreeAt
  <2>2. i \in 1 .. Len(h) /\ DOMAIN h = 1 .. Len(h)
    BY <1>3, HistoryOKIs
  <2>3. p[i] = h[i]
    BY <1>2
  <2>. QED BY <2>1, <2>2, <2>3 DEF HistoryOK
<1>. QED BY <1>2, <1>4, <1>5, IsHistoryOK DEF p

\* With a commit that goes on from its tip it is one still.
LEMMA AppendOK ==
  ASSUME NEW h, NEW gone, HistoryOK(h, gone), NEW n, n \notin Numbered(h),
         NEW u, TreeOK(u), Continues(Tip(h), u, n, gone)
  PROVE  HistoryOK(Append(h, [n |-> n, tree |-> u]), gone)
<1>. DEFINE c == [n |-> n, tree |-> u]
            a == Append(h, c)
<1>1. IsHistory(h) /\ Len(h) \in Nat /\ DOMAIN h = 1 .. Len(h)
  BY HistoryOKIs
<1>2. c.n = n /\ c.tree = u
  OBVIOUS
<1>. HIDE DEF c
<1>3. IsHistory(a) /\ Len(a) = Len(h) + 1 /\ (\A i \in 1 .. Len(h) : a[i] = h[i]) /\ a[Len(h) + 1] = c
  BY <1>1, AppendIs
<1>. HIDE DEF a
<1>4. \A i \in 1 .. Len(h) : h[i].n # n
  BY <1>1 DEF Numbered
<1>5. \A i \in 1 .. Len(a) : i \in 1 .. Len(h) \/ i = Len(h) + 1
  BY <1>1, <1>3
<1>6. \A i, j \in 1 .. Len(h) : h[i].n = h[j].n => i = j
  BY HistoryOKIs
<1>7. ASSUME NEW i \in 1 .. Len(a), NEW j \in 1 .. Len(a), a[i].n = a[j].n PROVE i = j
  <2>1. CASE i \in 1 .. Len(h) /\ j \in 1 .. Len(h)
    BY <2>1, <1>3, <1>6, <1>7
  <2>2. CASE i \in 1 .. Len(h) /\ j = Len(h) + 1
    BY <2>2, <1>2, <1>3, <1>4, <1>7
  <2>3. CASE i = Len(h) + 1 /\ j \in 1 .. Len(h)
    BY <2>3, <1>2, <1>3, <1>4, <1>7
  <2>. QED BY <1>5, <2>1, <2>2, <2>3
<1>8. ASSUME NEW i \in 1 .. Len(a)
      PROVE  TreeOK(a[i].tree) /\ Continues(TreeAt(a, i - 1), a[i].tree, a[i].n, gone)
  <2>1. TreeAt(a, i - 1) = TreeAt(h, i - 1)
    <3>1. i - 1 # 0 => i - 1 \in 1 .. Len(h)
      BY <1>1, <1>3
    <3>. QED BY <3>1, <1>3 DEF TreeAt
  <2>2. CASE i \in 1 .. Len(h)
    BY <2>1, <2>2, <1>1, <1>3 DEF HistoryOK
  <2>3. CASE i = Len(h) + 1
    <3>1. TreeAt(h, i - 1) = Tip(h)
      BY <2>3, <1>1, TipIs
    <3>. QED BY <2>1, <2>3, <3>1, <1>2, <1>3
  <2>. QED BY <1>5, <2>2, <2>3
<1>. QED BY <1>3, <1>7, <1>8, IsHistoryOK DEF a, c

\* It is one still when more is deleted.
LEMMA MoreGone ==
  ASSUME NEW h, NEW gone, HistoryOK(h, gone), NEW more, gone \subseteq more
  PROVE  HistoryOK(h, more)
<1>1. \A t, u, n : Continues(t, u, n, gone) => Continues(t, u, n, more)
  BY DEF Continues
<1>. QED BY <1>1 DEF HistoryOK

-----------------------------------------------------------------------------
(* One commit replayed.                                                    *)

\* Every file of f is found among files, of what a replay moved.
LandedAll(f, moved, files) ==
    /\ DOMAIN moved \subseteq DOMAIN f
    /\ \A p \in DOMAIN f : Landed(p, f[p], moved, files)

\* One issue of a commit replayed: what the replay had of it and what the
\* commit adds are both there.
LEMMA ReplayIssueIs ==
  ASSUME NEW before, NEW after, NEW theirs, NEW moved,
         IssueOK(after), IssueOK(theirs), Extends(before.files, after.files), OneKind(before.files, after.files),
         LandedAll(before.files, moved, theirs.files)
  PROVE  /\ Adds(theirs, ReplayIssue(before, after, theirs, moved).issue)
         /\ LandedAll(after.files, ReplayIssue(before, after, theirs, moved).moved,
                      ReplayIssue(before, after, theirs, moved).issue.files)
<1>. DEFINE new == DOMAIN after.files \ DOMAIN before.files
            blobs == after.files
            r == [files |-> theirs.files, moved |-> moved]
            put == PutFiles(new, blobs, r)
<1>1. FilesOK(blobs) /\ FilesOK(theirs.files)
  BY DEF IssueOK
<1>2. r.files = theirs.files /\ r.moved = moved
  OBVIOUS
<1>3. IsFiniteSet(new) /\ new \subseteq DOMAIN blobs
  <2>1. IsFiniteSet(DOMAIN blobs)
    BY <1>1 DEF FilesOK
  <2>. QED BY <2>1, FS_Difference
<1>4. \A p \in new : IsFile(p) /\ p \notin DOMAIN moved
  <2>1. \A p \in DOMAIN blobs : IsFile(p)
    BY <1>1 DEF FilesOK
  <2>. QED BY <2>1 DEF LandedAll
<1>5. PICK dir : \A p \in new : p.dir = dir
  <2>1. CASE new = {}
    <3>1. \A p \in new : p.dir = "none"
      BY <2>1
    <3>. QED BY <3>1
  <2>2. CASE new # {}
    <3>1. PICK q \in new : TRUE
      BY <2>2
    <3>2. \A p \in new : p.dir = q.dir
      BY DEF OneKind
    <3>. QED BY <3>2
  <2>. QED BY <2>1, <2>2
<1>6. \A p, q \in new : p.seq = q.seq => p = q
  <2>1. \A p, q \in DOMAIN blobs : p.dir = q.dir /\ p.seq = q.seq => p = q
    BY <1>1 DEF FilesOK
  <2>. HIDE DEF new, blobs
  <2>. QED BY <2>1, <1>3, <1>5
<1>7. /\ FilesOK(put.files) /\ Extends(theirs.files, put.files)
      /\ \A q \in DOMAIN put.files \ DOMAIN theirs.files : q.dir = dir
      /\ \A p \in new : Landed(p, blobs[p], put.moved, put.files)
      /\ DOMAIN moved \subseteq DOMAIN put.moved
      /\ DOMAIN put.moved \subseteq DOMAIN moved \cup new
      /\ \A q \in DOMAIN moved : put.moved[q] = moved[q]
  <2>. HIDE DEF new, blobs, r
  <2>1. FilesOK(r.files)
    BY <1>1, <1>2
  <2>2. \A p \in new : IsFile(p) /\ p \notin DOMAIN r.moved
    BY <1>2, <1>4
  <2>3. NewFiles(new, r, dir)
    BY <2>1, <2>2, <1>3, <1>5, <1>6 DEF NewFiles
  <2>4. FilesPut(new, blobs, r, dir, put)
    <3>. HIDE DEF put
    <3>. QED BY <2>3, PutFilesIs DEF put
  <2>. HIDE DEF put
  <2>. QED BY <2>4, <1>2 DEF FilesPut
<1>. DEFINE went == put.moved
            files == put.files
<1>. HIDE DEF put
<1>8. LandedAll(blobs, went, files)
  <2>1. DOMAIN before.files \subseteq DOMAIN blobs
    BY DEF Extends
  <2>2. DOMAIN went \subseteq DOMAIN blobs
    BY <1>3, <1>7, <2>1 DEF LandedAll
  <2>3. ASSUME NEW p \in DOMAIN blobs PROVE Landed(p, blobs[p], went, files)
    <3>1. CASE p \in new
      BY <3>1, <1>7
    <3>2. CASE p \notin new
      <4>1. p \in DOMAIN before.files /\ blobs[p] = before.files[p]
        BY <3>2, <2>3 DEF Extends
      <4>2. Landed(p, blobs[p], moved, theirs.files)
        BY <4>1 DEF LandedAll
      <4>3. Landed(p, blobs[p], moved, files)
        <5>. HIDE DEF blobs, files
        <5>. QED BY <4>2, <1>7, LandedOn DEF files
      <4>4. p \in DOMAIN went <=> p \in DOMAIN moved
        BY <3>2, <1>7
      <4>5. p \in DOMAIN moved => went[p] = moved[p]
        BY <1>7
      <4>. HIDE DEF blobs, went, files
      <4>. QED BY <4>3, <4>4, <4>5 DEF Landed
    <3>. QED BY <3>1, <3>2
  <2>. HIDE DEF blobs, went, files
  <2>. QED BY <2>2, <2>3 DEF LandedAll
<1>. DEFINE text == IF Text(theirs) # Text(before)
                    THEN Merged(Text(before), Text(after), Text(theirs))
                    ELSE Text(after)
            body == [text.body EXCEPT !.refs = Followed(@, went)]
            v == ReplayIssue(before, after, theirs, moved)
<1>9. v = [issue |-> [title |-> text.title, body |-> body, files |-> files], moved |-> went]
  BY DEF ReplayIssue, put
<1>10. text.body = after.body \/ text.body = theirs.body
  BY DEF Text, Merged, Pick
<1>. HIDE DEF text
<1>11. DOMAIN text.body = {"text", "refs"}
  BY <1>10 DEF IssueOK
<1>. DEFINE refs == text.body.refs
<1>12. \A p \in refs : p.dir = "attachments" /\ (p \in DOMAIN went \/ p \in DOMAIN files)
  <2>1. CASE text.body = after.body
    <3>1. \A p \in refs : p \in DOMAIN blobs /\ p.dir = "attachments"
      BY <2>1 DEF IssueOK
    <3>2. \A p \in DOMAIN blobs : p \in DOMAIN went \/ p \in DOMAIN files
      <4>. HIDE DEF blobs, went, files
      <4>. QED BY <1>8 DEF LandedAll, Landed
    <3>. HIDE DEF blobs, went, files
    <3>. QED BY <3>1, <3>2
  <2>2. CASE text.body = theirs.body
    <3>1. \A p \in refs : p \in DOMAIN theirs.files /\ p.dir = "attachments"
      BY <2>2 DEF IssueOK
    <3>2. DOMAIN theirs.files \subseteq DOMAIN files
      BY <1>7 DEF Extends
    <3>. QED BY <3>1, <3>2
  <2>. QED BY <1>10, <2>1, <2>2
<1>13. \A p \in DOMAIN went : went[p] \in DOMAIN files /\ went[p].dir = p.dir
  <2>. HIDE DEF blobs, went, files
  <2>. QED BY <1>8 DEF LandedAll, Landed
<1>14. \A q \in Followed(refs, went) : q \in DOMAIN files /\ q.dir = "attachments"
  <2>1. DOMAIN went \subseteq DOMAIN blobs
    BY <1>8 DEF LandedAll
  <2>. HIDE DEF blobs, went, files, refs
  <2>. QED BY <2>1, <1>1, <1>12, <1>13, FollowedIs
<1>15. DOMAIN body = {"text", "refs"} /\ body.refs = Followed(refs, went)
  <2>. HIDE DEF went
  <2>. QED BY <1>11
<1>16. FilesOK(files) /\ Extends(theirs.files, files) /\ OneKind(theirs.files, files)
  BY <1>7 DEF OneKind
<1>. HIDE DEF body, files, went
<1>17. /\ v.moved = went /\ v.issue.files = files /\ v.issue.body = body
       /\ DOMAIN v.issue = {"title", "body", "files"}
  BY <1>9
<1>. HIDE DEF v
<1>18. IssueOK(v.issue)
  BY <1>14, <1>15, <1>16, <1>17 DEF IssueOK
<1>19. Adds(theirs, v.issue)
  BY <1>16, <1>17, <1>18 DEF Adds
<1>. QED BY <1>8, <1>17, <1>19 DEF v

-----------------------------------------------------------------------------
\* What was moved of an issue's files.
MovedOf(moved, id) == IF id \in DOMAIN moved THEN moved[id] ELSE << >>

\* What the replay r has of this machine's tree t: every issue of it but
\* the deleted, and every file of these.
Carried(t, tree, moved, gone) ==
    /\ TreeOK(tree)
    /\ DOMAIN t.issues \ DOMAIN tree.issues \subseteq gone
    /\ \A id \in DOMAIN t.issues \cap DOMAIN tree.issues :
          LandedAll(t.issues[id].files, MovedOf(moved, id), tree.issues[id].files)

\* A commit replayed goes on from what the replay had, and is carried.
LEMMA ReplayCommitIs ==
  ASSUME NEW before, NEW after, NEW r, NEW n, NEW gone,
         TreeOK(after), Continues(before, after, n, gone), Carried(before, r.tree, r.moved, gone),
         n \notin DOMAIN before.issues, n \notin DOMAIN r.tree.issues,
         NEW done, done = ReplayCommit(before, after, r)
  PROVE  /\ Carried(after, done.tree, done.moved, gone)
         /\ Continues(r.tree, done.tree, n, gone)
         /\ DOMAIN done.tree.issues \cap DOMAIN before.issues \subseteq DOMAIN after.issues
         /\ DOMAIN done.tree.issues \ DOMAIN after.issues \subseteq DOMAIN r.tree.issues
<1>. DEFINE had == DOMAIN before.issues
            has == DOMAIN after.issues
            held == DOMAIN r.tree.issues
            changed == {id \in has : id \notin had \/ after.issues[id] # before.issues[id]}
            lost == had \ has
            put == {id \in changed : ~(id \in had /\ id \notin held)}
            one(id) == ReplayIssue(before.issues[id], after.issues[id], r.tree.issues[id], MovedOf(r.moved, id))
            each == [id \in put |->
                       IF id \in held THEN one(id) ELSE [issue |-> after.issues[id], moved |-> << >>]]
            issues == [id \in (held \cup put) \ lost |-> IF id \in put THEN each[id].issue ELSE r.tree.issues[id]]
            moved == Beside([id \in put |-> each[id].moved], r.moved)
<1>1. done.tree.issues = issues /\ done.moved = moved /\ DOMAIN done.tree = {"issues", "order"}
  BY DEF ReplayCommit, Dropped, MovedOf
<1>2. /\ has \ had \subseteq {n} /\ lost \subseteq gone
      /\ \A id \in had \cap has : /\ Extends(before.issues[id].files, after.issues[id].files)
                                  /\ OneKind(before.issues[id].files, after.issues[id].files)
  BY DEF Continues
<1>3. /\ TreeOK(r.tree) /\ had \ held \subseteq gone
      /\ \A id \in had \cap held :
           LandedAll(before.issues[id].files, MovedOf(r.moved, id), r.tree.issues[id].files)
  BY DEF Carried
<1>4. DOMAIN issues = (held \cup put) \ lost
  OBVIOUS
<1>5. \A id \in DOMAIN issues : issues[id] = IF id \in put THEN each[id].issue ELSE r.tree.issues[id]
  OBVIOUS
<1>6. \A id : MovedOf(moved, id) = IF id \in put THEN each[id].moved ELSE MovedOf(r.moved, id)
  <2>. HIDE DEF put, each
  <2>. QED BY DEF Beside, MovedOf
<1>7. ASSUME NEW id \in put
      PROVE  \/ /\ id \in held /\ id \in had /\ id \in has
                /\ Adds(r.tree.issues[id], each[id].issue)
                /\ LandedAll(after.issues[id].files, each[id].moved, each[id].issue.files)
             \/ /\ id \notin held /\ id = n /\ id \in has
                /\ IssueOK(each[id].issue)
                /\ LandedAll(after.issues[id].files, each[id].moved, each[id].issue.files)
  <2>1. id \in has /\ IssueOK(after.issues[id])
    BY DEF TreeOK
  <2>2. CASE id \in held
    <3>1. id \in had
      BY <2>1, <2>2, <1>2
    <3>2. each[id] = one(id)
      BY <2>2
    <3>3. IssueOK(r.tree.issues[id])
      BY <2>2, <1>3 DEF TreeOK
    <3>. DEFINE b == before.issues[id]
                a == after.issues[id]
                t == r.tree.issues[id]
                m == MovedOf(r.moved, id)
    <3>4. /\ Extends(b.files, a.files) /\ OneKind(b.files, a.files)
          /\ LandedAll(b.files, m, t.files)
      BY <2>1, <2>2, <3>1, <1>2, <1>3
    <3>. HIDE DEF b, a, t, m
    <3>5. /\ Adds(t, ReplayIssue(b, a, t, m).issue)
          /\ LandedAll(a.files, ReplayIssue(b, a, t, m).moved, ReplayIssue(b, a, t, m).issue.files)
      BY <2>1, <3>3, <3>4, ReplayIssueIs DEF a, t
    <3>6. one(id) = ReplayIssue(b, a, t, m)
      BY DEF a, b, t, m
    <3>. HIDE DEF one, each
    <3>. QED BY <2>1, <2>2, <3>1, <3>2, <3>5, <3>6 DEF a, t
  <2>3. CASE id \notin held
    <3>1. id \notin had
      BY <2>3
    <3>2. each[id] = [issue |-> after.issues[id], moved |-> << >>]
      BY <2>3
    <3>3. each[id].issue = after.issues[id] /\ each[id].moved = << >>
      BY <3>2
    <3>. HIDE DEF each
    <3>4. LandedAll(after.issues[id].files, each[id].moved, each[id].issue.files)
      BY <3>3 DEF LandedAll, Landed
    <3>. QED BY <2>1, <2>3, <3>1, <3>3, <3>4, <1>2
  <2>. QED BY <2>2, <2>3
<1>8. put \subseteq has
  OBVIOUS
<1>9. \A id \in has \cap held : id \notin put => id \in had /\ after.issues[id] = before.issues[id]
  BY <1>2
<1>10. \A id \in has \ held : id \notin put => id \in had
  OBVIOUS
<1>. HIDE DEF issues, moved, each, put, one, changed
<1>11. \A id \in DOMAIN issues : IssueOK(issues[id])
  <2>1. TAKE id \in DOMAIN issues
  <2>2. CASE id \in put
    BY <2>2, <1>5, <1>7 DEF Adds
  <2>3. CASE id \notin put
    <3>1. id \in held
      BY <2>3, <1>4
    <3>. QED BY <2>3, <3>1, <1>3, <1>5 DEF TreeOK
  <2>. QED BY <2>2, <2>3
<1>12. TreeOK(done.tree)
  BY <1>1, <1>11 DEF TreeOK
<1>13. has \ DOMAIN issues \subseteq gone
  BY <1>2, <1>3, <1>4, <1>10
<1>14. ASSUME NEW id \in has \cap DOMAIN issues
       PROVE  LandedAll(after.issues[id].files, MovedOf(moved, id), issues[id].files)
  <2>1. CASE id \in put
    <3>1. issues[id] = each[id].issue /\ MovedOf(moved, id) = each[id].moved
      BY <2>1, <1>5, <1>6
    <3>. QED BY <2>1, <3>1, <1>7
  <2>2. CASE id \notin put
    <3>1. issues[id] = r.tree.issues[id] /\ MovedOf(moved, id) = MovedOf(r.moved, id)
      BY <2>2, <1>5, <1>6
    <3>2. id \in held /\ id \in had /\ after.issues[id] = before.issues[id]
      BY <2>2, <1>4, <1>9
    <3>. QED BY <3>1, <3>2, <1>3
  <2>. QED BY <2>1, <2>2
<1>15. Carried(after, done.tree, done.moved, gone)
  BY <1>1, <1>12, <1>13, <1>14 DEF Carried
<1>16. DOMAIN issues \ held \subseteq {n} /\ held \ DOMAIN issues \subseteq gone
  BY <1>2, <1>4, <1>7
<1>17. ASSUME NEW id \in held \cap DOMAIN issues
       PROVE  /\ Extends(r.tree.issues[id].files, issues[id].files)
              /\ OneKind(r.tree.issues[id].files, issues[id].files)
  <2>1. CASE id \in put
    BY <2>1, <1>5, <1>7 DEF Adds
  <2>2. CASE id \notin put
    BY <2>2, <1>5 DEF Extends, OneKind
  <2>. QED BY <2>1, <2>2
<1>18. Continues(r.tree, done.tree, n, gone)
  BY <1>1, <1>16, <1>17 DEF Continues
<1>. QED BY <1>1, <1>4, <1>8, <1>15, <1>18

-----------------------------------------------------------------------------
(* The fold of the replay.                                                 *)

\* The commit k of ours replayed on what the replay r has.
ReplayStep(ours, r, k) ==
    LET done == ReplayCommit(Tip(SubSeq(ours, 1, k - 1)), ours[k].tree, r)
    IN [tree |-> done.tree, moved |-> done.moved,
        history |-> IF done.tree = r.tree THEN r.history
                    ELSE Append(r.history, [n |-> ours[k].n, tree |-> done.tree])]

\* The fold of that as a function.
ReplayIter(f, k, s, ours, first) ==
    f = [t \in SUBSET (1 .. k) |->
            IF t = {} THEN first ELSE ReplayStep(ours, f[t \ {Max(t)}], s[Max(t)])]

\* The commits of ours that s names replayed one after the other.
Replaying(ours, first, s) ==
    FoldLeft(LAMBDA r, k :
                 LET done == ReplayCommit(Tip(SubSeq(ours, 1, k - 1)), ours[k].tree, r)
                 IN [tree |-> done.tree, moved |-> done.moved,
                     history |-> IF done.tree = r.tree THEN r.history
                                 ELSE Append(r.history, [n |-> ours[k].n, tree |-> done.tree])],
             first, s)

\* The fold of the replay is that function at the whole list,
LEMMA ReplayFolds ==
  ASSUME NEW ours, NEW first, NEW s, NEW n \in Nat, DOMAIN s = 1 .. n
  PROVE  \E acc : /\ acc[0] = first
                  /\ \A k \in 1 .. n : acc[k] = ReplayStep(ours, acc[k - 1], s[k])
                  /\ Replaying(ours, first, s) = acc[n]
<1>. DEFINE T == {k \in Nat : \E f : ReplayIter(f, k, s, ours, first)}
<1>1. 0 \in T
  <2>. DEFINE f == [t \in SUBSET (1 .. 0) |-> first]
  <2>1. \A t \in SUBSET (1 .. 0) : t = {}
    OBVIOUS
  <2>2. ReplayIter(f, 0, s, ours, first)
    BY <2>1 DEF ReplayIter
  <2>. QED BY <2>2
<1>2. ASSUME NEW k \in Nat, k \in T PROVE k + 1 \in T
  <2>1. PICK f : ReplayIter(f, k, s, ours, first)
    BY <1>2
  <2>. DEFINE g == [t \in SUBSET (1 .. k + 1) |->
                      IF k + 1 \in t THEN ReplayStep(ours, f[t \ {k + 1}], s[k + 1]) ELSE f[t]]
  <2>2. \A t \in SUBSET (1 .. k + 1) : k + 1 \notin t => t \in SUBSET (1 .. k)
    OBVIOUS
  <2>3. \A t \in SUBSET (1 .. k + 1) : k + 1 \in t => t \ {k + 1} \in SUBSET (1 .. k) /\ k + 1 \notin t \ {k + 1}
    OBVIOUS
  <2>4. \A t \in SUBSET (1 .. k) : t # {} => t \ {Max(t)} \in SUBSET (1 .. k)
    OBVIOUS
  <2>5. \A t \in SUBSET (1 .. k + 1) : k + 1 \in t => Max(t) = k + 1
    <3>1. SUFFICES ASSUME NEW t \in SUBSET (1 .. k + 1), k + 1 \in t PROVE Max(t) = k + 1
      OBVIOUS
    <3>2. t \in SUBSET (0 .. k + 1)
      OBVIOUS
    <3>3. Max(t) \in t /\ \A y \in t : Max(t) >= y
      <4>1. k + 1 \in Nat /\ t # {} /\ t \subseteq Nat /\ \A y \in t : y <= k + 1
        BY <3>1, <3>2
      <4>. QED BY <4>1, MaxIs
    <3>. HIDE DEF g, T
    <3>4. Max(t) \in 1 .. k + 1 /\ Max(t) >= k + 1
      BY <3>1, <3>3
    <3>. QED BY <3>4
  <2>6. \A t \in SUBSET (1 .. k) : g[t] = f[t]
    OBVIOUS
  <2>7. \A t \in SUBSET (1 .. k + 1) :
           g[t] = IF t = {} THEN first ELSE ReplayStep(ours, g[t \ {Max(t)}], s[Max(t)])
    <3>1. TAKE t \in SUBSET (1 .. k + 1)
    <3>2. CASE k + 1 \in t
      <4>1. g[t \ {k + 1}] = f[t \ {k + 1}]
        BY <3>2, <2>3, <2>6
      <4>. QED BY <3>2, <4>1, <2>5
    <3>3. CASE k + 1 \notin t
      <4>1. t \in SUBSET (1 .. k) /\ g[t] = f[t]
        BY <3>3, <2>2
      <4>2. f[t] = IF t = {} THEN first ELSE ReplayStep(ours, f[t \ {Max(t)}], s[Max(t)])
        BY <4>1, <2>1 DEF ReplayIter
      <4>3. t # {} => g[t \ {Max(t)}] = f[t \ {Max(t)}]
        BY <4>1, <2>4, <2>6
      <4>. QED BY <4>1, <4>2, <4>3
    <3>. QED BY <3>2, <3>3
  <2>8. ReplayIter(g, k + 1, s, ours, first)
    <3>. DEFINE h == [t \in SUBSET (1 .. k + 1) |->
            IF t = {} THEN first ELSE ReplayStep(ours, g[t \ {Max(t)}], s[Max(t)])]
    <3>1. g = h
      BY <2>7
    <3>. QED BY <3>1 DEF ReplayIter
  <2>. QED BY <2>8
<1>3. n \in T
  <2>. HIDE DEF T
  <2>. QED BY <1>1, <1>2, Inducted
<1>. DEFINE it == CHOOSE f : ReplayIter(f, n, s, ours, first)
<1>4. ReplayIter(it, n, s, ours, first)
  BY <1>3
<1>5. Replaying(ours, first, s) = it[1 .. n]
  BY DEF Replaying, FoldLeft, MapThenFoldSet, ReplayIter, ReplayStep
<1>6. \A k \in 1 .. n : Max(1 .. k) = k /\ (1 .. k) \ {k} = 1 .. k - 1
  <2>. TAKE k \in 1 .. n
  <2>. HIDE DEF T, it
  <2>4. k \in Nat /\ k \in 1 .. k
    OBVIOUS
  <2>5. 1 .. k # {}
    BY <2>4
  <2>6. \A y \in 1 .. k : y \in Nat /\ y <= k
    BY <2>4
  <2>1. 1 .. k \subseteq Nat /\ 1 .. k # {} /\ k \in Nat /\ \A y \in 1 .. k : y <= k
    BY <2>4, <2>5, <2>6
  <2>3. Max(1 .. k) \in 1 .. k /\ \A y \in 1 .. k : Max(1 .. k) >= y
    BY <2>1, MaxIs
  <2>2. Max(1 .. k) \in 1 .. k /\ Max(1 .. k) >= k
    BY <2>3
  <2>. QED BY <2>2
<1>. DEFINE acc == [k \in 0 .. n |-> it[1 .. k]]
<1>7. acc[0] = first
  <2>1. 1 .. 0 = {} /\ {} \in SUBSET (1 .. n) /\ 0 \in 0 .. n
    OBVIOUS
  <2>2. it[{}] = first
    <3>. HIDE DEF it
    <3>. QED BY <2>1, <1>4 DEF ReplayIter
  <2>. QED BY <2>1, <2>2
<1>8. ASSUME NEW k \in 1 .. n PROVE acc[k] = ReplayStep(ours, acc[k - 1], s[k])
  <2>4. k \in 1 .. k /\ k - 1 \in 0 .. n /\ k \in 0 .. n
    OBVIOUS
  <2>5. 1 .. k \in SUBSET (1 .. n)
    OBVIOUS
  <2>1. 1 .. k \in SUBSET (1 .. n) /\ 1 .. k # {} /\ k - 1 \in 0 .. n /\ k \in 0 .. n
    BY <2>4, <2>5
  <2>3. acc[k] = it[1 .. k] /\ acc[k - 1] = it[1 .. k - 1]
    <3>. HIDE DEF it
    <3>. QED BY <2>1
  <2>2. it[1 .. k] = ReplayStep(ours, it[(1 .. k) \ {Max(1 .. k)}], s[Max(1 .. k)])
    <3>. HIDE DEF it
    <3>. QED BY <2>1, <1>4 DEF ReplayIter
  <2>. HIDE DEF it, acc
  <2>. QED BY <2>2, <2>3, <1>6
<1>9. acc[n] = it[1 .. n]
  <2>. HIDE DEF it
  <2>. QED OBVIOUS
<1>. HIDE DEF acc, it
<1>. QED BY <1>5, <1>7, <1>8, <1>9

\* and Replayed is that fold.
LEMMA ReplayedIs ==
  ASSUME NEW ours, NEW theirs
  PROVE  Replayed(ours, theirs) =
           Replaying(ours, [tree |-> Tip(theirs), moved |-> << >>, history |-> theirs],
                     [k \in 1 .. Len(ours) - Common(ours, theirs) |-> Common(ours, theirs) + k]).history
BY DEF Replayed, Replaying

-----------------------------------------------------------------------------
(* What the replay keeps.                                                  *)

\* What this machine does beyond the prefix the two have in common the
\* other has no number of.
Apart(a, b, c) == \A x \in c + 1 .. Len(a) : a[x].n \notin Numbered(b)

\* What the replay r has with x commits of a on b, c of them in common.
ReplayOK(a, b, c, x, r, gone) ==
    /\ HistoryOK(r.history, gone) /\ Tip(r.history) = r.tree
    /\ Len(b) <= Len(r.history) /\ \A i \in 1 .. Len(b) : r.history[i] = b[i]
    /\ \A i \in Len(b) + 1 .. Len(r.history) : \E y \in c + 1 .. x : r.history[i].n = a[y].n
    /\ Carried(TreeAt(a, x), r.tree, r.moved, gone)
    /\ \A j \in 0 .. x : \A id \in IdsAt(a, j) : id \notin IdsAt(a, x) => id \notin DOMAIN r.tree.issues

\* So it is before the first commit;
LEMMA ReplayBegins ==
  ASSUME NEW a, NEW b, NEW gone, HistoryOK(a, gone), HistoryOK(b, gone), NEW c, c = Common(a, b),
         NEW r, r.tree = Tip(b), r.moved = << >>, r.history = b
  PROVE  ReplayOK(a, b, c, c, r, gone)
<1>1. /\ IsHistory(a) /\ IsHistory(b) /\ Len(a) \in Nat /\ Len(b) \in Nat
      /\ c \in Nat /\ c <= Len(a) /\ c <= Len(b) /\ \A i \in 1 .. c : a[i] = b[i]
  <2>1. IsHistory(a) /\ IsHistory(b) /\ Len(a) \in Nat /\ Len(b) \in Nat
    BY HistoryOKIs
  <2>. QED BY <2>1, CommonIs
<1>2. \A j \in 0 .. c : TreeAt(a, j) = TreeAt(b, j)
  <2>1. \A j \in 0 .. c : j # 0 => j \in 1 .. c
    BY <1>1
  <2>. QED BY <2>1, <1>1 DEF TreeAt
<1>3. c \in 0 .. c /\ c \in 0 .. Len(b) /\ Len(b) \in 0 .. Len(b) /\ c \in 0 .. Len(b)
  BY <1>1
<1>4. Tip(b) = TreeAt(b, Len(b))
  BY <1>1, TipIs
<1>5. TreeOK(Tip(b))
  BY <1>3, <1>4, HistoryOKIs
<1>6. DOMAIN TreeAt(a, c).issues \ DOMAIN Tip(b).issues \subseteq gone
  <2>1. \A id \in IdsAt(b, c) : id \notin gone => id \in IdsAt(b, Len(b))
    BY <1>3, Stays
  <2>. QED BY <2>1, <1>2, <1>3, <1>4 DEF IdsAt
<1>7. ASSUME NEW id \in DOMAIN TreeAt(a, c).issues \cap DOMAIN Tip(b).issues
      PROVE  LandedAll(TreeAt(a, c).issues[id].files, MovedOf(r.moved, id), Tip(b).issues[id].files)
  <2>1. id \in IdsAt(b, c) /\ id \in IdsAt(b, Len(b))
    BY <1>2, <1>3, <1>4 DEF IdsAt
  <2>2. Extends(TreeAt(b, c).issues[id].files, TreeAt(b, Len(b)).issues[id].files)
    BY <2>1, <1>3, FilesStay
  <2>3. MovedOf(r.moved, id) = << >>
    BY DEF MovedOf
  <2>. DEFINE f == TreeAt(a, c).issues[id].files
              g == Tip(b).issues[id].files
  <2>4. Extends(f, g)
    BY <2>2, <1>2, <1>3, <1>4
  <2>. HIDE DEF f, g
  <2>5. LandedAll(f, << >>, g)
    BY <2>4 DEF LandedAll, Landed, Extends
  <2>. QED BY <2>3, <2>5 DEF f, g
<1>8. Carried(TreeAt(a, c), Tip(b), r.moved, gone)
  BY <1>5, <1>6, <1>7 DEF Carried
<1>9. ASSUME NEW j \in 0 .. c, NEW id \in IdsAt(a, j), id \notin IdsAt(a, c) PROVE id \notin DOMAIN Tip(b).issues
  <2>1. id \in IdsAt(b, j) /\ id \notin IdsAt(b, c)
    BY <1>2, <1>3, <1>9 DEF IdsAt
  <2>2. id \notin IdsAt(b, Len(b))
    BY <2>1, <1>3, Between
  <2>. QED BY <2>2, <1>4 DEF IdsAt
<1>10. \A i \in Len(b) + 1 .. Len(b) : FALSE
  BY <1>1
<1>. QED BY <1>1, <1>8, <1>9, <1>10 DEF ReplayOK

\* a commit more leaves it so;
LEMMA ReplaySteps ==
  ASSUME NEW a, NEW b, NEW gone, HistoryOK(a, gone), HistoryOK(b, gone), NEW c \in Nat, Apart(a, b, c),
         NEW x \in c .. Len(a) - 1, NEW r, ReplayOK(a, b, c, x, r, gone),
         NEW s, s = ReplayStep(a, r, x + 1)
  PROVE  ReplayOK(a, b, c, x + 1, s, gone)
<1>. DEFINE before == TreeAt(a, x)
            after == TreeAt(a, x + 1)
            n == a[x + 1].n
            done == ReplayCommit(before, after, r)
            h == r.history
<1>1. IsHistory(a) /\ Len(a) \in Nat /\ Len(b) \in Nat /\ x \in Nat
  BY HistoryOKIs
<1>2. x + 1 \in 1 .. Len(a) /\ (x + 1) - 1 = x /\ x \in 0 .. Len(a) /\ x \in 0 .. (x + 1) - 1 /\ x + 1 \in c + 1 .. Len(a)
      /\ x + 1 # 0 /\ x + 1 \in 0 .. Len(a)
  BY <1>1
<1>3. Tip(SubSeq(a, 1, (x + 1) - 1)) = before
  BY <1>1, <1>2, TipOfPrefix
<1>4. a[x + 1].tree = after
  BY <1>2 DEF TreeAt
<1>5. s.tree = done.tree /\ s.moved = done.moved /\ s.history = IF done.tree = r.tree THEN h ELSE Append(h, [n |-> n, tree |-> done.tree])
  <2>. HIDE DEF before, after
  <2>1. done = ReplayCommit(Tip(SubSeq(a, 1, (x + 1) - 1)), a[x + 1].tree, r)
    BY <1>3, <1>4
  <2>. QED BY <2>1 DEF ReplayStep
<1>6. Continues(before, after, n, gone) /\ TreeOK(after)
  <2>1. Continues(TreeAt(a, (x + 1) - 1), TreeAt(a, x + 1), a[x + 1].n, gone)
    BY <1>2, HistoryOKIs
  <2>2. TreeOK(TreeAt(a, x + 1))
    BY <1>2, HistoryOKIs
  <2>. QED BY <2>1, <2>2, <1>2
<1>7. n \notin DOMAIN before.issues
  <2>1. n \notin IdsAt(a, x)
    BY <1>2, Unborn
  <2>. QED BY <2>1 DEF IdsAt
<1>8. /\ HistoryOK(h, gone) /\ Tip(h) = r.tree
      /\ Len(b) <= Len(h) /\ \A i \in 1 .. Len(b) : h[i] = b[i]
      /\ \A i \in Len(b) + 1 .. Len(h) : \E y \in c + 1 .. x : h[i].n = a[y].n
      /\ Carried(before, r.tree, r.moved, gone)
      /\ \A j \in 0 .. x : \A id \in IdsAt(a, j) : id \notin IdsAt(a, x) => id \notin DOMAIN r.tree.issues
  BY DEF ReplayOK
<1>. HIDE DEF h
<1>9. IsHistory(h) /\ Len(h) \in Nat /\ DOMAIN h = 1 .. Len(h)
  BY <1>8, HistoryOKIs
<1>10. n \notin Numbered(h)
  <2>1. SUFFICES ASSUME NEW i \in 1 .. Len(h), h[i].n = n PROVE FALSE
    BY <1>9 DEF Numbered
  <2>2. CASE i \in 1 .. Len(b)
    <3>1. b[i].n = n /\ i \in DOMAIN b
      BY <2>1, <2>2, <1>8, HistoryOKIs
    <3>2. n \in Numbered(b)
      BY <3>1 DEF Numbered
    <3>. QED BY <3>2, <1>2 DEF Apart
  <2>3. CASE i \notin 1 .. Len(b)
    <3>1. i \in Len(b) + 1 .. Len(h)
      BY <2>3, <1>1, <1>9
    <3>2. PICK y \in c + 1 .. x : h[i].n = a[y].n
      BY <3>1, <1>8
    <3>3. y \in 1 .. Len(a) /\ y # x + 1
      BY <1>1
    <3>. QED BY <2>1, <3>2, <3>3, <1>2, HistoryOKIs
  <2>. QED BY <2>2, <2>3
<1>11. n \notin DOMAIN r.tree.issues
  <2>1. Len(h) \in 0 .. Len(h)
    BY <1>9
  <2>2. \A id \in IdsAt(h, Len(h)) : id \in Numbered(h)
    BY <1>8, <2>1, HeldNumbered
  <2>3. TreeAt(h, Len(h)) = r.tree
    BY <1>8, <1>9, TipIs
  <2>. QED BY <2>2, <2>3, <1>10 DEF IdsAt
<1>. DEFINE tree == done.tree
<1>12. /\ Carried(after, tree, done.moved, gone)
       /\ Continues(r.tree, tree, n, gone)
       /\ DOMAIN tree.issues \cap DOMAIN before.issues \subseteq DOMAIN after.issues
       /\ DOMAIN tree.issues \ DOMAIN after.issues \subseteq DOMAIN r.tree.issues
  <2>1. done = ReplayCommit(before, after, r)
    OBVIOUS
  <2>. HIDE DEF before, after, n, done
  <2>. QED BY <2>1, <1>6, <1>7, <1>8, <1>11, ReplayCommitIs
<1>. HIDE DEF done, tree
<1>13. TreeOK(tree)
  BY <1>12 DEF Carried
<1>14. \A j \in 0 .. x + 1 : \A id \in IdsAt(a, j) : id \notin IdsAt(a, x + 1) => id \notin DOMAIN tree.issues
  <2>1. SUFFICES ASSUME NEW j \in 0 .. x + 1, NEW id \in IdsAt(a, j), id \notin IdsAt(a, x + 1), id \in DOMAIN tree.issues
                 PROVE  FALSE
    OBVIOUS
  <2>2. id \notin DOMAIN after.issues
    BY <2>1 DEF IdsAt
  <2>3. id \notin DOMAIN before.issues /\ id \in DOMAIN r.tree.issues
    BY <2>1, <2>2, <1>12
  <2>4. j \in 0 .. x
    BY <2>1, <1>1
  <2>5. id \notin IdsAt(a, x)
    BY <2>3 DEF IdsAt
  <2>. QED BY <2>1, <2>3, <2>4, <2>5, <1>8
<1>15. \A i \in Len(b) + 1 .. Len(h) : \E y \in c + 1 .. x + 1 : h[i].n = a[y].n
  <2>1. \A y \in c + 1 .. x : y \in c + 1 .. x + 1
    BY <1>1
  <2>. QED BY <2>1, <1>8
<1>16. s.tree = tree /\ s.moved = done.moved /\ (s.history = h \/ s.history = Append(h, [n |-> n, tree |-> tree]))
       /\ (s.history = h => tree = r.tree \/ s.history = Append(h, [n |-> n, tree |-> tree]))
  BY <1>5 DEF tree
<1>17. CASE tree = r.tree
  <2>1. s.history = h
    BY <1>5, <1>17 DEF tree
  <2>. QED BY <2>1, <1>8, <1>12, <1>14, <1>15, <1>16, <1>17 DEF ReplayOK
<1>18. CASE tree # r.tree
  <2>. DEFINE commit == [n |-> n, tree |-> tree]
              g == Append(h, commit)
  <2>1. s.history = g
    BY <1>5, <1>18 DEF tree
  <2>2. HistoryOK(g, gone)
    <3>1. Continues(Tip(h), tree, n, gone)
      BY <1>8, <1>12
    <3>. HIDE DEF n
    <3>. QED BY <3>1, <1>8, <1>10, <1>13, AppendOK
  <2>3. commit.n = n /\ commit.tree = tree
    OBVIOUS
  <2>. HIDE DEF commit
  <2>4. IsHistory(g) /\ Len(g) = Len(h) + 1 /\ (\A i \in 1 .. Len(h) : g[i] = h[i]) /\ g[Len(h) + 1] = commit
    BY <1>9, AppendIs
  <2>. HIDE DEF g
  <2>5. Tip(g) = tree
    <3>1. Len(h) + 1 # 0
      BY <1>9
    <3>. QED BY <2>3, <2>4, <3>1, TipIs DEF TreeAt
  <2>6. Len(b) <= Len(g) /\ \A i \in 1 .. Len(b) : g[i] = b[i]
    <3>1. \A i \in 1 .. Len(b) : i \in 1 .. Len(h)
      BY <1>1, <1>8, <1>9
    <3>. QED BY <3>1, <2>4, <1>1, <1>8, <1>9
  <2>7. ASSUME NEW i \in Len(b) + 1 .. Len(g) PROVE \E y \in c + 1 .. x + 1 : g[i].n = a[y].n
    <3>1. CASE i = Len(h) + 1
      <4>1. x + 1 \in c + 1 .. x + 1
        BY <1>1
      <4>. QED BY <3>1, <4>1, <2>3, <2>4
    <3>2. CASE i # Len(h) + 1
      <4>1. i \in Len(b) + 1 .. Len(h) /\ i \in 1 .. Len(h)
        BY <3>2, <2>4, <1>1, <1>9
      <4>. QED BY <4>1, <2>4, <1>15
    <3>. QED BY <3>1, <3>2
  <2>. HIDE DEF before, after, n
  <2>. QED BY <2>1, <2>2, <2>5, <2>6, <2>7, <1>12, <1>14, <1>16 DEF ReplayOK, after
<1>. QED BY <1>17, <1>18

\* and so it is after the last.
LEMMA ReplayedOK ==
  ASSUME NEW a, NEW b, NEW gone, HistoryOK(a, gone), HistoryOK(b, gone), Apart(a, b, Common(a, b))
  PROVE  \E r : ReplayOK(a, b, Common(a, b), Len(a), r, gone) /\ r.history = Replayed(a, b)
<1>. DEFINE c == Common(a, b)
            n == Len(a) - c
            first == [tree |-> Tip(b), moved |-> << >>, history |-> b]
            s == [k \in 1 .. n |-> c + k]
<1>1. c \in Nat /\ Len(a) \in Nat /\ n \in Nat /\ c + n = Len(a)
  <2>1. IsHistory(a) /\ IsHistory(b) /\ Len(a) \in Nat
    BY HistoryOKIs
  <2>. QED BY <2>1, CommonIs
<1>2. Replayed(a, b) = Replaying(a, first, s).history
  BY ReplayedIs
<1>3. DOMAIN s = 1 .. n
  OBVIOUS
<1>. HIDE DEF s
<1>4. PICK acc : /\ acc[0] = first
                 /\ \A k \in 1 .. n : acc[k] = ReplayStep(a, acc[k - 1], s[k])
                 /\ Replaying(a, first, s) = acc[n]
  <2>. HIDE DEF first, n, c
  <2>. QED BY <1>1, <1>3, ReplayFolds
<1>. DEFINE T == {k \in 0 .. n : ReplayOK(a, b, c, c + k, acc[k], gone)}
<1>5. 0 \in T
  <2>1. first.tree = Tip(b) /\ first.moved = << >> /\ first.history = b
    OBVIOUS
  <2>2. ReplayOK(a, b, c, c, first, gone)
    <3>1. c = Common(a, b)
      OBVIOUS
    <3>. HIDE DEF first, c
    <3>. QED BY <2>1, <3>1, ReplayBegins
  <2>3. c + 0 = c /\ 0 \in 0 .. n
    BY <1>1
  <2>. HIDE DEF first, c, n
  <2>. QED BY <2>2, <2>3, <1>4
<1>6. \A k \in 0 .. n - 1 : k \in T => k + 1 \in T
  <2>1. SUFFICES ASSUME NEW k \in 0 .. n - 1, ReplayOK(a, b, c, c + k, acc[k], gone)
                 PROVE  ReplayOK(a, b, c, c + (k + 1), acc[k + 1], gone)
    BY <1>1
  <2>2. k + 1 \in 1 .. n /\ (k + 1) - 1 = k /\ c + (k + 1) = (c + k) + 1 /\ c + k \in c .. Len(a) - 1
    BY <1>1
  <2>3. s[k + 1] = (c + k) + 1
    BY <2>2 DEF s
  <2>4. acc[k + 1] = ReplayStep(a, acc[k], (c + k) + 1)
    BY <2>2, <2>3, <1>4
  <2>5. Apart(a, b, c)
    OBVIOUS
  <2>. DEFINE x == c + k
              r == acc[k]
              t == acc[k + 1]
  <2>6. x \in c .. Len(a) - 1 /\ ReplayOK(a, b, c, x, r, gone) /\ t = ReplayStep(a, r, x + 1)
    BY <2>1, <2>2, <2>4
  <2>. HIDE DEF c, x, r, t, n
  <2>7. ReplayOK(a, b, c, x + 1, t, gone)
    BY <2>5, <2>6, <1>1, ReplaySteps
  <2>. QED BY <2>2, <2>7 DEF x, t
<1>7. n \in T
  <2>1. n \in 0 .. n /\ 0 \in Nat
    BY <1>1
  <2>2. \A k \in 0 .. n : k \in T
    <3>. HIDE DEF T, n
    <3>. QED BY <1>1, <1>5, <1>6, <2>1, InductedUpTo
  <2>. HIDE DEF T
  <2>. QED BY <2>1, <2>2
<1>8. ReplayOK(a, b, c, Len(a), acc[n], gone) /\ acc[n].history = Replayed(a, b)
  <2>. HIDE DEF c, n, first
  <2>. QED BY <1>1, <1>2, <1>4, <1>7
<1>. QED BY <1>8

-----------------------------------------------------------------------------
(* A queue beside the remote's.                                            *)

\* A machine's queue, beside the remote's, when n is the last number.
QueueOK(h, rem, gone, n) ==
    /\ HistoryOK(h, gone)
    /\ Numbered(h) \subseteq 1 .. n
    /\ Agree(h, rem)

\* The remote's.
RemoteOK(rem, gone, n) == HistoryOK(rem, gone) /\ Numbered(rem) \subseteq 1 .. n

\* What a reconcile under way may count on.
SyncedOK(job, h, rem) ==
    \/ job = Idle
    \/ /\ job.at \in {"adopting", "creating", "forwarding", "rebasing"}
       /\ DOMAIN job = {"at", "theirs", "ours", "tries"}
       /\ \E k \in 1 .. Len(rem) : job.theirs = SubSeq(rem, 1, k)
       /\ job.at = "creating" => Numbered(h) \cap Numbered(rem) = {}
       /\ job.at = "forwarding" => \E k \in 1 .. Len(job.theirs) : job.ours = SubSeq(job.theirs, 1, k)
       /\ job.at = "rebasing" => Diverge(h, job.theirs)

\* Agree, by commits rather than prefixes.
LEMMA AgreeIs ==
  ASSUME NEW a, IsHistory(a), NEW b, IsHistory(b)
  PROVE  Agree(a, b) <=>
           \A i \in 1 .. Len(a), j \in 1 .. Len(b) :
              a[i].n = b[j].n => i = j /\ \A x \in 1 .. i : a[x] = b[x]
<1>1. /\ Len(a) \in Nat /\ DOMAIN a = 1 .. Len(a)
      /\ Len(b) \in Nat /\ DOMAIN b = 1 .. Len(b)
  BY HistoryIs
<1>2. \A i \in 1 .. Len(a) :
         i \in 1 .. Len(b) => (SubSeq(a, 1, i) = SubSeq(b, 1, i) <=> \A x \in 1 .. i : a[x] = b[x])
  <2>1. SUFFICES ASSUME NEW i \in 1 .. Len(a), i \in 1 .. Len(b)
                 PROVE  SubSeq(a, 1, i) = SubSeq(b, 1, i) <=> \A x \in 1 .. i : a[x] = b[x]
    OBVIOUS
  <2>2. i \in Nat /\ i <= Len(a) /\ i <= Len(b)
    BY <1>1, <2>1
  <2>. QED BY <2>2, SamePrefix
<1>3. Agree(a, b) <=>
        \A i \in 1 .. Len(a), j \in 1 .. Len(b) :
           a[i].n = b[j].n => i = j /\ SubSeq(a, 1, i) = SubSeq(b, 1, i)
  BY <1>1 DEF Agree
<1>4. ASSUME NEW i \in 1 .. Len(a), NEW j \in 1 .. Len(b)
      PROVE  i = j /\ SubSeq(a, 1, i) = SubSeq(b, 1, i) <=> i = j /\ \A x \in 1 .. i : a[x] = b[x]
  BY <1>2
<1>. QED BY <1>3, <1>4

\* A number is that of a commit at some position.
LEMMA NumberedIs ==
  ASSUME NEW h, IsHistory(h)
  PROVE  \A n : n \in Numbered(h) <=> \E i \in 1 .. Len(h) : h[i].n = n
BY HistoryIs DEF Numbered

\* The longer queue g begins with h.
Begun(h, g) == Len(h) <= Len(g) /\ \A i \in 1 .. Len(h) : g[i] = h[i]

\* A queue that stands while others grow.
LEMMA QueueGrows ==
  ASSUME NEW h, NEW rem, NEW gone, NEW more, gone \subseteq more, NEW n \in Nat, NEW m \in Nat, n <= m,
         QueueOK(h, rem, gone, n)
  PROVE  QueueOK(h, rem, more, m)
<1>1. HistoryOK(h, more)
  BY MoreGone DEF QueueOK
<1>2. Numbered(h) \subseteq 1 .. m
  BY DEF QueueOK
<1>. QED BY <1>1, <1>2 DEF QueueOK

\* The queue g is h and the next commit, of the tree u.
AppendsTo(h, rem, gone, more, n, u, g) ==
    /\ n \in Nat
    /\ QueueOK(h, rem, gone, n) /\ RemoteOK(rem, gone, n)
    /\ gone \subseteq more
    /\ TreeOK(u) /\ Continues(Tip(h), u, n + 1, more)
    /\ g = Append(h, [n |-> n + 1, tree |-> u])

\* One commit more, of the next number.
LEMMA Appended ==
  ASSUME NEW h, NEW rem, NEW gone, NEW more, NEW n, NEW u, NEW g,
         AppendsTo(h, rem, gone, more, n, u, g)
  PROVE  /\ QueueOK(g, rem, more, n + 1)
         /\ RemoteOK(rem, more, n + 1)
         /\ Begun(h, g) /\ Len(g) = Len(h) + 1
         /\ Numbered(g) = Numbered(h) \cup {n + 1}
         /\ \A job : SyncedOK(job, h, rem) => SyncedOK(job, g, rem)
<1>. /\ n \in Nat
     /\ QueueOK(h, rem, gone, n) /\ RemoteOK(rem, gone, n)
     /\ gone \subseteq more
     /\ TreeOK(u) /\ Continues(Tip(h), u, n + 1, more)
     /\ g = Append(h, [n |-> n + 1, tree |-> u])
  BY DEF AppendsTo
<1>. DEFINE c == [n |-> n + 1, tree |-> u]
<1>1. /\ HistoryOK(h, gone) /\ Numbered(h) \subseteq 1 .. n /\ Agree(h, rem)
      /\ HistoryOK(rem, gone) /\ Numbered(rem) \subseteq 1 .. n
  BY DEF QueueOK, RemoteOK
<1>2. IsHistory(h) /\ IsHistory(rem) /\ Len(h) \in Nat /\ Len(rem) \in Nat /\ Len(h) \in 0 .. Len(h)
  BY <1>1, HistoryOKIs
<1>5. n + 1 \notin Numbered(h) /\ n + 1 \notin Numbered(rem)
  BY <1>1
<1>8. g = Append(h, c)
  OBVIOUS
<1>9. HistoryOK(g, more)
  <2>1. HistoryOK(h, more)
    BY <1>1, MoreGone
  <2>. DEFINE m == n + 1
  <2>2. g = Append(h, [n |-> m, tree |-> u]) /\ Continues(Tip(h), u, m, more) /\ m \notin Numbered(h)
    BY <1>5
  <2>. HIDE DEF m
  <2>. QED BY <2>1, <2>2, AppendOK
<1>10. c.n = n + 1
  OBVIOUS
<1>. HIDE DEF c
<1>11. IsHistory(g) /\ Len(g) = Len(h) + 1 /\ (\A i \in 1 .. Len(h) : g[i] = h[i]) /\ g[Len(h) + 1] = c
  BY <1>2, <1>8, AppendIs
<1>12. \A i \in 1 .. Len(g) : i \in 1 .. Len(h) \/ i = Len(h) + 1
  BY <1>2, <1>11
<1>13. Numbered(g) = Numbered(h) \cup {n + 1}
  <2>1. \A i \in 1 .. Len(h) : i \in 1 .. Len(g)
    BY <1>2, <1>11
  <2>2. Len(h) + 1 \in 1 .. Len(g)
    BY <1>2, <1>11
  <2>6. IsHistory(g) /\ IsHistory(h)
    BY <1>2, <1>11
  <2>3. \A x : x \in Numbered(g) <=> \E i \in 1 .. Len(g) : g[i].n = x
    BY <2>6, NumberedIs
  <2>4. \A x : x \in Numbered(h) <=> \E i \in 1 .. Len(h) : h[i].n = x
    BY <2>6, NumberedIs
  <2>5. \A x : x \in Numbered(g) <=> x \in Numbered(h) \/ x = n + 1
    BY <2>1, <2>2, <2>3, <2>4, <1>10, <1>11, <1>12
  <2>. QED BY <2>5
<1>14. Numbered(g) \subseteq 1 .. n + 1 /\ Numbered(rem) \subseteq 1 .. n + 1
  BY <1>1, <1>13
<1>15. Agree(g, rem)
  <2>1. SUFFICES ASSUME NEW i \in 1 .. Len(g), NEW j \in 1 .. Len(rem), g[i].n = rem[j].n
                 PROVE  i = j /\ \A x \in 1 .. i : g[x] = rem[x]
    BY <1>2, <1>11, AgreeIs
  <2>2. i # Len(h) + 1
    <3>1. rem[j].n \in Numbered(rem)
      BY <1>2, NumberedIs
    <3>. QED BY <3>1, <2>1, <1>5, <1>10, <1>11
  <2>3. i \in 1 .. Len(h) /\ h[i].n = rem[j].n
    BY <2>1, <2>2, <1>11, <1>12
  <2>4. i = j /\ \A x \in 1 .. i : h[x] = rem[x]
    BY <2>3, <1>1, <1>2, AgreeIs
  <2>5. \A x \in 1 .. i : x \in 1 .. Len(h)
    BY <2>3, <1>2
  <2>. QED BY <2>4, <2>5, <1>11
<1>16. QueueOK(g, rem, more, n + 1)
  BY <1>9, <1>14, <1>15 DEF QueueOK
<1>17. RemoteOK(rem, more, n + 1)
  BY <1>1, <1>14, MoreGone DEF RemoteOK
<1>18. Begun(h, g)
  BY <1>2, <1>11 DEF Begun
<1>19. ASSUME NEW job, SyncedOK(job, h, rem) PROVE SyncedOK(job, g, rem)
  <2>1. Numbered(h) \cap Numbered(rem) = {} => Numbered(g) \cap Numbered(rem) = {}
    BY <1>5, <1>13
  <2>2. Diverge(h, job.theirs) => Diverge(g, job.theirs)
    <3>1. DOMAIN h = 1 .. Len(h) /\ DOMAIN g = 1 .. Len(g)
      BY <1>2, <1>11, HistoryIs
    <3>2. \A i \in 1 .. Len(h) : i \in 1 .. Len(g)
      BY <1>2, <1>11
    <3>. QED BY <3>1, <3>2, <1>11 DEF Diverge
  <2>3. CASE job = Idle
    BY <2>3 DEF SyncedOK
  <2>4. CASE job # Idle
    <3>1. /\ job.at \in {"adopting", "creating", "forwarding", "rebasing"}
          /\ DOMAIN job = {"at", "theirs", "ours", "tries"}
          /\ \E k \in 1 .. Len(rem) : job.theirs = SubSeq(rem, 1, k)
          /\ job.at = "forwarding" => \E k \in 1 .. Len(job.theirs) : job.ours = SubSeq(job.theirs, 1, k)
      BY <1>19, <2>4 DEF SyncedOK
    <3>2. /\ job.at = "creating" => Numbered(g) \cap Numbered(rem) = {}
          /\ job.at = "rebasing" => Diverge(g, job.theirs)
      BY <1>19, <2>1, <2>2, <2>4 DEF SyncedOK
    <3>. QED BY <3>1, <3>2 DEF SyncedOK
  <2>. QED BY <2>3, <2>4
<1>. QED BY <1>11, <1>13, <1>16, <1>17, <1>18, <1>19

\* What a write makes of the tip is such a commit.
LEMMA Committed ==
  ASSUME NEW h, NEW rem, NEW gone, NEW n \in Nat, QueueOK(h, rem, gone, n),
         NEW op \in Writes(Tip(h)),
         NEW more, more = IF op.kind = "delete" THEN gone \cup {op.id} ELSE gone,
         NEW u, u = Written(op, Tip(h), n + 1)
  PROVE  /\ gone \subseteq more
         /\ TreeOK(u)
         /\ Continues(Tip(h), u, n + 1, more)
         /\ op.kind \in Kind
         /\ op.kind = "delete" => op.id \in 1 .. n
<1>. DEFINE t == Tip(h)
<1>1. HistoryOK(h, gone) /\ Numbered(h) \subseteq 1 .. n
  BY DEF QueueOK
<1>2. IsHistory(h) /\ Len(h) \in 0 .. Len(h)
  BY <1>1, HistoryOKIs
<1>3. t = TreeAt(h, Len(h))
  BY <1>2, TipIs
<1>4. TreeOK(t) /\ DOMAIN t.issues \subseteq 1 .. n
  <2>1. TreeOK(TreeAt(h, Len(h)))
    BY <1>1, <1>2, HistoryOKIs
  <2>2. \A id \in IdsAt(h, Len(h)) : id \in Numbered(h)
    BY <1>1, <1>2, HeldNumbered
  <2>. QED BY <2>1, <2>2, <1>1, <1>3 DEF IdsAt
<1>5. n + 1 \notin DOMAIN t.issues
  BY <1>4
<1>6. op \in Writes(t) /\ u = Written(op, t, n + 1)
  OBVIOUS
<1>. HIDE DEF t
<1>7. /\ TreeOK(u)
      /\ Continues(t, u, n + 1, IF op.kind = "delete" THEN {op.id} ELSE {})
      /\ op.kind \in Kind
      /\ op.kind = "delete" => op.id \in DOMAIN t.issues
  BY <1>4, <1>5, <1>6, WrittenIs
<1>8. Continues(t, u, n + 1, more) /\ gone \subseteq more
  BY <1>7 DEF Continues
<1>9. op.kind = "delete" => op.id \in 1 .. n
  BY <1>4, <1>7
<1>. QED BY <1>7, <1>8, <1>9 DEF t

\* What was fetched, and kept as it is.
LEMMA Forwarded ==
  ASSUME NEW rem, NEW gone, NEW n, RemoteOK(rem, gone, n), NEW k \in 1 .. Len(rem),
         NEW g, g = SubSeq(rem, 1, k)
  PROVE  QueueOK(g, rem, gone, n) /\ Numbered(g) \subseteq Numbered(rem) /\ Begun(g, rem) /\ Len(g) = k
<1>1. HistoryOK(rem, gone) /\ Numbered(rem) \subseteq 1 .. n
  BY DEF RemoteOK
<1>2. IsHistory(rem) /\ Len(rem) \in Nat /\ k \in 0 .. Len(rem)
  BY <1>1, HistoryOKIs
<1>3. HistoryOK(g, gone)
  BY <1>1, <1>2, PrefixOK
<1>4. IsHistory(g) /\ Len(g) = k /\ \A i \in 1 .. k : g[i] = rem[i]
  BY <1>2, PrefixIs
<1>5. \A i \in 1 .. k : i \in 1 .. Len(rem)
  BY <1>2
<1>6. Numbered(g) \subseteq Numbered(rem)
  <2>1. DOMAIN g = 1 .. k /\ DOMAIN rem = 1 .. Len(rem)
    BY <1>2, <1>4, HistoryIs
  <2>. QED BY <2>1, <1>4, <1>5 DEF Numbered
<1>7. Agree(g, rem)
  <2>1. SUFFICES ASSUME NEW i \in 1 .. Len(g), NEW j \in 1 .. Len(rem), g[i].n = rem[j].n
                 PROVE  i = j /\ \A x \in 1 .. i : g[x] = rem[x]
    BY <1>2, <1>4, AgreeIs
  <2>2. rem[i].n = rem[j].n /\ i \in 1 .. Len(rem)
    BY <2>1, <1>4, <1>5
  <2>3. i = j
    BY <2>2, <1>1, HistoryOKIs
  <2>4. \A x \in 1 .. i : x \in 1 .. k
    BY <1>2, <1>4
  <2>. QED BY <2>3, <2>4, <1>4
<1>8. Begun(g, rem)
  BY <1>2, <1>4 DEF Begun
<1>. QED BY <1>1, <1>3, <1>4, <1>6, <1>7, <1>8 DEF QueueOK

\* The queue a is to be replayed on the remote's first k commits, b.
ReplaysOn(a, rem, gone, n, k, b) ==
    /\ QueueOK(a, rem, gone, n) /\ RemoteOK(rem, gone, n)
    /\ k \in 1 .. Len(rem) /\ b = SubSeq(rem, 1, k)
    /\ Diverge(a, b)

\* This machine's commits on top of the remote's.
LEMMA Rebuilt ==
  ASSUME NEW a, NEW rem, NEW gone, NEW n, NEW k, NEW b, ReplaysOn(a, rem, gone, n, k, b),
         NEW g, g = Replayed(a, b)
  PROVE  /\ QueueOK(g, rem, gone, n)
         /\ Numbered(g) \subseteq Numbered(rem) \cup Numbered(a)
         /\ \E r : ReplayOK(a, b, Common(a, b), Len(a), r, gone) /\ r.history = g
<1>. /\ QueueOK(a, rem, gone, n) /\ RemoteOK(rem, gone, n)
     /\ k \in 1 .. Len(rem) /\ b = SubSeq(rem, 1, k)
     /\ Diverge(a, b)
  BY DEF ReplaysOn
<1>. DEFINE c == Common(a, b)
<1>1. /\ HistoryOK(a, gone) /\ Numbered(a) \subseteq 1 .. n /\ Agree(a, rem)
      /\ HistoryOK(rem, gone) /\ Numbered(rem) \subseteq 1 .. n
  BY DEF QueueOK, RemoteOK
<1>2. /\ IsHistory(a) /\ Len(a) \in Nat /\ DOMAIN a = 1 .. Len(a)
      /\ IsHistory(rem) /\ Len(rem) \in Nat /\ k \in 0 .. Len(rem)
  <2>1. IsHistory(a) /\ Len(a) \in Nat /\ DOMAIN a = 1 .. Len(a)
    BY <1>1, HistoryOKIs
  <2>2. IsHistory(rem) /\ Len(rem) \in Nat
    BY <1>1, HistoryOKIs
  <2>. QED BY <2>1, <2>2
<1>3. /\ HistoryOK(b, gone) /\ IsHistory(b) /\ Len(b) = k /\ DOMAIN b = 1 .. k
      /\ \A i \in 1 .. k : b[i] = rem[i]
  BY <1>1, <1>2, PrefixOK, PrefixIs
<1>4. /\ c \in Nat /\ c <= Len(a) /\ c <= Len(b)
      /\ \A i \in 1 .. c : a[i] = b[i]
      /\ c < Len(a) /\ c < Len(b) => a[c + 1] # b[c + 1]
  <2>1. IsHistory(a) /\ IsHistory(b)
    BY <1>2, <1>3
  <2>. QED BY <2>1, CommonIs
<1>5. PICK d \in 1 .. Len(a) : d \in 1 .. k /\ a[d] # b[d]
  BY <1>2, <1>3 DEF Diverge
<1>. HIDE DEF c
<1>6. c < d /\ c < k
  BY <1>3, <1>4, <1>5
\* A number of this machine's beyond the common prefix is not the remote's.
<1>7. \A x \in c + 1 .. Len(a) : a[x].n \notin Numbered(rem)
  <2>1. SUFFICES ASSUME NEW x \in c + 1 .. Len(a), NEW j \in 1 .. Len(rem), a[x].n = rem[j].n PROVE FALSE
    BY <1>2, NumberedIs
  <2>2. x \in 1 .. Len(a)
    BY <1>2, <1>4
  <2>3. \A y \in 1 .. x : a[y] = rem[y]
    BY <2>1, <2>2, <1>1, <1>2, AgreeIs
  <2>4. c + 1 \in 1 .. x /\ c + 1 \in 1 .. k /\ c < Len(a) /\ c < Len(b)
    BY <2>2, <1>2, <1>3, <1>4, <1>6
  <2>. QED BY <2>3, <2>4, <1>3, <1>4
<1>8. Apart(a, b, c)
  <2>1. \A i \in 1 .. k : i \in 1 .. Len(rem)
    BY <1>2
  <2>3. DOMAIN rem = 1 .. Len(rem)
    BY <1>2, HistoryIs
  <2>2. \A x : x \in Numbered(b) => x \in Numbered(rem)
    BY <2>1, <2>3, <1>3 DEF Numbered
  <2>. QED BY <2>2, <1>7 DEF Apart
<1>9. PICK r : ReplayOK(a, b, c, Len(a), r, gone) /\ r.history = g
  <2>1. Apart(a, b, Common(a, b))
    BY <1>8 DEF c
  <2>. QED BY <2>1, <1>1, <1>3, ReplayedOK DEF c
<1>10. /\ HistoryOK(g, gone)
       /\ Len(b) <= Len(g) /\ \A i \in 1 .. Len(b) : g[i] = b[i]
       /\ \A i \in Len(b) + 1 .. Len(g) : \E y \in c + 1 .. Len(a) : g[i].n = a[y].n
  BY <1>9 DEF ReplayOK
<1>11. IsHistory(g) /\ Len(g) \in Nat
  BY <1>10, HistoryOKIs
<1>12. \A i \in 1 .. Len(g) : \/ i \in 1 .. k /\ i \in 1 .. Len(rem) /\ g[i] = rem[i]
                             \/ \E y \in c + 1 .. Len(a) : y \in 1 .. Len(a) /\ g[i].n = a[y].n
  <2>1. TAKE i \in 1 .. Len(g)
  <2>2. CASE i \in 1 .. k
    BY <2>2, <1>2, <1>3, <1>10
  <2>3. CASE i \notin 1 .. k
    <3>1. i \in Len(b) + 1 .. Len(g)
      BY <2>3, <1>2, <1>3, <1>11
    <3>2. PICK y \in c + 1 .. Len(a) : g[i].n = a[y].n
      BY <3>1, <1>10
    <3>3. y \in 1 .. Len(a)
      BY <1>2, <1>4
    <3>. QED BY <3>2, <3>3
  <2>. QED BY <2>2, <2>3
<1>13. Numbered(g) \subseteq Numbered(rem) \cup Numbered(a)
  <2>1. \A x : x \in Numbered(g) <=> \E i \in 1 .. Len(g) : g[i].n = x
    BY <1>11, NumberedIs
  <2>2. \A x : x \in Numbered(rem) <=> \E i \in 1 .. Len(rem) : rem[i].n = x
    BY <1>2, NumberedIs
  <2>3. \A x : x \in Numbered(a) <=> \E i \in 1 .. Len(a) : a[i].n = x
    BY <1>2, NumberedIs
  <2>4. \A x : x \in Numbered(g) => x \in Numbered(rem) \/ x \in Numbered(a)
    <3>1. SUFFICES ASSUME NEW i \in 1 .. Len(g) PROVE g[i].n \in Numbered(rem) \/ g[i].n \in Numbered(a)
      BY <2>1
    <3>. QED BY <2>2, <2>3, <1>12
  <2>. QED BY <2>4
<1>14. Agree(g, rem)
  <2>1. SUFFICES ASSUME NEW i \in 1 .. Len(g), NEW j \in 1 .. Len(rem), g[i].n = rem[j].n
                 PROVE  i = j /\ \A x \in 1 .. i : g[x] = rem[x]
    BY <1>2, <1>11, AgreeIs
  <2>2. rem[j].n \in Numbered(rem)
    BY <1>2, NumberedIs
  <2>3. i \in 1 .. k /\ i \in 1 .. Len(rem) /\ g[i] = rem[i]
    BY <2>1, <2>2, <1>7, <1>12
  <2>4. i = j
    BY <2>1, <2>3, <1>1, HistoryOKIs
  <2>5. \A x \in 1 .. i : x \in 1 .. k /\ g[x] = rem[x]
    <3>1. \A x \in 1 .. i : x \in 1 .. k
      BY <2>3, <1>2
    <3>. QED BY <3>1, <1>3, <1>10
  <2>. QED BY <2>4, <2>5
<1>15. QueueOK(g, rem, gone, n)
  BY <1>1, <1>10, <1>13, <1>14 DEF QueueOK
<1>. QED BY <1>9, <1>13, <1>15 DEF c

-----------------------------------------------------------------------------
(* What a fetch and a push make of two queues.                             *)

\* What a fetch tells of the two queues.
LEMMA Fetched ==
  ASSUME NEW a, IsHistory(a), NEW rem, IsHistory(rem)
  PROVE  /\ Ahead(rem, a) > 0 => Len(rem) \in 1 .. Len(rem)
         /\ Ahead(rem, a) > 0 /\ a # << >> /\ Ahead(a, rem) = 0 => \E k \in 1 .. Len(rem) : a = SubSeq(rem, 1, k)
         /\ Ahead(rem, a) > 0 /\ Ahead(a, rem) > 0 => Diverge(a, rem)
         /\ Ahead(rem, a) = 0 => Begun(rem, a)
<1>. DEFINE c == Common(a, rem)
<1>1. /\ Len(a) \in Nat /\ DOMAIN a = 1 .. Len(a)
      /\ Len(rem) \in Nat /\ DOMAIN rem = 1 .. Len(rem)
      /\ a = << >> <=> Len(a) = 0
  <2>1. Len(a) \in Nat /\ DOMAIN a = 1 .. Len(a)
    BY HistoryIs
  <2>2. Len(rem) \in Nat /\ DOMAIN rem = 1 .. Len(rem)
    BY HistoryIs
  <2>3. a = << >> <=> Len(a) = 0
    BY HistoryIs
  <2>. QED BY <2>1, <2>2, <2>3
<1>2. /\ c \in Nat /\ c <= Len(a) /\ c <= Len(rem)
      /\ \A i \in 1 .. c : a[i] = rem[i]
      /\ c < Len(a) /\ c < Len(rem) => a[c + 1] # rem[c + 1]
      /\ c = Common(rem, a)
  BY CommonIs
<1>. HIDE DEF c
<1>3. Ahead(a, rem) = Len(a) - c /\ Ahead(rem, a) = Len(rem) - c
  BY <1>2 DEF Ahead, c
<1>4. Ahead(rem, a) > 0 => Len(rem) \in 1 .. Len(rem)
  BY <1>1, <1>2, <1>3
<1>5. ASSUME Ahead(rem, a) > 0, a # << >>, Ahead(a, rem) = 0 PROVE \E k \in 1 .. Len(rem) : a = SubSeq(rem, 1, k)
  <2>1. Len(a) = c /\ c \in 1 .. Len(rem) /\ c \in 0 .. Len(rem)
    BY <1>1, <1>2, <1>3, <1>5
  <2>. DEFINE p == SubSeq(rem, 1, c)
  <2>2. IsHistory(p) /\ Len(p) = c /\ \A i \in 1 .. c : p[i] = rem[i]
    BY <2>1, PrefixIs
  <2>. HIDE DEF p
  <2>3. a = p
    BY <2>1, <2>2, <1>2, SameHistory
  <2>. QED BY <2>1, <2>3 DEF p
<1>6. ASSUME Ahead(rem, a) > 0, Ahead(a, rem) > 0 PROVE Diverge(a, rem)
  <2>1. c + 1 \in DOMAIN a \cap DOMAIN rem /\ a[c + 1] # rem[c + 1]
    BY <1>1, <1>2, <1>3, <1>6
  <2>. QED BY <2>1 DEF Diverge
<1>7. ASSUME Ahead(rem, a) = 0 PROVE Begun(rem, a)
  BY <1>1, <1>2, <1>3, <1>7 DEF Begun
<1>. QED BY <1>4, <1>5, <1>6, <1>7

\* Prefixes of what it begins with are prefixes of the longer.
LEMMA BegunSame ==
  ASSUME NEW a, IsHistory(a), NEW b, IsHistory(b), Begun(a, b), NEW k \in 0 .. Len(a)
  PROVE  SubSeq(b, 1, k) = SubSeq(a, 1, k) /\ k \in 0 .. Len(b)
<1>1. Len(a) \in Nat /\ Len(b) \in Nat /\ k \in Nat
  BY HistoryIs
<1>2. k <= Len(a) /\ k <= Len(b) /\ Len(a) <= Len(b) /\ \A i \in 1 .. k : i \in 1 .. Len(a)
  BY <1>1 DEF Begun
<1>3. \A i \in 1 .. k : a[i] = b[i]
  BY <1>2 DEF Begun
<1>4. SubSeq(a, 1, k) = SubSeq(b, 1, k)
  BY <1>1, <1>2, <1>3, SamePrefix
<1>. QED BY <1>1, <1>2, <1>4

\* The queue h made the remote's.
LEMMA Pushed ==
  ASSUME NEW h, NEW rem, NEW gone, NEW n, QueueOK(h, rem, gone, n), RemoteOK(rem, gone, n), Begun(rem, h)
  PROVE  /\ RemoteOK(h, gone, n) /\ QueueOK(h, h, gone, n)
         /\ Numbered(rem) \subseteq Numbered(h)
         /\ \A job : SyncedOK(job, h, rem) => SyncedOK(job, h, h)
         /\ \A g : QueueOK(g, rem, gone, n) /\ Numbered(g) \cap Numbered(h) \subseteq Numbered(rem) =>
               /\ QueueOK(g, h, gone, n)
               /\ \A job : SyncedOK(job, g, rem) => SyncedOK(job, g, h)
<1>1. /\ HistoryOK(h, gone) /\ Numbered(h) \subseteq 1 .. n /\ Agree(h, rem)
      /\ HistoryOK(rem, gone) /\ Numbered(rem) \subseteq 1 .. n
  BY DEF QueueOK, RemoteOK
<1>2. /\ IsHistory(h) /\ Len(h) \in Nat /\ DOMAIN h = 1 .. Len(h)
      /\ IsHistory(rem) /\ Len(rem) \in Nat /\ DOMAIN rem = 1 .. Len(rem)
  <2>1. IsHistory(h) /\ Len(h) \in Nat /\ DOMAIN h = 1 .. Len(h)
    BY <1>1, HistoryOKIs
  <2>2. IsHistory(rem) /\ Len(rem) \in Nat /\ DOMAIN rem = 1 .. Len(rem)
    BY <1>1, HistoryOKIs
  <2>. QED BY <2>1, <2>2
<1>3. Len(rem) <= Len(h) /\ \A i \in 1 .. Len(rem) : i \in 1 .. Len(h) /\ h[i] = rem[i]
  BY <1>2 DEF Begun
<1>4. Numbered(rem) \subseteq Numbered(h)
  BY <1>2, <1>3 DEF Numbered
<1>5. \A i, j \in 1 .. Len(h) : h[i].n = h[j].n => i = j
  BY <1>1, HistoryOKIs
<1>6. Agree(h, h)
  <2>1. \A i \in 1 .. Len(h), j \in 1 .. Len(h) :
           h[i].n = h[j].n => i = j /\ \A x \in 1 .. i : h[x] = h[x]
    BY <1>5
  <2>. QED BY <2>1, <1>2, AgreeIs
<1>7. RemoteOK(h, gone, n) /\ QueueOK(h, h, gone, n)
  BY <1>1, <1>6 DEF RemoteOK, QueueOK
\* What was fetched is still a prefix.
<1>8. \A k \in 1 .. Len(rem) : k \in 1 .. Len(h) /\ SubSeq(rem, 1, k) = SubSeq(h, 1, k)
  <2>1. TAKE k \in 1 .. Len(rem)
  <2>2. k \in 0 .. Len(rem)
    BY <1>2
  <2>3. SubSeq(h, 1, k) = SubSeq(rem, 1, k)
    BY <2>2, <1>2, BegunSame
  <2>. QED BY <2>3, <1>3
<1>9. ASSUME NEW g, NEW job, SyncedOK(job, g, rem), job.at = "creating" => Numbered(g) \cap Numbered(h) = {}
      PROVE  SyncedOK(job, g, h)
  <2>1. CASE job = Idle
    BY <2>1 DEF SyncedOK
  <2>2. CASE job # Idle
    <3>1. /\ job.at \in {"adopting", "creating", "forwarding", "rebasing"}
          /\ DOMAIN job = {"at", "theirs", "ours", "tries"}
          /\ \E k \in 1 .. Len(rem) : job.theirs = SubSeq(rem, 1, k)
          /\ job.at = "forwarding" => \E k \in 1 .. Len(job.theirs) : job.ours = SubSeq(job.theirs, 1, k)
          /\ job.at = "rebasing" => Diverge(g, job.theirs)
      BY <1>9, <2>2 DEF SyncedOK
    <3>2. \E k \in 1 .. Len(h) : job.theirs = SubSeq(h, 1, k)
      BY <3>1, <1>8
    <3>. QED BY <3>1, <3>2, <1>9 DEF SyncedOK
  <2>. QED BY <2>1, <2>2
<1>10. ASSUME NEW job, SyncedOK(job, h, rem) PROVE SyncedOK(job, h, h)
  <2>1. ASSUME job.at = "creating" PROVE FALSE
    <3>1. job # Idle
      BY <2>1 DEF Idle
    <3>2. Numbered(h) \cap Numbered(rem) = {} /\ 1 .. Len(rem) # {}
      BY <1>10, <2>1, <3>1 DEF SyncedOK
    <3>3. 1 \in DOMAIN rem
      BY <3>2, <1>2
    <3>4. rem[1].n \in Numbered(rem)
      BY <3>3 DEF Numbered
    <3>. QED BY <3>2, <3>4, <1>4
  <2>. QED BY <2>1, <1>9, <1>10
<1>11. ASSUME NEW g, QueueOK(g, rem, gone, n), Numbered(g) \cap Numbered(h) \subseteq Numbered(rem)
       PROVE  QueueOK(g, h, gone, n) /\ \A job : SyncedOK(job, g, rem) => SyncedOK(job, g, h)
  <2>1. HistoryOK(g, gone) /\ Numbered(g) \subseteq 1 .. n /\ Agree(g, rem)
    BY <1>11 DEF QueueOK
  <2>2. IsHistory(g) /\ DOMAIN g = 1 .. Len(g) /\ Len(g) \in Nat
    BY <2>1, HistoryOKIs
  <2>3. Agree(g, h)
    <3>1. SUFFICES ASSUME NEW i \in 1 .. Len(g), NEW j \in 1 .. Len(h), g[i].n = h[j].n
                   PROVE  i = j /\ \A x \in 1 .. i : g[x] = h[x]
      BY <1>2, <2>2, AgreeIs
    <3>2. g[i].n \in Numbered(rem)
      BY <3>1, <1>2, <1>11, <2>2 DEF Numbered
    <3>3. PICK y \in 1 .. Len(rem) : g[i].n = rem[y].n
      BY <3>2, <1>2 DEF Numbered
    <3>4. i = y /\ \A x \in 1 .. i : g[x] = rem[x]
      BY <3>3, <2>1, <2>2, <1>2, AgreeIs
    <3>5. y = j
      BY <3>1, <3>3, <1>3, <1>5
    <3>6. \A x \in 1 .. i : x \in 1 .. Len(rem)
      BY <3>4, <1>2
    <3>. QED BY <3>4, <3>5, <3>6, <1>3
  <2>4. QueueOK(g, h, gone, n)
    BY <2>1, <2>3 DEF QueueOK
  <2>5. ASSUME NEW job, SyncedOK(job, g, rem) PROVE SyncedOK(job, g, h)
    <3>1. ASSUME job.at = "creating" PROVE Numbered(g) \cap Numbered(h) = {}
      <4>1. job # Idle
        BY <3>1 DEF Idle
      <4>2. Numbered(g) \cap Numbered(rem) = {}
        BY <2>5, <3>1, <4>1 DEF SyncedOK
      <4>. QED BY <4>2, <1>11
    <3>. QED BY <3>1, <2>5, <1>9
  <2>. QED BY <2>4, <2>5
<1>. QED BY <1>4, <1>7, <1>10, <1>11

-----------------------------------------------------------------------------
\* Nothing of h is lost in g, and nothing gone from it comes back.
Keeps(h, g, gone) ==
    \A id \in Held(h) \ gone :
        id \in Held(g) /\ Blobs(Issue(h, id)) \subseteq Blobs(Issue(g, id))
Forgets(h, g) == Gone(h) \cap Held(g) = {}

\* Blobs stay with their files.
LEMMA BlobsStay ==
  ASSUME NEW i, NEW v, \A p \in DOMAIN i.files : \E q \in DOMAIN v.files : v.files[q] = i.files[p]
  PROVE  Blobs(i) \subseteq Blobs(v)
BY DEF Blobs

\* What is gone was there after some commit.
LEMMA GoneIs ==
  ASSUME NEW h, IsHistory(h), NEW id \in Gone(h)
  PROVE  id \notin IdsAt(h, Len(h)) /\ \E j \in 1 .. Len(h) : id \in IdsAt(h, j)
<1>1. DOMAIN h = 1 .. Len(h) /\ Len(h) \in Nat /\ Tip(h) = TreeAt(h, Len(h))
  BY HistoryIs, TipIs
<1>. DEFINE all == {DOMAIN h[k].tree.issues : k \in DOMAIN h}
<1>8. Gone(h) = (UNION all) \ Held(h)
  BY DEF Gone
<1>2. id \in UNION all /\ id \notin Held(h)
  <2>. HIDE DEF all
  <2>. QED BY <1>8
<1>7. PICK s \in all : id \in s
  <2>. HIDE DEF all
  <2>. QED BY <1>2
<1>3. PICK j \in 1 .. Len(h) : id \in DOMAIN h[j].tree.issues
  BY <1>1, <1>7
<1>4. j # 0
  BY <1>1
<1>5. id \in IdsAt(h, j)
  BY <1>3, <1>4 DEF IdsAt, TreeAt
<1>6. id \notin IdsAt(h, Len(h))
  BY <1>1, <1>2 DEF Held, IdsAt
<1>. QED BY <1>5, <1>6

\* A queue that goes on from another keeps what that has.
LEMMA KeptOn ==
  ASSUME NEW h, IsHistory(h), NEW g, NEW gone, HistoryOK(g, gone), Begun(h, g)
  PROVE  Keeps(h, g, gone) /\ Forgets(h, g)
<1>. DEFINE j == Len(h)
            k == Len(g)
<1>1. IsHistory(g) /\ k \in Nat /\ j \in Nat /\ j <= k
  <2>1. IsHistory(g) /\ k \in Nat
    BY HistoryOKIs
  <2>. QED BY <2>1, HistoryIs DEF Begun
<1>2. \A i \in 0 .. j : TreeAt(h, i) = TreeAt(g, i)
  <2>1. \A i \in 0 .. j : i # 0 => i \in 1 .. Len(h)
    BY <1>1
  <2>. QED BY <2>1 DEF Begun, TreeAt
<1>3. Tip(h) = TreeAt(h, j) /\ Tip(g) = TreeAt(g, k)
  BY <1>1, TipIs
<1>. HIDE DEF j, k
<1>4. j \in 0 .. j /\ j \in 0 .. k /\ k \in 0 .. k /\ k = Len(g) /\ k \in 0 .. Len(g)
  BY <1>1 DEF k
<1>5. ASSUME NEW id \in Held(h) \ gone
      PROVE  id \in Held(g) /\ Blobs(Issue(h, id)) \subseteq Blobs(Issue(g, id))
  <2>1. id \in IdsAt(g, j) /\ id \notin gone
    BY <1>2, <1>3, <1>4, <1>5 DEF Held, IdsAt
  <2>2. id \in IdsAt(g, k)
    BY <2>1, <1>4, Stays
  <2>3. Extends(TreeAt(g, j).issues[id].files, TreeAt(g, k).issues[id].files)
    BY <2>1, <2>2, <1>4, FilesStay
  <2>. DEFINE i == Issue(h, id)
              v == Issue(g, id)
  <2>4. i = TreeAt(g, j).issues[id] /\ v = TreeAt(g, k).issues[id]
    BY <1>2, <1>3, <1>4 DEF Issue
  <2>5. Extends(i.files, v.files)
    BY <2>3, <2>4
  <2>. HIDE DEF i, v
  <2>6. Blobs(i) \subseteq Blobs(v)
    BY <2>5, BlobsStay DEF Extends
  <2>7. id \in Held(g)
    BY <2>2, <1>3 DEF Held, IdsAt
  <2>. QED BY <2>6, <2>7 DEF i, v
<1>6. ASSUME NEW id \in Gone(h), id \in Held(g) PROVE FALSE
  <2>1. id \notin IdsAt(h, j) /\ \E i \in 1 .. j : id \in IdsAt(h, i)
    BY <1>6, GoneIs DEF j
  <2>2. PICK i \in 1 .. j : id \in IdsAt(h, i)
    BY <2>1
  <2>3. i \in 0 .. j
    BY <2>2, <1>1
  <2>4. id \in IdsAt(g, i) /\ id \in IdsAt(g, k) /\ id \notin IdsAt(g, j)
    BY <2>1, <2>2, <2>3, <1>2, <1>3, <1>4, <1>6 DEF Held, IdsAt
  <2>. QED BY <2>3, <2>4, <1>4, Between
<1>. QED BY <1>5, <1>6 DEF Keeps, Forgets

\* So does one rebuilt by the replay.
LEMMA KeptReplayed ==
  ASSUME NEW a, IsHistory(a), NEW b, NEW c, NEW gone, NEW r, ReplayOK(a, b, c, Len(a), r, gone)
  PROVE  Keeps(a, r.history, gone) /\ Forgets(a, r.history)
<1>. DEFINE g == r.history
            tree == r.tree
<1>1. /\ Tip(g) = tree /\ Carried(TreeAt(a, Len(a)), tree, r.moved, gone)
      /\ \A j \in 0 .. Len(a) : \A id \in IdsAt(a, j) : id \notin IdsAt(a, Len(a)) => id \notin DOMAIN tree.issues
  BY DEF ReplayOK
<1>. HIDE DEF g, tree
<1>2. Tip(a) = TreeAt(a, Len(a)) /\ Len(a) \in Nat
  BY TipIs, HistoryIs
<1>3. ASSUME NEW id \in Held(a) \ gone
      PROVE  id \in Held(g) /\ Blobs(Issue(a, id)) \subseteq Blobs(Issue(g, id))
  <2>1. id \in DOMAIN Tip(a).issues /\ id \notin gone
    BY DEF Held
  <2>2. id \in DOMAIN tree.issues
    BY <2>1, <1>1, <1>2 DEF Carried
  <2>. DEFINE i == Tip(a).issues[id]
              v == tree.issues[id]
              m == MovedOf(r.moved, id)
  <2>3. LandedAll(i.files, m, v.files)
    BY <2>1, <2>2, <1>1, <1>2 DEF Carried
  <2>. HIDE DEF i, v, m
  <2>4. \A p \in DOMAIN i.files : \E q \in DOMAIN v.files : v.files[q] = i.files[p]
    BY <2>3 DEF LandedAll, Landed
  <2>5. Blobs(i) \subseteq Blobs(v)
    BY <2>4, BlobsStay
  <2>6. Issue(a, id) = i /\ Issue(g, id) = v
    BY <1>1 DEF Issue, i, v
  <2>. QED BY <2>2, <2>5, <2>6, <1>1 DEF Held
<1>4. ASSUME NEW id \in Gone(a), id \in Held(g) PROVE FALSE
  <2>1. id \notin IdsAt(a, Len(a)) /\ \E i \in 1 .. Len(a) : id \in IdsAt(a, i)
    BY <1>4, GoneIs
  <2>2. PICK i \in 1 .. Len(a) : id \in IdsAt(a, i)
    BY <2>1
  <2>3. i \in 0 .. Len(a)
    BY <2>2, <1>2
  <2>. QED BY <2>1, <2>2, <2>3, <1>1, <1>4 DEF Held
<1>. QED BY <1>3, <1>4 DEF Keeps, Forgets, g

\* A queue of other numbers brings nothing back.
LEMMA ForgetsOther ==
  ASSUME NEW h, NEW g, NEW gone, HistoryOK(h, gone), HistoryOK(g, gone), Numbered(h) \cap Numbered(g) = {}
  PROVE  Forgets(h, g)
<1>1. IsHistory(h) /\ Len(h) \in Nat
  BY HistoryOKIs
<1>2. IsHistory(g) /\ Len(g) \in 0 .. Len(g)
  BY HistoryOKIs
<1>3. ASSUME NEW id \in Gone(h), id \in Held(g) PROVE FALSE
  <2>1. PICK i \in 1 .. Len(h) : id \in IdsAt(h, i)
    BY <1>1, GoneIs
  <2>2. i \in 0 .. Len(h)
    BY <1>1
  <2>3. id \in Numbered(h)
    BY <2>1, <2>2, HeldNumbered
  <2>4. id \in IdsAt(g, Len(g))
    BY <1>2, <1>3, TipIs DEF Held, IdsAt
  <2>5. id \in Numbered(g)
    BY <2>4, <1>2, HeldNumbered
  <2>. QED BY <2>3, <2>5
<1>. QED BY <1>3 DEF Forgets

-----------------------------------------------------------------------------
(* The inductive invariant, and that it holds at first.                    *)

\* A write under way.
JobOK(job) == job = Idle \/ (DOMAIN job = {"at", "base", "tries"} /\ job.tries \in 1 .. CasAttempts)

\* The inductive invariant: the remote's queue, every machine's beside it, every
\* reconcile, and what two machines both have the remote has.
IInv ==
    /\ clock \in Nat /\ deleted \subseteq 1 .. clock /\ budget \in [Kind -> Nat]
    /\ DOMAIN local = Machine /\ DOMAIN syncing = Machine /\ DOMAIN writing = Machine
    /\ \A m \in Machine : DOMAIN writing[m] = Writer /\ \A w \in Writer : JobOK(writing[m][w])
    /\ RemoteOK(remote, deleted, clock)
    /\ \A m \in Machine : QueueOK(local[m], remote, deleted, clock)
    /\ \A m \in Machine : SyncedOK(syncing[m], local[m], remote)
    /\ \A l, m \in Machine : l # m => Numbered(local[l]) \cap Numbered(local[m]) \subseteq Numbered(remote)

\* Nothing is begun on a machine that has no queue.
NoneBegun == Budget["first"] = 0
FInv == NoneBegun => /\ budget["first"] = 0
                     /\ \A m \in Machine : syncing[m].at = "creating" => local[m] = << >>

\* Of one machine's queue.
LEMMA OwnQueue ==
  ASSUME NEW m \in Machine, IInv
  PROVE  /\ IsHistory(local[m]) /\ IsHistory(remote)
         /\ HistoryOK(local[m], deleted) /\ HistoryOK(remote, deleted)
<1>1. HistoryOK(local[m], deleted) /\ HistoryOK(remote, deleted)
  BY DEF IInv, QueueOK, RemoteOK
<1>. QED BY <1>1, HistoryOKIs

-----------------------------------------------------------------------------
\* Which queues there are at first.
LEMMA FirstIs ==
  ASSUME NEW n, NEW rem, NEW k \in Nat, n = k + 1, QueueOK(<< >>, rem, {}, k), RemoteOK(rem, {}, k)
  PROVE  /\ QueueOK(First(n), rem, {}, n) /\ Numbered(First(n)) = {n}
         /\ DOMAIN Tip(First(n)).issues = {n}
<1>. DEFINE u == Placed(NoTree, n, NewIssue(n))
            h == << >>
            c == [n |-> k + 1, tree |-> u]
            g == Append(h, c)
<1>1. Tip(h) = NoTree /\ TreeOK(NoTree) /\ DOMAIN NoTree.issues = {}
  BY DEF Tip, NoTree, TreeOK
<1>2. TreeOK(u) /\ Continues(NoTree, u, n, {})
  <2>1. IssueOK(NewIssue(n))
    BY NewIssueIs
  <2>. QED BY <1>1, <2>1, PlacedIs
<1>3. DOMAIN u.issues = {n}
  <2>1. DOMAIN With(NoTree.issues, n, NewIssue(n)) = {n}
    BY <1>1 DEF With
  <2>2. u.issues = With(NoTree.issues, n, NewIssue(n))
    BY DEF Placed, NoTree
  <2>. QED BY <2>1, <2>2
<1>4. g = First(n) /\ Tip(First(n)) = u
  BY DEF First, Tip, Last
<1>5. Numbered(h) = {}
  BY DEF Numbered
<1>. HIDE DEF u, h
<1>6. QueueOK(g, rem, {}, k + 1) /\ Numbered(g) = Numbered(h) \cup {k + 1}
  <2>1. Continues(Tip(h), u, k + 1, {}) /\ {} \subseteq {} /\ QueueOK(h, rem, {}, k)
    BY <1>1, <1>2 DEF h
  <2>2. g = Append(h, [n |-> k + 1, tree |-> u])
    OBVIOUS
  <2>. HIDE DEF g
  <2>3. AppendsTo(h, rem, {}, {}, k, u, g)
    BY <2>1, <2>2, <1>2 DEF AppendsTo
  <2>. QED BY <2>3, Appended
<1>. HIDE DEF g
<1>. QED BY <1>3, <1>4, <1>5, <1>6

\* The queues a machine may have at first are as the invariant has them.
LEMMA Queues ==
  /\ RemoteOK(Shared, {}, NewestAtFirst)
  /\ QueueOK(Shared, Shared, {}, NewestAtFirst)
  /\ QueueOK(<< >>, Shared, {}, NewestAtFirst)
  /\ QueueOK(First(NewestAtFirst), Shared, {}, NewestAtFirst)
  /\ QueueOK(Unpushed(NewestAtFirst), Shared, {}, NewestAtFirst)
<1>1. HistoryOK(<< >>, {}) /\ Numbered(<< >>) = {} /\ \A rem, n : QueueOK(<< >>, rem, {}, n)
  <2>1. HistoryOK(<< >>, {})
    BY NoneOK
  <2>2. Numbered(<< >>) = {} /\ \A rem : Agree(<< >>, rem)
    BY DEF Numbered, Agree
  <2>. QED BY <2>1, <2>2 DEF QueueOK
<1>2. RemoteOK(<< >>, {}, 0) /\ RemoteOK(<< >>, {}, 1)
  BY <1>1 DEF RemoteOK
<1>. DEFINE one == First(1)
            rem == << >>
<1>3. QueueOK(one, rem, {}, 1) /\ Numbered(one) = {1} /\ DOMAIN Tip(one).issues = {1}
  <2>1. 0 \in Nat /\ 1 = 0 + 1 /\ QueueOK(<< >>, rem, {}, 0) /\ RemoteOK(rem, {}, 0)
    BY <1>1, <1>2
  <2>. HIDE DEF rem
  <2>. QED BY <2>1, FirstIs
<1>. HIDE DEF one
<1>. DEFINE t == Tip(one)
            u == Placed(t, 2, NewIssue(2))
            two == Append(one, [n |-> 2, tree |-> u])
<1>4. TreeOK(t)
  <2>1. HistoryOK(one, {})
    BY <1>3 DEF QueueOK
  <2>2. IsHistory(one) /\ Len(one) \in 0 .. Len(one)
    BY <2>1, HistoryOKIs
  <2>3. TreeOK(TreeAt(one, Len(one))) /\ Tip(one) = TreeAt(one, Len(one))
    BY <2>1, <2>2, HistoryOKIs, TipIs
  <2>. QED BY <2>3
<1>5. DOMAIN t.issues = {1} /\ 2 \notin DOMAIN t.issues
  BY <1>3
<1>. HIDE DEF t
<1>6. TreeOK(u) /\ Continues(t, u, 2, {})
  <2>1. IssueOK(NewIssue(2))
    BY NewIssueIs
  <2>. QED BY <2>1, <1>4, <1>5, PlacedIs
<1>7. DOMAIN u.issues = {1, 2}
  <2>. DEFINE v == With(t.issues, 2, NewIssue(2))
  <2>1. DOMAIN v = {1, 2}
    BY <1>5 DEF With
  <2>. HIDE DEF v
  <2>2. u.issues = v
    BY <1>4 DEF Placed, TreeOK, v
  <2>. QED BY <2>1, <2>2
<1>. HIDE DEF u
<1>8. QueueOK(two, rem, {}, 2) /\ Numbered(two) = {1, 2}
  <2>1. 1 \in Nat /\ 1 + 1 = 2 /\ RemoteOK(rem, {}, 1)
    BY <1>2
  <2>2. Continues(Tip(one), u, 1 + 1, {}) /\ two = Append(one, [n |-> 1 + 1, tree |-> u])
    BY <2>1, <1>6 DEF t
  <2>. HIDE DEF two, rem
  <2>3. QueueOK(two, rem, {}, 1 + 1) /\ Numbered(two) = Numbered(one) \cup {1 + 1}
    <3>1. AppendsTo(one, rem, {}, {}, 1, u, two)
      BY <2>1, <2>2, <1>3, <1>6 DEF AppendsTo
    <3>. QED BY <3>1, Appended
  <2>. QED BY <2>1, <2>3, <1>3
<1>9. two = Shared
  BY DEF Shared, u, t, one
<1>10. HistoryOK(two, {}) /\ Len(two) = 2 /\ Tip(two) = u /\ IsHistory(two)
  <2>1. HistoryOK(one, {}) /\ HistoryOK(two, {})
    BY <1>3, <1>8 DEF QueueOK
  <2>2. IsHistory(one) /\ IsHistory(two) /\ Len(one) \in Nat
    BY <2>1, HistoryOKIs
  <2>3. Len(one) = 1
    <3>1. one = << [n |-> 1, tree |-> Placed(NoTree, 1, NewIssue(1))] >>
      BY DEF one, First
    <3>. QED BY <3>1
  <2>4. Len(two) = Len(one) + 1 /\ two[Len(one) + 1] = [n |-> 2, tree |-> u]
    BY <2>2, AppendIs
  <2>. HIDE DEF two
  <2>5. Len(two) = 2 /\ two[2] = [n |-> 2, tree |-> u] /\ 2 # 0
    BY <2>3, <2>4
  <2>6. TreeAt(two, 2) = u
    BY <2>5 DEF TreeAt
  <2>. QED BY <2>1, <2>2, <2>5, <2>6, TipIs
<1>. HIDE DEF two, rem
<1>11. RemoteOK(two, {}, 2) /\ RemoteOK(two, {}, 3)
  BY <1>8, <1>10 DEF RemoteOK
<1>12. QueueOK(two, two, {}, 2)
  <2>1. 2 \in 1 .. Len(two) /\ two = SubSeq(two, 1, 2)
    BY <1>10, WholePrefix
  <2>. QED BY <2>1, <1>11, Forwarded
<1>13. QueueOK(two, two, {}, 3)
  BY <1>12, QueueGrows, 2 \in Nat, 3 \in Nat, 2 <= 3
<1>14. QueueOK(First(3), two, {}, 3)
  <2>1. 2 \in Nat /\ 3 = 2 + 1 /\ QueueOK(<< >>, two, {}, 2)
    BY <1>1
  <2>. QED BY <2>1, <1>11, FirstIs
<1>. DEFINE edit == [kind |-> "attach", id |-> 1, names |-> <<"draft">>]
            v == WithAttachments(u.issues[1], <<"draft">>, 3)
            w == Placed(u, 1, v)
            more == Append(two, [n |-> 3, tree |-> w])
<1>15. TreeOK(u) /\ 1 \in DOMAIN u.issues
  BY <1>6, <1>7
<1>16. Adds(u.issues[1], v)
  <2>1. <<"draft">> \in Seq({"draft"})
    OBVIOUS
  <2>2. IssueOK(u.issues[1])
    BY <1>15 DEF TreeOK
  <2>. QED BY <2>1, <2>2, WithAttachmentsIs
<1>17. more = Unpushed(3)
  <2>1. Written(edit, u, 3) = w
    BY DEF Written, Updated
  <2>2. Unpushed(3) = Append(two, [n |-> 3, tree |-> Written(edit, u, 3)])
    BY <1>9, <1>10 DEF Unpushed
  <2>. QED BY <2>1, <2>2
<1>. HIDE DEF v
<1>18. TreeOK(w) /\ Continues(u, w, 3, {})
  <2>1. IssueOK(v)
    BY <1>16 DEF Adds
  <2>. QED BY <2>1, <1>15, <1>16, PlacedIs
<1>. HIDE DEF w
<1>19. QueueOK(more, two, {}, 3)
  <2>1. 2 \in Nat /\ 2 + 1 = 3
    OBVIOUS
  <2>2. Continues(Tip(two), w, 2 + 1, {}) /\ more = Append(two, [n |-> 2 + 1, tree |-> w]) /\ {} \subseteq {}
    BY <2>1, <1>10, <1>18
  <2>. HIDE DEF more
  <2>3. QueueOK(more, two, {}, 2 + 1)
    <3>1. AppendsTo(two, two, {}, {}, 2, w, more)
      BY <2>1, <2>2, <1>11, <1>12, <1>18 DEF AppendsTo
    <3>. QED BY <3>1, Appended
  <2>. QED BY <2>1, <2>3
<1>. HIDE DEF more
<1>. QED BY <1>1, <1>9, <1>11, <1>13, <1>14, <1>17, <1>19 DEF NewestAtFirst

\* So it is at first.
LEMMA InitInv == Init => IInv /\ FInv
<1>. SUFFICES ASSUME Init PROVE IInv /\ FInv
  OBVIOUS
<1>1. PICK m \in Machine, queue \in {Shared, First(NewestAtFirst), Unpushed(NewestAtFirst), << >>} :
          local = [l \in Machine |-> IF l = m THEN queue ELSE Shared]
  BY DEF Init
<1>2. /\ remote = Shared /\ clock = NewestAtFirst /\ deleted = {} /\ budget = Budget
      /\ writing = [l \in Machine |-> [w \in Writer |-> Idle]]
      /\ syncing = [l \in Machine |-> Idle]
  BY DEF Init
<1>3. QueueOK(queue, Shared, {}, NewestAtFirst)
  BY <1>1, Queues
<1>4. \A l \in Machine : local[l] = IF l = m THEN queue ELSE Shared
  BY <1>1
<1>5. RemoteOK(remote, deleted, clock)
  BY <1>2, Queues
<1>6. \A l \in Machine : QueueOK(local[l], remote, deleted, clock)
  BY <1>2, <1>3, <1>4, Queues
<1>7. \A l \in Machine : SyncedOK(syncing[l], local[l], remote)
  BY <1>2 DEF SyncedOK
<1>8. \A l, k \in Machine : l # k => Numbered(local[l]) \cap Numbered(local[k]) \subseteq Numbered(remote)
  BY <1>2, <1>4
<1>9. clock \in Nat /\ deleted \subseteq 1 .. clock /\ budget \in [Kind -> Nat]
  BY <1>2, IssuesAssumption DEF NewestAtFirst
<1>10. /\ DOMAIN local = Machine /\ DOMAIN syncing = Machine /\ DOMAIN writing = Machine
       /\ \A l \in Machine : DOMAIN writing[l] = Writer /\ \A w \in Writer : JobOK(writing[l][w])
  BY <1>1, <1>2 DEF JobOK
<1>11. IInv
  BY <1>5, <1>6, <1>7, <1>8, <1>9, <1>10 DEF IInv
<1>12. FInv
  BY <1>2 DEF FInv, NoneBegun, Idle
<1>. QED BY <1>11, <1>12

-----------------------------------------------------------------------------
(* Writes begun and given up, fetches.                                     *)

\* What a step does to every machine's queue.
Lasting ==
    \A m \in Machine : /\ NoneBegun => Keeps(local[m], local'[m], deleted')
                       /\ Forgets(local[m], local'[m])

\* A queue left alone lasts.
LEMMA SameLasts ==
  ASSUME NEW h, NEW gone
  PROVE  Keeps(h, h, gone) /\ Forgets(h, h)
<1>1. Keeps(h, h, gone)
  BY DEF Keeps
<1>2. Forgets(h, h)
  BY DEF Forgets, Gone
<1>. QED BY <1>1, <1>2

\* A transaction begun, retried or ended changes no queue.
LEMMA WriterSet ==
  ASSUME IInv, FInv, NEW m \in Machine, NEW w \in Writer, NEW job, JobOK(job),
         writing' = [writing EXCEPT ![m][w] = job],
         UNCHANGED <<remote, local, syncing, clock, deleted, budget>>
  PROVE  IInv' /\ FInv' /\ Lasting
<1>1. DOMAIN writing' = Machine /\ \A l \in Machine : DOMAIN writing'[l] = Writer /\ \A v \in Writer : JobOK(writing'[l][v])
  <2>1. DOMAIN writing = Machine /\ \A l \in Machine : DOMAIN writing[l] = Writer /\ \A v \in Writer : JobOK(writing[l][v])
    BY DEF IInv
  <2>2. DOMAIN writing' = Machine /\ \A l \in Machine : l # m => writing'[l] = writing[l]
    BY <2>1
  <2>3. writing'[m] = [writing[m] EXCEPT ![w] = job]
    BY <2>1
  <2>4. DOMAIN writing'[m] = Writer /\ \A v \in Writer : JobOK(writing'[m][v])
    BY <2>1, <2>3
  <2>. QED BY <2>1, <2>2, <2>4
<1>2. IInv'
  BY <1>1 DEF IInv
<1>3. FInv'
  BY DEF FInv
<1>4. Lasting
  BY SameLasts DEF Lasting
<1>. QED BY <1>2, <1>3, <1>4

\* Begins, EndsUnwritten and Retries are such steps.
LEMMA WriterActs ==
  ASSUME IInv, FInv, NEW m \in Machine, NEW w \in Writer, Begins(m, w) \/ EndsUnwritten(m, w) \/ Retries(m, w)
  PROVE  IInv' /\ FInv' /\ Lasting
<1>1. CASE Begins(m, w)
  <2>. DEFINE job == [at |-> "read", base |-> local[m], tries |-> 1]
  <2>1. JobOK(job)
    BY IssuesAssumption DEF JobOK
  <2>2. /\ writing' = [writing EXCEPT ![m][w] = job]
        /\ UNCHANGED <<remote, local, syncing, clock, deleted, budget>>
    BY <1>1 DEF Begins, WriterTo
  <2>. HIDE DEF job
  <2>. QED BY <2>1, <2>2, WriterSet
<1>2. CASE EndsUnwritten(m, w)
  <2>1. JobOK(Idle)
    BY DEF JobOK
  <2>2. /\ writing' = [writing EXCEPT ![m][w] = Idle]
        /\ UNCHANGED <<remote, local, syncing, clock, deleted, budget>>
    BY <1>2 DEF EndsUnwritten, WriterTo
  <2>. QED BY <2>1, <2>2, WriterSet
<1>3. CASE Retries(m, w)
  <2>. DEFINE was == writing[m][w]
              next == [was EXCEPT !.base = local[m], !.tries = @ + 1]
              job == IF was.tries < CasAttempts THEN next ELSE Idle
  <2>1. was.at = "read" /\ JobOK(was)
    BY <1>3 DEF Retries, IInv
  <2>2. was # Idle
    BY <2>1 DEF Idle
  <2>3. DOMAIN was = {"at", "base", "tries"} /\ was.tries \in 1 .. CasAttempts
    BY <2>1, <2>2 DEF JobOK
  <2>. HIDE DEF was
  <2>4. DOMAIN next = {"at", "base", "tries"} /\ next.tries = was.tries + 1
    BY <2>3
  <2>. HIDE DEF next
  <2>5. JobOK(job)
    <3>1. CASE was.tries < CasAttempts
      BY <2>3, <2>4, <3>1, IssuesAssumption DEF JobOK
    <3>2. CASE ~(was.tries < CasAttempts)
      BY <3>2 DEF JobOK
    <3>. QED BY <3>1, <3>2
  <2>6. /\ writing' = [writing EXCEPT ![m][w] = job]
        /\ UNCHANGED <<remote, local, syncing, clock, deleted, budget>>
    BY <1>3 DEF Retries, WriterTo, was, next
  <2>. HIDE DEF job
  <2>. QED BY <2>5, <2>6, WriterSet
<1>. QED BY <1>1, <1>2, <1>3

\* A reconcile begun or given up changes no queue.
LEMMA SyncSet ==
  ASSUME IInv, FInv, NEW m \in Machine, NEW job, SyncedOK(job, local[m], remote),
         job.at = "creating" => local[m] = << >>,
         syncing' = [syncing EXCEPT ![m] = job],
         UNCHANGED <<remote, local, writing, clock, deleted, budget>>
  PROVE  IInv' /\ FInv' /\ Lasting
<1>1. DOMAIN syncing' = Machine /\ syncing'[m] = job /\ \A l \in Machine : l # m => syncing'[l] = syncing[l]
  BY DEF IInv
<1>2. \A l \in Machine : SyncedOK(syncing'[l], local[l], remote)
  BY <1>1 DEF IInv
<1>3. IInv'
  BY <1>1, <1>2 DEF IInv
<1>4. FInv'
  BY <1>1 DEF FInv
<1>5. Lasting
  BY SameLasts DEF Lasting
<1>. QED BY <1>3, <1>4, <1>5

\* Fetches, LooksForRef and RereadsToRebase are such steps.
LEMMA SyncActs ==
  ASSUME IInv, FInv, NEW m \in Machine, Fetches(m) \/ LooksForRef(m) \/ RereadsToRebase(m)
  PROVE  IInv' /\ FInv' /\ Lasting
<1>0. IsHistory(local[m]) /\ IsHistory(remote) /\ SyncedOK(syncing[m], local[m], remote)
  BY OwnQueue DEF IInv
<1>. DEFINE job == syncing'[m]
<1>. SUFFICES ASSUME TRUE PROVE
       /\ SyncedOK(job, local[m], remote)
       /\ job.at = "creating" => local[m] = << >>
       /\ syncing' = [syncing EXCEPT ![m] = job]
       /\ UNCHANGED <<remote, local, writing, clock, deleted, budget>>
  <2>. HIDE DEF job
  <2>. QED BY SyncSet
<1>d. DOMAIN syncing = Machine
  BY DEF IInv
<1>1. CASE Fetches(m)
  <2>. DEFINE a == local[m]
  <2>1. PICK at \in {"adopting", "forwarding", "rebasing"} :
           /\ at = "adopting" => a = << >>
           /\ at = "forwarding" => a # << >> /\ Ahead(a, remote) = 0
           /\ at = "rebasing" => a # << >> /\ Ahead(a, remote) > 0
           /\ Ahead(remote, a) > 0
           /\ syncing' = [syncing EXCEPT ![m] = [at |-> at, theirs |-> remote, ours |-> a, tries |-> 1]]
           /\ UNCHANGED <<remote, local, writing, clock, deleted, budget>>
    BY <1>1 DEF Fetches, SyncTo
  <2>2. job = [at |-> at, theirs |-> remote, ours |-> a, tries |-> 1]
    BY <2>1, <1>d
  <2>3. syncing' = [syncing EXCEPT ![m] = job]
    BY <2>1, <2>2
  <2>. HIDE DEF job, a
  <2>4. /\ job.at = at /\ job.theirs = remote /\ job.ours = a
        /\ DOMAIN job = {"at", "theirs", "ours", "tries"}
    BY <2>2
  <2>5. IsHistory(a)
    BY <1>0 DEF a
  <2>6. /\ Len(remote) \in 1 .. Len(remote)
        /\ at = "forwarding" => \E k \in 1 .. Len(remote) : a = SubSeq(remote, 1, k)
        /\ at = "rebasing" => Diverge(a, remote)
    BY <2>1, <2>5, <1>0, Fetched
  <2>7. remote = SubSeq(remote, 1, Len(remote))
    BY <1>0, WholePrefix
  <2>8. SyncedOK(job, a, remote)
    BY <2>1, <2>4, <2>6, <2>7 DEF SyncedOK
  <2>. QED BY <2>1, <2>3, <2>4, <2>8 DEF a
<1>2. CASE LooksForRef(m)
  <2>. DEFINE was == syncing[m]
  <2>1. /\ was.at = "adopting"
        /\ syncing' = [syncing EXCEPT ![m] = IF local[m] = << >> THEN [was EXCEPT !.at = "creating"] ELSE Idle]
        /\ UNCHANGED <<remote, local, writing, clock, deleted, budget>>
    BY <1>2 DEF LooksForRef, SyncTo
  <2>2. job = IF local[m] = << >> THEN [was EXCEPT !.at = "creating"] ELSE Idle
    BY <2>1, <1>d
  <2>3. syncing' = [syncing EXCEPT ![m] = job]
    BY <2>1, <2>2
  <2>. HIDE DEF job, was
  <2>4. was # Idle /\ SyncedOK(was, local[m], remote)
    BY <2>1, <1>0 DEF Idle, was
  <2>5. CASE local[m] = << >>
    <3>1. /\ DOMAIN was = {"at", "theirs", "ours", "tries"}
          /\ \E k \in 1 .. Len(remote) : was.theirs = SubSeq(remote, 1, k)
      BY <2>4 DEF SyncedOK
    <3>2. job.at = "creating" /\ job.theirs = was.theirs /\ DOMAIN job = {"at", "theirs", "ours", "tries"}
      BY <2>2, <2>5, <3>1
    <3>3. Numbered(local[m]) = {}
      BY <2>5 DEF Numbered
    <3>4. SyncedOK(job, local[m], remote)
      BY <3>1, <3>2, <3>3 DEF SyncedOK
    <3>. QED BY <2>1, <2>3, <2>5, <3>4
  <2>6. CASE local[m] # << >>
    <3>1. job = Idle /\ job.at = "idle"
      BY <2>2, <2>6 DEF Idle
    <3>. QED BY <2>1, <2>3, <3>1 DEF SyncedOK
  <2>. QED BY <2>5, <2>6
<1>3. CASE RereadsToRebase(m)
  <2>. DEFINE was == syncing[m]
              next == [was EXCEPT !.ours = local[m], !.tries = @ + 1]
  <2>1. /\ was.at = "rebasing"
        /\ syncing' = [syncing EXCEPT ![m] = IF was.tries < CasAttempts THEN next ELSE Idle]
        /\ UNCHANGED <<remote, local, writing, clock, deleted, budget>>
    BY <1>3 DEF RereadsToRebase, SyncTo
  <2>2. job = next \/ job = Idle
    BY <2>1, <1>d
  <2>3. syncing' = [syncing EXCEPT ![m] = job]
    BY <2>1, <1>d
  <2>. HIDE DEF job, was
  <2>4. was # Idle /\ SyncedOK(was, local[m], remote)
    BY <2>1, <1>0 DEF Idle, was
  <2>5. CASE job = next
    <3>1. /\ DOMAIN was = {"at", "theirs", "ours", "tries"}
          /\ \E k \in 1 .. Len(remote) : was.theirs = SubSeq(remote, 1, k)
          /\ Diverge(local[m], was.theirs)
      BY <2>1, <2>4 DEF SyncedOK
    <3>2. job.at = "rebasing" /\ job.theirs = was.theirs /\ DOMAIN job = {"at", "theirs", "ours", "tries"}
      BY <2>1, <2>5, <3>1
    <3>4. SyncedOK(job, local[m], remote)
      BY <3>1, <3>2 DEF SyncedOK
    <3>. QED BY <2>1, <2>3, <3>2, <3>4
  <2>6. CASE job = Idle
    <3>1. job.at = "idle"
      BY <2>6 DEF Idle
    <3>. QED BY <2>1, <2>3, <2>6, <3>1 DEF SyncedOK
  <2>. QED BY <2>2, <2>5, <2>6
<1>. QED BY <1>1, <1>2, <1>3

-----------------------------------------------------------------------------
(* Reconciles.                                                             *)

\* This machine's queue comes to be g.
Becomes(m, g) ==
    /\ DOMAIN local' = Machine /\ local'[m] = g
    /\ \A l \in Machine : l # m => local'[l] = local[l]

\* A machine's queue comes to be g, and its reconcile is over.
LEMMA QueueSet ==
  ASSUME IInv, FInv, NEW m \in Machine, NEW g,
         QueueOK(g, remote, deleted, clock),
         Numbered(g) \subseteq Numbered(remote) \cup Numbered(local[m]),
         NoneBegun => Keeps(local[m], g, deleted),
         Forgets(local[m], g),
         Becomes(m, g),
         syncing' = [syncing EXCEPT ![m] = Idle],
         UNCHANGED <<remote, writing, clock, deleted, budget>>
  PROVE  IInv' /\ FInv' /\ Lasting
<1>1. /\ DOMAIN syncing' = Machine /\ syncing'[m] = Idle /\ \A l \in Machine : l # m => syncing'[l] = syncing[l]
      /\ DOMAIN local' = Machine /\ local'[m] = g /\ \A l \in Machine : l # m => local'[l] = local[l]
  BY DEF IInv, Becomes
<1>2. \A l \in Machine : QueueOK(local'[l], remote, deleted, clock)
  BY <1>1 DEF IInv
<1>3. \A l \in Machine : SyncedOK(syncing'[l], local'[l], remote)
  <2>1. SyncedOK(Idle, g, remote)
    BY DEF SyncedOK
  <2>. QED BY <1>1, <2>1 DEF IInv
<1>4. \A l, k \in Machine : l # k => Numbered(local'[l]) \cap Numbered(local'[k]) \subseteq Numbered(remote)
  <2>1. \A l, k \in Machine : l # k => Numbered(local[l]) \cap Numbered(local[k]) \subseteq Numbered(remote)
    BY DEF IInv
  <2>2. \A l \in Machine : Numbered(local'[l]) \subseteq Numbered(local[l]) \cup Numbered(remote)
    BY <1>1
  <2>. QED BY <2>1, <2>2
<1>5. IInv'
  BY <1>1, <1>2, <1>3, <1>4 DEF IInv
<1>6. FInv'
  <2>1. Idle.at # "creating"
    BY DEF Idle
  <2>. QED BY <1>1, <2>1 DEF FInv
<1>7. Lasting
  <2>1. SUFFICES ASSUME NEW l \in Machine
                 PROVE  (NoneBegun => Keeps(local[l], local'[l], deleted')) /\ Forgets(local[l], local'[l])
    BY DEF Lasting
  <2>2. CASE l = m
    BY <2>2, <1>1
  <2>3. CASE l # m
    BY <2>3, <1>1, SameLasts
  <2>. QED BY <2>2, <2>3
<1>. QED BY <1>5, <1>6, <1>7

\* Adopts, FastForwards and Rebases end so.
LEMMA QueueActs ==
  ASSUME IInv, FInv, NEW m \in Machine, Adopts(m) \/ FastForwards(m) \/ Rebases(m)
  PROVE  IInv' /\ FInv' /\ Lasting
<1>. DEFINE job == syncing[m]
            h == local[m]
            b == job.theirs
<1>1. /\ QueueOK(h, remote, deleted, clock) /\ RemoteOK(remote, deleted, clock)
      /\ SyncedOK(job, h, remote) /\ DOMAIN local = Machine
  BY DEF IInv
<1>2. HistoryOK(h, deleted) /\ IsHistory(h)
  BY OwnQueue
<1>3. job.at \in {"creating", "forwarding", "rebasing"} => job # Idle
  BY DEF Idle
<1>4. UNCHANGED <<remote, writing, clock, deleted, budget>> /\ syncing' = [syncing EXCEPT ![m] = Idle]
  BY DEF Adopts, FastForwards, Rebases, RebasesBlindly, SyncTo
<1>. SUFFICES ASSUME TRUE PROVE
       \E g : /\ QueueOK(g, remote, deleted, clock)
              /\ Numbered(g) \subseteq Numbered(remote) \cup Numbered(h)
              /\ NoneBegun => Keeps(h, g, deleted)
              /\ Forgets(h, g)
              /\ Becomes(m, g)
  <2>1. PICK g : /\ QueueOK(g, remote, deleted, clock)
                 /\ Numbered(g) \subseteq Numbered(remote) \cup Numbered(local[m])
                 /\ NoneBegun => Keeps(local[m], g, deleted)
                 /\ Forgets(local[m], g)
                 /\ Becomes(m, g)
    OBVIOUS
  <2>. QED BY <2>1, <1>4, QueueSet
<1>5. job # Idle => \E k \in 1 .. Len(remote) : b = SubSeq(remote, 1, k)
  BY <1>1 DEF SyncedOK
<1>6. job # Idle => /\ QueueOK(b, remote, deleted, clock)
                    /\ Numbered(b) \subseteq Numbered(remote)
  BY <1>1, <1>5, Forwarded
<1>. HIDE DEF b
<1>7. CASE Adopts(m)
  <2>0. job.at = "creating" /\ local' = [local EXCEPT ![m] = b]
    BY <1>7 DEF Adopts, b
  <2>1. job.at = "creating" /\ Becomes(m, b)
    BY <2>0, <1>1 DEF Becomes
  <2>2. Numbered(h) \cap Numbered(remote) = {}
    BY <2>1, <1>1, <1>3 DEF SyncedOK
  <2>3. QueueOK(b, remote, deleted, clock) /\ Numbered(b) \subseteq Numbered(remote)
    BY <2>1, <1>3, <1>6
  <2>4. Forgets(h, b)
    <3>1. HistoryOK(b, deleted) /\ Numbered(h) \cap Numbered(b) = {}
      BY <2>2, <2>3 DEF QueueOK
    <3>. QED BY <3>1, <1>2, ForgetsOther
  <2>5. NoneBegun => Keeps(h, b, deleted)
    <3>1. NoneBegun => h = << >>
      BY <2>1 DEF FInv
    <3>2. Held(<< >>) = {}
      BY DEF Held, Tip, NoTree
    <3>. QED BY <3>1, <3>2 DEF Keeps
  <2>. QED BY <2>1, <2>3, <2>4, <2>5
<1>8. CASE FastForwards(m)
  <2>1. job.at = "forwarding" /\ local' = IF h = job.ours THEN [local EXCEPT ![m] = b] ELSE local
    BY <1>8 DEF FastForwards, b
  <2>2. CASE h = job.ours
    <3>1. \E k \in 1 .. Len(b) : h = SubSeq(b, 1, k)
      BY <2>1, <2>2, <1>1, <1>3 DEF SyncedOK, b
    <3>2. QueueOK(b, remote, deleted, clock) /\ Numbered(b) \subseteq Numbered(remote)
      BY <2>1, <1>3, <1>6
    <3>3. HistoryOK(b, deleted) /\ RemoteOK(b, deleted, clock)
      BY <3>2 DEF QueueOK, RemoteOK
    <3>4. Begun(h, b)
      BY <3>1, <3>3, Forwarded
    <3>5. Keeps(h, b, deleted) /\ Forgets(h, b)
      BY <3>3, <3>4, <1>2, KeptOn
    <3>6. Becomes(m, b)
      BY <2>1, <2>2, <1>1 DEF Becomes
    <3>. QED BY <3>2, <3>5, <3>6
  <2>3. CASE h # job.ours
    <3>1. Becomes(m, h)
      BY <2>1, <2>3, <1>1 DEF Becomes
    <3>2. Keeps(h, h, deleted) /\ Forgets(h, h)
      BY SameLasts
    <3>. QED BY <3>1, <3>2, <1>1
  <2>. QED BY <2>2, <2>3
<1>9. CASE Rebases(m)
  <2>. DEFINE g == Replayed(h, b)
  <2>0. job.at = "rebasing" /\ local' = [local EXCEPT ![m] = g]
    BY <1>9 DEF Rebases, RebasesBlindly, b
  <2>1. job.at = "rebasing" /\ Becomes(m, g)
    BY <2>0, <1>1 DEF Becomes
  <2>2. Diverge(h, b)
    BY <2>1, <1>1, <1>3 DEF SyncedOK, b
  <2>3. PICK k \in 1 .. Len(remote) : b = SubSeq(remote, 1, k)
    BY <2>1, <1>3, <1>5
  <2>. HIDE DEF g, h, job
  <2>4. g = Replayed(h, b)
    BY DEF g
  <2>9. ReplaysOn(h, remote, deleted, clock, k, b)
    BY <2>2, <2>3, <1>1 DEF ReplaysOn
  <2>5. /\ QueueOK(g, remote, deleted, clock)
        /\ Numbered(g) \subseteq Numbered(remote) \cup Numbered(h)
        /\ \E r : ReplayOK(h, b, Common(h, b), Len(h), r, deleted) /\ r.history = g
    BY <2>4, <2>9, Rebuilt
  <2>6. PICK r : ReplayOK(h, b, Common(h, b), Len(h), r, deleted) /\ r.history = g
    BY <2>5
  <2>7. Keeps(h, r.history, deleted) /\ Forgets(h, r.history)
    BY <2>6, <1>2, KeptReplayed
  <2>8. Keeps(h, g, deleted) /\ Forgets(h, g)
    BY <2>6, <2>7
  <2>. QED BY <2>1, <2>5, <2>8 DEF h
<1>. QED BY <1>7, <1>8, <1>9

-----------------------------------------------------------------------------
(* Commits, pushes, and the theorems.                                      *)

\* A commit makes the machine's queue one longer, by a number nobody has.
LEMMA Commit ==
  ASSUME IInv, FInv, NEW m \in Machine, NEW w \in Writer, Commits(m, w)
  PROVE  IInv' /\ FInv' /\ Lasting
<1>. DEFINE h == local[m]
            u(op) == Written(op, Tip(h), clock + 1)
<1>1. PICK op \in Writes(Tip(h)) :
         /\ IF h = << >> THEN Spend("first") ELSE Spend(op.kind)
         /\ local' = [local EXCEPT ![m] = Append(h, [n |-> clock + 1, tree |-> u(op)])]
         /\ deleted' = IF op.kind = "delete" THEN deleted \cup {op.id} ELSE deleted
  BY DEF Commits, CommitsBlindly
<1>2. clock' = clock + 1 /\ writing' = [writing EXCEPT ![m][w] = Idle] /\ UNCHANGED <<remote, syncing>>
  BY DEF Commits, CommitsBlindly, WriterTo
<1>3. /\ clock \in Nat /\ deleted \subseteq 1 .. clock /\ budget \in [Kind -> Nat]
      /\ DOMAIN local = Machine /\ DOMAIN syncing = Machine /\ DOMAIN writing = Machine
      /\ \A l \in Machine : DOMAIN writing[l] = Writer /\ \A v \in Writer : JobOK(writing[l][v])
      /\ RemoteOK(remote, deleted, clock)
      /\ \A l \in Machine : QueueOK(local[l], remote, deleted, clock)
      /\ \A l \in Machine : SyncedOK(syncing[l], local[l], remote)
      /\ \A l, k \in Machine : l # k => Numbered(local[l]) \cap Numbered(local[k]) \subseteq Numbered(remote)
  BY DEF IInv
<1>. DEFINE g == Append(h, [n |-> clock + 1, tree |-> u(op)])
<1>4. DOMAIN local' = Machine /\ local'[m] = g /\ \A l \in Machine : l # m => local'[l] = local[l]
  BY <1>1, <1>3
<1>5. /\ deleted \subseteq deleted'
      /\ TreeOK(u(op)) /\ Continues(Tip(h), u(op), clock + 1, deleted')
      /\ op.kind \in Kind
      /\ op.kind = "delete" => op.id \in 1 .. clock
  <2>. DEFINE v == u(op)
  <2>1. v = Written(op, Tip(h), clock + 1) /\ QueueOK(h, remote, deleted, clock)
    BY <1>3
  <2>. HIDE DEF v, h
  <2>2. op \in Writes(Tip(h)) /\ deleted' = IF op.kind = "delete" THEN deleted \cup {op.id} ELSE deleted
    BY <1>1
  <2>3. /\ deleted \subseteq deleted'
        /\ TreeOK(v) /\ Continues(Tip(h), v, clock + 1, deleted')
        /\ op.kind \in Kind
        /\ op.kind = "delete" => op.id \in 1 .. clock
    <3>. DEFINE n == clock more == deleted'
    <3>1. n \in Nat /\ QueueOK(h, remote, deleted, n) /\ v = Written(op, Tip(h), n + 1)
      BY <2>1, <1>3
    <3>2. op \in Writes(Tip(h)) /\ more = IF op.kind = "delete" THEN deleted \cup {op.id} ELSE deleted
      BY <2>2
    <3>. HIDE DEF n, more
    <3>3. /\ deleted \subseteq more
          /\ TreeOK(v) /\ Continues(Tip(h), v, n + 1, more)
          /\ op.kind \in Kind
          /\ op.kind = "delete" => op.id \in 1 .. n
      BY <3>1, <3>2, Committed
    <3>. QED BY <3>3 DEF n, more
  <2>. QED BY <2>3 DEF v
<1>6. AppendsTo(h, remote, deleted, deleted', clock, u(op), g)
  BY <1>3, <1>5 DEF AppendsTo
<1>. HIDE DEF g, u
<1>7. /\ QueueOK(g, remote, deleted', clock + 1)
      /\ RemoteOK(remote, deleted', clock + 1)
      /\ Begun(h, g) /\ Numbered(g) = Numbered(h) \cup {clock + 1}
      /\ \A job : SyncedOK(job, h, remote) => SyncedOK(job, g, remote)
  BY <1>6, Appended
<1>. HIDE DEF h
<1>8. \A l \in Machine : QueueOK(local'[l], remote, deleted', clock + 1)
  <2>1. SUFFICES ASSUME NEW l \in Machine, l # m PROVE QueueOK(local[l], remote, deleted', clock + 1)
    BY <1>4, <1>7
  <2>2. clock + 1 \in Nat /\ clock <= clock + 1 /\ QueueOK(local[l], remote, deleted, clock)
    BY <1>3
  <2>. QED BY <2>2, <1>3, <1>5, QueueGrows
<1>9. \A l \in Machine : SyncedOK(syncing[l], local'[l], remote)
  BY <1>3, <1>4, <1>7 DEF h
<1>10. \A l, k \in Machine : l # k => Numbered(local'[l]) \cap Numbered(local'[k]) \subseteq Numbered(remote)
  <2>1. \A l \in Machine : Numbered(local[l]) \subseteq 1 .. clock
    BY <1>3 DEF QueueOK
  <2>2. clock + 1 \notin 1 .. clock
    BY <1>3
  <2>3. \A l \in Machine : l # m => clock + 1 \notin Numbered(local'[l])
    BY <2>1, <2>2, <1>4
  <2>4. Numbered(local'[m]) = Numbered(local[m]) \cup {clock + 1}
    BY <1>4, <1>7 DEF h
  <2>. QED BY <2>3, <2>4, <1>3, <1>4
<1>11. budget' \in [Kind -> Nat] /\ (NoneBegun => budget'["first"] = 0 /\ h # << >>)
  <2>1. PICK kind \in Kind : Spend(kind) /\ (h = << >> => kind = "first")
    BY <1>1, <1>5 DEF Kind
  <2>2. budget[kind] > 0 /\ budget' = [budget EXCEPT ![kind] = @ - 1]
    BY <2>1 DEF Spend
  <2>3. budget[kind] - 1 \in Nat
    BY <2>2, <1>3
  <2>4. budget' \in [Kind -> Nat]
    BY <2>2, <2>3, <1>3
  <2>5. NoneBegun => kind # "first" /\ budget["first"] = 0
    BY <2>2 DEF FInv
  <2>6. NoneBegun => budget'["first"] = 0
    BY <2>2, <2>5, <1>3
  <2>. QED BY <2>1, <2>4, <2>5, <2>6
<1>12. DOMAIN writing' = Machine /\ \A l \in Machine : DOMAIN writing'[l] = Writer /\ \A v \in Writer : JobOK(writing'[l][v])
  <2>1. DOMAIN writing' = Machine /\ \A l \in Machine : l # m => writing'[l] = writing[l]
    BY <1>2, <1>3
  <2>2. writing'[m] = [writing[m] EXCEPT ![w] = Idle]
    BY <1>2, <1>3
  <2>3. DOMAIN writing'[m] = Writer /\ \A v \in Writer : JobOK(writing'[m][v])
    BY <2>2, <1>3 DEF JobOK
  <2>. QED BY <2>1, <2>3, <1>3
<1>13. clock' \in Nat /\ deleted' \subseteq 1 .. clock'
  BY <1>1, <1>2, <1>3, <1>5
<1>14. IInv'
  BY <1>2, <1>3, <1>4, <1>7, <1>8, <1>9, <1>10, <1>11, <1>12, <1>13 DEF IInv
<1>15. FInv'
  <2>1. ASSUME NoneBegun, NEW l \in Machine, syncing'[l].at = "creating" PROVE local'[l] = << >>
    <3>1. local[l] = << >>
      BY <2>1, <1>2 DEF FInv
    <3>2. l # m
      BY <2>1, <3>1, <1>11 DEF h
    <3>. QED BY <3>1, <3>2, <1>4
  <2>. QED BY <2>1, <1>11 DEF FInv
<1>16. Lasting
  <2>1. Keeps(h, g, deleted') /\ Forgets(h, g)
    <3>1. HistoryOK(g, deleted') /\ IsHistory(h)
      BY <1>7, OwnQueue DEF QueueOK, h
    <3>. QED BY <3>1, <1>7, KeptOn
  <2>2. SUFFICES ASSUME NEW l \in Machine
                 PROVE  (NoneBegun => Keeps(local[l], local'[l], deleted')) /\ Forgets(local[l], local'[l])
    BY DEF Lasting
  <2>3. CASE l = m
    BY <2>1, <2>3, <1>4 DEF h
  <2>4. CASE l # m
    BY <2>4, <1>4, SameLasts
  <2>. QED BY <2>3, <2>4
<1>. QED BY <1>14, <1>15, <1>16

\* A push makes the machine's queue the remote's.
LEMMA Push ==
  ASSUME IInv, FInv, NEW m \in Machine, Pushes(m)
  PROVE  IInv' /\ FInv' /\ Lasting
<1>. DEFINE h == local[m]
<1>1. Ahead(remote, h) = 0 /\ remote' = h /\ UNCHANGED <<local, writing, syncing, clock, deleted, budget>>
  BY DEF Pushes
<1>2. IsHistory(h) /\ IsHistory(remote)
  BY OwnQueue
<1>3. /\ RemoteOK(remote, deleted, clock)
      /\ \A l \in Machine : QueueOK(local[l], remote, deleted, clock)
      /\ \A l \in Machine : SyncedOK(syncing[l], local[l], remote)
      /\ \A l, k \in Machine : l # k => Numbered(local[l]) \cap Numbered(local[k]) \subseteq Numbered(remote)
  BY DEF IInv
<1>4. QueueOK(h, remote, deleted, clock) /\ SyncedOK(syncing[m], h, remote)
  BY <1>3
<1>5. \A l \in Machine : l # m => Numbered(local[l]) \cap Numbered(h) \subseteq Numbered(remote)
  BY <1>3
<1>9. \A l \in Machine : l = m => local[l] = h
  OBVIOUS
<1>. HIDE DEF h
<1>6. Begun(remote, h)
  BY <1>1, <1>2, Fetched
<1>7. /\ RemoteOK(h, deleted, clock) /\ QueueOK(h, h, deleted, clock)
      /\ Numbered(remote) \subseteq Numbered(h)
      /\ \A job : SyncedOK(job, h, remote) => SyncedOK(job, h, h)
      /\ \A g : QueueOK(g, remote, deleted, clock) /\ Numbered(g) \cap Numbered(h) \subseteq Numbered(remote) =>
            /\ QueueOK(g, h, deleted, clock)
            /\ \A job : SyncedOK(job, g, remote) => SyncedOK(job, g, h)
  BY <1>3, <1>4, <1>6, Pushed
<1>8. \A l \in Machine : QueueOK(local[l], h, deleted, clock) /\ SyncedOK(syncing[l], local[l], h)
  BY <1>3, <1>4, <1>5, <1>7, <1>9
<1>10. \A l, k \in Machine : l # k => Numbered(local[l]) \cap Numbered(local[k]) \subseteq Numbered(h)
  BY <1>3, <1>7
<1>11. IInv'
  BY <1>1, <1>7, <1>8, <1>10 DEF IInv
<1>12. FInv'
  BY <1>1 DEF FInv
<1>13. Lasting
  BY <1>1, SameLasts DEF Lasting
<1>. QED BY <1>11, <1>12, <1>13

\* Every step keeps the invariants, and every queue lasts.
LEMMA NextInv ==
  ASSUME IInv, FInv, [Next]_vars
  PROVE  IInv' /\ FInv' /\ Lasting
<1>1. CASE UNCHANGED vars
  <2>1. IInv' /\ FInv'
    BY <1>1 DEF vars, IInv, FInv
  <2>2. Lasting
    BY <1>1, SameLasts DEF vars, Lasting
  <2>. QED BY <2>1, <2>2
<1>2. CASE Next
  <2>1. PICK m \in Machine :
           \/ \E w \in Writer : Begins(m, w) \/ Commits(m, w) \/ EndsUnwritten(m, w) \/ Retries(m, w)
           \/ Fetches(m) \/ LooksForRef(m) \/ RereadsToRebase(m)
           \/ Adopts(m) \/ FastForwards(m) \/ Rebases(m)
           \/ Pushes(m)
    BY <1>2 DEF Next
  <2>2. ASSUME NEW w \in Writer, Begins(m, w) \/ Commits(m, w) \/ EndsUnwritten(m, w) \/ Retries(m, w)
        PROVE  IInv' /\ FInv' /\ Lasting
    BY <2>2, WriterActs, Commit
  <2>3. CASE Fetches(m) \/ LooksForRef(m) \/ RereadsToRebase(m)
    BY <2>3, SyncActs
  <2>4. CASE Adopts(m) \/ FastForwards(m) \/ Rebases(m)
    BY <2>4, QueueActs
  <2>5. CASE Pushes(m)
    BY <2>5, Push
  <2>. QED BY <2>1, <2>2, <2>3, <2>4, <2>5
<1>. QED BY <1>1, <1>2

\* The invariant holds throughout: every queue of every machine is a chain of
\* writes and replayed writes (issues.rs, rebase.rs).
THEOREM Invariance == Spec => [](IInv /\ FInv)
<1>1. Init => IInv /\ FInv
  BY InitInv
<1>2. (IInv /\ FInv) /\ [Next]_vars => (IInv /\ FInv)'
  BY NextInv
<1>. QED BY <1>1, <1>2, PTL DEF Spec

\* What the tip of such a queue holds.
LEMMA TipOK ==
  ASSUME NEW h, NEW gone, HistoryOK(h, gone)
  PROVE  \A id \in Held(h) : IssueOK(Issue(h, id)) /\ id \in Numbered(h)
<1>1. IsHistory(h) /\ Len(h) \in Nat /\ Len(h) \in 0 .. Len(h)
  BY HistoryOKIs
<1>2. Tip(h) = TreeAt(h, Len(h)) /\ TreeOK(TreeAt(h, Len(h)))
  BY <1>1, HistoryOKIs, TipIs
<1>3. \A id \in Held(h) : IssueOK(Issue(h, id))
  BY <1>2 DEF TreeOK, Held, Issue
<1>4. \A id \in Held(h) : id \in Numbered(h)
  <2>1. SUFFICES ASSUME NEW id \in Held(h) PROVE id \in Numbered(h)
    OBVIOUS
  <2>2. id \in IdsAt(h, Len(h))
    BY <2>1, <1>2 DEF Held, IdsAt
  <2>3. PICK b \in 1 .. Len(h) : h[b].n = id
    BY <2>2, <1>1, Born
  <2>. QED BY <2>3, <1>1, NumberedIs
<1>. QED BY <1>3, <1>4

\* TypeOK: an issue's body refers to no attachment the issue has not, on any
\* machine and in the remote's queue, whatever was replayed (rebase.rs 318-330).
THEOREM TypeCorrect == Spec => []TypeOK
<1>1. IInv => TypeOK
  <2>. SUFFICES ASSUME IInv PROVE TypeOK
    OBVIOUS
  <2>1. ASSUME NEW h \in {remote} \cup {local[m] : m \in Machine}, NEW id \in Held(h)
        PROVE  id \in 1 .. clock /\ Issue(h, id).body.refs \subseteq DOMAIN Issue(h, id).files
    <3>1. HistoryOK(h, deleted) /\ Numbered(h) \subseteq 1 .. clock
      BY DEF IInv, QueueOK, RemoteOK
    <3>2. IssueOK(Issue(h, id)) /\ id \in Numbered(h)
      BY <2>1, <3>1, TipOK
    <3>. QED BY <3>1, <3>2 DEF IssueOK
  <2>2. ASSUME NEW m \in Machine, NEW w \in Writer, writing[m][w] # Idle
        PROVE  writing[m][w].tries \in 1 .. CasAttempts
    BY <2>2 DEF IInv, JobOK
  <2>3. clock \in Nat /\ deleted \subseteq 1 .. clock /\ budget \in [Kind -> Nat]
    BY DEF IInv
  <2>. QED BY <2>1, <2>2, <2>3 DEF TypeOK
<1>. QED BY <1>1, Invariance, PTL

\* NumbersUnique: a number names one comment, or one attachment, of an issue,
\* however many machines numbered theirs the same (rebase.rs 277).
THEOREM Unique == Spec => []NumbersUnique
<1>1. IInv => NumbersUnique
  <2>. SUFFICES ASSUME IInv, NEW m \in Machine, NEW id \in Held(local[m])
                PROVE  LET held == Issue(local[m], id).files
                       IN \A p, q \in DOMAIN held : p.dir = q.dir /\ p.seq = q.seq => p = q
    BY DEF NumbersUnique
  <2>1. IssueOK(Issue(local[m], id))
    BY OwnQueue, TipOK
  <2>. QED BY <2>1 DEF IssueOK, FilesOK
<1>. QED BY <1>1, Invariance, PTL

\* DeletionWins: an issue gone from a machine's queue never comes back there,
\* by any order of writes, fetches, replays and pushes (rebase.rs 230).
THEOREM DeletionIsLast == Spec => DeletionWins
<1>1. (IInv /\ FInv) /\ [Next]_vars => [\A m \in Machine : Gone(local[m]) \cap Held(local'[m]) = {}]_vars
  BY NextInv DEF Lasting, Forgets
<1>. QED BY <1>1, Invariance, PTL DEF Spec, DeletionWins

\* NothingLost: with no first issue filed on a machine that has no queue yet -
\* what an adoption may write over (refs.rs 271-274) - an issue filed and a file
\* given to it stay in the queue of a machine until the issue is deleted.
THEOREM NothingIsLost ==
  ASSUME Budget["first"] = 0
  PROVE  Spec => NothingLost
<1>. NoneBegun
  BY DEF NoneBegun
<1>1. ASSUME IInv, FInv, [Next]_vars
      PROVE  [\A m \in Machine : \A id \in Held(local[m]) \ deleted' :
                 /\ id \in Held(local'[m])
                 /\ Blobs(Issue(local[m], id)) \subseteq Blobs(Issue(local'[m], id))]_vars
  BY <1>1, NextInv DEF Lasting, Keeps
<1>. QED BY <1>1, Invariance, PTL DEF Spec, NothingLost
=============================================================================
