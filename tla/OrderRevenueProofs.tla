-------------------------- MODULE OrderRevenueProofs --------------------------
(***************************************************************************)
(* Proofs about OrderRevenue: the types, the order of the records of one   *)
(* life of the job, that no row is lost, and, as long as nothing disturbs  *)
(* the stream, that no version is counted twice and no window written      *)
(* twice.  The sum over the versions of a window is a fold of the          *)
(* community modules; what is needed of it is shown first.                 *)
(***************************************************************************)
EXTENDS OrderRevenue, FiniteSetTheorems, SequenceTheorems, WellFoundedInduction, TLAPS

----------------------------------------------------------------------------
(* Sums over finite sets. *)

(* A non-empty set of naturals has a least element. *)
LEMMA LeastNatural ==
    ASSUME NEW T \in SUBSET Nat, T # {}
    PROVE  \E x \in T : \A y \in T : x <= y
<1>1. PICK x \in T : \A y \in T : ~(<<y, x>> \in OpToRel(<, Nat))
  BY NatLessThanWellFounded, WFMin
<1>2. ASSUME NEW y \in T, y < x PROVE <<y, x>> \in OpToRel(<, Nat)
  <2>1. <<y, x>> \in Nat \X Nat
    OBVIOUS
  <2> QED BY <1>2, <2>1 DEF OpToRel
<1>3. ASSUME NEW y \in T PROVE x <= y
  <2>1. ~(y < x)
    BY <1>1, <1>2
  <2>2. x \in Int /\ y \in Int
    OBVIOUS
  <2> QED BY <2>1, <2>2
<1> QED BY <1>3

(* A set of naturals that holds 0 and the successor of each of its elements
   holds them all.                                                        *)
LEMMA NatSetInduction ==
    ASSUME NEW M \in SUBSET Nat, 0 \in M, \A n \in M : n + 1 \in M
    PROVE  M = Nat
<1>1. SUFFICES ASSUME Nat \ M # {} PROVE FALSE
  OBVIOUS
<1>2. PICK x \in Nat \ M : \A y \in Nat \ M : x <= y
  <2>1. Nat \ M \in SUBSET Nat
    OBVIOUS
  <2> QED BY <1>1, <2>1, LeastNatural
<1>3. x # 0 /\ x \in Nat
  OBVIOUS
<1>4. x - 1 \in Nat /\ ~(x <= x - 1) /\ (x - 1) + 1 = x
  BY <1>3
<1>5. x - 1 \in M
  BY <1>2, <1>4
<1>6. (x - 1) + 1 \in M
  BY <1>5
<1> QED BY <1>4, <1>6

(* What the fold of Total does with one subset, given the smaller ones. *)
Step(acc, f, s) ==
    IF s = {} THEN 0 ELSE acc[CHOOSE x \in s : TRUE] + f[s \ {CHOOSE x \in s : TRUE}]

(* Total is the value at S of the function that the fold chooses ... *)
LEMMA TotalDef ==
    ASSUME NEW acc, NEW S
    PROVE  Total(acc, S) = (CHOOSE iter : iter = [s \in SUBSET S |-> Step(acc, iter, s)])[S]
  BY DEF Total, MapThenSumSet, MapThenFoldSet, Step

(* ... and there is such a function, by induction on the size of its arguments. *)
LEMMA IterExists ==
    ASSUME NEW acc, NEW S, IsFiniteSet(S)
    PROVE  \E f : f = [s \in SUBSET S |-> Step(acc, f, s)]
<1> DEFINE D(n) == {s \in SUBSET S : Cardinality(s) <= n}
           M == {n \in Nat : \E f : f = [s \in D(n) |-> Step(acc, f, s)]}
<1>1. \A s \in SUBSET S : IsFiniteSet(s) /\ Cardinality(s) \in Nat
  BY FS_Subset, FS_CardinalityType
<1>2. 0 \in M
  <2>1. \A s \in D(0) : s = {}
    BY <1>1, FS_EmptySet
  <2>2. [s \in D(0) |-> 0] = [s \in D(0) |-> Step(acc, [t \in D(0) |-> 0], s)]
    BY <2>1 DEF Step
  <2> QED BY <2>2
<1>3. ASSUME NEW n \in M PROVE n + 1 \in M
  <2>1. PICK f : f = [s \in D(n) |-> Step(acc, f, s)]
    BY <1>3
  <2> DEFINE g == [s \in D(n + 1) |-> Step(acc, f, s)]
  <2>2. \A s \in D(n + 1) : s # {} => s \ {CHOOSE x \in s : TRUE} \in D(n)
    <3>1. SUFFICES ASSUME NEW s \in D(n + 1), s # {} PROVE s \ {CHOOSE x \in s : TRUE} \in D(n)
      OBVIOUS
    <3>2. PICK c : c = CHOOSE x \in s : TRUE
      OBVIOUS
    <3>3. c \in s
      BY <3>1, <3>2
    <3>4. Cardinality(s \ {c}) = Cardinality(s) - 1
      BY <1>1, <3>3, FS_RemoveElement
    <3>5. Cardinality(s) <= n + 1 /\ Cardinality(s) \in Nat /\ n \in Nat
      BY <1>1
    <3>6. Cardinality(s \ {c}) <= n
      BY <3>4, <3>5
    <3> QED BY <3>2, <3>6
  <2>3. \A s \in D(n) : s \in D(n + 1)
    <3>1. n \in Nat OBVIOUS
    <3> QED BY <1>1, <3>1
  <2>4. \A s \in D(n) : g[s] = f[s]
    <3>1. \A s \in D(n) : f[s] = Step(acc, f, s)
      BY <2>1
    <3> QED BY <2>3, <3>1
  <2>5. \A s \in D(n + 1) : Step(acc, f, s) = Step(acc, g, s)
    <3>1. SUFFICES ASSUME NEW s \in D(n + 1) PROVE Step(acc, f, s) = Step(acc, g, s)
      OBVIOUS
    <3>2. CASE s = {}
      BY <3>2 DEF Step
    <3>3. CASE s # {}
      <4>1. g[s \ {CHOOSE x \in s : TRUE}] = f[s \ {CHOOSE x \in s : TRUE}]
        BY <2>2, <2>4, <3>3
      <4> HIDE DEF g
      <4> QED BY <3>3, <4>1 DEF Step
    <3> QED BY <3>2, <3>3
  <2>6. g = [s \in D(n + 1) |-> Step(acc, g, s)]
    BY <2>5
  <2>7. n + 1 \in Nat OBVIOUS
  <2> QED BY <2>6, <2>7
<1>4. M = Nat
  <2>1. M \in SUBSET Nat OBVIOUS
  <2> HIDE DEF M
  <2> QED BY <2>1, <1>2, <1>3, NatSetInduction
<1>5. Cardinality(S) \in M
  BY <1>1, <1>4
<1>6. D(Cardinality(S)) = SUBSET S
  BY FS_Subset
<1> QED BY <1>5, <1>6

(* A sum of naturals is at least each of them, and zero if they all are. *)
LEMMA TotalBounds ==
    ASSUME NEW acc, NEW S, IsFiniteSet(S), \A v \in S : acc[v] \in Nat
    PROVE  /\ Total(acc, S) \in Nat
           /\ \A v \in S : acc[v] <= Total(acc, S)
           /\ (\A v \in S : acc[v] = 0) => Total(acc, S) = 0
<1> DEFINE iter == CHOOSE f : f = [s \in SUBSET S |-> Step(acc, f, s)]
           Good(s) == /\ iter[s] \in Nat
                      /\ \A v \in s : acc[v] <= iter[s]
                      /\ (\A v \in s : acc[v] = 0) => iter[s] = 0
           M == {n \in Nat : \A s \in SUBSET S : Cardinality(s) <= n => Good(s)}
<1>1. \A s \in SUBSET S : IsFiniteSet(s) /\ Cardinality(s) \in Nat
  BY FS_Subset, FS_CardinalityType
<1>2. iter = [s \in SUBSET S |-> Step(acc, iter, s)]
  BY IterExists
<1>3. Total(acc, S) = iter[S]
  BY TotalDef
<1> HIDE DEF iter
<1>4. \A s \in SUBSET S : iter[s] = Step(acc, iter, s)
  BY <1>2
<1>5. 0 \in M
  <2>1. \A s \in SUBSET S : Cardinality(s) <= 0 => s = {}
    BY <1>1, FS_EmptySet
  <2>2. iter[{}] = 0
    BY <1>4 DEF Step
  <2> QED BY <2>1, <2>2
<1>6. ASSUME NEW n \in M PROVE n + 1 \in M
  <2>1. n \in Nat /\ \A s \in SUBSET S : Cardinality(s) <= n => Good(s)
    OBVIOUS
  <2>2. ASSUME NEW s \in SUBSET S, Cardinality(s) <= n + 1 PROVE Good(s)
    <3>1. CASE s = {}
      BY <1>4, <3>1 DEF Step
    <3>2. CASE s # {}
      <4>1. PICK c \in s : c = CHOOSE x \in s : TRUE
        BY <3>2
      <4>2. iter[s] = acc[c] + iter[s \ {c}]
        BY <1>4, <3>2, <4>1 DEF Step
      <4>3. Cardinality(s \ {c}) = Cardinality(s) - 1
        BY <1>1, FS_RemoveElement
      <4>4. Cardinality(s \ {c}) <= n
        BY <1>1, <2>1, <2>2, <4>3
      <4>5. Good(s \ {c})
        BY <2>1, <4>4
      <4>6. acc[c] \in Nat
        OBVIOUS
      <4>7. iter[s] \in Nat /\ acc[c] <= iter[s] /\ iter[s \ {c}] <= iter[s]
        BY <4>2, <4>5, <4>6
      <4>8. ASSUME NEW v \in s PROVE acc[v] <= iter[s]
        <5>1. CASE v = c
          BY <4>7, <5>1
        <5>2. CASE v # c
          <6>1. acc[v] <= iter[s \ {c}] /\ acc[v] \in Nat /\ iter[s \ {c}] \in Nat
            BY <4>5, <5>2
          <6> HIDE DEF Good
          <6> QED BY <4>7, <6>1
        <5> QED BY <5>1, <5>2
      <4>9. (\A v \in s : acc[v] = 0) => iter[s] = 0
        BY <4>2, <4>5
      <4> QED BY <4>7, <4>8, <4>9
    <3> QED BY <3>1, <3>2
  <2> HIDE DEF Good
  <2> QED BY <2>1, <2>2
<1>7. M = Nat
  <2>1. M \in SUBSET Nat OBVIOUS
  <2> HIDE DEF M
  <2> QED BY <2>1, <1>5, <1>6, NatSetInduction
<1>8. Good(S)
  <2>1. Cardinality(S) \in M
    BY <1>1, <1>7
  <2>2. Cardinality(S) <= Cardinality(S)
    BY <1>1
  <2> HIDE DEF Good
  <2> QED BY <2>1, <2>2
<1> QED BY <1>3, <1>8

----------------------------------------------------------------------------
(* Windows and watermarks. *)

(* The window of an instant is one of the windows. *)
LEMMA WindowOfTime ==
    ASSUME NEW t \in Times
    PROVE  WindowOf(t) \in Windows
<1> DEFINE q == t \div Width
           Q == MaxTime \div Width
<1>1. Width \in Nat /\ Width > 0 /\ MaxTime \in Nat /\ t \in Nat /\ t <= MaxTime
  BY RevenueAssumption DEF Times
<1>2. q \in Nat /\ Q \in Nat
  BY <1>1
<1>3. Width * q <= t /\ MaxTime < Width * Q + Width
  BY <1>1
<1>4. ASSUME q > Q PROVE FALSE
  <2> HIDE DEF q, Q
  <2>1. q - Q - 1 \in Nat
    BY <1>2, <1>4
  <2>2. Width * (q - Q - 1) >= 0
    BY <1>1, <2>1
  <2>3. Width * (q - Q - 1) = Width * q - Width * Q - Width
    BY <1>1, <1>2
  <2>4. Width * q \in Int /\ Width * Q \in Int
    BY <1>1, <1>2
  <2> QED BY <1>1, <1>3, <2>2, <2>3, <2>4
<1> HIDE DEF q, Q
<1>5. q \in 0..Q
  BY <1>2, <1>4
<1> QED BY <1>5 DEF q, Q, WindowOf, Windows

(* What the row versions are made of. *)
LEMMA VersionTypes ==
    /\ IsFiniteSet(Versions)
    /\ \A v \in Versions : v[1] \in Orders /\ v[2] \in Times /\ WindowOf(v[2]) \in Windows
    /\ \A o \in Orders, t \in Times : <<o, t>> \in Versions
    /\ Windows \subseteq Nat /\ Times \subseteq Nat /\ None \notin Times
    /\ IsFiniteSet(Windows)
<1>1. MaxTime \in Nat /\ Width \in Nat \ {0}
  BY RevenueAssumption
<1>2. MaxTime \div Width \in Int
  BY <1>1
<1>3. IsFiniteSet(Times) /\ IsFiniteSet(Windows)
  BY <1>1, <1>2, FS_Interval DEF Times, Windows
<1>4. IsFiniteSet(Versions)
  BY <1>3, FS_Product, RevenueAssumption DEF Versions
<1>5. Windows \subseteq Nat /\ Times \subseteq Nat /\ None \notin Times
  BY <1>1, <1>2 DEF Times, Windows, None
<1>6. \A v \in Versions : v[1] \in Orders /\ v[2] \in Times
  BY DEF Versions
<1>7. \A o \in Orders, t \in Times : <<o, t>> \in Versions
  BY DEF Versions
<1> QED BY <1>3, <1>4, <1>5, <1>6, <1>7, WindowOfTime

(* Windows are closed in their order, and stay closed. *)
LEMMA ClosedOrder ==
    ASSUME NEW w \in Nat, NEW x \in Nat, NEW m \in Int, NEW n \in Int, m <= n
    PROVE  /\ Closed(w, m) => Closed(w, n)
           /\ Closed(x, m) /\ ~Closed(w, m) => x < w
           /\ ~Closed(w, None - Delay)
<1>1. Width \in Nat /\ Width > 0 /\ Delay \in Nat
  BY RevenueAssumption
<1>2. (w + 1) * Width \in Int /\ (x + 1) * Width \in Int /\ w * Width \in Int
  BY <1>1
<1>3. Closed(w, m) => Closed(w, n)
  BY <1>2 DEF Closed
<1>4. ASSUME Closed(x, m), ~Closed(w, m), w <= x PROVE FALSE
  <2>1. (x - w) * Width >= 0
    BY <1>1, <1>4
  <2>2. (x - w) * Width = (x + 1) * Width - (w + 1) * Width
    BY <1>1
  <2> QED BY <1>2, <1>4, <2>1, <2>2 DEF Closed
<1>5. ~Closed(w, None - Delay)
  <2>1. w * Width >= 0
    BY <1>1
  <2>2. (w + 1) * Width = w * Width + Width
    BY <1>1
  <2> QED BY <1>1, <1>2, <2>1, <2>2 DEF Closed, None
<1> QED BY <1>3, <1>4, <1>5

(* A non-empty set of instants, None among them or not, has a least element. *)
LEMMA LeastInstant ==
    ASSUME NEW S \in SUBSET (Times \cup {None}), S # {}
    PROVE  Min(S) \in S
<1>1. \A x \in S : x \in Int /\ x + 1 \in Nat
  BY VersionTypes DEF None
<1> DEFINE T == {x + 1 : x \in S}
<1>2. T \subseteq Nat /\ T # {}
  BY <1>1
<1>3. PICK y \in T : \A z \in T : y <= z
  <2> HIDE DEF T
  <2> QED BY <1>2, LeastNatural
<1>4. PICK x \in S : y = x + 1
  OBVIOUS
<1>5. \A z \in S : x <= z
  <2>1. \A z \in S : y <= z + 1
    BY <1>3
  <2> HIDE DEF T
  <2> QED BY <1>1, <1>4, <2>1
<1> QED BY <1>5 DEF Min

(* The latest of three instants is one of them. *)
LEMMA LatestInstant ==
    ASSUME NEW a \in Times \cup {None}, NEW b \in Times \cup {None}, NEW c \in Times \cup {None}
    PROVE  Max({a, b, c}) \in Times \cup {None}
<1>1. a \in Int /\ b \in Int /\ c \in Int
  BY VersionTypes DEF None
<1>2. \E x \in {a, b, c} : \A y \in {a, b, c} : x >= y
  BY <1>1
<1> QED BY <1>2 DEF Max

(* A finite set in some order is a sequence of its elements. *)
LEMMA ListedSet ==
    ASSUME NEW S, IsFiniteSet(S)
    PROVE  SetToSeq(S) \in Seq(S)
<1>1. Cardinality(S) \in Nat /\ ExistsBijection(1..Cardinality(S), S)
  BY FS_CardinalityType
<1>2. \E f \in [1..Cardinality(S) -> S] : IsInjective(f)
  BY <1>1 DEF ExistsBijection, Bijection, Injection, IsInjective
<1>3. SetToSeq(S) \in [1..Cardinality(S) -> S]
  BY <1>2 DEF SetToSeq
<1> QED BY <1>1, <1>3, SeqDef

(* Each of its orders lists every element. *)
LEMMA ListedSets ==
    ASSUME NEW S, IsFiniteSet(S), NEW q \in SetToSeqs(S)
    PROVE  /\ q \in Seq(S) /\ DOMAIN q = 1..Len(q)
           /\ \A x \in S : \E i \in DOMAIN q : q[i] = x
<1> DEFINE n == Cardinality(S)
<1>1. n \in Nat
  BY FS_CardinalityType
<1>2. q \in [1..n -> S] /\ \A i, j \in 1..n : i # j => q[i] # q[j]
  BY DEF SetToSeqs
<1>3. q \in Injection(1..n, S)
  BY <1>2 DEF Injection, IsInjective
<1>4. Cardinality(1..n) = n
  BY <1>1, FS_Interval
<1>5. q \in Surjection(1..n, S)
  BY <1>3, <1>4, FS_Injection
<1>6. \A x \in S : \E i \in 1..n : q[i] = x
  BY <1>5 DEF Surjection
<1>7. q \in Seq(S)
  BY <1>1, <1>2, SeqDef
<1>8. DOMAIN q = 1..n /\ DOMAIN q = 1..Len(q)
  BY <1>2, <1>7, LenProperties
<1> QED BY <1>6, <1>7, <1>8

----------------------------------------------------------------------------
(* The inductive invariant. *)

Job == [offset : [Partitions -> Nat], acc : [Versions -> Int], life : Nat,
        seen : [Partitions -> Times \cup {None}], idle : SUBSET Partitions, wm : Int]

Counts == UNION {[InWindow(w) -> Int] : w \in Windows}
Emitted == [window : Windows, life : Nat, count : Counts]

TypeInv ==
    /\ now \in Times
    /\ row \in [Orders -> Times \cup {None}]
    /\ log \in [Partitions -> Seq(Record)]
    /\ job \in Job
    /\ checkpoint \in [offset : [Partitions -> Nat], acc : [Versions -> Int]]
    /\ \A p \in Partitions : job.offset[p] <= Len(log[p]) /\ checkpoint.offset[p] <= Len(log[p])
    /\ out \in Seq(Emitted)
    /\ \A i \in DOMAIN out : out[i].count \in [InWindow(out[i].window) -> Int]
    /\ done \in [Events -> Nat]

(* A window that the watermark has closed holds nothing. *)
ClosedIsEmpty ==
    \A v \in Versions : Closed(WindowOf(v[2]), job.wm) => job.acc[v] = 0

(* Every restart begins a life; the records of the present one are of windows
   that are closed.                                                         *)
OutInv ==
    /\ job.life = done["restart"]
    /\ \A i \in DOMAIN out : /\ out[i].life <= job.life
                             /\ out[i].life = job.life => Closed(out[i].window, job.wm)
    /\ InOrderWithinALife

(* Some record counts row version v. *)
Written(v) ==
    \E k \in DOMAIN out : out[k].window = WindowOf(v[2]) /\ out[k].count[v] >= 1

(* What was read, up to these offsets, of a window of which nothing is
   retracted is dropped as late, counted, or written.                  *)
Kept(offset, acc) ==
    \A p \in Partitions : \A i \in 1..offset[p] :
        LET r == log[p][i]
            v == <<r.order, r.after>>
        IN  r.after # None /\ ~r.gone /\ NothingRetracted(WindowOf(r.after)) =>
                <<p, i>> \in late \/ acc[v] >= 1 \/ Written(v)

NothingNegative(acc) ==
    \A v \in Versions : NothingRetracted(WindowOf(v[2])) => acc[v] >= 0

LossInv ==
    /\ Kept(job.offset, job.acc) /\ NothingNegative(job.acc)
    /\ Kept(checkpoint.offset, checkpoint.acc) /\ NothingNegative(checkpoint.acc)

(* t is the updated_at in the last of the first n changes that is one of o. *)
Latest(changes, o, n, t) ==
    \E i \in 1..n : /\ changes[i].order = o /\ changes[i].after = t
                    /\ \A j \in i + 1..n : changes[j].order # o

Undisturbed == \A e \in {"restart", "snapshot", "removal"} : done[e] = 0

(* A change is made to the row that the previous change of its order left. *)
HistoryInv ==
    /\ \A p \in Partitions : \A i \in DOMAIN log[p] :
          LET r == log[p][i]
          IN  /\ PartitionOf[r.order] = p /\ ~r.gone
              /\ IF r.before = None THEN \A j \in 1..i - 1 : log[p][j].order # r.order
                 ELSE Latest(log[p], r.order, i - 1, r.before)
    /\ \A o \in Orders :
          LET changes == log[PartitionOf[o]]
          IN  row[o] # None => Latest(changes, o, Len(changes), row[o])

(* The open windows count the last version read of every order, once. *)
OnceInv ==
    \A o \in Orders, t \in Times :
        job.acc[<<o, t>>] =
            IF /\ Latest(log[PartitionOf[o]], o, job.offset[PartitionOf[o]], t)
               /\ ~Closed(WindowOf(t), job.wm)
            THEN 1 ELSE 0

CountInv == Undisturbed => HistoryInv /\ OnceInv /\ CountsVersionsOnce

IInv == TypeInv /\ ClosedIsEmpty /\ OutInv /\ LossInv /\ CountInv

----------------------------------------------------------------------------
(* What the steps do. *)

(* No record moves or changes, but it may be marked as removed. *)
LogGrows ==
    \A p \in Partitions :
        /\ Len(log[p]) <= Len(log'[p])
        /\ \A i \in 1..Len(log[p]) :
              /\ log'[p][i].order = log[p][i].order /\ log'[p][i].before = log[p][i].before
              /\ log'[p][i].after = log[p][i].after /\ (log[p][i].gone => log'[p][i].gone)

(* Kept and NothingNegative of the next state. *)
KeptNext(offset, acc) ==
    \A p \in Partitions : \A i \in 1..offset[p] : \A r \in Record :
        r = log'[p][i] /\ r.after # None /\ ~r.gone /\ NothingRetracted(WindowOf(r.after))' =>
            \/ <<p, i>> \in late' \/ acc[<<r.order, r.after>>] >= 1
            \/ Written(<<r.order, r.after>>)'

NothingNegativeNext(acc) ==
    \A v \in Versions : NothingRetracted(WindowOf(v[2]))' => acc[v] >= 0

(* A bounded event is counted. *)
LEMMA OnceFacts ==
    ASSUME TypeInv, NEW e \in Events, NEW b, Once(e, b)
    PROVE  /\ done' \in [Events -> Nat] /\ done'[e] = done[e] + 1
           /\ \A f \in Events \ {e} : done'[f] = done[f]
           /\ \A f \in Events : done[f] <= done'[f]
  BY DEF TypeInv, Once

(* A change is appended to the partition of its order. *)
LEMMA ChangeFacts ==
    ASSUME TypeInv, NEW o \in Orders, ChangeOrder(o)
    PROVE  /\ log' \in [Partitions -> Seq(Record)] /\ LogGrows
           /\ row' \in [Orders -> Times \cup {None}]
           /\ \E after \in Times \cup {None}, p \in Partitions, n \in Nat :
                 /\ p = PartitionOf[o] /\ n = Len(log[p])
                 /\ row[o] # None \/ \A i \in 1..n : log[p][i].order # o
                 /\ row' = [row EXCEPT ![o] = after]
                 /\ Len(log'[p]) = n + 1 /\ log'[p][n + 1] = Entry(o, row[o], after)
                 /\ \A i \in 1..n : log'[p][i] = log[p][i]
                 /\ \A x \in Partitions \ {p} : log'[x] = log[x]
<1>1. PICK after \in Times \cup {None} :
          /\ row[o] # None \/ (after # None /\ \A i \in DOMAIN log[PartitionOf[o]] :
                                                   log[PartitionOf[o]][i].order # o)
          /\ row' = [row EXCEPT ![o] = after]
          /\ log' = [log EXCEPT ![PartitionOf[o]] = Append(@, Entry(o, row[o], after))]
  BY DEF ChangeOrder
<1> DEFINE p == PartitionOf[o]
           e == Entry(o, row[o], after)
           n == Len(log[p])
<1>2. p \in Partitions /\ log[p] \in Seq(Record) /\ e \in Record /\ row[o] \in Times \cup {None}
  BY RevenueAssumption DEF TypeInv, Entry, Record
<1>3. n \in Nat /\ DOMAIN log[p] = 1..n
  BY <1>2, LenProperties
<1>4. /\ Append(log[p], e) \in Seq(Record) /\ Len(Append(log[p], e)) = n + 1
      /\ \A i \in 1..n : Append(log[p], e)[i] = log[p][i]
      /\ Append(log[p], e)[n + 1] = e
  BY <1>2, AppendProperties
<1>5. log'[p] = Append(log[p], e) /\ \A x \in Partitions \ {p} : log'[x] = log[x]
  BY <1>1, <1>2 DEF TypeInv
<1>6. log' \in [Partitions -> Seq(Record)]
  BY <1>1, <1>2, <1>4 DEF TypeInv
<1>7. row' \in [Orders -> Times \cup {None}]
  BY <1>1 DEF TypeInv
<1>8. \A x \in Partitions : Len(log[x]) \in Nat
  BY LenProperties DEF TypeInv
<1>9. LogGrows
  <2>1. SUFFICES ASSUME NEW x \in Partitions
                 PROVE  /\ Len(log[x]) <= Len(log'[x])
                        /\ \A i \in 1..Len(log[x]) : log'[x][i] = log[x][i]
    BY DEF LogGrows
  <2>2. CASE x = p
    BY <1>3, <1>4, <1>5, <2>2
  <2>3. CASE x # p
    BY <1>5, <1>8, <2>3
  <2> QED BY <2>2, <2>3
<1>10. row[o] # None \/ \A i \in 1..n : log[p][i].order # o
  BY <1>1, <1>3
<1> HIDE DEF p, e, n
<1>11. p = PartitionOf[o] /\ n = Len(log[p]) /\ e = Entry(o, row[o], after)
  BY DEF p, e, n
<1>12. /\ Len(log'[p]) = n + 1 /\ log'[p][n + 1] = Entry(o, row[o], after)
       /\ \A i \in 1..n : log'[p][i] = log[p][i]
  BY <1>4, <1>5, <1>11
<1>13. row' = [row EXCEPT ![o] = after]
  BY <1>1
<1>14. \A x \in Partitions \ {p} : log'[x] = log[x]
  BY <1>5
<1>15. p \in Partitions /\ n \in Nat /\ p = PartitionOf[o] /\ n = Len(log[p])
  BY <1>2, <1>3, <1>11
<1>16. \E a \in Times \cup {None}, x \in Partitions, m \in Nat :
          /\ x = PartitionOf[o] /\ m = Len(log[x])
          /\ row[o] # None \/ \A i \in 1..m : log[x][i].order # o
          /\ row' = [row EXCEPT ![o] = a]
          /\ Len(log'[x]) = m + 1 /\ log'[x][m + 1] = Entry(o, row[o], a)
          /\ \A i \in 1..m : log'[x][i] = log[x][i]
          /\ \A y \in Partitions \ {x} : log'[y] = log[y]
  <2> after \in Times \cup {None} /\ p \in Partitions /\ n \in Nat
    BY <1>15
  <2> WITNESS after \in Times \cup {None}, p \in Partitions, n \in Nat
  <2> QED BY <1>10, <1>12, <1>13, <1>14, <1>15
<1> QED BY <1>6, <1>7, <1>9, <1>16

(* A snapshot appends the rows of every partition. *)
LEMMA SnapshotFacts ==
    ASSUME TypeInv, Snapshot
    PROVE  log' \in [Partitions -> Seq(Record)] /\ LogGrows
<1> DEFINE Live(p) == {x \in Orders : PartitionOf[x] = p /\ row[x] # None}
           Read(p) == {Entry(o, None, row[o]) : o \in Live(p)}
<1>1. ASSUME NEW p \in Partitions PROVE SetToSeq(Read(p)) \in Seq(Record)
  <2>1. IsFiniteSet(Live(p))
    BY FS_Subset, RevenueAssumption
  <2>2. [o \in Live(p) |-> Entry(o, None, row[o])] \in Surjection(Live(p), Read(p))
    BY DEF Surjection
  <2>3. IsFiniteSet(Read(p))
    BY <2>1, <2>2, FS_Surjection
  <2>4. Read(p) \subseteq Record
    <3>1. \A o \in Live(p) : o \in Orders /\ row[o] \in Times \cup {None}
      BY DEF TypeInv
    <3>2. \A o \in Live(p) : Entry(o, None, row[o]) \in Record
      BY <3>1 DEF Entry, Record
    <3> HIDE DEF Live
    <3> QED BY <3>2
  <2> HIDE DEF Read
  <2> QED BY <2>3, <2>4, ListedSet, SeqMonotonic
<1>2. log' = [p \in Partitions |-> log[p] \o SetToSeq(Read(p))]
  BY DEF Snapshot
<1> HIDE DEF Read
<1>3. ASSUME NEW p \in Partitions
      PROVE  /\ log'[p] \in Seq(Record) /\ Len(log[p]) <= Len(log'[p])
             /\ \A i \in 1..Len(log[p]) : log'[p][i] = log[p][i]
  <2>1. log[p] \in Seq(Record)
    BY DEF TypeInv
  <2>2. Len(log[p]) \in Nat /\ Len(SetToSeq(Read(p))) \in Nat
    BY <1>1, <2>1, LenProperties
  <2>3. /\ log[p] \o SetToSeq(Read(p)) \in Seq(Record)
        /\ Len(log[p] \o SetToSeq(Read(p))) = Len(log[p]) + Len(SetToSeq(Read(p)))
        /\ \A i \in 1..Len(log[p]) + Len(SetToSeq(Read(p))) :
              (log[p] \o SetToSeq(Read(p)))[i] =
                 IF i <= Len(log[p]) THEN log[p][i] ELSE SetToSeq(Read(p))[i - Len(log[p])]
    BY <1>1, <2>1, ConcatProperties
  <2>4. log'[p] = log[p] \o SetToSeq(Read(p))
    BY <1>2
  <2> QED BY <2>2, <2>3, <2>4
<1>4. LogGrows
  BY <1>3 DEF LogGrows
<1> QED BY <1>2, <1>3, <1>4

(* Compaction or retention marks one record. *)
Removal(p) == Compact(p) \/ Expire(p)

LEMMA RemovalFacts ==
    ASSUME TypeInv, NEW p \in Partitions, Removal(p)
    PROVE  log' \in [Partitions -> Seq(Record)] /\ LogGrows
<1>1. PICK i \in DOMAIN log[p] : log' = [log EXCEPT ![p][i].gone = TRUE]
  BY DEF Removal, Compact, Expire
<1> DEFINE r == [log[p][i] EXCEPT !.gone = TRUE]
           s == [log[p] EXCEPT ![i] = r]
<1>2. log' = [log EXCEPT ![p] = s]
  BY <1>1
<1>3. log[p] \in Seq(Record) /\ log \in [Partitions -> Seq(Record)]
  BY DEF TypeInv
<1>4. i \in 1..Len(log[p]) /\ log[p][i] \in Record /\ \A x \in Partitions : Len(log[x]) \in Nat
  <2>1. i \in 1..Len(log[p])
    BY <1>3, LenProperties
  <2> QED BY <1>3, <2>1, ElementOfSeq, LenProperties
<1>5. /\ r \in Record /\ r.order = log[p][i].order /\ r.before = log[p][i].before
      /\ r.after = log[p][i].after /\ r.gone
  BY <1>4 DEF Record
<1> HIDE DEF r
<1>6. /\ s \in Seq(Record) /\ Len(s) = Len(log[p])
      /\ \A j \in 1..Len(log[p]) : s[j] = IF j = i THEN r ELSE log[p][j]
  BY <1>3, <1>4, <1>5, ExceptSeq
<1> HIDE DEF s
<1>7. log' \in [Partitions -> Seq(Record)]
  BY <1>2, <1>3, <1>6
<1>8. log'[p] = s /\ \A x \in Partitions \ {p} : log'[x] = log[x]
  BY <1>2, <1>3
<1>9. LogGrows
  <2>1. SUFFICES ASSUME NEW x \in Partitions
                 PROVE  /\ Len(log[x]) <= Len(log'[x])
                        /\ \A j \in 1..Len(log[x]) :
                              /\ log'[x][j].order = log[x][j].order
                              /\ log'[x][j].before = log[x][j].before
                              /\ log'[x][j].after = log[x][j].after
                              /\ (log[x][j].gone => log'[x][j].gone)
    BY DEF LogGrows
  <2>2. CASE x = p
    BY <1>4, <1>5, <1>6, <1>8, <2>2
  <2>3. CASE x # p
    BY <1>4, <1>8, <2>3
  <2> QED BY <2>2, <2>3
<1> QED BY <1>7, <1>9

(* What the job reads is counted, or is late. *)
LEMMA ConsumeFacts ==
    ASSUME TypeInv, NEW p \in Partitions, Consume(p)
    PROVE  LET i == job.offset[p] + 1
               r == log[p][i]
           IN  /\ i \in 1..Len(log[p]) /\ r \in Record /\ job' \in Job
               /\ job'.offset[p] = i /\ \A x \in Partitions \ {p} : job'.offset[x] = job.offset[x]
               /\ job'.life = job.life /\ job'.wm = job.wm
               /\ \A v \in Versions :
                     job'.acc[v] = IF r.gone THEN job.acc[v] ELSE job.acc[v] + Changes(r, v)
               /\ late \subseteq late'
               /\ ~r.gone /\ r.after # None /\ ~OnTime(r.after) => <<p, i>> \in late'
<1> DEFINE i == job.offset[p] + 1
           r == log[p][i]
<1>1. job \in Job /\ log[p] \in Seq(Record) /\ job.offset[p] \in Nat
  BY DEF TypeInv, Job
<1>2. Len(log[p]) \in Nat
  BY <1>1, LenProperties
<1>3. i \in 1..Len(log[p])
  BY <1>1, <1>2 DEF Consume
<1>4. r \in Record
  BY <1>1, <1>3, ElementOfSeq
<1> DEFINE offset == [job.offset EXCEPT ![p] = i]
           acc == [v \in Versions |-> job.acc[v] + Changes(r, v)]
           seen == [job.seen EXCEPT ![p] = Max({job.seen[p], r.before, r.after})]
<1>5. \/ r.gone /\ job' = [job EXCEPT !.offset = offset] /\ late' = late
      \/ /\ ~r.gone
         /\ job' = [job EXCEPT !.offset = offset, !.acc = acc, !.seen = seen,
                               !.idle = job.idle \ {p}]
         /\ late' = IF r.after = None \/ OnTime(r.after) THEN late ELSE late \cup {<<p, i>>}
  <2>1. CASE r.gone
    BY <2>1 DEF Consume
  <2>2. CASE ~r.gone
    <3>1. late' = IF r.after = None \/ OnTime(r.after) THEN late ELSE late \cup {<<p, i>>}
      BY <2>2 DEF Consume
    <3>2. job' = [job EXCEPT !.offset = offset, !.acc = acc, !.seen = seen,
                             !.idle = job.idle \ {p}]
      BY <2>2 DEF Consume
    <3> QED BY <2>2, <3>1, <3>2
  <2> QED BY <2>1, <2>2
<1>6. /\ offset \in [Partitions -> Nat] /\ offset[p] = i
      /\ \A x \in Partitions \ {p} : offset[x] = job.offset[x]
  BY <1>1, <1>3 DEF Job
<1>7. acc \in [Versions -> Int] /\ \A v \in Versions : acc[v] = job.acc[v] + Changes(r, v)
  <2>1. \A v \in Versions : Changes(r, v) \in Int
    BY DEF Changes
  <2>2. \A v \in Versions : job.acc[v] \in Int
    BY <1>1 DEF Job
  <2> QED BY <2>1, <2>2
<1>8. seen \in [Partitions -> Times \cup {None}]
  <2>1. job.seen[p] \in Times \cup {None} /\ r.before \in Times \cup {None}
        /\ r.after \in Times \cup {None}
    BY <1>1, <1>4 DEF Job, Record
  <2>2. Max({job.seen[p], r.before, r.after}) \in Times \cup {None}
    BY <2>1, LatestInstant
  <2> QED BY <1>1, <2>2 DEF Job
<1> HIDE DEF i, r, offset, acc, seen
<1>9. job' \in Job /\ job'.offset = offset /\ job'.life = job.life /\ job'.wm = job.wm
  <2>1. CASE r.gone
    BY <1>1, <1>5, <1>6, <2>1 DEF Job
  <2>2. CASE ~r.gone
    BY <1>1, <1>5, <1>6, <1>7, <1>8, <2>2 DEF Job
  <2> QED BY <2>1, <2>2
<1>10. job'.acc = IF r.gone THEN job.acc ELSE acc
  BY <1>1, <1>5 DEF Job
<1>11. late \subseteq late' /\ (~r.gone /\ r.after # None /\ ~OnTime(r.after) => <<p, i>> \in late')
  BY <1>5
<1> QED BY <1>3, <1>4, <1>6, <1>7, <1>9, <1>10, <1>11 DEF i, r

(* The watermark writes the windows that it closes, in their order, if they
   count anything, and empties them.                                      *)
LEMMA EmitFacts ==
    ASSUME TypeInv, EmitWatermark
    PROVE  /\ job' \in Job /\ job'.offset = job.offset /\ job'.life = job.life
           /\ job.wm < job'.wm
           /\ \A v \in Versions :
                 job'.acc[v] = IF Closed(WindowOf(v[2]), job'.wm) THEN 0 ELSE job.acc[v]
           /\ \E q \in Seq(Windows), n \in Nat, m \in Nat :
                 /\ DOMAIN q = 1..n /\ m = Len(out) /\ DOMAIN out = 1..m
                 /\ \A i, j \in 1..n : i < j => q[i] < q[j]
                 /\ \A i \in 1..n : Closed(q[i], job'.wm) /\ OrderCount(job.acc, q[i]) # 0
                 /\ \A w \in Windows : Closed(w, job'.wm) /\ OrderCount(job.acc, w) # 0 =>
                                         \E i \in 1..n : q[i] = w
                 /\ out' \in Seq(Emitted) /\ DOMAIN out' = 1..m + n
                 /\ \A i \in 1..m : out'[i] = out[i]
                 /\ \A i \in 1..n : out'[m + i] = Result(q[i])
<1> DEFINE wm == Min({job.seen[p] : p \in Partitions \ job.idle}) - Delay
           fired == {w \in Windows : Closed(w, wm) /\ OrderCount(job.acc, w) # 0}
<1>1. job \in Job /\ out \in Seq(Emitted)
  BY DEF TypeInv
<1>2. wm \in Int
  <2> DEFINE S == {job.seen[p] : p \in Partitions \ job.idle}
  <2>1. S \in SUBSET (Times \cup {None}) /\ S # {}
    <3>1. \A p \in Partitions : job.seen[p] \in Times \cup {None}
      BY <1>1 DEF Job
    <3>2. PICK p \in Partitions : p \notin job.idle
      BY <1>1 DEF Job, EmitWatermark
    <3> QED BY <3>1, <3>2
  <2>2. Min(S) \in S
    <3> HIDE DEF S
    <3> QED BY <2>1, LeastInstant
  <2>3. Min(S) \in Int /\ Delay \in Int
    <3>1. Min(S) \in Times \cup {None}
      BY <2>1, <2>2
    <3>2. \A x \in Times \cup {None} : x \in Int
      BY VersionTypes DEF None
    <3>3. Delay \in Int
      BY RevenueAssumption
    <3> HIDE DEF S
    <3> QED BY <3>1, <3>2, <3>3
  <2> HIDE DEF S
  <2>4. Min(S) - Delay \in Int
    BY <2>3
  <2> QED BY <2>4 DEF S
<1>3. /\ wm > job.wm
      /\ job' = [job EXCEPT !.wm = wm, !.acc = StateAfter(wm)]
      /\ \E q \in SetToSeqs(fired) : /\ \A i, j \in DOMAIN q : i < j => q[i] < q[j]
                                     /\ out' = out \o [i \in DOMAIN q |-> Result(q[i])]
  BY DEF EmitWatermark
<1>4. PICK q \in SetToSeqs(fired) : /\ \A i, j \in DOMAIN q : i < j => q[i] < q[j]
                                    /\ out' = out \o [i \in DOMAIN q |-> Result(q[i])]
  BY <1>3
<1> HIDE DEF wm
<1>5. StateAfter(wm) \in [Versions -> Int]
  BY <1>1 DEF StateAfter, Job
<1>6. /\ job' \in Job /\ job'.offset = job.offset /\ job'.life = job.life
      /\ job'.wm = wm /\ job.wm < job'.wm /\ job'.acc = StateAfter(wm)
  BY <1>1, <1>2, <1>3, <1>5 DEF Job
<1>7. \A v \in Versions :
          job'.acc[v] = IF Closed(WindowOf(v[2]), job'.wm) THEN 0 ELSE job.acc[v]
  BY <1>6 DEF StateAfter
<1>8. IsFiniteSet(fired)
  BY VersionTypes, FS_Subset
<1>9. fired \subseteq Windows /\ \A w \in Windows :
          w \in fired <=> Closed(w, job'.wm) /\ OrderCount(job.acc, w) # 0
  BY <1>6
<1> HIDE DEF fired
<1>10. /\ q \in Seq(fired) /\ DOMAIN q = 1..Len(q)
       /\ \A w \in fired : \E i \in DOMAIN q : q[i] = w
  BY <1>8, ListedSets
<1>11. q \in Seq(Windows) /\ Len(q) \in Nat /\ \A i \in 1..Len(q) : q[i] \in fired
  BY <1>9, <1>10, SeqMonotonic, ElementOfSeq, LenProperties
<1> DEFINE results == [i \in DOMAIN q |-> Result(q[i])]
           n == Len(q)
           m == Len(out)
<1>12. \A i \in 1..n : Result(q[i]) \in Emitted
  <2>1. SUFFICES ASSUME NEW w \in Windows PROVE Result(w) \in Emitted
    BY <1>9, <1>11
  <2>2. job.acc \in [Versions -> Int] /\ job.life \in Nat
    BY <1>1 DEF Job
  <2>3. [v \in InWindow(w) |-> job.acc[v]] \in [InWindow(w) -> Int]
    BY <2>2 DEF InWindow
  <2>4. [v \in InWindow(w) |-> job.acc[v]] \in Counts
    BY <2>3 DEF Counts
  <2> QED BY <2>2, <2>4 DEF Result, Emitted
<1>13. results \in [1..n -> Emitted] /\ n \in Nat /\ m \in Nat
  BY <1>1, <1>10, <1>11, <1>12, LenProperties
<1>14. results \in Seq(Emitted)
  BY <1>13, SeqDef
<1>15. Len(results) = n
  <2>1. DOMAIN results = 1..n
    BY <1>10
  <2>2. DOMAIN results = 1..Len(results) /\ Len(results) \in Nat
    BY <1>14, LenProperties
  <2> HIDE DEF results, n
  <2> QED BY <1>13, <2>1, <2>2
<1>16. \A i \in 1..n : results[i] = Result(q[i])
  BY <1>10
<1>17. out' = out \o results
  BY <1>4
<1> HIDE DEF results, n
<1>18. /\ out' \in Seq(Emitted) /\ Len(out') = m + n
       /\ \A i \in 1..m + n : out'[i] = IF i <= m THEN out[i] ELSE results[i - m]
  BY <1>1, <1>14, <1>15, <1>17, ConcatProperties
<1>19. DOMAIN out = 1..m /\ DOMAIN out' = 1..m + n
  BY <1>1, <1>18, LenProperties
<1>20. m = Len(out)
  OBVIOUS
<1> HIDE DEF m
<1>21. \A i \in 1..m : out'[i] = out[i]
  BY <1>13, <1>18
<1>22. \A i \in 1..n : out'[m + i] = Result(q[i])
  <2>1. SUFFICES ASSUME NEW i \in 1..n PROVE out'[m + i] = Result(q[i])
    OBVIOUS
  <2>2. m + i \in 1..m + n /\ ~(m + i <= m) /\ (m + i) - m = i
    BY <1>13
  <2> QED BY <1>16, <1>18, <2>2
<1>23. DOMAIN q = 1..n
  BY <1>10 DEF n
<1>24. \A i, j \in 1..n : i < j => q[i] < q[j]
  BY <1>4, <1>23
<1>25. \A i \in 1..n : Closed(q[i], job'.wm) /\ OrderCount(job.acc, q[i]) # 0
  BY <1>9, <1>11 DEF n
<1>26. \A w \in Windows : Closed(w, job'.wm) /\ OrderCount(job.acc, w) # 0 =>
                            \E i \in 1..n : q[i] = w
  BY <1>9, <1>10, <1>23
<1>27. \E s \in Seq(Windows), k \in Nat, l \in Nat :
          /\ DOMAIN s = 1..k /\ l = Len(out) /\ DOMAIN out = 1..l
          /\ \A i, j \in 1..k : i < j => s[i] < s[j]
          /\ \A i \in 1..k : Closed(s[i], job'.wm) /\ OrderCount(job.acc, s[i]) # 0
          /\ \A w \in Windows : Closed(w, job'.wm) /\ OrderCount(job.acc, w) # 0 =>
                                  \E i \in 1..k : s[i] = w
          /\ out' \in Seq(Emitted) /\ DOMAIN out' = 1..l + k
          /\ \A i \in 1..l : out'[i] = out[i]
          /\ \A i \in 1..k : out'[l + i] = Result(s[i])
  <2> q \in Seq(Windows) /\ n \in Nat /\ m \in Nat
    BY <1>11, <1>13
  <2> WITNESS q \in Seq(Windows), n \in Nat, m \in Nat
  <2> QED BY <1>18, <1>19, <1>20, <1>21, <1>22, <1>23, <1>24, <1>25, <1>26
<1> QED BY <1>6, <1>7, <1>27

(* The steps that leave what the job has counted and written alone. *)
Quiet ==
    \/ Tick \/ Snapshot \/ Checkpoint \/ UNCHANGED vars
    \/ \E o \in Orders : ChangeOrder(o)
    \/ \E p \in Partitions : Removal(p) \/ MarkIdle(p)

LEMMA NextCases ==
    ASSUME [Next]_vars
    PROVE  \/ Quiet \/ EmitWatermark \/ Fail \/ Upgrade
           \/ \E p \in Partitions : Consume(p)
  BY DEF Next, Quiet, Removal

(* They keep the job, add to the topic, and may take a checkpoint. *)
LEMMA QuietFacts ==
    ASSUME TypeInv, Quiet
    PROVE  /\ job' \in Job /\ job'.offset = job.offset /\ job'.acc = job.acc
           /\ job'.life = job.life /\ job'.wm = job.wm
           /\ out' = out /\ late' = late
           /\ \/ checkpoint' = checkpoint
              \/ checkpoint' = [offset |-> job.offset, acc |-> job.acc]
           /\ log' \in [Partitions -> Seq(Record)] /\ LogGrows
           /\ now' \in Times /\ row' \in [Orders -> Times \cup {None}]
           /\ done' \in [Events -> Nat] /\ done'["restart"] = done["restart"]
           /\ \A e \in Events : done[e] <= done'[e]
<1>1. /\ job \in Job /\ log \in [Partitions -> Seq(Record)] /\ now \in Times
      /\ row \in [Orders -> Times \cup {None}] /\ done \in [Events -> Nat]
  BY DEF TypeInv
<1>2. \A p \in Partitions : Len(log[p]) \in Nat
  BY <1>1, LenProperties
<1>3. log' = log => LogGrows
  BY <1>2 DEF LogGrows
<1>4. /\ {"restart", "record", "snapshot", "removal", "checkpoint"} \subseteq Events
      /\ \A e \in Events : done[e] <= done[e]
  BY <1>1 DEF Events
<1>5. ASSUME NEW e \in Events \ {"restart"}, NEW b, Once(e, b)
      PROVE  /\ done' \in [Events -> Nat] /\ done'["restart"] = done["restart"]
             /\ \A f \in Events : done[f] <= done'[f]
  BY <1>4, <1>5, OnceFacts
<1>6. CASE Tick
  <2>1. now' \in Times
    BY <1>1, <1>6, RevenueAssumption DEF Tick, Times
  <2> QED BY <1>1, <1>3, <1>4, <1>6, <2>1 DEF Tick
<1>7. CASE Snapshot
  <2>1. Once("snapshot", MaxSnapshots) /\ "snapshot" \in Events \ {"restart"}
    BY <1>7, <1>4 DEF Snapshot
  <2>2. /\ done' \in [Events -> Nat] /\ done'["restart"] = done["restart"]
        /\ \A e \in Events : done[e] <= done'[e]
    BY <1>5, <2>1
  <2>3. log' \in [Partitions -> Seq(Record)] /\ LogGrows
    BY <1>7, SnapshotFacts
  <2> QED BY <1>1, <1>7, <2>2, <2>3 DEF Snapshot
<1>8. CASE Checkpoint
  <2>1. Once("checkpoint", MaxCheckpoints) /\ "checkpoint" \in Events \ {"restart"}
    BY <1>8, <1>4 DEF Checkpoint
  <2>2. /\ done' \in [Events -> Nat] /\ done'["restart"] = done["restart"]
        /\ \A e \in Events : done[e] <= done'[e]
    BY <1>5, <2>1
  <2> QED BY <1>1, <1>3, <1>8, <2>2 DEF Checkpoint
<1>9. CASE UNCHANGED vars
  BY <1>1, <1>3, <1>4, <1>9 DEF vars
<1>10. CASE \E o \in Orders : ChangeOrder(o)
  <2> PICK o \in Orders : ChangeOrder(o)
    BY <1>10
  <2>1. Once("record", MaxRecords) /\ "record" \in Events \ {"restart"}
    BY <1>4 DEF ChangeOrder
  <2>2. /\ done' \in [Events -> Nat] /\ done'["restart"] = done["restart"]
        /\ \A e \in Events : done[e] <= done'[e]
    BY <1>5, <2>1
  <2>3. log' \in [Partitions -> Seq(Record)] /\ LogGrows
    BY ChangeFacts
  <2>4. row' \in [Orders -> Times \cup {None}]
    BY ChangeFacts
  <2> QED BY <1>1, <2>2, <2>3, <2>4 DEF ChangeOrder
<1>11. CASE \E p \in Partitions : Removal(p)
  <2> PICK p \in Partitions : Removal(p)
    BY <1>11
  <2>1. Once("removal", MaxRemovals) /\ "removal" \in Events \ {"restart"}
    BY <1>4 DEF Removal, Compact, Expire
  <2>2. /\ done' \in [Events -> Nat] /\ done'["restart"] = done["restart"]
        /\ \A e \in Events : done[e] <= done'[e]
    BY <1>5, <2>1
  <2>3. log' \in [Partitions -> Seq(Record)] /\ LogGrows
    BY RemovalFacts
  <2> QED BY <1>1, <2>2, <2>3 DEF Removal, Compact, Expire
<1>12. CASE \E p \in Partitions : MarkIdle(p)
  <2> PICK p \in Partitions : MarkIdle(p)
    BY <1>12
  <2>1. job' = [job EXCEPT !.idle = @ \cup {p}]
    BY DEF MarkIdle
  <2>2. /\ job' \in Job /\ job'.offset = job.offset /\ job'.acc = job.acc
        /\ job'.life = job.life /\ job'.wm = job.wm
    BY <1>1, <2>1 DEF Job
  <2> QED BY <1>1, <1>3, <1>4, <2>2 DEF MarkIdle
<1> QED BY <1>6, <1>7, <1>8, <1>9, <1>10, <1>11, <1>12 DEF Quiet

(* A restored job. *)
LEMMA NewJobFacts ==
    ASSUME NEW c, c.offset \in [Partitions -> Nat], c.acc \in [Versions -> Int],
           NEW life \in Nat
    PROVE  /\ NewJob(c, life) \in Job
           /\ NewJob(c, life).offset = c.offset /\ NewJob(c, life).acc = c.acc
           /\ NewJob(c, life).life = life /\ NewJob(c, life).wm = None - Delay
<1>1. None - Delay \in Int
  BY RevenueAssumption DEF None
<1>2. [p \in Partitions |-> None] \in [Partitions -> Times \cup {None}]
  OBVIOUS
<1> QED BY <1>1, <1>2 DEF NewJob, Job

LEMMA FreshFacts ==
    /\ Fresh \in [offset : [Partitions -> Nat], acc : [Versions -> Int]]
    /\ \A p \in Partitions : Fresh.offset[p] = 0
    /\ \A v \in Versions : Fresh.acc[v] = 0
  BY DEF Fresh, Earliest, NoVersions

(* A restart begins the next life with a checkpoint or with nothing. *)
LEMMA RestartFacts ==
    ASSUME TypeInv, Fail \/ Upgrade
    PROVE  /\ job' \in Job /\ job'.life = job.life + 1 /\ job'.wm = None - Delay
           /\ checkpoint' = checkpoint \/ checkpoint' = Fresh
           /\ job'.offset = checkpoint'.offset /\ job'.acc = checkpoint'.acc
           /\ UNCHANGED <<now, row, log, out, late>>
           /\ done' \in [Events -> Nat] /\ done'["restart"] = done["restart"] + 1
<1>1. /\ job.life + 1 \in Nat
      /\ checkpoint.offset \in [Partitions -> Nat] /\ checkpoint.acc \in [Versions -> Int]
      /\ Fresh.offset \in [Partitions -> Nat] /\ Fresh.acc \in [Versions -> Int]
  BY FreshFacts DEF TypeInv, Job
<1>2. Once("restart", MaxRestarts) /\ "restart" \in Events
  BY DEF Fail, Upgrade, Events
<1>3. done' \in [Events -> Nat] /\ done'["restart"] = done["restart"] + 1
  BY <1>2, OnceFacts
<1>4. CASE Fail
  <2>1. job' = NewJob(checkpoint, job.life + 1) /\ UNCHANGED <<now, row, log, checkpoint, out, late>>
    BY <1>4 DEF Fail
  <2>2. /\ job' \in Job /\ job'.life = job.life + 1 /\ job'.wm = None - Delay
        /\ job'.offset = checkpoint.offset /\ job'.acc = checkpoint.acc
    BY <1>1, <2>1, NewJobFacts
  <2> QED BY <1>3, <2>1, <2>2
<1>5. CASE Upgrade
  <2>1. /\ job' = NewJob(Fresh, job.life + 1) /\ checkpoint' = Fresh
        /\ UNCHANGED <<now, row, log, out, late>>
    BY <1>5 DEF Upgrade
  <2>2. /\ job' \in Job /\ job'.life = job.life + 1 /\ job'.wm = None - Delay
        /\ job'.offset = Fresh.offset /\ job'.acc = Fresh.acc
    BY <1>1, <2>1, NewJobFacts
  <2> QED BY <1>3, <2>1, <2>2
<1> QED BY <1>4, <1>5

----------------------------------------------------------------------------
(* The types, and the records of one life. *)

LEMMA TypeInit ==
    ASSUME Init
    PROVE  TypeInv
<1>1. /\ job = NewJob(Fresh, 0) /\ checkpoint = Fresh /\ now = 0
      /\ row = [o \in Orders |-> None] /\ log = [p \in Partitions |-> << >>]
      /\ out = << >> /\ done = [e \in Events |-> 0]
  BY DEF Init
<1>2. Fresh.offset \in [Partitions -> Nat] /\ Fresh.acc \in [Versions -> Int]
  BY FreshFacts
<1>3. job \in Job /\ job.offset = Fresh.offset
  BY <1>1, <1>2, NewJobFacts
<1>4. << >> \in Seq(Record) /\ << >> \in Seq(Emitted) /\ Len(<< >>) = 0 /\ DOMAIN << >> = {}
  OBVIOUS
<1>5. 0 \in Times
  BY RevenueAssumption DEF Times
<1>6. \A p \in Partitions : job.offset[p] <= Len(log[p]) /\ checkpoint.offset[p] <= Len(log[p])
  BY <1>1, <1>3, <1>4, FreshFacts
<1>7. log \in [Partitions -> Seq(Record)] /\ row \in [Orders -> Times \cup {None}]
      /\ done \in [Events -> Nat]
  BY <1>1, <1>4
<1>8. out \in Seq(Emitted) /\ \A i \in DOMAIN out : out[i].count \in [InWindow(out[i].window) -> Int]
  BY <1>1, <1>4
<1> QED BY <1>1, <1>3, <1>5, <1>6, <1>7, <1>8, FreshFacts DEF TypeInv

(* What is written is of the types it should have. *)
LEMMA ResultFacts ==
    ASSUME TypeInv, NEW w \in Windows
    PROVE  /\ Result(w).window = w /\ Result(w).life = job.life
           /\ Result(w).count \in [InWindow(w) -> Int]
           /\ \A v \in InWindow(w) : Result(w).count[v] = job.acc[v]
<1>1. job.acc \in [Versions -> Int]
  BY DEF TypeInv, Job
<1> QED BY <1>1 DEF Result, InWindow

LEMMA TypeStep ==
    ASSUME TypeInv, [Next]_vars
    PROVE  TypeInv'
<1>1. \A p \in Partitions : /\ job.offset[p] \in Nat /\ checkpoint.offset[p] \in Nat
                            /\ job.offset[p] <= Len(log[p]) /\ checkpoint.offset[p] <= Len(log[p])
                            /\ Len(log[p]) \in Nat
  BY LenProperties DEF TypeInv, Job
<1>2. CASE Quiet
  <2>1. /\ job' \in Job /\ job'.offset = job.offset /\ out' = out
        /\ \/ checkpoint' = checkpoint
           \/ checkpoint' = [offset |-> job.offset, acc |-> job.acc]
        /\ log' \in [Partitions -> Seq(Record)] /\ LogGrows
        /\ now' \in Times /\ row' \in [Orders -> Times \cup {None}]
        /\ done' \in [Events -> Nat]
    BY <1>2, QuietFacts
  <2>2. job.offset \in [Partitions -> Nat] /\ job.acc \in [Versions -> Int]
    BY DEF TypeInv, Job
  <2>3. checkpoint' \in [offset : [Partitions -> Nat], acc : [Versions -> Int]]
    BY <2>1, <2>2 DEF TypeInv
  <2>4. \A p \in Partitions : Len(log'[p]) \in Nat /\ Len(log[p]) <= Len(log'[p])
    BY <2>1, LenProperties DEF LogGrows
  <2>5. checkpoint'.offset = checkpoint.offset \/ checkpoint'.offset = job.offset
    BY <2>1
  <2>6. \A p \in Partitions : /\ job'.offset[p] <= Len(log'[p])
                              /\ checkpoint'.offset[p] <= Len(log'[p])
    BY <1>1, <2>1, <2>4, <2>5
  <2>7. /\ out' \in Seq(Emitted)
        /\ \A i \in DOMAIN out' : out'[i].count \in [InWindow(out'[i].window) -> Int]
    BY <2>1 DEF TypeInv
  <2> QED BY <2>1, <2>3, <2>6, <2>7 DEF TypeInv, InWindow, WindowOf
<1>3. CASE EmitWatermark
  <2>1. job' \in Job /\ job'.offset = job.offset
    BY <1>3, EmitFacts
  <2>2. UNCHANGED <<now, row, log, checkpoint, late, done>>
    BY <1>3 DEF EmitWatermark
  <2>3. PICK q \in Seq(Windows), n \in Nat, m \in Nat :
            /\ DOMAIN q = 1..n /\ m = Len(out) /\ DOMAIN out = 1..m
            /\ out' \in Seq(Emitted) /\ DOMAIN out' = 1..m + n
            /\ \A i \in 1..m : out'[i] = out[i]
            /\ \A i \in 1..n : out'[m + i] = Result(q[i])
    BY <1>3, EmitFacts
  <2>4. ASSUME NEW i \in DOMAIN out'
        PROVE  out'[i].count \in [InWindow(out'[i].window) -> Int]
    <3>1. CASE i \in 1..m
      BY <2>3, <3>1 DEF TypeInv
    <3>2. CASE i \notin 1..m
      <4>1. i - m \in 1..n /\ m + (i - m) = i
        BY <2>3, <3>2
      <4>2. out'[i] = Result(q[i - m])
        BY <2>3, <4>1
      <4>3. q[i - m] \in Windows
        <5>1. n = Len(q)
          BY <2>3, LenProperties
        <5> QED BY <4>1, <5>1, ElementOfSeq
      <4> QED BY <4>2, <4>3, ResultFacts
    <3> QED BY <3>1, <3>2
  <2>5. \A i \in DOMAIN out' : out'[i].count \in [InWindow(out'[i].window) -> Int]
    BY <2>4
  <2> QED BY <2>1, <2>2, <2>3, <2>5 DEF TypeInv, InWindow, WindowOf
<1>4. CASE Fail \/ Upgrade
  <2>1. /\ job' \in Job /\ job'.offset = checkpoint'.offset
        /\ checkpoint' = checkpoint \/ checkpoint' = Fresh
        /\ UNCHANGED <<now, row, log, out, late>> /\ done' \in [Events -> Nat]
    BY <1>4, RestartFacts
  <2>2. checkpoint' \in [offset : [Partitions -> Nat], acc : [Versions -> Int]]
    BY <2>1, FreshFacts DEF TypeInv
  <2>3. \A p \in Partitions : checkpoint'.offset[p] <= Len(log[p])
    BY <1>1, <2>1, FreshFacts
  <2> QED BY <2>1, <2>2, <2>3 DEF TypeInv, InWindow, WindowOf
<1>5. ASSUME NEW p \in Partitions, Consume(p) PROVE TypeInv'
  <2> DEFINE i == job.offset[p] + 1
  <2>1. /\ i \in 1..Len(log[p]) /\ job' \in Job
        /\ job'.offset[p] = i /\ \A x \in Partitions \ {p} : job'.offset[x] = job.offset[x]
    BY <1>5, ConsumeFacts
  <2>2. UNCHANGED <<now, row, log, checkpoint, out, done>>
    BY <1>5 DEF Consume
  <2>3. \A x \in Partitions : job'.offset[x] <= Len(log[x])
    BY <1>1, <2>1
  <2> QED BY <1>1, <2>1, <2>2, <2>3 DEF TypeInv, InWindow, WindowOf
<1> QED BY <1>2, <1>3, <1>4, <1>5, NextCases

LEMMA TypesFollow ==
    ASSUME TypeInv
    PROVE  TypeOK
<1>1. \A p \in Partitions : {job.offset[p], checkpoint.offset[p]} \subseteq 0..Len(log[p])
  BY LenProperties DEF TypeInv, Job
<1>2. \A i \in DOMAIN out : out[i].window \in Windows
  <2>1. out \in Seq(Emitted)
    BY DEF TypeInv
  <2>2. DOMAIN out = 1..Len(out) /\ \A i \in 1..Len(out) : out[i] \in Emitted
    BY <2>1, LenProperties, ElementOfSeq
  <2> QED BY <2>2 DEF Emitted
<1> QED BY <1>1, <1>2 DEF TypeInv, TypeOK, Job

(* A closed window counts nothing. *)
LEMMA ClosedCountsNothing ==
    ASSUME TypeInv, ClosedIsEmpty, NEW w \in Windows, Closed(w, job.wm)
    PROVE  OrderCount(job.acc, w) = 0
<1>1. \A v \in InWindow(w) : job.acc[v] = 0
  BY DEF ClosedIsEmpty, InWindow
<1>2. IsFiniteSet(InWindow(w))
  BY VersionTypes, FS_Subset DEF InWindow
<1>3. \A v \in InWindow(w) : job.acc[v] \in Nat
  BY <1>1
<1> QED BY <1>1, <1>2, <1>3, TotalBounds DEF OrderCount

LEMMA ClosedStep ==
    ASSUME TypeInv, ClosedIsEmpty, [Next]_vars
    PROVE  ClosedIsEmpty'
<1>1. SUFFICES ASSUME NEW v \in Versions, Closed(WindowOf(v[2]), job'.wm)
               PROVE  job'.acc[v] = 0
  BY DEF ClosedIsEmpty, Closed, WindowOf
<1>2. CASE Quiet
  BY <1>1, <1>2, QuietFacts DEF ClosedIsEmpty
<1>3. CASE EmitWatermark
  BY <1>1, <1>3, EmitFacts
<1>4. CASE Fail \/ Upgrade
  <2>1. job'.wm = None - Delay
    BY <1>4, RestartFacts
  <2>2. WindowOf(v[2]) \in Nat
    BY VersionTypes
  <2>3. ~Closed(WindowOf(v[2]), job'.wm)
    <3>1. 0 \in Int /\ 0 <= 0
      OBVIOUS
    <3> QED BY <2>1, <2>2, <3>1, ClosedOrder
  <2> QED BY <1>1, <2>3
<1>5. ASSUME NEW p \in Partitions, Consume(p) PROVE job'.acc[v] = 0
  <2> DEFINE r == log[p][job.offset[p] + 1]
  <2>1. job'.wm = job.wm /\ job'.acc[v] = IF r.gone THEN job.acc[v] ELSE job.acc[v] + Changes(r, v)
    BY <1>5, ConsumeFacts
  <2>2. job.acc[v] = 0
    BY <1>1, <2>1 DEF ClosedIsEmpty
  <2> HIDE DEF r
  <2>3. Changes(r, v) = 0
    <3>1. v = <<r.order, r.after>> => ~OnTime(r.after)
      BY <1>1, <2>1 DEF OnTime
    <3>2. v = <<r.order, r.before>> => ~OnTime(r.before)
      BY <1>1, <2>1 DEF OnTime
    <3> QED BY <3>1, <3>2 DEF Changes
  <2> QED BY <2>1, <2>2, <2>3
<1> QED BY <1>2, <1>3, <1>4, <1>5, NextCases

LEMMA OutTypes ==
    ASSUME TypeInv
    PROVE  /\ DOMAIN out = 1..Len(out) /\ Len(out) \in Nat
           /\ \A i \in DOMAIN out : out[i].window \in Windows /\ out[i].life \in Nat
<1>1. out \in Seq(Emitted)
  BY DEF TypeInv
<1>2. /\ DOMAIN out = 1..Len(out) /\ Len(out) \in Nat
      /\ \A i \in 1..Len(out) : out[i] \in Emitted
  BY <1>1, LenProperties, ElementOfSeq
<1> QED BY <1>2 DEF Emitted

(* The windows that a watermark writes are younger than those written before
   it in this life, and are written oldest first.                          *)
LEMMA OutEmit ==
    ASSUME TypeInv, ClosedIsEmpty, OutInv, EmitWatermark
    PROVE  OutInv'
<1>1. /\ job' \in Job /\ job'.life = job.life /\ job.wm < job'.wm
      /\ job.wm \in Int /\ job'.wm \in Int /\ job.life \in Nat
  BY EmitFacts DEF TypeInv, Job
<1>2. done' = done
  BY DEF EmitWatermark
<1>3. PICK q \in Seq(Windows), n \in Nat, m \in Nat :
          /\ DOMAIN q = 1..n /\ m = Len(out) /\ DOMAIN out = 1..m
          /\ \A i, j \in 1..n : i < j => q[i] < q[j]
          /\ \A i \in 1..n : Closed(q[i], job'.wm) /\ OrderCount(job.acc, q[i]) # 0
          /\ out' \in Seq(Emitted) /\ DOMAIN out' = 1..m + n
          /\ \A i \in 1..m : out'[i] = out[i]
          /\ \A i \in 1..n : out'[m + i] = Result(q[i])
  BY EmitFacts
<1>4. ASSUME NEW i \in 1..n
      PROVE  q[i] \in Windows /\ q[i] \in Nat /\ ~Closed(q[i], job.wm)
  <2>1. n = Len(q)
    BY <1>3, LenProperties
  <2>2. q[i] \in Windows
    BY <2>1, ElementOfSeq
  <2>3. q[i] \in Nat
    BY <2>2, VersionTypes
  <2> QED BY <1>3, <2>2, <2>3, ClosedCountsNothing
<1>5. ASSUME NEW i \in DOMAIN out', i \notin 1..m
      PROVE  /\ i - m \in 1..n /\ out'[i].window = q[i - m] /\ out'[i].life = job.life
  <2>1. i - m \in 1..n /\ m + (i - m) = i
    BY <1>3, <1>5
  <2>2. out'[i] = Result(q[i - m])
    BY <1>3, <2>1
  <2> QED BY <1>4, <2>1, <2>2, ResultFacts
<1>6. ASSUME NEW i \in 1..m
      PROVE  /\ out'[i] = out[i] /\ out[i].window \in Nat /\ out[i].life \in Nat
             /\ out[i].life <= job.life
             /\ out[i].life = job.life => Closed(out[i].window, job.wm)
  BY <1>3, OutTypes, VersionTypes DEF OutInv
<1>7. ASSUME NEW i \in DOMAIN out'
      PROVE  /\ out'[i].life <= job'.life
             /\ out'[i].life = job'.life => Closed(out'[i].window, job'.wm)
  <2>1. CASE i \in 1..m
    <3>1. Closed(out[i].window, job.wm) => Closed(out[i].window, job'.wm)
      BY <1>1, <1>6, <2>1, ClosedOrder
    <3> QED BY <1>1, <1>6, <2>1, <3>1
  <2>2. CASE i \notin 1..m
    BY <1>1, <1>3, <1>5, <2>2
  <2> QED BY <2>1, <2>2
<1>8. ASSUME NEW i \in DOMAIN out', NEW j \in DOMAIN out', i < j, out'[i].life = out'[j].life
      PROVE  out'[i].window < out'[j].window
  <2>1. CASE j \in 1..m
    <3>1. i \in 1..m
      BY <1>3, <1>8, <2>1
    <3>2. out[i].window < out[j].window
      BY <1>3, <1>6, <1>8, <2>1, <3>1 DEF OutInv, InOrderWithinALife
    <3> QED BY <1>6, <2>1, <3>1, <3>2
  <2>2. CASE i \in 1..m /\ j \notin 1..m
    <3>1. Closed(out[i].window, job.wm) /\ out'[i] = out[i] /\ out[i].window \in Nat
      BY <1>5, <1>6, <1>8, <2>2
    <3>2. j - m \in 1..n /\ out'[j].window = q[j - m]
      BY <1>5, <2>2
    <3>3. ~Closed(q[j - m], job.wm) /\ q[j - m] \in Nat
      BY <1>4, <3>2
    <3>4. job.wm <= job.wm
      BY <1>1
    <3>5. out[i].window < q[j - m]
      BY <1>1, <3>1, <3>3, <3>4, ClosedOrder
    <3> QED BY <3>1, <3>2, <3>5
  <2>3. CASE i \notin 1..m /\ j \notin 1..m
    <3>1. /\ i - m \in 1..n /\ out'[i].window = q[i - m]
          /\ j - m \in 1..n /\ out'[j].window = q[j - m]
      BY <1>5, <2>3
    <3>2. i - m < j - m
      BY <1>3, <1>8
    <3> QED BY <1>3, <3>1, <3>2
  <2> QED BY <1>3, <2>1, <2>2, <2>3
<1> QED BY <1>1, <1>2, <1>7, <1>8 DEF OutInv, InOrderWithinALife, Closed

LEMMA OutStep ==
    ASSUME TypeInv, ClosedIsEmpty, OutInv, [Next]_vars
    PROVE  OutInv'
<1>1. CASE Quiet
  BY <1>1, QuietFacts DEF OutInv, InOrderWithinALife, Closed
<1>2. CASE EmitWatermark
  BY <1>2, OutEmit
<1>3. CASE Fail \/ Upgrade
  <2>1. /\ job'.life = job.life + 1 /\ out' = out
        /\ done'["restart"] = done["restart"] + 1
    BY <1>3, RestartFacts
  <2>2. job.life \in Nat
    BY DEF TypeInv, Job
  <2>3. ASSUME NEW i \in DOMAIN out PROVE out[i].life <= job'.life /\ out[i].life # job'.life
    BY <2>1, <2>2, OutTypes DEF OutInv
  <2> QED BY <2>1, <2>3 DEF OutInv, InOrderWithinALife
<1>4. ASSUME NEW p \in Partitions, Consume(p) PROVE OutInv'
  <2>1. job'.life = job.life /\ job'.wm = job.wm
    BY <1>4, ConsumeFacts
  <2>2. UNCHANGED <<out, done>>
    BY <1>4 DEF Consume
  <2> QED BY <2>1, <2>2 DEF OutInv, InOrderWithinALife, Closed
<1> QED BY <1>1, <1>2, <1>3, <1>4, NextCases

----------------------------------------------------------------------------
(* No order is lost. *)

(* What is retracted of a window stays retracted. *)
LEMMA RetractedStays ==
    ASSUME TypeInv, log' \in [Partitions -> Seq(Record)], LogGrows, NEW w
    PROVE  NothingRetracted(w)' => NothingRetracted(w)
<1>1. SUFFICES ASSUME \A p \in Partitions : \A i \in DOMAIN log'[p] : WindowOf(log'[p][i].before) # w,
                      NEW p \in Partitions, NEW i \in DOMAIN log[p]
               PROVE  WindowOf(log[p][i].before) # w
  BY DEF NothingRetracted, WindowOf
<1>2. DOMAIN log[p] = 1..Len(log[p]) /\ Len(log[p]) \in Nat
  BY LenProperties DEF TypeInv
<1>3. DOMAIN log'[p] = 1..Len(log'[p]) /\ Len(log'[p]) \in Nat
  BY LenProperties
<1>4. i \in DOMAIN log'[p] /\ log'[p][i].before = log[p][i].before
  BY <1>2, <1>3 DEF LogGrows
<1> QED BY <1>1, <1>4

(* The records that were read and what was written of them stay. *)
LEMMA KeptStays ==
    ASSUME TypeInv, log' \in [Partitions -> Seq(Record)], LogGrows, late \subseteq late',
           NEW offset \in [Partitions -> Nat], \A p \in Partitions : offset[p] <= Len(log[p]),
           NEW acc, Kept(offset, acc), NothingNegative(acc),
           \A v \in Versions : Written(v) => Written(v)'
    PROVE  KeptNext(offset, acc) /\ NothingNegativeNext(acc)
<1>1. NothingNegativeNext(acc)
  <2>1. \A v \in Versions : NothingRetracted(WindowOf(v[2]))' => NothingRetracted(WindowOf(v[2]))
    BY RetractedStays
  <2> QED BY <2>1 DEF NothingNegativeNext, NothingNegative
<1>2. ASSUME NEW p \in Partitions, NEW i \in 1..offset[p], NEW r \in Record, r = log'[p][i],
             r.after # None, ~r.gone, NothingRetracted(WindowOf(r.after))'
      PROVE  <<p, i>> \in late' \/ acc[<<r.order, r.after>>] >= 1 \/ Written(<<r.order, r.after>>)'
  <2>1. Len(log[p]) \in Nat /\ log[p] \in Seq(Record)
    BY LenProperties DEF TypeInv
  <2>2. i \in 1..Len(log[p])
    BY <2>1
  <2>3. /\ log[p][i].order = r.order /\ log[p][i].after = r.after /\ ~log[p][i].gone
        /\ NothingRetracted(WindowOf(r.after))
    BY <1>2, <2>2, RetractedStays DEF LogGrows
  <2>4. \/ <<p, i>> \in late \/ acc[<<r.order, r.after>>] >= 1
        \/ Written(<<r.order, r.after>>)
    BY <1>2, <2>3 DEF Kept
  <2>5. <<r.order, r.after>> \in Versions
    BY <1>2, VersionTypes DEF Record
  <2>6. Written(<<r.order, r.after>>) => Written(<<r.order, r.after>>)'
    BY <2>5
  <2> QED BY <2>4, <2>6
<1>3. KeptNext(offset, acc)
  BY <1>2 DEF KeptNext
<1> QED BY <1>1, <1>3

(* KeptNext and NothingNegativeNext are what the next state needs. *)
LEMMA KeptPrimed ==
    ASSUME log' \in [Partitions -> Seq(Record)],
           job'.offset \in [Partitions -> Nat], checkpoint'.offset \in [Partitions -> Nat],
           \A p \in Partitions : job'.offset[p] <= Len(log'[p]),
           \A p \in Partitions : checkpoint'.offset[p] <= Len(log'[p]),
           KeptNext(job'.offset, job'.acc), NothingNegativeNext(job'.acc),
           KeptNext(checkpoint'.offset, checkpoint'.acc), NothingNegativeNext(checkpoint'.acc)
    PROVE  LossInv'
<1>1. \A p \in Partitions : log'[p] \in Seq(Record) /\ Len(log'[p]) \in Nat
  BY LenProperties
<1>2. ASSUME NEW offset \in [Partitions -> Nat], NEW acc, \A p \in Partitions : offset[p] <= Len(log'[p]),
             KeptNext(offset, acc), NEW p \in Partitions, NEW i \in 1..offset[p],
             log'[p][i].after # None, ~log'[p][i].gone, NothingRetracted(WindowOf(log[p][i].after))'
      PROVE  \/ <<p, i>> \in late' \/ acc[<<log'[p][i].order, log'[p][i].after>>] >= 1
             \/ Written(<<log[p][i].order, log[p][i].after>>)'
  <2>1. PICK r : r = log'[p][i]
    OBVIOUS
  <2>2. r \in Record
    <3>1. i \in 1..Len(log'[p])
      BY <1>1, <1>2
    <3> QED BY <1>1, <2>1, <3>1, ElementOfSeq
  <2>3. NothingRetracted(WindowOf(r.after))'
    BY <1>2, <2>1 DEF NothingRetracted, WindowOf
  <2>4. \/ <<p, i>> \in late' \/ acc[<<r.order, r.after>>] >= 1
        \/ Written(<<r.order, r.after>>)'
    BY <1>2, <2>1, <2>2, <2>3 DEF KeptNext
  <2> QED BY <2>1, <2>4 DEF Written, WindowOf
<1>3. Kept(job.offset, job.acc)'
  BY <1>2 DEF Kept
<1>4. Kept(checkpoint.offset, checkpoint.acc)'
  BY <1>2 DEF Kept
<1>5. NothingNegative(job.acc)' /\ NothingNegative(checkpoint.acc)'
  BY DEF NothingNegativeNext, NothingNegative, NothingRetracted, WindowOf
<1> QED BY <1>3, <1>4, <1>5 DEF LossInv

(* A record that was read changes the count of a version of which nothing is
   retracted only upwards, and counts its own.                              *)
LEMMA ChangesNothingBack ==
    ASSUME NEW p \in Partitions, NEW i \in DOMAIN log[p], NEW r, r = log[p][i],
           NEW v, NothingRetracted(WindowOf(v[2]))
    PROVE  /\ Changes(r, v) \in {0, 1}
           /\ v = <<r.order, r.after>> /\ OnTime(r.after) => Changes(r, v) = 1
<1>1. v # <<r.order, r.before>>
  BY DEF NothingRetracted
<1> QED BY <1>1 DEF Changes

LEMMA LossConsume ==
    ASSUME TypeInv, LossInv, NEW p \in Partitions, Consume(p)
    PROVE  KeptNext(job'.offset, job'.acc) /\ NothingNegativeNext(job'.acc)
<1> DEFINE i == job.offset[p] + 1
           r == log[p][i]
<1>1. /\ i \in 1..Len(log[p]) /\ r \in Record
      /\ job'.offset[p] = i /\ \A x \in Partitions \ {p} : job'.offset[x] = job.offset[x]
      /\ \A v \in Versions :
            job'.acc[v] = IF r.gone THEN job.acc[v] ELSE job.acc[v] + Changes(r, v)
      /\ late \subseteq late'
      /\ ~r.gone /\ r.after # None /\ ~OnTime(r.after) => <<p, i>> \in late'
  BY ConsumeFacts
<1>2. UNCHANGED <<log, out>>
  BY DEF Consume
<1>3. job.offset[p] \in Nat /\ i \in DOMAIN log[p] /\ \A v \in Versions : job.acc[v] \in Int
  BY <1>1, LenProperties DEF TypeInv, Job
<1>4. \A w : NothingRetracted(w)' => NothingRetracted(w)
  BY <1>2 DEF NothingRetracted, WindowOf
<1>5. ASSUME NEW v \in Versions, NothingRetracted(WindowOf(v[2]))
      PROVE  /\ job.acc[v] >= 0 /\ job'.acc[v] >= job.acc[v]
             /\ ~r.gone /\ v = <<r.order, r.after>> /\ OnTime(r.after) => job'.acc[v] >= 1
  <2>1. /\ Changes(r, v) \in {0, 1}
        /\ v = <<r.order, r.after>> /\ OnTime(r.after) => Changes(r, v) = 1
    BY <1>3, <1>5, ChangesNothingBack
  <2>2. job.acc[v] >= 0
    BY <1>5 DEF LossInv, NothingNegative
  <2> HIDE DEF r
  <2> QED BY <1>1, <1>3, <2>1, <2>2
<1>6. NothingNegativeNext(job'.acc)
  <2>1. ASSUME NEW v \in Versions, NothingRetracted(WindowOf(v[2]))'
        PROVE  job'.acc[v] >= 0
    <3>1. NothingRetracted(WindowOf(v[2]))
      BY <1>4, <2>1
    <3>2. job.acc[v] >= 0 /\ job'.acc[v] >= job.acc[v] /\ job'.acc[v] \in Int /\ job.acc[v] \in Int
      <4>1. job'.acc[v] \in Int
        BY TypeStep DEF TypeInv, Job, Next
      <4> QED BY <1>3, <1>5, <3>1, <4>1
    <3> QED BY <3>2
  <2> QED BY <2>1 DEF NothingNegativeNext
<1>7. ASSUME NEW x \in Partitions, NEW k \in 1..job'.offset[x], NEW s \in Record, s = log'[x][k],
             s.after # None, ~s.gone, NothingRetracted(WindowOf(s.after))'
      PROVE  \/ <<x, k>> \in late' \/ job'.acc[<<s.order, s.after>>] >= 1
             \/ Written(<<s.order, s.after>>)'
  <2>1. PICK v \in Versions : v = <<s.order, s.after>>
    BY <1>7, VersionTypes DEF Record
  <2>2. NothingRetracted(WindowOf(v[2])) /\ NothingRetracted(WindowOf(s.after))
    BY <1>4, <1>7, <2>1
  <2>3. job.acc[v] \in Int /\ job'.acc[v] \in Int
    BY <1>3, TypeStep DEF TypeInv, Job, Next
  <2>4. CASE x = p /\ k = i
    <3>1. s = r
      BY <1>2, <1>7, <2>4
    <3>2. <<x, k>> \in late' \/ OnTime(r.after)
      BY <1>1, <1>7, <2>4, <3>1
    <3>3. OnTime(r.after) => job'.acc[v] >= 1
      BY <1>5, <1>7, <2>1, <2>2, <3>1
    <3> QED BY <2>1, <3>2, <3>3
  <2>5. CASE k \in 1..job.offset[x]
    <3>1. s = log[x][k]
      BY <1>2, <1>7
    <3>2. <<x, k>> \in late \/ job.acc[v] >= 1 \/ Written(v)
      BY <1>7, <2>1, <2>2, <2>5, <3>1 DEF LossInv, Kept
    <3>3. job.acc[v] >= 1 => job'.acc[v] >= 1
      BY <1>5, <2>2, <2>3
    <3>4. Written(v) => Written(v)'
      BY <1>2 DEF Written, WindowOf
    <3>5. Written(v)' => Written(<<s.order, s.after>>)'
      BY <2>1 DEF Written
    <3> QED BY <1>1, <2>1, <3>2, <3>3, <3>4, <3>5
  <2>6. k \in 1..job.offset[x] \/ (x = p /\ k = i)
    BY <1>1, <1>3
  <2> QED BY <2>4, <2>5, <2>6
<1>8. KeptNext(job'.offset, job'.acc)
  BY <1>7 DEF KeptNext
<1> QED BY <1>6, <1>8

(* A window that counts a row and of which nothing is retracted counts more
   than nothing: it is written when it is closed.                          *)
LEMMA LossEmit ==
    ASSUME TypeInv, LossInv, EmitWatermark
    PROVE  /\ KeptNext(job'.offset, job'.acc) /\ NothingNegativeNext(job'.acc)
           /\ \A v \in Versions : Written(v) => Written(v)'
<1>1. /\ job'.offset = job.offset
      /\ \A v \in Versions :
            job'.acc[v] = IF Closed(WindowOf(v[2]), job'.wm) THEN 0 ELSE job.acc[v]
  BY EmitFacts
<1>2. UNCHANGED <<log, late>>
  BY DEF EmitWatermark
<1>3. PICK q \in Seq(Windows), n \in Nat, m \in Nat :
          /\ DOMAIN q = 1..n /\ m = Len(out) /\ DOMAIN out = 1..m
          /\ \A w \in Windows : Closed(w, job'.wm) /\ OrderCount(job.acc, w) # 0 =>
                                  \E i \in 1..n : q[i] = w
          /\ out' \in Seq(Emitted) /\ DOMAIN out' = 1..m + n
          /\ \A i \in 1..m : out'[i] = out[i]
          /\ \A i \in 1..n : out'[m + i] = Result(q[i])
  BY EmitFacts
<1>4. \A w : NothingRetracted(w)' => NothingRetracted(w)
  BY <1>2 DEF NothingRetracted, WindowOf
<1>5. \A v \in Versions : Written(v) => Written(v)'
  <2>1. \A k \in DOMAIN out : k \in DOMAIN out' /\ out'[k] = out[k]
    BY <1>3
  <2> QED BY <2>1 DEF Written, WindowOf
<1>6. ASSUME NEW v \in Versions, NothingRetracted(WindowOf(v[2])), job.acc[v] >= 1,
             Closed(WindowOf(v[2]), job'.wm)
      PROVE  Written(v)'
  <2>1. PICK w \in Windows : w = WindowOf(v[2])
    BY VersionTypes
  <2>2. ASSUME NEW x \in InWindow(w) PROVE x \in Versions /\ job.acc[x] \in Nat
    <3>1. x \in Versions /\ WindowOf(x[2]) = w
      BY DEF InWindow
    <3>2. job.acc[x] >= 0
      BY <1>6, <2>1, <3>1 DEF LossInv, NothingNegative
    <3>3. job.acc[x] \in Int
      BY <3>1 DEF TypeInv, Job
    <3> QED BY <3>1, <3>2, <3>3
  <2>3. IsFiniteSet(InWindow(w))
    BY VersionTypes, FS_Subset DEF InWindow
  <2>4. v \in InWindow(w)
    BY <2>1 DEF InWindow
  <2>5. Total(job.acc, InWindow(w)) \in Nat /\ job.acc[v] <= Total(job.acc, InWindow(w))
    BY <2>2, <2>3, <2>4, TotalBounds
  <2>6. OrderCount(job.acc, w) # 0
    <3>1. job.acc[v] \in Nat
      BY <2>2, <2>4
    <3>2. Total(job.acc, InWindow(w)) # 0
      BY <1>6, <2>5, <3>1
    <3> QED BY <3>2 DEF OrderCount
  <2>7. PICK i \in 1..n : q[i] = w
    BY <1>3, <1>6, <2>1, <2>6
  <2>8. out'[m + i] = Result(w) /\ m + i \in DOMAIN out'
    BY <1>3, <2>7
  <2>9. out'[m + i].window = w /\ out'[m + i].count[v] = job.acc[v]
    BY <2>4, <2>8, ResultFacts
  <2> QED BY <1>6, <2>1, <2>8, <2>9 DEF Written, WindowOf
<1>7. NothingNegativeNext(job'.acc)
  <2>1. ASSUME NEW v \in Versions, NothingRetracted(WindowOf(v[2])) PROVE job'.acc[v] >= 0
    <3>1. job.acc[v] >= 0
      BY <2>1 DEF LossInv, NothingNegative
    <3> QED BY <1>1, <3>1
  <2> QED BY <1>4, <2>1 DEF NothingNegativeNext
<1>8. ASSUME NEW x \in Partitions, NEW k \in 1..job'.offset[x], NEW s \in Record, s = log'[x][k],
             s.after # None, ~s.gone, NothingRetracted(WindowOf(s.after))'
      PROVE  \/ <<x, k>> \in late' \/ job'.acc[<<s.order, s.after>>] >= 1
             \/ Written(<<s.order, s.after>>)'
  <2>1. PICK v \in Versions : v = <<s.order, s.after>>
    BY <1>8, VersionTypes DEF Record
  <2>2. NothingRetracted(WindowOf(v[2])) /\ NothingRetracted(WindowOf(s.after))
    BY <1>4, <1>8, <2>1
  <2>3. <<x, k>> \in late \/ job.acc[v] >= 1 \/ Written(v)
    BY <1>1, <1>2, <1>8, <2>1, <2>2 DEF LossInv, Kept
  <2>4. job.acc[v] >= 1 => job'.acc[v] >= 1 \/ Written(v)'
    BY <1>1, <1>6, <2>2
  <2>5. Written(v)' => Written(<<s.order, s.after>>)'
    BY <2>1 DEF Written
  <2> QED BY <1>2, <1>5, <2>1, <2>3, <2>4, <2>5
<1>9. KeptNext(job'.offset, job'.acc)
  BY <1>8 DEF KeptNext
<1> QED BY <1>5, <1>7, <1>9

LEMMA LossStep ==
    ASSUME TypeInv, LossInv, [Next]_vars
    PROVE  LossInv'
<1>1. TypeInv'
  BY TypeStep
<1>2. /\ log' \in [Partitions -> Seq(Record)]
      /\ job'.offset \in [Partitions -> Nat] /\ checkpoint'.offset \in [Partitions -> Nat]
      /\ \A p \in Partitions : job'.offset[p] <= Len(log'[p])
      /\ \A p \in Partitions : checkpoint'.offset[p] <= Len(log'[p])
  BY <1>1 DEF TypeInv, Job
<1>3. SUFFICES /\ KeptNext(job'.offset, job'.acc) /\ NothingNegativeNext(job'.acc)
               /\ KeptNext(checkpoint'.offset, checkpoint'.acc)
               /\ NothingNegativeNext(checkpoint'.acc)
  BY <1>2, KeptPrimed
<1>4. /\ job.offset \in [Partitions -> Nat] /\ \A p \in Partitions : job.offset[p] <= Len(log[p])
      /\ Kept(job.offset, job.acc) /\ NothingNegative(job.acc)
      /\ checkpoint.offset \in [Partitions -> Nat]
      /\ \A p \in Partitions : checkpoint.offset[p] <= Len(log[p])
      /\ Kept(checkpoint.offset, checkpoint.acc) /\ NothingNegative(checkpoint.acc)
  BY DEF LossInv, TypeInv, Job
<1>5. ASSUME LogGrows, late \subseteq late', \A v \in Versions : Written(v) => Written(v)'
      PROVE  /\ KeptNext(job.offset, job.acc) /\ NothingNegativeNext(job.acc)
             /\ KeptNext(checkpoint.offset, checkpoint.acc) /\ NothingNegativeNext(checkpoint.acc)
  BY <1>2, <1>4, <1>5, KeptStays
<1>6. log' = log => LogGrows
  BY LenProperties DEF LogGrows, TypeInv
<1>7. out' = out => \A v \in Versions : Written(v) => Written(v)'
  BY DEF Written, WindowOf
<1>8. CASE Quiet
  <2>1. /\ job'.offset = job.offset /\ job'.acc = job.acc /\ out' = out /\ late' = late
        /\ \/ checkpoint' = checkpoint
           \/ checkpoint' = [offset |-> job.offset, acc |-> job.acc]
        /\ LogGrows
    BY <1>8, QuietFacts
  <2>2. \/ checkpoint'.offset = checkpoint.offset /\ checkpoint'.acc = checkpoint.acc
        \/ checkpoint'.offset = job.offset /\ checkpoint'.acc = job.acc
    BY <2>1
  <2>3. /\ KeptNext(job.offset, job.acc) /\ NothingNegativeNext(job.acc)
        /\ KeptNext(checkpoint.offset, checkpoint.acc) /\ NothingNegativeNext(checkpoint.acc)
    BY <1>5, <1>7, <2>1
  <2> QED BY <2>1, <2>2, <2>3
<1>9. CASE EmitWatermark
  <2>1. UNCHANGED <<log, checkpoint, late>>
    BY <1>9 DEF EmitWatermark
  <2>2. /\ KeptNext(job'.offset, job'.acc) /\ NothingNegativeNext(job'.acc)
        /\ \A v \in Versions : Written(v) => Written(v)'
    BY <1>9, LossEmit
  <2>3. KeptNext(checkpoint.offset, checkpoint.acc) /\ NothingNegativeNext(checkpoint.acc)
    BY <1>5, <1>6, <2>1, <2>2
  <2> QED BY <2>1, <2>2, <2>3
<1>10. ASSUME NEW p \in Partitions, Consume(p)
       PROVE  /\ KeptNext(job'.offset, job'.acc) /\ NothingNegativeNext(job'.acc)
              /\ KeptNext(checkpoint'.offset, checkpoint'.acc)
              /\ NothingNegativeNext(checkpoint'.acc)
  <2>1. UNCHANGED <<log, checkpoint, out>>
    BY <1>10 DEF Consume
  <2>2. late \subseteq late'
    BY <1>10, ConsumeFacts
  <2>3. KeptNext(checkpoint.offset, checkpoint.acc) /\ NothingNegativeNext(checkpoint.acc)
    BY <1>5, <1>6, <1>7, <2>1, <2>2
  <2>4. KeptNext(job'.offset, job'.acc) /\ NothingNegativeNext(job'.acc)
    BY <1>10, LossConsume
  <2> QED BY <2>1, <2>3, <2>4
<1>11. CASE Fail \/ Upgrade
  <2>1. /\ UNCHANGED <<log, out, late>>
        /\ job'.offset = checkpoint'.offset /\ job'.acc = checkpoint'.acc
        /\ checkpoint' = checkpoint \/ checkpoint' = Fresh
    BY <1>11, RestartFacts
  <2>2. KeptNext(checkpoint.offset, checkpoint.acc) /\ NothingNegativeNext(checkpoint.acc)
    BY <1>5, <1>6, <1>7, <2>1
  <2>3. KeptNext(Fresh.offset, Fresh.acc) /\ NothingNegativeNext(Fresh.acc)
    BY FreshFacts DEF KeptNext, NothingNegativeNext
  <2> QED BY <2>1, <2>2, <2>3
<1> QED BY <1>8, <1>9, <1>10, <1>11, NextCases

LEMMA NothingIsLost ==
    ASSUME TypeInv, ClosedIsEmpty, LossInv
    PROVE  NoOrderLost
<1>1. SUFFICES ASSUME NEW p \in Partitions, NEW i \in 1..job.offset[p], NEW r, r = log[p][i],
                      r.after # None, ~r.gone, Closed(WindowOf(r.after), job.wm),
                      NothingRetracted(WindowOf(r.after))
               PROVE  \/ <<p, i>> \in late
                      \/ \E k \in DOMAIN out : /\ out[k].window = WindowOf(r.after)
                                               /\ out[k].count[<<r.order, r.after>>] >= 1
  BY DEF NoOrderLost
<1>2. log[p] \in Seq(Record) /\ i \in 1..Len(log[p])
  BY LenProperties DEF TypeInv, Job
<1>3. r \in Record
  BY <1>1, <1>2, ElementOfSeq
<1>4. <<r.order, r.after>> \in Versions
  BY <1>1, <1>3, VersionTypes DEF Record
<1>5. job.acc[<<r.order, r.after>>] = 0
  BY <1>1, <1>4 DEF ClosedIsEmpty
<1>6. <<p, i>> \in late \/ job.acc[<<r.order, r.after>>] >= 1 \/ Written(<<r.order, r.after>>)
  BY <1>1 DEF LossInv, Kept
<1> QED BY <1>5, <1>6 DEF Written

----------------------------------------------------------------------------
(* Versions are counted once while nothing disturbs the stream. *)

(* One more record is the latest of its order, and of no other. *)
LEMMA LatestNext ==
    ASSUME NEW s, NEW o, NEW n \in Nat, NEW t
    PROVE  Latest(s, o, n + 1, t) <=>
             IF s[n + 1].order = o THEN s[n + 1].after = t ELSE Latest(s, o, n, t)
<1>1. CASE s[n + 1].order = o
  <2>1. Latest(s, o, n + 1, t) => s[n + 1].after = t
    <3>1. SUFFICES ASSUME NEW i \in 1..n + 1, s[i].after = t,
                          \A j \in i + 1..n + 1 : s[j].order # o
                   PROVE  s[n + 1].after = t
      BY DEF Latest
    <3>2. i = n + 1
      BY <1>1, <3>1
    <3> QED BY <3>1, <3>2
  <2>2. s[n + 1].after = t => Latest(s, o, n + 1, t)
    BY <1>1 DEF Latest
  <2> QED BY <1>1, <2>1, <2>2
<1>2. CASE s[n + 1].order # o
  <2>1. Latest(s, o, n + 1, t) => Latest(s, o, n, t)
    <3>1. SUFFICES ASSUME NEW i \in 1..n + 1, s[i].order = o, s[i].after = t,
                          \A j \in i + 1..n + 1 : s[j].order # o
                   PROVE  Latest(s, o, n, t)
      BY DEF Latest
    <3>2. i \in 1..n /\ \A j \in i + 1..n : j \in i + 1..n + 1
      BY <1>2, <3>1
    <3> QED BY <3>1, <3>2 DEF Latest
  <2>2. Latest(s, o, n, t) => Latest(s, o, n + 1, t)
    <3>1. SUFFICES ASSUME NEW i \in 1..n, s[i].order = o, s[i].after = t,
                          \A j \in i + 1..n : s[j].order # o
                   PROVE  Latest(s, o, n + 1, t)
      BY DEF Latest
    <3>2. i \in 1..n + 1 /\ \A j \in i + 1..n + 1 : j \in i + 1..n \/ j = n + 1
      OBVIOUS
    <3>3. \A j \in i + 1..n + 1 : s[j].order # o
      BY <1>2, <3>1, <3>2
    <3> QED BY <3>1, <3>2, <3>3 DEF Latest
  <2> QED BY <1>2, <2>1, <2>2
<1> QED BY <1>1, <1>2

(* An order has one latest version. *)
LEMMA LatestUnique ==
    ASSUME NEW s, NEW o, NEW n \in Nat, NEW t, NEW u, Latest(s, o, n, t), Latest(s, o, n, u)
    PROVE  t = u
<1>1. PICK i \in 1..n : s[i].order = o /\ s[i].after = t /\ \A j \in i + 1..n : s[j].order # o
  BY DEF Latest
<1>2. PICK k \in 1..n : s[k].order = o /\ s[k].after = u /\ \A j \in k + 1..n : s[j].order # o
  BY DEF Latest
<1>3. ~(i < k) /\ ~(k < i)
  BY <1>1, <1>2
<1>4. i = k
  BY <1>3
<1> QED BY <1>1, <1>2, <1>4

(* It depends on the first n records only. *)
LEMMA LatestStays ==
    ASSUME NEW s, NEW z, NEW o, NEW n \in Nat, NEW t, \A i \in 1..n : z[i] = s[i]
    PROVE  Latest(z, o, n, t) <=> Latest(s, o, n, t)
<1>1. \A i \in 1..n : i \in 1..n /\ \A j \in i + 1..n : j \in 1..n
  OBVIOUS
<1> QED BY <1>1 DEF Latest

(* A change of order o is made to the row its last change left. *)
LEMMA HistoryChange ==
    ASSUME TypeInv, HistoryInv, NEW o \in Orders, ChangeOrder(o)
    PROVE  /\ HistoryInv'
           /\ \A x \in Orders : \A i \in 1..Len(log[PartitionOf[x]]) :
                 log'[PartitionOf[x]][i] = log[PartitionOf[x]][i]
<1>1. PICK after \in Times \cup {None}, p \in Partitions, n \in Nat :
          /\ p = PartitionOf[o] /\ n = Len(log[p])
          /\ row[o] # None \/ \A i \in 1..n : log[p][i].order # o
          /\ row' = [row EXCEPT ![o] = after]
          /\ Len(log'[p]) = n + 1 /\ log'[p][n + 1] = Entry(o, row[o], after)
          /\ \A i \in 1..n : log'[p][i] = log[p][i]
          /\ \A x \in Partitions \ {p} : log'[x] = log[x]
  BY ChangeFacts
<1>2. /\ \A x \in Partitions : log[x] \in Seq(Record) /\ Len(log[x]) \in Nat
      /\ \A x \in Partitions : DOMAIN log[x] = 1..Len(log[x])
      /\ \A x \in Partitions : DOMAIN log'[x] = 1..Len(log'[x])
      /\ \A x \in Orders : PartitionOf[x] \in Partitions
  <2>1. log \in [Partitions -> Seq(Record)] /\ log' \in [Partitions -> Seq(Record)]
    BY ChangeFacts DEF TypeInv
  <2>2. \A x \in Orders : PartitionOf[x] \in Partitions
    BY RevenueAssumption
  <2> QED BY <2>1, <2>2, LenProperties
<1>3. \A x \in Partitions : \A i \in 1..Len(log[x]) : log'[x][i] = log[x][i]
  BY <1>1
<1>4. ASSUME NEW x \in Partitions, NEW o1, NEW k \in Nat, k <= Len(log[x]), NEW t
      PROVE  Latest(log'[x], o1, k, t) <=> Latest(log[x], o1, k, t)
  <2>1. \A i \in 1..k : log'[x][i] = log[x][i]
    BY <1>2, <1>3, <1>4
  <2> QED BY <2>1, LatestStays
<1>5. ASSUME NEW x \in Partitions, NEW i \in 1..Len(log[x]), NEW r, r = log[x][i]
      PROVE  /\ PartitionOf[r.order] = x /\ ~r.gone
             /\ IF r.before = None THEN \A j \in 1..i - 1 : log'[x][j].order # r.order
                ELSE Latest(log'[x], r.order, i - 1, r.before)
  <2>1. /\ PartitionOf[r.order] = x /\ ~r.gone
        /\ IF r.before = None THEN \A j \in 1..i - 1 : log[x][j].order # r.order
           ELSE Latest(log[x], r.order, i - 1, r.before)
    BY <1>2, <1>5 DEF HistoryInv
  <2>2. i - 1 \in Nat /\ i - 1 <= Len(log[x])
    BY <1>2
  <2>3. \A j \in 1..i - 1 : log'[x][j] = log[x][j]
    BY <1>2, <1>3
  <2>4. Latest(log'[x], r.order, i - 1, r.before) <=> Latest(log[x], r.order, i - 1, r.before)
    BY <1>4, <2>2
  <2> QED BY <2>1, <2>3, <2>4
<1>6. ASSUME NEW r, r = log'[p][n + 1]
      PROVE  /\ PartitionOf[r.order] = p /\ ~r.gone
             /\ IF r.before = None THEN \A j \in 1..n : log'[p][j].order # r.order
                ELSE Latest(log'[p], r.order, n, r.before)
  <2>1. r.order = o /\ r.before = row[o] /\ ~r.gone
    BY <1>1, <1>6 DEF Entry
  <2>2. row[o] # None => Latest(log[p], o, n, row[o])
    BY <1>1 DEF HistoryInv
  <2>3. Latest(log'[p], o, n, row[o]) <=> Latest(log[p], o, n, row[o])
    <3>1. n <= Len(log[p])
      BY <1>1
    <3> QED BY <1>4, <3>1
  <2>4. row[o] = None => \A j \in 1..n : log'[p][j].order # o
    BY <1>1
  <2> QED BY <1>1, <2>1, <2>2, <2>3, <2>4
<1>7. ASSUME NEW x \in Partitions, NEW i \in DOMAIN log'[x], NEW r, r = log'[x][i]
      PROVE  /\ PartitionOf[r.order] = x /\ ~r.gone
             /\ IF r.before = None THEN \A j \in 1..i - 1 : log'[x][j].order # r.order
                ELSE Latest(log'[x], r.order, i - 1, r.before)
  <2>1. CASE i \in 1..Len(log[x])
    BY <1>3, <1>5, <1>7, <2>1
  <2>2. CASE i \notin 1..Len(log[x])
    <3>1. x = p /\ i = n + 1 /\ i - 1 = n
      BY <1>1, <1>2, <2>2
    <3> QED BY <1>6, <1>7, <3>1
  <2> QED BY <2>1, <2>2
<1>8. ASSUME NEW x \in Orders, row'[x] # None
      PROVE  Latest(log'[PartitionOf[x]], x, Len(log'[PartitionOf[x]]), row'[x])
  <2>1. CASE x = o
    <3>1. row'[x] = after
      BY <1>1, <2>1 DEF TypeInv
    <3>2. Latest(log'[p], o, n + 1, after)
      BY <1>1, LatestNext DEF Entry
    <3> QED BY <1>1, <2>1, <3>1, <3>2
  <2>2. CASE x # o /\ PartitionOf[x] # p
    <3>1. row'[x] = row[x] /\ log'[PartitionOf[x]] = log[PartitionOf[x]]
      BY <1>1, <1>2, <2>2 DEF TypeInv
    <3> QED BY <1>8, <3>1 DEF HistoryInv
  <2>3. CASE x # o /\ PartitionOf[x] = p
    <3>1. row'[x] = row[x] /\ log'[p][n + 1].order # x
      BY <1>1, <2>3 DEF TypeInv, Entry
    <3>2. Latest(log[p], x, n, row[x])
      BY <1>1, <1>8, <2>3, <3>1 DEF HistoryInv
    <3>3. Latest(log'[p], x, n, row[x])
      <4>1. n <= Len(log[p])
        BY <1>1
      <4> QED BY <1>4, <3>2, <4>1
    <3>4. Latest(log'[p], x, n + 1, row[x])
      BY <3>1, <3>3, LatestNext
    <3> QED BY <1>1, <2>3, <3>1, <3>4
  <2> QED BY <2>1, <2>2, <2>3
<1>9. HistoryInv'
  BY <1>7, <1>8 DEF HistoryInv
<1> QED BY <1>2, <1>3, <1>9

(* Reading a change takes the version back that the last change left. *)
LEMMA OnceConsume ==
    ASSUME TypeInv, HistoryInv, OnceInv, NEW p \in Partitions, Consume(p)
    PROVE  OnceInv'
<1> DEFINE n == job.offset[p]
           r == log[p][n + 1]
<1>1. /\ n + 1 \in 1..Len(log[p]) /\ r \in Record
      /\ job'.offset[p] = n + 1 /\ \A x \in Partitions \ {p} : job'.offset[x] = job.offset[x]
      /\ job'.wm = job.wm
      /\ \A v \in Versions :
            job'.acc[v] = IF r.gone THEN job.acc[v] ELSE job.acc[v] + Changes(r, v)
  BY ConsumeFacts
<1>2. log' = log
  BY DEF Consume
<1>3. n \in Nat /\ DOMAIN log[p] = 1..Len(log[p]) /\ (n + 1) - 1 = n
  BY LenProperties DEF TypeInv, Job
<1>4. /\ PartitionOf[r.order] = p /\ ~r.gone
      /\ IF r.before = None THEN \A j \in 1..n : log[p][j].order # r.order
         ELSE Latest(log[p], r.order, n, r.before)
  BY <1>1, <1>3 DEF HistoryInv
<1>5. ASSUME NEW t \in Times
      PROVE  Latest(log[p], r.order, n, t) <=> t = r.before
  <2>1. t # None
    BY VersionTypes
  <2>2. CASE r.before = None
    BY <1>4, <2>1, <2>2 DEF Latest
  <2>3. CASE r.before # None
    BY <1>3, <1>4, <2>3, LatestUnique
  <2> QED BY <2>2, <2>3
<1>6. ASSUME NEW o, NEW t
      PROVE  Latest(log[p], o, n + 1, t) <=>
               IF r.order = o THEN r.after = t ELSE Latest(log[p], o, n, t)
  BY <1>3, LatestNext
<1> HIDE DEF n, r
<1>7. ASSUME NEW o \in Orders, NEW t \in Times
      PROVE  job'.acc[<<o, t>>] =
               IF /\ Latest(log[PartitionOf[o]], o, job'.offset[PartitionOf[o]], t)
                  /\ ~Closed(WindowOf(t), job.wm)
               THEN 1 ELSE 0
  <2>1. /\ <<o, t>> \in Versions /\ PartitionOf[o] \in Partitions /\ t # None
    BY VersionTypes, RevenueAssumption
  <2>2. job.acc[<<o, t>>] = IF /\ Latest(log[PartitionOf[o]], o, job.offset[PartitionOf[o]], t)
                               /\ ~Closed(WindowOf(t), job.wm)
                            THEN 1 ELSE 0
    BY DEF OnceInv
  <2>3. job'.acc[<<o, t>>] = job.acc[<<o, t>>] + Changes(r, <<o, t>>)
    BY <1>1, <1>4, <2>1
  <2>4. CASE o = r.order
    <3>1. Latest(log[p], o, job'.offset[p], t) <=> t = r.after
      BY <1>1, <1>6, <2>4
    <3>2. Latest(log[p], o, n, t) <=> t = r.before
      BY <1>5, <2>4
    <3>3. Changes(r, <<o, t>>) =
            (IF t = r.after /\ ~Closed(WindowOf(t), job.wm) THEN 1 ELSE 0)
            - (IF t = r.before /\ ~Closed(WindowOf(t), job.wm) THEN 1 ELSE 0)
      <4>1. <<o, t>> = <<r.order, r.after>> /\ OnTime(r.after) <=>
              t = r.after /\ ~Closed(WindowOf(t), job.wm)
        BY <2>1, <2>4 DEF OnTime
      <4>2. <<o, t>> = <<r.order, r.before>> /\ OnTime(r.before) <=>
              t = r.before /\ ~Closed(WindowOf(t), job.wm)
        BY <2>1, <2>4 DEF OnTime
      <4> QED BY <4>1, <4>2 DEF Changes
    <3>4. job.acc[<<o, t>>] =
            IF t = r.before /\ ~Closed(WindowOf(t), job.wm) THEN 1 ELSE 0
      BY <1>4, <2>2, <2>4, <3>2 DEF n
    <3>5. PartitionOf[o] = p
      BY <1>4, <2>4
    <3> QED BY <2>3, <3>1, <3>3, <3>4, <3>5
  <2>5. CASE o # r.order
    <3>1. Changes(r, <<o, t>>) = 0
      BY <2>5 DEF Changes
    <3>2. Latest(log[PartitionOf[o]], o, job'.offset[PartitionOf[o]], t)
            <=> Latest(log[PartitionOf[o]], o, job.offset[PartitionOf[o]], t)
      <4>1. CASE PartitionOf[o] = p
        BY <1>1, <1>6, <2>5, <4>1 DEF n
      <4>2. CASE PartitionOf[o] # p
        BY <1>1, <2>1, <4>2
      <4> QED BY <4>1, <4>2
    <3> QED BY <2>2, <2>3, <3>1, <3>2
  <2> QED BY <2>4, <2>5
<1> QED BY <1>1, <1>2, <1>7 DEF OnceInv, Closed, WindowOf

(* What a watermark writes is what the open windows counted. *)
LEMMA OnceEmit ==
    ASSUME TypeInv, OnceInv, CountsVersionsOnce, EmitWatermark
    PROVE  OnceInv' /\ CountsVersionsOnce'
<1>1. /\ job'.offset = job.offset /\ job.wm < job'.wm
      /\ \A v \in Versions :
            job'.acc[v] = IF Closed(WindowOf(v[2]), job'.wm) THEN 0 ELSE job.acc[v]
      /\ job.wm \in Int /\ job'.wm \in Int
  BY EmitFacts DEF TypeInv, Job
<1>2. log' = log
  BY DEF EmitWatermark
<1>3. ASSUME NEW o \in Orders, NEW t \in Times
      PROVE  job'.acc[<<o, t>>] =
               IF /\ Latest(log[PartitionOf[o]], o, job'.offset[PartitionOf[o]], t)
                  /\ ~Closed(WindowOf(t), job'.wm)
               THEN 1 ELSE 0
  <2>1. <<o, t>> \in Versions /\ WindowOf(t) \in Nat
    BY VersionTypes, WindowOfTime
  <2>2. Closed(WindowOf(t), job.wm) => Closed(WindowOf(t), job'.wm)
    BY <1>1, <2>1, ClosedOrder
  <2>3. job.acc[<<o, t>>] = IF /\ Latest(log[PartitionOf[o]], o, job.offset[PartitionOf[o]], t)
                               /\ ~Closed(WindowOf(t), job.wm)
                            THEN 1 ELSE 0
    BY DEF OnceInv
  <2>4. job'.acc[<<o, t>>] = IF Closed(WindowOf(t), job'.wm) THEN 0 ELSE job.acc[<<o, t>>]
    BY <1>1, <2>1
  <2> QED BY <1>1, <2>2, <2>3, <2>4
<1>4. OnceInv'
  BY <1>2, <1>3 DEF OnceInv, Closed, WindowOf
<1>5. \A v \in Versions : job.acc[v] \in {0, 1}
  <2>1. SUFFICES ASSUME NEW v \in Versions PROVE job.acc[v] \in {0, 1}
    OBVIOUS
  <2>2. PICK o \in Orders, t \in Times : v = <<o, t>>
    BY DEF Versions
  <2> QED BY <2>2 DEF OnceInv
<1>6. PICK q \in Seq(Windows), n \in Nat, m \in Nat :
          /\ DOMAIN q = 1..n /\ m = Len(out) /\ DOMAIN out = 1..m
          /\ out' \in Seq(Emitted) /\ DOMAIN out' = 1..m + n
          /\ \A i \in 1..m : out'[i] = out[i]
          /\ \A i \in 1..n : out'[m + i] = Result(q[i])
  BY EmitFacts
<1>7. ASSUME NEW i \in DOMAIN out', NEW v \in DOMAIN out'[i].count
      PROVE  out'[i].count[v] \in {0, 1}
  <2>1. CASE i \in 1..m
    BY <1>6, <1>7, <2>1 DEF CountsVersionsOnce
  <2>2. CASE i \notin 1..m
    <3>1. i - m \in 1..n /\ m + (i - m) = i
      BY <1>6, <2>2
    <3>2. out'[i] = Result(q[i - m])
      BY <1>6, <3>1
    <3>3. n = Len(q)
      BY <1>6, LenProperties
    <3>4. q[i - m] \in Windows
      BY <3>1, <3>3, ElementOfSeq
    <3>5. v \in InWindow(q[i - m]) /\ out'[i].count[v] = job.acc[v]
      BY <1>7, <3>2, <3>4, ResultFacts
    <3> QED BY <1>5, <3>5 DEF InWindow
  <2> QED BY <2>1, <2>2
<1>8. CountsVersionsOnce'
  BY <1>7 DEF CountsVersionsOnce
<1> QED BY <1>4, <1>8

LEMMA CountStep ==
    ASSUME TypeInv, CountInv, [Next]_vars
    PROVE  CountInv'
<1>1. SUFFICES ASSUME Undisturbed' PROVE (HistoryInv /\ OnceInv /\ CountsVersionsOnce)'
  BY DEF CountInv, Undisturbed
<1>2. \A e \in {"restart", "snapshot", "removal"} : done'[e] = 0
  BY <1>1 DEF Undisturbed
<1>3. /\ done \in [Events -> Nat]
      /\ {"restart", "snapshot", "removal"} \subseteq Events
  BY DEF TypeInv, Events
<1>4. ASSUME \A e \in Events : done[e] <= done'[e]
      PROVE  HistoryInv /\ OnceInv /\ CountsVersionsOnce
  <2>1. \A e \in {"restart", "snapshot", "removal"} : done[e] = 0
    BY <1>2, <1>3, <1>4
  <2> QED BY <2>1 DEF CountInv, Undisturbed
<1>5. done' = done => \A e \in Events : done[e] <= done'[e]
  BY <1>3
<1>6. \A p \in Partitions : job.offset[p] \in Nat /\ job.offset[p] <= Len(log[p])
  BY DEF TypeInv, Job
<1>7. CASE Quiet
  <2>1. /\ job'.offset = job.offset /\ job'.acc = job.acc /\ job'.wm = job.wm /\ out' = out
        /\ \A e \in Events : done[e] <= done'[e]
    BY <1>7, QuietFacts
  <2>2. HistoryInv /\ OnceInv /\ CountsVersionsOnce
    BY <1>4, <2>1
  <2>3. CountsVersionsOnce'
    BY <2>1, <2>2 DEF CountsVersionsOnce
  <2>4. ~Snapshot
    <3>1. Snapshot => Once("snapshot", MaxSnapshots)
      BY DEF Snapshot
    <3>2. Once("snapshot", MaxSnapshots) => done'["snapshot"] = done["snapshot"] + 1
      BY <1>3, OnceFacts
    <3> QED BY <1>2, <1>3, <3>1, <3>2
  <2>5. ASSUME NEW p \in Partitions, Removal(p) PROVE FALSE
    <3>1. Once("removal", MaxRemovals)
      BY <2>5 DEF Removal, Compact, Expire
    <3>2. done'["removal"] = done["removal"] + 1
      BY <1>3, <3>1, OnceFacts
    <3> QED BY <1>2, <1>3, <3>2
  <2>6. CASE \E o \in Orders : ChangeOrder(o)
    <3> PICK o \in Orders : ChangeOrder(o)
      BY <2>6
    <3>1. /\ HistoryInv'
          /\ \A x \in Orders : \A i \in 1..Len(log[PartitionOf[x]]) :
                log'[PartitionOf[x]][i] = log[PartitionOf[x]][i]
      BY <2>2, HistoryChange
    <3>2. ASSUME NEW x \in Orders, NEW t \in Times
          PROVE  Latest(log'[PartitionOf[x]], x, job.offset[PartitionOf[x]], t)
                   <=> Latest(log[PartitionOf[x]], x, job.offset[PartitionOf[x]], t)
      <4>1. PartitionOf[x] \in Partitions
        BY RevenueAssumption
      <4>2. \A i \in 1..job.offset[PartitionOf[x]] :
               log'[PartitionOf[x]][i] = log[PartitionOf[x]][i]
        <5>1. Len(log[PartitionOf[x]]) \in Nat
          BY <4>1, LenProperties DEF TypeInv
        <5> QED BY <1>6, <3>1, <4>1, <5>1
      <4> QED BY <1>6, <4>1, <4>2, LatestStays
    <3>3. ASSUME NEW x \in Orders, NEW t \in Times
          PROVE  job'.acc[<<x, t>>] =
                   IF /\ Latest(log'[PartitionOf[x]], x, job'.offset[PartitionOf[x]], t)
                      /\ ~Closed(WindowOf(t), job'.wm)
                   THEN 1 ELSE 0
      <4>1. job.acc[<<x, t>>] = IF /\ Latest(log[PartitionOf[x]], x, job.offset[PartitionOf[x]], t)
                                   /\ ~Closed(WindowOf(t), job.wm)
                                THEN 1 ELSE 0
        BY <2>2 DEF OnceInv
      <4> QED BY <2>1, <3>2, <4>1
    <3>4. OnceInv'
      BY <3>3 DEF OnceInv, Closed, WindowOf
    <3> QED BY <2>3, <3>1, <3>4
  <2>7. CASE Tick \/ Checkpoint \/ UNCHANGED vars \/ \E p \in Partitions : MarkIdle(p)
    <3>1. UNCHANGED <<log, row>>
      BY <2>7 DEF Tick, Checkpoint, vars, MarkIdle
    <3>2. HistoryInv'
      BY <2>2, <3>1 DEF HistoryInv
    <3>3. ASSUME NEW x \in Orders, NEW t \in Times
          PROVE  job'.acc[<<x, t>>] =
                   IF /\ Latest(log'[PartitionOf[x]], x, job'.offset[PartitionOf[x]], t)
                      /\ ~Closed(WindowOf(t), job'.wm)
                   THEN 1 ELSE 0
      <4>1. job.acc[<<x, t>>] = IF /\ Latest(log[PartitionOf[x]], x, job.offset[PartitionOf[x]], t)
                                   /\ ~Closed(WindowOf(t), job.wm)
                                THEN 1 ELSE 0
        BY <2>2 DEF OnceInv
      <4> QED BY <2>1, <3>1, <4>1
    <3>4. OnceInv'
      BY <3>3 DEF OnceInv, Closed, WindowOf
    <3> QED BY <2>3, <3>2, <3>4
  <2> QED BY <1>7, <2>4, <2>5, <2>6, <2>7 DEF Quiet
<1>8. CASE EmitWatermark
  <2>1. UNCHANGED <<log, row, done>>
    BY <1>8 DEF EmitWatermark
  <2>2. HistoryInv /\ OnceInv /\ CountsVersionsOnce
    BY <1>4, <1>5, <2>1
  <2>3. HistoryInv'
    BY <2>1, <2>2 DEF HistoryInv
  <2> QED BY <1>8, <2>2, <2>3, OnceEmit
<1>9. CASE Fail \/ Upgrade
  <2>1. done'["restart"] = done["restart"] + 1
    BY <1>9, RestartFacts
  <2> QED BY <1>2, <1>3, <2>1
<1>10. ASSUME NEW p \in Partitions, Consume(p)
       PROVE  (HistoryInv /\ OnceInv /\ CountsVersionsOnce)'
  <2>1. UNCHANGED <<log, row, out, done>>
    BY <1>10 DEF Consume
  <2>2. HistoryInv /\ OnceInv /\ CountsVersionsOnce
    BY <1>4, <1>5, <2>1
  <2>3. HistoryInv' /\ CountsVersionsOnce'
    BY <2>1, <2>2 DEF HistoryInv, CountsVersionsOnce
  <2> QED BY <1>10, <2>2, <2>3, OnceConsume
<1> QED BY <1>7, <1>8, <1>9, <1>10, NextCases

----------------------------------------------------------------------------
(* The theorems. *)

LEMMA InvInit ==
    ASSUME Init
    PROVE  IInv
<1>1. /\ job = NewJob(Fresh, 0) /\ checkpoint = Fresh /\ out = << >> /\ late = {}
      /\ row = [o \in Orders |-> None] /\ log = [p \in Partitions |-> << >>]
      /\ done = [e \in Events |-> 0]
  BY DEF Init
<1>2. Fresh.offset \in [Partitions -> Nat] /\ Fresh.acc \in [Versions -> Int]
  BY FreshFacts
<1>3. /\ job.offset = Fresh.offset /\ job.acc = Fresh.acc /\ job.wm = None - Delay
      /\ job.life = 0
  BY <1>1, <1>2, NewJobFacts
<1>4. TypeInv
  BY TypeInit
<1>5. \A v \in Versions : job.acc[v] = 0 /\ checkpoint.acc[v] = 0
  BY <1>1, <1>3, FreshFacts
<1>6. \A p \in Partitions : job.offset[p] = 0 /\ checkpoint.offset[p] = 0
  BY <1>1, <1>3, FreshFacts
<1>7. ClosedIsEmpty
  BY <1>5 DEF ClosedIsEmpty
<1>8. OutInv
  <2>1. DOMAIN out = {}
    BY <1>1
  <2>2. done["restart"] = 0
    BY <1>1 DEF Events
  <2> QED BY <1>3, <2>1, <2>2 DEF OutInv, InOrderWithinALife
<1>9. LossInv
  BY <1>5, <1>6 DEF LossInv, Kept, NothingNegative
<1>10. HistoryInv
  <2>1. \A p \in Partitions : DOMAIN log[p] = {}
    BY <1>1
  <2> QED BY <1>1, <2>1 DEF HistoryInv
<1>11. OnceInv
  <2>1. ASSUME NEW o \in Orders, NEW t \in Times
        PROVE  job.acc[<<o, t>>] = 0 /\ ~Latest(log[PartitionOf[o]], o, job.offset[PartitionOf[o]], t)
    <3>1. <<o, t>> \in Versions /\ PartitionOf[o] \in Partitions
      BY VersionTypes, RevenueAssumption
    <3> QED BY <1>5, <1>6, <3>1 DEF Latest
  <2> QED BY <2>1 DEF OnceInv
<1>12. CountsVersionsOnce
  BY <1>1 DEF CountsVersionsOnce
<1> QED BY <1>4, <1>7, <1>8, <1>9, <1>10, <1>11, <1>12 DEF IInv, CountInv

LEMMA InvStep ==
    ASSUME IInv, [Next]_vars
    PROVE  IInv'
<1>1. TypeInv /\ ClosedIsEmpty /\ OutInv /\ LossInv /\ CountInv
  BY DEF IInv
<1>2. TypeInv'
  BY <1>1, TypeStep
<1>3. ClosedIsEmpty'
  BY <1>1, ClosedStep
<1>4. OutInv'
  BY <1>1, OutStep
<1>5. LossInv'
  BY <1>1, LossStep
<1>6. CountInv'
  BY <1>1, CountStep
<1> QED BY <1>2, <1>3, <1>4, <1>5, <1>6 DEF IInv

THEOREM Inductive == Spec => []IInv
<1>1. Init => IInv
  BY InvInit
<1>2. IInv /\ [Next]_vars => IInv'
  BY InvStep
<1> QED BY <1>1, <1>2, PTL DEF Spec

(***************************************************************************)
(* Whatever fails, is upgraded, snapshotted again or removed, the job      *)
(* reads within the topic and writes what it should.                       *)
(***************************************************************************)
THEOREM RevenueTypeCorrect == Spec => []TypeOK
<1>1. IInv => TypeOK
  BY TypesFollow DEF IInv
<1> QED BY <1>1, Inductive, PTL

(***************************************************************************)
(* Between two restarts there is at most one record per window, and they   *)
(* are in the order of window_end.                                         *)
(***************************************************************************)
THEOREM LivesAreOrdered == Spec => []InOrderWithinALife
<1>1. IInv => InOrderWithinALife
  BY DEF IInv, OutInv
<1> QED BY <1>1, Inductive, PTL

(***************************************************************************)
(* As long as the job is never restarted, whatever comes late, twice or    *)
(* not at all, every window is written at most once, in order.             *)
(***************************************************************************)
THEOREM OneRecordWithoutRestart == Spec => [](done["restart"] = 0 => OneRecordPerWindow)
<1>1. ASSUME IInv, done["restart"] = 0 PROVE OneRecordPerWindow
  <2>1. \A i \in DOMAIN out : out[i].life \in Nat /\ out[i].life <= 0
    BY <1>1, OutTypes DEF IInv, OutInv
  <2>2. \A i, j \in DOMAIN out : out[i].life = out[j].life
    BY <2>1
  <2> QED BY <1>1, <2>2 DEF IInv, OutInv, InOrderWithinALife, OneRecordPerWindow
<1>2. IInv => (done["restart"] = 0 => OneRecordPerWindow)
  BY <1>1
<1> QED BY <1>2, Inductive, PTL

(***************************************************************************)
(* At least once: no failure, upgrade, second snapshot or removal of other *)
(* records loses a row that was read in time, of a window of which nothing *)
(* is retracted.                                                           *)
(***************************************************************************)
THEOREM NoOrderIsLost == Spec => []NoOrderLost
<1>1. IInv => NoOrderLost
  BY NothingIsLost DEF IInv
<1> QED BY <1>1, Inductive, PTL

(***************************************************************************)
(* As long as the job is not restarted, the connector does not snapshot    *)
(* again and nothing is removed from the topic, a record counts a row      *)
(* version once or not at all.                                             *)
(***************************************************************************)
THEOREM VersionsCountOnce == Spec => [](Undisturbed => CountsVersionsOnce)
<1>1. IInv => (Undisturbed => CountsVersionsOnce)
  BY DEF IInv, CountInv
<1> QED BY <1>1, Inductive, PTL
=============================================================================
