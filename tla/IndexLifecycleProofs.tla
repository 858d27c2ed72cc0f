------------------------ MODULE IndexLifecycleProofs ------------------------
(***************************************************************************)
(* Every entry of the Writer's index, and of the one IndexStream rebuilds, *)
(* is the start of a chunk, the index is found, stored and loaded as it    *)
(* was, and how far an entry is from the byte it is for.  The facts on     *)
(* thinning come first (Light, AddKeeps, ReduceKeeps), then the places in  *)
(* a stream (EndsAre), the invariant LifeInv, the scan and the stored form. *)
(***************************************************************************)
EXTENDS IndexLifecycle, FiniteSetTheorems, TLAPS, WellFoundedInduction

-----------------------------------------------------------------------------
(* Induction, and functions defined by recursion                           *)

LEMMA LeastNat ==
  ASSUME NEW T \in SUBSET Nat, T # {}
  PROVE  \E x \in T : \A y \in T : x <= y
<1>1. IsWellFoundedOn(OpToRel(<, Nat), Nat)
  BY NatLessThanWellFounded
<1>2. PICK x \in T : \A y \in T : ~(<<y, x>> \in OpToRel(<, Nat))
  BY <1>1, WFMin
<1>3. x \in T /\ \A y \in T : ~(y < x)
  BY <1>2 DEF OpToRel
<1> QED
  BY <1>3

LEMMA NatSet ==
  ASSUME NEW S, 0 \in S, \A n \in Nat : n \in S => n + 1 \in S
  PROVE  Nat \subseteq S
<1> DEFINE T == Nat \ S
<1>1. SUFFICES ASSUME T # {} PROVE FALSE
  OBVIOUS
<1>2. PICK x \in T : \A y \in T : x <= y
  BY <1>1, LeastNat
<1>3. x # 0 /\ x - 1 \in Nat /\ x - 1 \in T
  BY <1>2
<1> QED
  BY <1>2, <1>3

\* A bounded set of numbers has a largest one.
LEMMA LargestOf ==
  ASSUME NEW n \in Nat, NEW T \in SUBSET (1 .. n), T # {}
  PROVE  Max(T) \in T /\ \A y \in T : y <= Max(T)
<1> DEFINE U == {n - y : y \in T}
<1>1. U \in SUBSET Nat /\ U # {}
  <2>1. \A y \in T : n - y \in Nat
    OBVIOUS
  <2>2. PICK y \in T : TRUE
    OBVIOUS
  <2>3. n - y \in U
    OBVIOUS
  <2> QED
    BY <2>1, <2>3
<1>2. PICK x \in U : \A y \in U : x <= y
  BY <1>1, LeastNat
<1>3. PICK z \in T : x = n - z
  BY <1>2
<1>4. \A y \in T : z >= y
  <2> SUFFICES ASSUME NEW y \in T PROVE z >= y
    OBVIOUS
  <2>1. n - y \in U /\ x <= n - y /\ y \in Int /\ z \in Int
    BY <1>2
  <2> QED
    BY <1>3, <2>1
<1>5. Max(T) = CHOOSE m \in T : \A y \in T : m >= y
  BY DEF Max
<1>6. Max(T) \in T /\ \A y \in T : Max(T) >= y
  BY <1>4, <1>5
<1> QED
  BY <1>6

\* A value for each number up to n, each from the one before.
Recursive(n, S, first, step) ==
  \E f \in [0 .. n -> S] : f[0] = first /\ \A k \in 1 .. n : f[k] = step[k][f[k - 1]]

LEMMA Recursion ==
  ASSUME NEW n \in Nat, NEW S, NEW first \in S, NEW step \in [1 .. n -> [S -> S]]
  PROVE  Recursive(n, S, first, step)
<1> DEFINE Good(m, f) == f = [k \in 0 .. m |-> IF k = 0 THEN first ELSE step[k][f[k - 1]]]
           Some(m) == m <= n => \E f \in [0 .. m -> S] : Good(m, f)
           T == {m \in Nat : Some(m)}
<1>1. Some(0)
  <2> DEFINE f == [k \in 0 .. 0 |-> first]
  <2>1. f \in [0 .. 0 -> S] /\ Good(0, f)
    OBVIOUS
  <2> QED
    BY <2>1
<1>2. ASSUME NEW m \in Nat, Some(m) PROVE Some(m + 1)
  <2> SUFFICES ASSUME m + 1 <= n PROVE \E f \in [0 .. m + 1 -> S] : Good(m + 1, f)
    OBVIOUS
  <2>1. PICK g \in [0 .. m -> S] : Good(m, g)
    BY <1>2
  <2> DEFINE new == step[m + 1][g[m]]
  <2>2. new \in S
    <3>1. step[m + 1] \in [S -> S] /\ g[m] \in S
      BY <2>1
    <3> QED
      BY <3>1
  <2> HIDE DEF new
  <2> DEFINE f == [k \in 0 .. m + 1 |-> IF k = m + 1 THEN new ELSE g[k]]
  <2>3. f \in [0 .. m + 1 -> S]
    BY <2>1, <2>2
  <2>4. ASSUME NEW k \in 0 .. m + 1
        PROVE  f[k] = IF k = 0 THEN first ELSE step[k][f[k - 1]]
    <3>1. CASE k = m + 1
      <4>1. k # 0 /\ k - 1 \in 0 .. m + 1 /\ k - 1 = m /\ k - 1 # m + 1
        BY <3>1
      <4> QED
        BY <3>1, <4>1 DEF new
    <3>2. CASE k # m + 1
      <4>1. k \in 0 .. m /\ (k # 0 => k - 1 \in 0 .. m)
        BY <3>2
      <4>2. g[k] = IF k = 0 THEN first ELSE step[k][g[k - 1]]
        BY <2>1, <4>1
      <4>3. f[k] = g[k] /\ (k # 0 => f[k - 1] = g[k - 1])
        BY <4>1
      <4> QED
        BY <4>2, <4>3
    <3> QED
      BY <3>1, <3>2
  <2> QED
    BY <2>3, <2>4
<1> HIDE DEF Some
<1>3. 0 \in T /\ \A m \in Nat : m \in T => m + 1 \in T
  BY <1>1, <1>2
<1> HIDE DEF T
<1>4. n \in T
  BY <1>3, NatSet
<1>5. PICK f \in [0 .. n -> S] : Good(n, f)
  BY <1>4 DEF T, Some
<1>6. f[0] = first
  BY <1>5
<1>7. \A k \in 1 .. n : f[k] = step[k][f[k - 1]]
  BY <1>5
<1> QED
  BY <1>6, <1>7 DEF Recursive

-----------------------------------------------------------------------------
(* Thinning                                                                *)

Pairs == [c : Nat, u : Nat]
Indexes == [est : Nat, off : Seq(Pairs)]

\* The offsets grow, the uncompressed ones by est at least.
Sorted(off, est) ==
  \A j \in 1 .. Len(off), k \in 1 .. Len(off) :
    j < k => off[j].c < off[k].c /\ off[j].u + est <= off[k].u

\* Each offset is less than w before the next one.
Gaps(off, w) == \A k \in 1 .. Len(off) - 1 : off[k + 1].u - off[k].u < w

\* The state reduceLight is in after k of the offsets.
Kept(off, k, est, w, a) ==
  /\ a \in [kept : Seq(Pairs), keep : BOOLEAN]
  /\ k = 0 => a.kept = <<>> /\ a.keep
  /\ k >= 1 => /\ a.kept # <<>> /\ a.kept[1] = off[1]
               /\ IF a.keep THEN off[k].u - a.kept[Len(a.kept)].u >= 2 * est
                  ELSE off[k].u - a.kept[Len(a.kept)].u < 2 * est
               /\ Gaps(off, w) => off[k].u - a.kept[Len(a.kept)].u < 2 * est + w
  /\ Len(a.kept) <= k /\ (k = 1 => ~a.keep) /\ (k >= 2 => Len(a.kept) <= k - 1)
  /\ \A i \in 1 .. Len(a.kept) : \E j \in 1 .. k : a.kept[i] = off[j]
  /\ Sorted(a.kept, 2 * est)
  /\ Gaps(off, w) => Gaps(a.kept, 2 * est + 2 * w)

LEMMA PairsAt ==
  ASSUME NEW s \in Seq(Pairs)
  PROVE  /\ Len(s) \in Nat /\ (s # <<>> <=> Len(s) >= 1)
         /\ \A i \in 1 .. Len(s) : s[i] \in Pairs /\ s[i].c \in Nat /\ s[i].u \in Nat
<1>1. \A i \in 1 .. Len(s) : s[i] \in Pairs
  OBVIOUS
<1>2. \A x \in Pairs : x.c \in Nat /\ x.u \in Nat
  BY DEF Pairs
<1>3. Len(s) \in Nat /\ (s # <<>> <=> Len(s) >= 1)
  OBVIOUS
<1> QED
  BY <1>1, <1>2, <1>3

LEMMA AppendPair ==
  ASSUME NEW s \in Seq(Pairs), NEW e \in Pairs
  PROVE  /\ Append(s, e) \in Seq(Pairs) /\ Append(s, e) # <<>>
         /\ Len(Append(s, e)) = Len(s) + 1 /\ Append(s, e)[Len(s) + 1] = e
         /\ \A i \in 1 .. Len(s) : Append(s, e)[i] = s[i]
  OBVIOUS

LEMMA LightStepKeeps ==
  ASSUME NEW off \in Seq(Pairs), NEW est \in Nat \ {0}, NEW w \in Nat, Sorted(off, est),
         NEW k \in Nat, k < Len(off), NEW a, Kept(off, k, est, w, a)
  PROVE  Kept(off, k + 1, est, w, LightStep(a, off[k + 1], 2 * est))
<1> DEFINE e == off[k + 1]
           d == 2 * est
           last == a.kept[Len(a.kept)]
           b == LightStep(a, e, d)
<1>0. a.kept \in Seq(Pairs) /\ a.keep \in BOOLEAN /\ a = [kept |-> a.kept, keep |-> a.keep]
  BY DEF Kept
<1>1. /\ e \in Pairs /\ e.c \in Nat /\ e.u \in Nat /\ d \in Nat /\ d > 0 /\ Len(off) \in Nat
      /\ a.kept \in Seq(Pairs) /\ Len(a.kept) \in Nat /\ k + 1 \in 1 .. Len(off)
  <2>1. Len(off) \in Nat /\ k + 1 \in 1 .. Len(off)
    BY PairsAt
  <2> QED
    BY <1>0, <2>1, PairsAt
<1>2. \A i \in 1 .. Len(a.kept) : a.kept[i] \in Pairs /\ a.kept[i].c \in Nat /\ a.kept[i].u \in Nat
  BY <1>0, PairsAt
<1>3. k >= 1 => /\ last \in Pairs /\ last.c \in Nat /\ last.u \in Nat
                /\ k \in 1 .. Len(off) /\ off[k] \in Pairs /\ off[k].u \in Nat /\ off[k].u + est <= e.u
                /\ Gaps(off, w) => e.u - off[k].u < w
  <2> SUFFICES ASSUME k >= 1 PROVE /\ last \in Pairs /\ last.c \in Nat /\ last.u \in Nat
                                   /\ k \in 1 .. Len(off) /\ off[k] \in Pairs /\ off[k].u \in Nat
                                   /\ off[k].u + est <= e.u
                                   /\ Gaps(off, w) => e.u - off[k].u < w
    OBVIOUS
  <2>1. Len(a.kept) \in 1 .. Len(a.kept)
    BY <1>1 DEF Kept
  <2>2. k \in 1 .. Len(off) /\ k \in 1 .. Len(off) - 1
    BY <1>1
  <2>3. off[k] \in Pairs /\ off[k].u \in Nat
    BY <2>2, PairsAt
  <2>4. off[k].u + est <= e.u
    BY <1>1, <2>2 DEF Sorted
  <2>5. Gaps(off, w) => e.u - off[k].u < w
    BY <2>2 DEF Gaps
  <2> QED
    BY <1>2, <2>1, <2>2, <2>3, <2>4, <2>5
\* An entry kept earlier is one of the offsets before this one.
<1>4. ASSUME NEW i \in 1 .. Len(a.kept) PROVE a.kept[i].c < e.c
  <2>1. PICK j \in 1 .. k : a.kept[i] = off[j]
    BY DEF Kept
  <2>2. j \in 1 .. Len(off) /\ j < k + 1
    BY <1>1
  <2> QED
    BY <1>1, <2>1, <2>2 DEF Sorted
<1>5. CASE a.keep
  <2> DEFINE r == Append(a.kept, e)
             m == Len(a.kept)
  <2>1. b = [kept |-> r, keep |-> FALSE]
    BY <1>5 DEF LightStep
  <2>2. /\ r \in Seq(Pairs) /\ r # <<>> /\ Len(r) = m + 1 /\ m \in Nat /\ r[m + 1] = e
        /\ \A i \in 1 .. m : r[i] = a.kept[i]
    BY <1>0, <1>1, AppendPair
  <2>3. k >= 1 => e.u - last.u >= d /\ m >= 1 /\ (Gaps(off, w) => e.u - last.u < d + 2 * w)
    <3> SUFFICES ASSUME k >= 1
                 PROVE  e.u - last.u >= d /\ m >= 1 /\ (Gaps(off, w) => e.u - last.u < d + 2 * w)
      OBVIOUS
    <3>1. off[k].u - last.u >= d /\ a.kept # <<>> /\ (Gaps(off, w) => off[k].u - last.u < d + w)
      BY <1>5 DEF Kept
    <3>2. m >= 1
      BY <1>0, <3>1, PairsAt
    <3>3. e.u \in Nat /\ last.u \in Nat /\ off[k].u \in Nat /\ d \in Nat /\ off[k].u + est <= e.u
      BY <1>1, <1>3
    <3>4. Gaps(off, w) => e.u - off[k].u < w
      BY <1>3
    <3> HIDE DEF e, d, last
    <3>5. e.u - last.u >= d
      BY <3>1, <3>3
    <3>6. Gaps(off, w) => e.u - last.u < d + 2 * w
      BY <3>1, <3>3, <3>4
    <3> QED
      BY <3>2, <3>5, <3>6
  <2>4. k = 0 => m = 0
    BY DEF Kept
  <2> HIDE DEF r, e, d
  <2>5. Sorted(r, d)
    <3> SUFFICES ASSUME NEW i \in 1 .. m + 1, NEW j \in 1 .. m + 1, i < j
                 PROVE  r[i].c < r[j].c /\ r[i].u + d <= r[j].u
      BY <2>2 DEF Sorted
    <3>1. i \in 1 .. m /\ r[i] = a.kept[i] /\ m >= 1 /\ m \in 1 .. m
      BY <2>2
    <3>2. CASE j \in 1 .. m
      BY <2>2, <3>1, <3>2 DEF Kept, Sorted, d
    <3>3. CASE j = m + 1
      <4>1. r[j] = e /\ a.kept[i].c < e.c
        BY <1>4, <2>2, <3>1, <3>3
      <4>2. a.kept[i].u <= last.u
        <5>1. i < m => a.kept[i].u + d <= last.u
          BY <3>1 DEF Kept, Sorted, d
        <5>2. a.kept[i].u \in Nat /\ last.u \in Nat
          BY <1>2, <3>1
        <5>3. i = m => a.kept[i] = last
          OBVIOUS
        <5> HIDE DEF last
        <5> QED
          BY <1>1, <2>2, <3>1, <5>1, <5>2, <5>3, SMTT(30)
      <4>3. e.u - last.u >= d
        BY <2>3, <2>4, <3>1 DEF Kept
      <4>4. a.kept[i].u \in Nat /\ last.u \in Nat
        BY <1>2, <3>1
      <4> HIDE DEF last
      <4>6. a.kept[i].c \in Nat /\ e.c \in Nat /\ e.u \in Nat /\ d \in Nat
        BY <1>1, <1>2, <3>1
      <4>5. a.kept[i].u + d <= e.u
        <5>1. \A x \in Nat, y \in Nat, z \in Nat, v \in Nat : x <= y /\ z - y >= v => x + v <= z
          OBVIOUS
        <5> QED
          BY <4>2, <4>3, <4>4, <4>6, <5>1
      <4> QED
        BY <3>1, <4>1, <4>4, <4>5, <4>6
    <3> QED
      BY <2>2, <3>2, <3>3
  <2>6. Gaps(off, w) => Gaps(r, d + 2 * w)
    <3> SUFFICES ASSUME Gaps(off, w), NEW i \in 1 .. m PROVE r[i + 1].u - r[i].u < d + 2 * w
      BY <2>2 DEF Gaps
    <3>1. CASE i < m
      <4>1. i + 1 \in 1 .. m /\ i \in 1 .. Len(a.kept) - 1
        BY <2>2, <3>1
      <4> QED
        BY <2>2, <4>1 DEF Kept, Gaps, d
    <3>2. CASE i = m
      BY <2>2, <2>3, <2>4, <3>2, SMTT(30)
    <3> QED
      BY <2>2, <3>1, <3>2
  <2>7. \A i \in 1 .. m + 1 : \E j \in 1 .. k + 1 : r[i] = off[j]
    <3> SUFFICES ASSUME NEW i \in 1 .. m + 1 PROVE \E j \in 1 .. k + 1 : r[i] = off[j]
      OBVIOUS
    <3>1. CASE i = m + 1
      BY <2>2, <3>1 DEF e
    <3>2. CASE i \in 1 .. m
      <4>1. PICK j \in 1 .. k : a.kept[i] = off[j]
        BY <3>2 DEF Kept
      <4>2. j \in 1 .. k + 1
        OBVIOUS
      <4> QED
        BY <2>2, <3>2, <4>1, <4>2
    <3> QED
      BY <2>2, <3>1, <3>2
  <2>8. m + 1 <= k + 1 /\ (k + 1 >= 2 => m + 1 <= k)
    <3>1. k >= 1 => k # 1
      BY <1>5 DEF Kept
    <3> QED
      BY <2>2, <2>4, <3>1 DEF Kept
  <2>9. r[1] = off[1]
    <3>1. CASE k = 0
      BY <2>2, <2>4, <3>1 DEF e
    <3>2. CASE k >= 1
      BY <2>2, <2>3, <3>2 DEF Kept
    <3> QED
      BY <3>1, <3>2
  <2>10. e.u - r[Len(r)].u = 0
    BY <1>1, <2>2
  <2>11. b.kept = r /\ b.keep = FALSE /\ b \in [kept : Seq(Pairs), keep : BOOLEAN]
    BY <2>1, <2>2
  <2>12. Len(b.kept) = m + 1 /\ e.u - b.kept[Len(b.kept)].u = 0
    BY <2>2, <2>10, <2>11
  <2> HIDE DEF m, b
  <2>13. Kept(off, k + 1, est, w, b)
    <3>1. IF b.keep THEN off[k + 1].u - b.kept[Len(b.kept)].u >= 2 * est
          ELSE off[k + 1].u - b.kept[Len(b.kept)].u < 2 * est
      BY <1>1, <2>11, <2>12 DEF e, d
    <3>2. off[k + 1].u - b.kept[Len(b.kept)].u < 2 * est + w
      BY <1>1, <2>11, <2>12 DEF e, d
    <3>3. \A i \in 1 .. Len(b.kept) : \E j \in 1 .. k + 1 : b.kept[i] = off[j]
      BY <2>7, <2>11, <2>12
    <3>4. Len(b.kept) <= k + 1 /\ (k + 1 >= 2 => Len(b.kept) <= k + 1 - 1)
      BY <2>8, <2>12
    <3>5. Sorted(b.kept, 2 * est) /\ (Gaps(off, w) => Gaps(b.kept, 2 * est + 2 * w))
      BY <2>5, <2>6, <2>11 DEF d
    <3> QED
      BY <2>2, <2>9, <2>11, <3>1, <3>2, <3>3, <3>4, <3>5 DEF Kept
  <2> QED
    BY <2>13 DEF b, e, d
<1>6. CASE ~a.keep
  <2>1. k >= 1
    BY <1>6 DEF Kept
  <2>2. /\ b = [a EXCEPT !.keep = e.u - last.u >= d]
    BY <1>6 DEF LightStep, Last
  <2>3. /\ b.kept = a.kept /\ b.keep = (e.u - last.u >= d)
        /\ b \in [kept : Seq(Pairs), keep : BOOLEAN]
    <3> DEFINE far == e.u - last.u >= d
    <3>1. b = [kept |-> a.kept, keep |-> far]
      BY <1>0, <2>2
    <3>2. far \in BOOLEAN
      BY <1>1, <1>3, <2>1
    <3> HIDE DEF far, b
    <3>3. b \in [kept : Seq(Pairs), keep : BOOLEAN] /\ b.kept = a.kept /\ b.keep = far
      BY <1>0, <3>1, <3>2
    <3> QED
      BY <3>3 DEF far, b
  <2>4. /\ IF b.keep THEN e.u - last.u >= d ELSE e.u - last.u < d
        /\ Gaps(off, w) => e.u - last.u < d + w
    <3>1. off[k].u - last.u < d
      BY <1>6, <2>1 DEF Kept
    <3>2. e.u \in Nat /\ last.u \in Nat /\ off[k].u \in Nat /\ d \in Nat
      BY <1>1, <1>3, <2>1
    <3>3. Gaps(off, w) => e.u - off[k].u < w
      BY <1>3, <2>1
    <3> HIDE DEF last, e, d, b
    <3>4. Gaps(off, w) => e.u - last.u < d + w
      BY <3>1, <3>2, <3>3
    <3>5. b.keep => e.u - last.u >= d
      BY <2>3
    <3>6. ~b.keep => e.u - last.u < d
      BY <2>3, <3>2
    <3> QED
      BY <3>4, <3>5, <3>6
  <2>5. \A i \in 1 .. Len(a.kept) : \E j \in 1 .. k + 1 : a.kept[i] = off[j]
    <3>1. \A j \in 1 .. k : j \in 1 .. k + 1
      OBVIOUS
    <3> QED
      BY <3>1 DEF Kept
  <2>6. Len(a.kept) <= k
    <3>1. k = 1 => Len(a.kept) <= 1
      BY DEF Kept
    <3> QED
      BY <1>1, <2>1, <3>1 DEF Kept
  <2>7. /\ a.kept # <<>> /\ a.kept[1] = off[1] /\ Sorted(a.kept, d)
        /\ Gaps(off, w) => Gaps(a.kept, d + 2 * w)
    BY <2>1 DEF Kept
  <2> HIDE DEF b, d, e
  <2>8. Kept(off, k + 1, est, w, b)
    BY <1>1, <2>1, <2>3, <2>4, <2>5, <2>6, <2>7 DEF Kept, d, e
  <2> QED
    BY <2>8 DEF b, d, e
<1> QED
  BY <1>0, <1>5, <1>6

\* The states exist, each of them by a step from the one before.
LEMMA LightStatesAre ==
  ASSUME NEW off \in Seq(Pairs), NEW est
  PROVE  /\ LightStates(off, est)[0] = [kept |-> <<>>, keep |-> TRUE]
         /\ \A k \in 1 .. Len(off) :
              LightStates(off, est)[k] = LightStep(LightStates(off, est)[k - 1], off[k], est)
         /\ LightStates(off, est)[Len(off)].kept \in Seq(Pairs)
<1> DEFINE S == [kept : Seq(Pairs), keep : BOOLEAN]
           first == [kept |-> <<>>, keep |-> TRUE]
           Next1(a, e) == [kept |-> IF a.keep THEN Append(a.kept, e) ELSE a.kept,
                           keep |-> ~a.keep /\ e.u - Last(a.kept).u >= est]
           step == [k \in 1 .. Len(off) |-> [a \in S |-> Next1(a, off[k])]]
<1>1. first \in S /\ Len(off) \in Nat
  OBVIOUS
<1>2. ASSUME NEW a \in S, NEW e \in Pairs PROVE LightStep(a, e, est) = Next1(a, e) /\ Next1(a, e) \in S
  <2>1. a.kept \in Seq(Pairs) /\ a.keep \in BOOLEAN /\ a = [kept |-> a.kept, keep |-> a.keep]
    OBVIOUS
  <2>2. CASE a.keep
    <3>1. LightStep(a, e, est) = [kept |-> Append(a.kept, e), keep |-> FALSE]
      BY <2>2 DEF LightStep
    <3>2. Append(a.kept, e) \in Seq(Pairs)
      BY <2>1, AppendPair
    <3> QED
      BY <2>2, <3>1, <3>2
  <2>3. CASE ~a.keep
    <3> DEFINE far == e.u - Last(a.kept).u >= est
    <3>1. LightStep(a, e, est) = [kept |-> a.kept, keep |-> far]
      BY <2>1, <2>3 DEF LightStep
    <3>2. far \in BOOLEAN
      OBVIOUS
    <3> HIDE DEF far
    <3>3. LightStep(a, e, est) \in S
      BY <2>1, <3>1, <3>2
    <3> QED
      BY <2>1, <2>3, <3>1, <3>3 DEF far
  <2> QED
    BY <2>1, <2>2, <2>3
<1> HIDE DEF S, first, Next1
<1>3. step \in [1 .. Len(off) -> [S -> S]]
  <2>1. \A k \in 1 .. Len(off) : off[k] \in Pairs
    OBVIOUS
  <2> QED
    BY <1>2, <2>1
<1> HIDE DEF step
<1>4. PICK g \in [0 .. Len(off) -> S] :
        g[0] = first /\ \A k \in 1 .. Len(off) : g[k] = step[k][g[k - 1]]
  <2>1. Recursive(Len(off), S, first, step)
    BY <1>1, <1>3, Recursion
  <2> QED
    BY <2>1 DEF Recursive
<1>5. g = [k \in 0 .. Len(off) |-> IF k = 0 THEN first ELSE LightStep(g[k - 1], off[k], est)]
  <2>1. ASSUME NEW k \in 0 .. Len(off), k # 0
        PROVE  g[k] = LightStep(g[k - 1], off[k], est)
    <3>1. k \in 1 .. Len(off) /\ k - 1 \in 0 .. Len(off)
      BY <1>1, <2>1
    <3>2. g[k - 1] \in S /\ off[k] \in Pairs
      BY <3>1
    <3>3. g[k] = step[k][g[k - 1]]
      BY <1>4, <3>1
    <3> QED
      BY <1>2, <3>1, <3>2, <3>3 DEF step
  <2> QED
    BY <1>4, <2>1
<1> DEFINE f == CHOOSE f : f = [k \in 0 .. Len(off) |->
                                  IF k = 0 THEN first ELSE LightStep(f[k - 1], off[k], est)]
<1>6. f = [k \in 0 .. Len(off) |-> IF k = 0 THEN first ELSE LightStep(f[k - 1], off[k], est)]
  BY <1>5
<1>7. LightStates(off, est) = f
  BY DEF LightStates, first
<1> HIDE DEF f
<1>8. f[0] = first /\ \A k \in 1 .. Len(off) : f[k] = LightStep(f[k - 1], off[k], est)
  BY <1>1, <1>6
<1>9. \A k \in Nat : k <= Len(off) => f[k] \in S
  <2> DEFINE T == {k \in Nat : k <= Len(off) => f[k] \in S}
  <2>1. 0 \in T
    BY <1>1, <1>8
  <2>2. ASSUME NEW k \in Nat, k \in T PROVE k + 1 \in T
    <3> SUFFICES ASSUME k + 1 <= Len(off) PROVE f[k + 1] \in S
      OBVIOUS
    <3>1. k + 1 \in 1 .. Len(off) /\ k + 1 - 1 = k /\ f[k] \in S /\ off[k + 1] \in Pairs
      BY <1>1, <2>2
    <3>2. f[k + 1] = LightStep(f[k], off[k + 1], est)
      BY <1>8, <3>1
    <3> QED
      BY <1>2, <3>1, <3>2
  <2> HIDE DEF T
  <2>3. Nat \subseteq T
    BY <2>1, <2>2, NatSet
  <2> QED
    BY <2>3 DEF T
<1>10. f[Len(off)].kept \in Seq(Pairs)
  BY <1>1, <1>9 DEF S
<1> QED
  BY <1>7, <1>8, <1>10 DEF first

\* What reduceLight makes of a list of offsets: it keeps the first, what it
\* keeps is twice as far apart, and the distance between two of them grows by
\* an estimate at most.
LEMMA Light ==
  ASSUME NEW off \in Seq(Pairs), off # <<>>, NEW est \in Nat \ {0}, NEW w \in Nat, Sorted(off, est)
  PROVE  LET kept == LightStates(off, 2 * est)[Len(off)].kept
         IN  /\ kept \in Seq(Pairs) /\ kept # <<>> /\ kept[1] = off[1]
             /\ \A i \in 1 .. Len(kept) : \E j \in 1 .. Len(off) : kept[i] = off[j]
             /\ Sorted(kept, 2 * est)
             /\ Len(kept) <= Len(off) /\ (Len(off) >= 2 => Len(kept) <= Len(off) - 1)
             /\ Gaps(off, w) => /\ Gaps(kept, 2 * est + 2 * w)
                                /\ off[Len(off)].u - kept[Len(kept)].u < 2 * est + w
<1> DEFINE f == LightStates(off, 2 * est)
           T == {k \in Nat : k <= Len(off) => Kept(off, k, est, w, f[k])}
<1>1. Len(off) \in Nat /\ Len(off) >= 1
  BY PairsAt
<1>2. f[0] = [kept |-> <<>>, keep |-> TRUE]
      /\ \A k \in 1 .. Len(off) : f[k] = LightStep(f[k - 1], off[k], 2 * est)
  BY LightStatesAre
<1> HIDE DEF f
<1>3. Kept(off, 0, est, w, f[0])
  BY <1>2 DEF Kept, Sorted, Gaps
<1>4. ASSUME NEW k \in Nat, k \in T PROVE k + 1 \in T
  <2> SUFFICES ASSUME k + 1 <= Len(off) PROVE Kept(off, k + 1, est, w, f[k + 1])
    OBVIOUS
  <2>1. k < Len(off) /\ k + 1 \in 1 .. Len(off) /\ k + 1 - 1 = k /\ Kept(off, k, est, w, f[k])
    BY <1>1, <1>4
  <2>2. f[k + 1] = LightStep(f[k], off[k + 1], 2 * est)
    BY <1>2, <2>1
  <2> QED
    BY <2>1, <2>2, LightStepKeeps
<1>5. 0 \in T
  BY <1>3
<1> HIDE DEF T
<1>6. Len(off) \in T
  BY <1>1, <1>4, <1>5, NatSet
<1>7. Kept(off, Len(off), est, w, f[Len(off)])
  BY <1>1, <1>6 DEF T
<1>8. f[Len(off)].kept \in Seq(Pairs)
  BY <1>7 DEF Kept
<1> QED
  BY <1>1, <1>7, <1>8 DEF Kept, f

\* The offsets so far, each before c and u, with those two at the end.
LEMMA AppendSorted ==
  ASSUME NEW off \in Seq(Pairs), NEW est \in Nat, Sorted(off, est), NEW e \in Pairs,
         off # <<>> => off[Len(off)].c < e.c /\ off[Len(off)].u + est <= e.u
  PROVE  /\ Sorted(Append(off, e), est)
         /\ \A w \in Nat : Gaps(off, w) /\ (off # <<>> => e.u - off[Len(off)].u < w)
                             => Gaps(Append(off, e), w)
<1> DEFINE r == Append(off, e)
           m == Len(off)
<1>1. /\ r \in Seq(Pairs) /\ Len(r) = m + 1 /\ m \in Nat /\ r[m + 1] = e
      /\ \A i \in 1 .. m : r[i] = off[i]
  BY AppendPair, PairsAt
<1>2. \A i \in 1 .. m : off[i] \in Pairs /\ off[i].c \in Nat /\ off[i].u \in Nat
  BY PairsAt
<1>3. e.c \in Nat /\ e.u \in Nat /\ (off # <<>> <=> m >= 1)
  BY PairsAt DEF Pairs
<1> HIDE DEF r
<1>4. ASSUME NEW i \in 1 .. m PROVE off[i].c < e.c /\ off[i].u + est <= e.u
  <2>1. m \in 1 .. m /\ off # <<>>
    BY <1>1, <1>3
  <2>2. i < m => off[i].c < off[m].c /\ off[i].u + est <= off[m].u
    BY <1>1, <2>1 DEF Sorted
  <2>3. off[i].c <= off[m].c /\ off[i].u <= off[m].u
    BY <1>1, <1>2, <2>1, <2>2
  <2>4. off[m].c < e.c /\ off[m].u + est <= e.u
    BY <2>1
  <2>5. off[i].c \in Nat /\ off[i].u \in Nat /\ off[m].c \in Nat /\ off[m].u \in Nat
    BY <1>2, <2>1
  <2>6. off[i].c < e.c
    BY <1>3, <2>3, <2>4, <2>5
  <2>7. off[i].u + est <= e.u
    BY <1>3, <2>3, <2>4, <2>5
  <2> QED
    BY <2>6, <2>7
<1>5. Sorted(r, est)
  <2> SUFFICES ASSUME NEW i \in 1 .. m + 1, NEW j \in 1 .. m + 1, i < j
               PROVE  r[i].c < r[j].c /\ r[i].u + est <= r[j].u
    BY <1>1 DEF Sorted
  <2>1. i \in 1 .. m /\ r[i] = off[i]
    BY <1>1
  <2>2. CASE j \in 1 .. m
    BY <1>1, <2>1, <2>2 DEF Sorted
  <2>3. CASE j = m + 1
    BY <1>1, <1>4, <2>1, <2>3
  <2> QED
    BY <1>1, <2>2, <2>3
<1>6. ASSUME NEW w \in Nat, Gaps(off, w), off # <<>> => e.u - off[m].u < w PROVE Gaps(r, w)
  <2> SUFFICES ASSUME NEW i \in 1 .. m PROVE r[i + 1].u - r[i].u < w
    BY <1>1 DEF Gaps
  <2>1. CASE i < m
    <3>1. i + 1 \in 1 .. m /\ i \in 1 .. Len(off) - 1
      BY <1>1, <2>1
    <3> QED
      BY <1>1, <1>6, <3>1 DEF Gaps
  <2>2. CASE i = m
    BY <1>1, <1>3, <1>6, <2>2
  <2> QED
    BY <1>1, <2>1, <2>2
<1> QED
  BY <1>5, <1>6 DEF r

LEMMA WithOff ==
  ASSUME NEW x \in Indexes, NEW s
  PROVE  [x EXCEPT !.off = s] = [est |-> x.est, off |-> s]
BY DEF Indexes

\* add, for a place behind all those recorded: it never fails, and leaves the
\* list of offsets in order.  Where it thins, the distances grow as Light says.
Spread(x, u, w) == Gaps(x.off, w) /\ (x.off # <<>> => u - x.off[Len(x.off)].u < w)

Added(x, c, u, w, y) ==
  /\ y \in Indexes /\ Len(y.off) <= MaxIndexEntries /\ y.off # <<>>
  /\ y.off[1] = IF x.off = <<>> THEN Pair(c, u) ELSE x.off[1]
  /\ \A i \in 1 .. Len(y.off) :
       y.off[i] = Pair(c, u) \/ \E j \in 1 .. Len(x.off) : y.off[i] = x.off[j]
  /\ Sorted(y.off, y.est)
  /\ \/ y.est = x.est /\ (Spread(x, u, w) => /\ Gaps(y.off, w)
                                             /\ u - y.off[Len(y.off)].u < x.est)
     \/ y.est = 2 * x.est
        /\ (Spread(x, u, w) => /\ Gaps(y.off, 2 * x.est + 2 * w)
                               /\ u - y.off[Len(y.off)].u < 2 * x.est + w)

LEMMA AddKeeps ==
  ASSUME IndexAssumption,
         NEW x \in Indexes, x.est > 0, Len(x.off) <= MaxIndexEntries, Sorted(x.off, x.est),
         NEW c \in Nat, NEW u \in Nat, NEW w \in Nat,
         x.off # <<>> => x.off[Len(x.off)].c < c /\ x.off[Len(x.off)].u <= u
  PROVE  ~AddFails(x, c, u) /\ Added(x, c, u, w, Add(x, c, u))
<1> DEFINE off == x.off
           last == off[Len(off)]
           e == Pair(c, u)
           longer == [x EXCEPT !.off = Append(@, e)]
           y == Add(x, c, u)
<1>1. /\ off \in Seq(Pairs) /\ x.est \in Nat /\ x.est > 0 /\ x = [est |-> x.est, off |-> off]
      /\ Len(off) \in Nat /\ (off # <<>> <=> Len(off) >= 1)
      /\ MaxIndexEntries \in Nat /\ MaxIndexEntries >= 1
  BY PairsAt DEF Indexes, IndexAssumption
<1>2. e \in Pairs /\ e.c = c /\ e.u = u
  BY DEF Pairs, Pair
<1>3. off # <<>> => Last(off) = last /\ last.c \in Nat /\ last.u \in Nat
  BY <1>1, PairsAt DEF Last
<1>4. ~AddFails(x, c, u)
  BY <1>3 DEF AddFails
<1>5. CASE TooClose(x, u)
  <2>1. y = x
    BY <1>5 DEF Add
  <2>2. off # <<>> /\ u - last.u < x.est
    BY <1>3, <1>5 DEF TooClose
  <2> QED
    BY <1>1, <1>4, <2>1, <2>2 DEF Spread, Added
<1>6. CASE ~TooClose(x, u)
  <2>1. longer = [est |-> x.est, off |-> Append(off, e)]
    BY WithOff
  <2>2. y = IF Len(longer.off) > MaxIndexEntries THEN ReduceLight(longer) ELSE longer
    BY <1>4, <1>6 DEF Add
  <2> DEFINE r == Append(off, e)
  <2>3. /\ r \in Seq(Pairs) /\ r # <<>> /\ Len(r) = Len(off) + 1 /\ r[Len(r)] = e
        /\ \A i \in 1 .. Len(off) : r[i] = off[i]
    BY <1>1, <1>2, AppendPair
  <2>4. off # <<>> => last.c < e.c /\ last.u + x.est <= e.u
    BY <1>1, <1>2, <1>3, <1>6 DEF TooClose
  <2>5. Sorted(r, x.est) /\ (Spread(x, u, w) => Gaps(r, w))
    BY <1>1, <1>2, <2>4, AppendSorted DEF Spread
  <2>6. longer.off = r /\ longer.est = x.est
    BY <2>1
  <2>7. r[1] = IF off = <<>> THEN e ELSE off[1]
    BY <1>1, <2>3
  <2>8. ASSUME NEW i \in 1 .. Len(r) PROVE r[i] = e \/ \E j \in 1 .. Len(off) : r[i] = off[j]
    <3>1. i \in 1 .. Len(off) \/ i = Len(r)
      BY <1>1, <2>3
    <3> QED
      BY <2>3, <3>1
  <2> HIDE DEF longer, r
  <2>9. CASE Len(r) <= MaxIndexEntries
    <3>1. y = [est |-> x.est, off |-> r]
      BY <1>1, <2>1, <2>2, <2>3, <2>6, <2>9 DEF r
    <3>2. y.off = r /\ y.est = x.est /\ y \in Indexes
      BY <1>1, <2>3, <3>1 DEF Indexes
    <3>3. u - y.off[Len(y.off)].u < x.est
      BY <1>1, <1>2, <2>3, <3>2
    <3> HIDE DEF y
    <3> QED
      BY <1>4, <2>3, <2>5, <2>7, <2>8, <2>9, <3>2, <3>3 DEF y, Added
  <2>10. CASE Len(r) > MaxIndexEntries
    <3> DEFINE kept == LightStates(r, 2 * x.est)[Len(r)].kept
    <3>1. y = [est |-> 2 * x.est, off |-> kept]
      BY <2>2, <2>6, <2>10 DEF ReduceLight
    <3>2. /\ kept \in Seq(Pairs) /\ kept # <<>> /\ kept[1] = r[1]
          /\ \A i \in 1 .. Len(kept) : \E j \in 1 .. Len(r) : kept[i] = r[j]
          /\ Sorted(kept, 2 * x.est)
          /\ Len(kept) <= Len(r) /\ (Len(r) >= 2 => Len(kept) <= Len(r) - 1)
          /\ Gaps(r, w) => /\ Gaps(kept, 2 * x.est + 2 * w)
                           /\ r[Len(r)].u - kept[Len(kept)].u < 2 * x.est + w
      <4>1. x.est \in Nat \ {0}
        BY <1>1
      <4> QED
        BY <2>3, <2>5, <4>1, Light
    <3> HIDE DEF kept
    <3>3. y.off = kept /\ y.est = 2 * x.est /\ y \in Indexes
      BY <1>1, <3>1, <3>2 DEF Indexes
    <3>4. Len(kept) <= MaxIndexEntries
      <4>1. Len(r) = MaxIndexEntries + 1 /\ Len(kept) \in Nat
        BY <1>1, <2>3, <2>10, <3>2, PairsAt
      <4>2. Len(kept) <= Len(r) - 1
        BY <1>1, <3>2, <4>1
      <4> QED
        BY <1>1, <4>1, <4>2
    <3>5. \A i \in 1 .. Len(kept) : kept[i] = e \/ \E j \in 1 .. Len(off) : kept[i] = off[j]
      BY <2>8, <3>2
    <3>6. Spread(x, u, w) => /\ Gaps(kept, 2 * x.est + 2 * w)
                             /\ u - kept[Len(kept)].u < 2 * x.est + w
      BY <1>2, <2>3, <2>5, <3>2
    <3> HIDE DEF y
    <3> QED
      BY <1>4, <2>7, <3>2, <3>3, <3>4, <3>5, <3>6 DEF y, Added
  <2> QED
    BY <1>1, <2>3, <2>9, <2>10
<1> QED
  BY <1>5, <1>6

-----------------------------------------------------------------------------
(* Keeping every so many of the offsets                                    *)

LEMMA Products ==
  ASSUME NEW a \in Nat, NEW b \in Nat, NEW c \in Nat
  PROVE  /\ a * b \in Nat /\ (a + 1) * b = a * b + b /\ a * b = b * a
         /\ (a * b) * c = a * (b * c)
         /\ a <= b => a * c <= b * c
         /\ a >= 1 => b <= a * b
<1>1. a * b \in Nat /\ (a + 1) * b = a * b + b /\ a * b = b * a
  BY SMT
<1>2. (a * b) * c = a * (b * c)
  BY SMT
<1>3. a <= b => a * c <= b * c
  <2>1. ASSUME a <= b PROVE a * c <= b * c
    <3>1. b - a \in Nat /\ (b - a) * c >= 0
      BY <2>1
    <3>2. (b - a) * c = b * c - a * c
      BY SMT
    <3> QED
      BY <3>1, <3>2
  <2> QED
    BY <2>1
<1>4. a >= 1 => b <= a * b
  <2>1. ASSUME a >= 1 PROVE b <= a * b
    <3>1. a - 1 \in Nat /\ (a - 1) * b >= 0
      BY <2>1
    <3>2. (a - 1) * b = a * b - b
      BY SMT
    <3> QED
      BY <1>1, <3>1, <3>2
  <2> QED
    BY <2>1
<1> QED
  BY <1>1, <1>2, <1>3, <1>4

LEMMA Divided ==
  ASSUME NEW a \in Nat, NEW d \in Nat \ {0}
  PROVE  a \div d \in Nat /\ (a \div d) * d <= a /\ a < (a \div d) * d + d
BY SMT

\* The place in the old list of the k-th offset kept when r are dropped each time.
At(k, r) == (k - 1) * (r + 1) + 1

LEMMA EveryAt ==
  ASSUME NEW L \in Nat \ {0}, NEW r \in Nat
  PROVE  LET n == (L + r) \div (r + 1)
         IN  /\ n \in 1 .. L /\ At(1, r) = 1
             /\ \A k \in 1 .. n : At(k, r) \in 1 .. L
             /\ \A k \in 1 .. n - 1 : At(k + 1, r) = At(k, r) + (r + 1)
             /\ \A j \in 1 .. n, k \in 1 .. n : j < k => At(j, r) < At(k, r)
             /\ L - At(n, r) \in 0 .. r
<1> DEFINE d == r + 1
           n == (L + r) \div (r + 1)
<1>1. d \in Nat /\ d >= 1 /\ d # 0 /\ L + r \in Nat /\ L >= 1
  OBVIOUS
<1>2. n \in Nat /\ n * d <= L + r /\ L + r < n * d + d
  BY <1>1, Divided
<1> HIDE DEF n
<1>3. n * d \in Nat
  BY <1>1, <1>2, Products
<1>4. n >= 1
  <2>1. n = 0 => n * d = 0
    BY <1>1
  <2> QED
    BY <1>1, <1>2, <1>3, <2>1
<1>5. \A k \in 1 .. n : k - 1 \in Nat /\ (k - 1) * d \in Nat /\ At(k, r) = (k - 1) * d + 1
  <2> SUFFICES ASSUME NEW k \in 1 .. n
               PROVE k - 1 \in Nat /\ (k - 1) * d \in Nat /\ At(k, r) = (k - 1) * d + 1
    OBVIOUS
  <2>1. k - 1 \in Nat /\ At(k, r) = (k - 1) * d + 1
    BY <1>2 DEF At
  <2> QED
    BY <1>1, <2>1, Products
<1>6. (n - 1) * d = n * d - d
  <2>1. n - 1 \in Nat
    BY <1>2, <1>4
  <2>2. ((n - 1) + 1) * d = (n - 1) * d + d
    BY <1>1, <2>1, Products
  <2>3. (n - 1) + 1 = n /\ (n - 1) * d \in Nat
    BY <1>1, <1>2, <2>1, Products
  <2> QED
    BY <1>1, <1>3, <2>2, <2>3
<1> HIDE DEF d
<1>7. ASSUME NEW j \in 1 .. n, NEW k \in 1 .. n, j < k PROVE At(j, r) < At(k, r)
  <2>1. j - 1 \in Nat /\ k - 1 \in Nat /\ j \in Nat /\ j <= k - 1 /\ (j - 1) + 1 = j
    BY <1>2, <1>7
  <2>2. j * d <= (k - 1) * d
    BY <1>1, <2>1, Products
  <2>3. j * d = (j - 1) * d + d
    BY <1>1, <2>1, Products
  <2>4. (j - 1) * d \in Nat /\ (k - 1) * d \in Nat /\ j * d \in Nat
    BY <1>1, <2>1, Products
  <2> QED
    BY <1>1, <1>5, <2>2, <2>3, <2>4
<1>8. At(n, r) <= L /\ L - At(n, r) <= r /\ At(n, r) \in Nat
  <2>1. At(n, r) = n * d - d + 1
    BY <1>2, <1>4, <1>5, <1>6
  <2>2. (n - 1) * d \in Nat
    BY <1>2, <1>4, <1>5
  <2> QED
    BY <1>1, <1>2, <1>3, <1>6, <2>1, <2>2 DEF d
<1>9. \A k \in 1 .. n : At(k, r) \in 1 .. L
  <2> SUFFICES ASSUME NEW k \in 1 .. n PROVE At(k, r) \in 1 .. L
    OBVIOUS
  <2>1. k < n => At(k, r) < At(n, r)
    BY <1>2, <1>4, <1>7
  <2>2. At(k, r) \in Nat /\ At(k, r) >= 1
    BY <1>5
  <2> QED
    BY <1>2, <1>8, <2>1, <2>2
<1>10. ASSUME NEW k \in 1 .. n - 1 PROVE At(k + 1, r) = At(k, r) + (r + 1)
  <2>1. k \in Nat /\ k - 1 \in Nat /\ (k - 1) + 1 = k /\ k + 1 - 1 = k
    BY <1>2
  <2>2. k * d = (k - 1) * d + d
    BY <1>1, <2>1, Products
  <2> QED
    BY <2>1, <2>2, <1>1 DEF At, d
<1>11. n <= L
  <2>1. d * (n - 1) = (n - 1) * d /\ n - 1 <= d * (n - 1)
    BY <1>1, <1>2, <1>4, Products
  <2> QED
    BY <1>1, <1>2, <1>4, <1>5, <1>8, <2>1
<1>12. At(1, r) = 1
  <2>1. (1 - 1) * (r + 1) = 0
    OBVIOUS
  <2> QED
    BY <2>1 DEF At
<1> QED
  BY <1>2, <1>4, <1>7, <1>8, <1>9, <1>10, <1>11, <1>12 DEF n

\* reduce finds how many to drop: the spacing grows until it is minIndexDist.
LEMMA RemoveNIs ==
  ASSUME IndexAssumption, NEW x \in Indexes, x.est > 0
  PROVE  RemoveN(x) \in Nat
<1> DEFINE n == Len(x.off)
           first == (n + 1) \div MaxIndexEntries
           More(r) == x.est * (r + 1) < MinIndexDist /\ n \div (r + 1) > ReduceFloor
           top == first + MinIndexDist + n
           T == {r \in first .. top : ~More(r)}
<1>1. n \in Nat /\ x.est \in Nat /\ x.est >= 1 /\ MinIndexDist \in Nat
  BY PairsAt DEF Indexes, IndexAssumption
<1>2. first \in Nat
  <2>1. n + 1 \in Nat /\ MaxIndexEntries \in Nat \ {0}
    BY <1>1 DEF IndexAssumption
  <2> HIDE DEF n
  <2> QED
    BY <2>1, Divided
<1> HIDE DEF first, n
<1>3. top \in Nat /\ first <= top /\ top + 1 > MinIndexDist
  BY <1>1, <1>2
<1>4. ~More(top)
  <2>1. top + 1 <= x.est * (top + 1)
    BY <1>1, <1>3, Products
  <2>2. x.est * (top + 1) \in Nat
    BY <1>1, <1>3, Products
  <2> HIDE DEF top
  <2> QED
    BY <1>1, <1>3, <2>1, <2>2
<1>5. top \in T /\ T \in SUBSET Nat
  BY <1>2, <1>3, <1>4
<1>6. PICK r \in T : \A q \in T : r <= q
  <2> HIDE DEF T
  <2> QED
    BY <1>5, LeastNat
<1> HIDE DEF top
<1>7. r \in first .. top /\ ~More(r) /\ \A q \in first .. r - 1 : More(q)
  <2>1. r \in first .. top /\ ~More(r)
    BY <1>6
  <2>2. ASSUME NEW q \in first .. r - 1 PROVE More(q)
    <3>1. q \in first .. top /\ q < r
      BY <1>2, <1>3, <2>1
    <3>2. q \notin T
      BY <1>2, <1>3, <1>6, <2>1, <3>1
    <3> QED
      BY <3>1, <3>2
  <2> QED
    BY <2>1, <2>2
<1>8. RemoveN(x) = CHOOSE r1 \in first .. top : ~More(r1) /\ \A q \in first .. r1 - 1 : More(q)
  BY DEF RemoveN, first, top, n
<1> HIDE DEF More
<1>9. RemoveN(x) \in first .. top
  BY <1>7, <1>8
<1> QED
  BY <1>2, <1>3, <1>9

\* Distances add up.
LEMMA GapSum ==
  ASSUME NEW off \in Seq(Pairs), NEW w \in Nat, Gaps(off, w),
         NEW a \in 1 .. Len(off), NEW m \in Nat, a + m <= Len(off)
  PROVE  off[a + m].u - off[a].u + m <= m * w
<1> DEFINE T == {i \in Nat : a + i <= Len(off) => off[a + i].u - off[a].u + i <= i * w}
<1>1. Len(off) \in Nat /\ a \in Nat /\ off[a].u \in Nat
  BY PairsAt
<1>2. 0 \in T
  <2>1. 0 * w = 0 /\ a + 0 = a
    BY <1>1
  <2> QED
    BY <1>1, <2>1
<1>3. ASSUME NEW i \in Nat, i \in T PROVE i + 1 \in T
  <2> SUFFICES ASSUME a + (i + 1) <= Len(off)
               PROVE  off[a + (i + 1)].u - off[a].u + (i + 1) <= (i + 1) * w
    OBVIOUS
  <2>1. /\ a + i \in 1 .. Len(off) - 1 /\ a + i \in 1 .. Len(off)
        /\ a + (i + 1) = (a + i) + 1 /\ a + (i + 1) \in 1 .. Len(off)
    BY <1>1
  <2>2. off[a + (i + 1)].u - off[a + i].u < w
    BY <2>1 DEF Gaps
  <2>3. off[a + i].u \in Nat /\ off[a + (i + 1)].u \in Nat
    BY <2>1, PairsAt
  <2>4. (i + 1) * w = i * w + w /\ i * w \in Nat
    BY Products
  <2>5. off[a + i].u - off[a].u + i <= i * w
    BY <1>1, <1>3, <2>1
  <2> DEFINE p == off[a].u
             q == off[a + i].u
             s == off[a + (i + 1)].u
             z == i * w
  <2>6. p \in Nat /\ q \in Nat /\ s \in Nat /\ z \in Nat /\ s - q < w /\ q - p + i <= z
    BY <1>1, <2>1, <2>2, <2>3, <2>4, <2>5
  <2> HIDE DEF p, q, s, z
  <2>7. s - p + (i + 1) <= z + w
    BY <2>6
  <2> QED
    BY <2>4, <2>7 DEF p, s, z
<1> HIDE DEF T
<1>4. m \in T
  BY <1>2, <1>3, NatSet
<1> QED
  BY <1>4 DEF T

\* What reduce leaves is part of what was there, in order and with the first
\* entry, and the distances grow with the estimate.
LEMMA ReduceKeeps ==
  ASSUME IndexAssumption, NEW x \in Indexes, x.off # <<>> => x.est > 0,
         Len(x.off) <= MaxIndexEntries, Sorted(x.off, 1), NEW u \in Nat, NEW t \in Nat
  PROVE  LET y == Reduce(x)
         IN  /\ y \in Indexes /\ y.est >= x.est /\ (y.off = <<>> <=> x.off = <<>>)
             /\ x.off # <<>> => y.off[1] = x.off[1]
             /\ Len(y.off) <= Len(x.off)
             /\ \A i \in 1 .. Len(y.off) : \E j \in 1 .. Len(x.off) : y.off[i] = x.off[j]
             /\ Sorted(y.off, 1)
             /\ Spread(x, u, t * x.est) => Spread(y, u, t * y.est)
<1> DEFINE y == Reduce(x)
           off == x.off
           L == Len(x.off)
<1>1. /\ off \in Seq(Pairs) /\ x.est \in Nat /\ L \in Nat /\ (off # <<>> <=> L >= 1)
      /\ MaxIndexEntries \in Nat /\ MaxIndexEntries >= 1
  BY PairsAt DEF Indexes, IndexAssumption
<1>2. CASE L < MaxIndexEntries
  <2>1. y = x
    BY <1>2 DEF Reduce
  <2>2. \A i \in 1 .. Len(x.off) : \E j \in 1 .. Len(x.off) : x.off[i] = x.off[j]
    OBVIOUS
  <2> HIDE DEF y
  <2> QED
    BY <1>1, <2>1, <2>2 DEF y
<1>3. CASE ~(L < MaxIndexEntries)
  <2> DEFINE r == RemoveN(x)
             n == (L + r) \div (r + 1)
             new == [k \in 1 .. n |-> off[At(k, r)]]
  <2>1. L >= 1 /\ off # <<>> /\ x.est > 0
    BY <1>1, <1>3
  <2>2. r \in Nat
    BY <2>1, RemoveNIs
  <2>3. y = [est |-> x.est + x.est * r, off |-> new]
    BY <1>3 DEF Reduce, At
  <2> HIDE DEF r
  <2>4. /\ n \in 1 .. L /\ At(1, r) = 1
        /\ \A k \in 1 .. n : At(k, r) \in 1 .. L
        /\ \A k \in 1 .. n - 1 : At(k + 1, r) = At(k, r) + (r + 1)
        /\ \A j \in 1 .. n, k \in 1 .. n : j < k => At(j, r) < At(k, r)
        /\ L - At(n, r) \in 0 .. r
    <3> HIDE DEF L
    <3>1. L \in Nat \ {0}
      BY <1>1, <2>1
    <3> HIDE DEF new
    <3> QED
      BY <2>2, <3>1, EveryAt
  <2> HIDE DEF n
  <2>5. \A i \in 1 .. L : off[i] \in Pairs /\ off[i].u \in Nat
    BY <1>1, PairsAt
  <2>6. /\ new \in Seq(Pairs) /\ Len(new) = n /\ n \in Nat
        /\ \A k \in 1 .. n : new[k] = off[At(k, r)]
    <3>1. n \in Nat
      BY <1>1, <2>4
    <3>2. \A k \in 1 .. n : off[At(k, r)] \in Pairs
      BY <2>4, <2>5
    <3>3. new \in [1 .. n -> Pairs]
      BY <3>2
    <3> QED
      BY <3>1, <3>3
  <2> HIDE DEF new
  <2>7. x.est * r \in Nat /\ x.est + x.est * r = x.est * (r + 1) /\ x.est * (r + 1) \in Nat
    <3>1. (r + 1) * x.est = r * x.est + x.est /\ r * x.est = x.est * r /\ x.est * r \in Nat
      BY <1>1, <2>2, Products
    <3>2. (r + 1) * x.est = x.est * (r + 1) /\ x.est * (r + 1) \in Nat
      <4>1. r + 1 \in Nat
        BY <2>2
      <4> QED
        BY <1>1, <4>1, Products
    <3> QED
      BY <1>1, <3>1, <3>2
  <2>8. /\ y \in Indexes /\ y.off = new /\ y.est = x.est * (r + 1) /\ y.est >= x.est
        /\ y.off # <<>> /\ Len(y.off) <= L
    <3>1. y.off = new /\ y.est = x.est + x.est * r
      BY <2>3
    <3>2. x.est + x.est * r \in Nat /\ x.est + x.est * r >= x.est
      BY <1>1, <2>7
    <3>3. y \in Indexes
      BY <2>3, <2>6, <3>2 DEF Indexes
    <3>4. Len(new) >= 1 /\ Len(new) <= L
      BY <1>1, <2>4, <2>6
    <3>5. new # <<>>
      BY <2>6, <3>4, PairsAt
    <3> HIDE DEF y
    <3> QED
      BY <2>7, <3>1, <3>2, <3>3, <3>4, <3>5
  <2>9. y.off[1] = x.off[1] /\ \A i \in 1 .. Len(y.off) : \E j \in 1 .. L : y.off[i] = x.off[j]
    <3>1. 1 \in 1 .. n
      BY <1>1, <2>4
    <3> HIDE DEF y
    <3> QED
      BY <2>4, <2>6, <2>8, <3>1
  <2>10. Sorted(new, 1)
    <3> SUFFICES ASSUME NEW j \in 1 .. n, NEW k \in 1 .. n, j < k
                 PROVE  new[j].c < new[k].c /\ new[j].u + 1 <= new[k].u
      BY <2>6 DEF Sorted
    <3>1. At(j, r) \in 1 .. L /\ At(k, r) \in 1 .. L /\ At(j, r) < At(k, r)
      BY <2>4
    <3> QED
      BY <2>6, <3>1 DEF Sorted
  <2>11. ASSUME Spread(x, u, t * x.est) PROVE Spread(y, u, t * y.est)
    <3> DEFINE w == t * x.est
    <3>1. w \in Nat /\ w * (r + 1) = t * y.est /\ w * (r + 1) = (r + 1) * w /\ r + 1 \in Nat
      <4>1. r + 1 \in Nat
        BY <2>2
      <4>2. w \in Nat /\ w * (r + 1) = t * (x.est * (r + 1))
        BY <1>1, <4>1, Products
      <4> HIDE DEF w
      <4>3. w * (r + 1) = (r + 1) * w
        BY <4>1, <4>2, Products
      <4> QED
        BY <2>8, <4>1, <4>2, <4>3
    <3> HIDE DEF w
    <3>2. Gaps(off, w) /\ u - off[L].u < w
      BY <2>1, <2>11 DEF Spread, w
    <3>3. Gaps(new, (r + 1) * w)
      <4> SUFFICES ASSUME NEW k \in 1 .. n - 1
                   PROVE  new[k + 1].u - new[k].u < (r + 1) * w
        BY <2>6 DEF Gaps
      <4>1. k \in 1 .. n /\ k + 1 \in 1 .. n
        BY <2>6
      <4>2. /\ At(k, r) \in 1 .. L /\ At(k, r) + (r + 1) \in 1 .. L
            /\ new[k] = off[At(k, r)] /\ new[k + 1] = off[At(k, r) + (r + 1)]
        BY <2>4, <2>6, <4>1
      <4>3. At(k, r) + (r + 1) <= L
        BY <1>1, <4>2
      <4>4. off[At(k, r) + (r + 1)].u - off[At(k, r)].u + (r + 1) <= (r + 1) * w
        BY <1>1, <3>1, <3>2, <4>2, <4>3, GapSum
      <4>5. new[k].u \in Nat /\ new[k + 1].u \in Nat
        BY <2>5, <4>2
      <4>6. (r + 1) * w \in Nat
        BY <3>1, Products
      <4> DEFINE p == new[k].u
                 s == new[k + 1].u
                 z == (r + 1) * w
      <4>7. p \in Nat /\ s \in Nat /\ z \in Nat /\ r \in Nat /\ s - p + (r + 1) <= z
        BY <2>2, <4>2, <4>4, <4>5, <4>6
      <4> HIDE DEF p, s, z
      <4>8. s - p < z
        BY <4>7
      <4> QED
        BY <4>8 DEF p, s, z
    <3>4. u - new[n].u < (r + 1) * w
      <4> DEFINE a == At(n, r)
                 m == L - a
      <4>1. n \in 1 .. n /\ a \in 1 .. L /\ new[n] = off[a]
        <5>1. n \in 1 .. n
          BY <1>1, <2>4
        <5> QED
          BY <2>4, <2>6, <5>1
      <4>2. m \in Nat /\ m <= r /\ a + m = L
        BY <1>1, <2>2, <2>4, <4>1
      <4> HIDE DEF a, m
      <4>3. off[a + m].u - off[a].u + m <= m * w
        <5>1. /\ off \in Seq(Pairs) /\ w \in Nat /\ Gaps(off, w) /\ a \in 1 .. Len(off)
              /\ m \in Nat /\ a + m <= Len(off)
          BY <1>1, <3>1, <3>2, <4>1, <4>2
        <5> HIDE DEF off
        <5> QED
          BY <5>1, GapSum
      <4>4. m * w \in Nat /\ r * w \in Nat /\ m * w <= r * w /\ (r + 1) * w = r * w + w
        BY <2>2, <3>1, <4>2, Products
      <4>5. off[a].u \in Nat /\ off[L].u \in Nat /\ off[a + m] = off[L]
        <5>1. L \in 1 .. L
          BY <1>1, <2>1
        <5>2. off[a].u \in Nat /\ off[L].u \in Nat
          BY <2>5, <4>1, <5>1
        <5> QED
          BY <4>2, <5>2
      <4> DEFINE p == off[a].u
                 q == off[L].u
                 y1 == m * w
                 y2 == r * w
                 z == (r + 1) * w
      <4>6. /\ p \in Nat /\ q \in Nat /\ y1 \in Nat /\ y2 \in Nat /\ w \in Nat /\ m \in Nat
            /\ z = y2 + w /\ y1 <= y2 /\ q - p + m <= y1 /\ u - q < w
        BY <3>1, <3>2, <4>2, <4>3, <4>4, <4>5
      <4> HIDE DEF p, q, y1, y2, z
      <4>7. u - p < z
        BY <4>6
      <4> QED
        BY <4>1, <4>7 DEF p, z
    <3> HIDE DEF y
    <3> QED
      BY <2>6, <2>8, <3>1, <3>3, <3>4 DEF Spread
  <2> HIDE DEF y
  <2> QED
    BY <2>1, <2>6, <2>8, <2>9, <2>10, <2>11 DEF y
<1> QED
  BY <1>2, <1>3

-----------------------------------------------------------------------------
(* Places in a stream                                                      *)

StreamChunks == [kind : {"id", "data", "user", "eof"}, len : Nat, ulen : Nat]

LEMMA BehindIs ==
  ASSUME NEW a \in Pairs, NEW e \in StreamChunks
  PROVE  /\ Behind(a, e) \in Pairs
         /\ Behind(a, e).c = a.c + HeaderLen + e.len /\ Behind(a, e).u = a.u + e.ulen
         /\ a.c < Behind(a, e).c /\ a.u <= Behind(a, e).u
<1>1. a.c \in Nat /\ a.u \in Nat /\ e.len \in Nat /\ e.ulen \in Nat
  BY DEF Pairs, StreamChunks
<1>2. Behind(a, e) = [c |-> a.c + HeaderLen + e.len, u |-> a.u + e.ulen]
  BY DEF Behind, Pair
<1>3. a.c + HeaderLen + e.len \in Nat /\ a.u + e.ulen \in Nat /\ a.c < a.c + HeaderLen + e.len
  BY <1>1 DEF HeaderLen
<1> QED
  BY <1>1, <1>2, <1>3 DEF Pairs

LEMMA EndsAre ==
  ASSUME NEW s \in Seq(StreamChunks)
  PROVE  /\ EndsOf(s) \in [0 .. Len(s) -> Pairs] /\ EndsOf(s)[0] = Pair(0, 0)
         /\ \A k \in 1 .. Len(s) : EndsOf(s)[k] = Behind(EndsOf(s)[k - 1], s[k])
<1> DEFINE first == Pair(0, 0)
           step == [k \in 1 .. Len(s) |-> [a \in Pairs |-> Behind(a, s[k])]]
<1>1. first \in Pairs /\ Len(s) \in Nat
  BY DEF Pairs, Pair
<1>2. step \in [1 .. Len(s) -> [Pairs -> Pairs]]
  <2>1. \A k \in 1 .. Len(s) : s[k] \in StreamChunks
    OBVIOUS
  <2> QED
    BY <2>1, BehindIs
<1> HIDE DEF step, first
<1>3. PICK g \in [0 .. Len(s) -> Pairs] :
        g[0] = first /\ \A k \in 1 .. Len(s) : g[k] = step[k][g[k - 1]]
  <2>1. Recursive(Len(s), Pairs, first, step)
    BY <1>1, <1>2, Recursion
  <2> QED
    BY <2>1 DEF Recursive
<1>4. g = [k \in 0 .. Len(s) |-> IF k = 0 THEN first ELSE Behind(g[k - 1], s[k])]
  <2>1. ASSUME NEW k \in 0 .. Len(s), k # 0 PROVE g[k] = Behind(g[k - 1], s[k])
    <3>1. k \in 1 .. Len(s) /\ k - 1 \in 0 .. Len(s) /\ g[k - 1] \in Pairs
      BY <1>1, <2>1
    <3> QED
      BY <1>3, <3>1 DEF step
  <2> QED
    BY <1>3, <2>1
<1> DEFINE f == CHOOSE f : f = [k \in 0 .. Len(s) |-> IF k = 0 THEN first ELSE Behind(f[k - 1], s[k])]
<1>5. f = [k \in 0 .. Len(s) |-> IF k = 0 THEN first ELSE Behind(f[k - 1], s[k])]
  BY <1>4
<1>6. EndsOf(s) = f
  BY DEF EndsOf, first
<1> HIDE DEF f
<1>7. f[0] = first /\ \A k \in 1 .. Len(s) : f[k] = Behind(f[k - 1], s[k])
  BY <1>1, <1>5
<1>8. \A k \in Nat : k <= Len(s) => f[k] \in Pairs
  <2> DEFINE T == {k \in Nat : k <= Len(s) => f[k] \in Pairs}
  <2>1. 0 \in T
    BY <1>1, <1>7
  <2>2. ASSUME NEW k \in Nat, k \in T PROVE k + 1 \in T
    <3> SUFFICES ASSUME k + 1 <= Len(s) PROVE f[k + 1] \in Pairs
      OBVIOUS
    <3>1. k + 1 \in 1 .. Len(s) /\ k + 1 - 1 = k /\ f[k] \in Pairs /\ s[k + 1] \in StreamChunks
      BY <1>1, <2>2
    <3>2. f[k + 1] = Behind(f[k], s[k + 1])
      BY <1>7, <3>1
    <3> QED
      BY <3>1, <3>2, BehindIs
  <2> HIDE DEF T
  <2>3. Nat \subseteq T
    BY <2>1, <2>2, NatSet
  <2> QED
    BY <2>3 DEF T
<1>9. f \in [0 .. Len(s) -> Pairs]
  <2>1. DOMAIN f = 0 .. Len(s) /\ f = [k \in 0 .. Len(s) |-> f[k]]
    BY <1>5
  <2> QED
    BY <1>1, <1>8, <2>1
<1> QED
  BY <1>6, <1>7, <1>9 DEF first

\* A chunk more changes nothing of what was there.
LEMMA EndsAppend ==
  ASSUME NEW s \in Seq(StreamChunks), NEW e \in StreamChunks
  PROVE  /\ \A k \in 0 .. Len(s) : EndsOf(Append(s, e))[k] = EndsOf(s)[k]
         /\ EndsOf(Append(s, e))[Len(s) + 1] = Behind(EndsOf(s)[Len(s)], e)
<1> DEFINE r == Append(s, e)
           f == EndsOf(s)
           g == EndsOf(r)
           T == {k \in Nat : k <= Len(s) => g[k] = f[k]}
<1>1. /\ r \in Seq(StreamChunks) /\ Len(r) = Len(s) + 1 /\ r[Len(s) + 1] = e /\ Len(s) \in Nat
      /\ \A k \in 1 .. Len(s) : r[k] = s[k]
  OBVIOUS
<1> HIDE DEF r
<1>2. f[0] = Pair(0, 0) /\ \A k \in 1 .. Len(s) : f[k] = Behind(f[k - 1], s[k])
  BY EndsAre
<1>3. g[0] = Pair(0, 0) /\ \A k \in 1 .. Len(s) + 1 : g[k] = Behind(g[k - 1], r[k])
  BY <1>1, EndsAre
<1> HIDE DEF f, g
<1>4. 0 \in T
  BY <1>2, <1>3
<1>5. ASSUME NEW k \in Nat, k \in T PROVE k + 1 \in T
  <2> SUFFICES ASSUME k + 1 <= Len(s) PROVE g[k + 1] = f[k + 1]
    OBVIOUS
  <2>1. k + 1 \in 1 .. Len(s) /\ k + 1 \in 1 .. Len(s) + 1 /\ k + 1 - 1 = k /\ g[k] = f[k]
    BY <1>1, <1>5
  <2>2. g[k + 1] = Behind(g[k], r[k + 1]) /\ f[k + 1] = Behind(f[k], s[k + 1])
    BY <1>2, <1>3, <2>1
  <2> QED
    BY <1>1, <2>1, <2>2
<1> HIDE DEF T
<1>6. Nat \subseteq T
  BY <1>4, <1>5, NatSet
<1>7. \A k \in 0 .. Len(s) : g[k] = f[k]
  BY <1>1, <1>6 DEF T
<1>8. g[Len(s) + 1] = Behind(f[Len(s)], e)
  <2>1. Len(s) + 1 \in 1 .. Len(s) + 1 /\ Len(s) + 1 - 1 = Len(s) /\ Len(s) \in 0 .. Len(s)
    BY <1>1
  <2> QED
    BY <1>1, <1>3, <1>7, <2>1
<1> QED
  BY <1>7, <1>8 DEF f, g, r

\* The first estimate is at least the block size.
LEMMA EstBlockIs ==
  ASSUME IndexAssumption, LifecycleAssumption
  PROVE  EstBlock \in Nat /\ EstBlock >= BlockSize
<1> DEFINE n == MinIndexDist
           S == {e \in Nat : e >= BlockSize}
           step == [k \in 1 .. n |-> [e \in S |-> Doubled(e)]]
<1>1. n \in Nat /\ BlockSize \in S /\ BlockSize \in Nat
  BY DEF IndexAssumption, LifecycleAssumption
<1>2. \A e \in S : Doubled(e) \in S
  BY <1>1 DEF Doubled
<1> HIDE DEF S, n
<1>3. step \in [1 .. n -> [S -> S]]
  BY <1>2
<1> HIDE DEF step
<1>4. PICK g \in [0 .. n -> S] :
        g[0] = BlockSize /\ \A k \in 1 .. n : g[k] = step[k][g[k - 1]]
  <2>1. Recursive(n, S, BlockSize, step)
    BY <1>1, <1>3, Recursion
  <2> QED
    BY <2>1 DEF Recursive
<1>5. g = [k \in 0 .. n |-> IF k = 0 THEN BlockSize ELSE Doubled(g[k - 1])]
  <2>1. ASSUME NEW k \in 0 .. n, k # 0 PROVE g[k] = Doubled(g[k - 1])
    <3>1. k \in 1 .. n /\ k - 1 \in 0 .. n /\ g[k - 1] \in S
      BY <1>1, <2>1
    <3> QED
      BY <1>4, <3>1 DEF step
  <2> QED
    BY <1>4, <2>1
<1> DEFINE f == CHOOSE f : f = [k \in 0 .. n |-> IF k = 0 THEN BlockSize ELSE Doubled(f[k - 1])]
<1>6. f = [k \in 0 .. n |-> IF k = 0 THEN BlockSize ELSE Doubled(f[k - 1])]
  BY <1>5
<1>7. Estimates = f
  BY DEF Estimates, n
<1> HIDE DEF f
<1>8. f[0] = BlockSize /\ \A k \in 1 .. n : f[k] = Doubled(f[k - 1])
  BY <1>1, <1>6
<1> DEFINE T == {k \in Nat : k <= n => f[k] \in S}
<1>9. 0 \in T
  BY <1>1, <1>8
<1>10. ASSUME NEW k \in Nat, k \in T PROVE k + 1 \in T
  <2> SUFFICES ASSUME k + 1 <= n PROVE f[k + 1] \in S
    OBVIOUS
  <2>1. k + 1 \in 1 .. n /\ k + 1 - 1 = k /\ f[k] \in S
    BY <1>1, <1>10
  <2> QED
    BY <1>2, <1>8, <2>1
<1> HIDE DEF T
<1>11. n \in T
  BY <1>1, <1>9, <1>10, NatSet
<1>12. f[n] \in S
  BY <1>1, <1>11 DEF T
<1> QED
  BY <1>7, <1>12 DEF EstBlock, S, n

-----------------------------------------------------------------------------
(* The invariant: the index x beside the chunks s that end at p            *)

Placed(s, p, x, times, est) ==
  /\ s \in Seq(StreamChunks) /\ p = EndsOf(s)[Len(s)]
  /\ \A k \in 1 .. Len(s) : IF s[k].kind = "data" THEN s[k].ulen \in 1 .. BlockSize
                            ELSE s[k].ulen = 0
  /\ x \in Indexes /\ BlockSize <= x.est /\ Len(x.off) <= MaxIndexEntries
  /\ times \in Nat
  /\ Sorted(x.off, est)
  /\ Spread(x, p.u, (times + 2) * x.est)
  /\ IF x.off = <<>> THEN p.u = 0
     ELSE x.off[1].u = 0 /\ x.off[Len(x.off)].c < p.c /\ x.off[Len(x.off)].u <= p.u
  /\ \A i \in 1 .. Len(x.off) : \E k \in 1 .. Len(s) : x.off[i] = EndsOf(s)[k - 1]

\* Until the end the entries are an estimate apart; reduce only keeps their order.
LifeInv ==
  /\ Placed(chunks, pos, ix, thinned, IF ended THEN 1 ELSE ix.est)
  /\ ended \in BOOLEAN /\ concurrent \in BOOLEAN

LEMMA Latest ==
  ASSUME NEW off \in Seq(Pairs), NEW est \in Nat, Sorted(off, est), NEW i \in 1 .. Len(off)
  PROVE  off[i].c <= off[Len(off)].c /\ off[i].u <= off[Len(off)].u
<1>1. Len(off) \in Nat /\ Len(off) \in 1 .. Len(off)
  BY PairsAt
<1>2. off[i].c \in Nat /\ off[i].u \in Nat /\ off[Len(off)].c \in Nat /\ off[Len(off)].u \in Nat
  BY <1>1, PairsAt
<1>3. i < Len(off) => off[i].c < off[Len(off)].c /\ off[i].u + est <= off[Len(off)].u
  BY <1>1 DEF Sorted
<1>4. i = Len(off) \/ i < Len(off)
  BY <1>1
<1> QED
  BY <1>2, <1>3, <1>4

LEMMA Bounds ==
  ASSUME NEW t \in Nat, NEW est \in Nat
  PROVE  /\ (t + 2) * est \in Nat /\ 2 * est <= (t + 2) * est
         /\ ((t + 1) + 2) * (2 * est) = 2 * est + 2 * ((t + 2) * est)
<1>1. t * est \in Nat
  BY Products
<1>2. (t + 2) * est = t * est + 2 * est
  BY SMT
<1>3. (t + 3) * (2 * est) = 2 * (t * est) + 6 * est
  BY SMT
<1>4. (t + 1) + 2 = t + 3
  OBVIOUS
<1> HIDE DEF Placed
<1> DEFINE z == t * est
<1>5. z \in Nat /\ (t + 2) * est = z + 2 * est /\ (t + 3) * (2 * est) = 2 * z + 6 * est
  BY <1>1, <1>2, <1>3
<1> HIDE DEF z
<1>6. z + 2 * est \in Nat /\ 2 * est <= z + 2 * est /\ 2 * z + 6 * est = 2 * est + 2 * (z + 2 * est)
  BY <1>5
<1> QED
  BY <1>4, <1>5, <1>6

\* The facts about the chunks, with one more behind them.
OneMore(s, p, e) ==
  LET r == Append(s, e)
  IN  /\ p \in Pairs /\ p.c \in Nat /\ p.u \in Nat /\ Len(s) \in Nat
      /\ r \in Seq(StreamChunks) /\ Len(r) = Len(s) + 1 /\ Behind(p, e) = EndsOf(r)[Len(r)]
      /\ \A k \in 1 .. Len(r) : IF r[k].kind = "data" THEN r[k].ulen \in 1 .. BlockSize
                                ELSE r[k].ulen = 0
      /\ \A a : (\E k \in 1 .. Len(s) : a = EndsOf(s)[k - 1])
                  => \E k \in 1 .. Len(r) : a = EndsOf(r)[k - 1]
      /\ \E k \in 1 .. Len(r) : p = EndsOf(r)[k - 1]

LEMMA PlaceChunk ==
  ASSUME NEW s, NEW p, NEW x, NEW times, NEW est, Placed(s, p, x, times, est),
         NEW e \in StreamChunks, IF e.kind = "data" THEN e.ulen \in 1 .. BlockSize ELSE e.ulen = 0
  PROVE  OneMore(s, p, e)
<1> DEFINE r == Append(s, e)
<1>1. /\ s \in Seq(StreamChunks) /\ p = EndsOf(s)[Len(s)]
      /\ \A k \in 1 .. Len(s) : IF s[k].kind = "data" THEN s[k].ulen \in 1 .. BlockSize
                                ELSE s[k].ulen = 0
  BY DEF Placed
<1>2. /\ r \in Seq(StreamChunks) /\ Len(r) = Len(s) + 1 /\ r[Len(s) + 1] = e /\ Len(s) \in Nat
      /\ \A k \in 1 .. Len(s) : r[k] = s[k]
  BY <1>1
<1>3. EndsOf(s) \in [0 .. Len(s) -> Pairs]
  BY <1>1, EndsAre
<1>4. /\ \A k \in 0 .. Len(s) : EndsOf(r)[k] = EndsOf(s)[k]
      /\ EndsOf(r)[Len(s) + 1] = Behind(EndsOf(s)[Len(s)], e)
  BY <1>1, EndsAppend
<1> HIDE DEF r
<1>5. p \in Pairs /\ p.c \in Nat /\ p.u \in Nat
  <2>1. p \in Pairs
    BY <1>1, <1>2, <1>3
  <2> QED
    BY <2>1 DEF Pairs
<1>6. \A k \in 1 .. Len(r) : IF r[k].kind = "data" THEN r[k].ulen \in 1 .. BlockSize
                             ELSE r[k].ulen = 0
  <2> SUFFICES ASSUME NEW k \in 1 .. Len(s) + 1
               PROVE  IF r[k].kind = "data" THEN r[k].ulen \in 1 .. BlockSize ELSE r[k].ulen = 0
    BY <1>2
  <2>1. k \in 1 .. Len(s) \/ k = Len(s) + 1
    BY <1>2
  <2> QED
    BY <1>1, <1>2, <2>1
<1>7. ASSUME NEW a, NEW k \in 1 .. Len(s), a = EndsOf(s)[k - 1]
      PROVE  \E i \in 1 .. Len(r) : a = EndsOf(r)[i - 1]
  <2>1. k \in 1 .. Len(r) /\ k - 1 \in 0 .. Len(s)
    BY <1>2
  <2> QED
    BY <1>4, <1>7, <2>1
<1>8. \E i \in 1 .. Len(r) : p = EndsOf(r)[i - 1]
  <2>1. Len(s) + 1 \in 1 .. Len(r) /\ Len(s) + 1 - 1 = Len(s) /\ Len(s) \in 0 .. Len(s)
    BY <1>2
  <2>2. p = EndsOf(r)[(Len(s) + 1) - 1]
    BY <1>1, <1>4, <2>1
  <2> QED
    BY <2>1, <2>2
<1> QED
  BY <1>1, <1>2, <1>4, <1>5, <1>6, <1>7, <1>8 DEF r, OneMore

\* A chunk written, and recorded or not.
LEMMA PutPlaces ==
  ASSUME IndexAssumption, LifecycleAssumption,
         NEW s, NEW p, NEW x, NEW times, Placed(s, p, x, times, x.est),
         NEW e \in StreamChunks, IF e.kind = "data" THEN e.ulen \in 1 .. BlockSize ELSE e.ulen = 0,
         NEW y, \/ y = Add(x, p.c, p.u)
                \/ y = x /\ e.kind # "data"
  PROVE  Placed(Append(s, e), Behind(p, e), y, IF y.est > x.est THEN times + 1 ELSE times, y.est)
<1> DEFINE r == Append(s, e)
           q == Behind(p, e)
           w == (times + 2) * x.est
<1>1. /\ p \in Pairs /\ p.c \in Nat /\ p.u \in Nat /\ Len(s) \in Nat
      /\ r \in Seq(StreamChunks) /\ Len(r) = Len(s) + 1 /\ q = EndsOf(r)[Len(r)]
      /\ \A k \in 1 .. Len(r) : IF r[k].kind = "data" THEN r[k].ulen \in 1 .. BlockSize
                                ELSE r[k].ulen = 0
      /\ \A a : (\E k \in 1 .. Len(s) : a = EndsOf(s)[k - 1])
                  => \E k \in 1 .. Len(r) : a = EndsOf(r)[k - 1]
      /\ \E k \in 1 .. Len(r) : p = EndsOf(r)[k - 1]
  <2>1. OneMore(s, p, e)
    BY PlaceChunk
  <2> QED
    BY <2>1 DEF OneMore
<1>2. q.u = p.u + e.ulen /\ p.c < q.c /\ p.u <= q.u /\ q.c \in Nat /\ q.u \in Nat
  <2>1. q \in Pairs /\ q.u = p.u + e.ulen /\ p.c < q.c /\ p.u <= q.u
    BY <1>1, BehindIs
  <2> HIDE DEF q
  <2> QED
    BY <2>1 DEF Pairs
<1> HIDE DEF r, q
<1>3. /\ x \in Indexes /\ BlockSize <= x.est /\ Len(x.off) <= MaxIndexEntries /\ times \in Nat
      /\ Sorted(x.off, x.est) /\ Spread(x, p.u, w)
      /\ IF x.off = <<>> THEN p.u = 0
         ELSE x.off[1].u = 0 /\ x.off[Len(x.off)].c < p.c /\ x.off[Len(x.off)].u <= p.u
      /\ \A i \in 1 .. Len(x.off) : \E k \in 1 .. Len(s) : x.off[i] = EndsOf(s)[k - 1]
  BY DEF Placed
<1>4. /\ x.est \in Nat /\ BlockSize \in Nat /\ BlockSize >= 1 /\ x.est > 0
      /\ x.off \in Seq(Pairs) /\ e.ulen \in Nat /\ e.ulen <= BlockSize
      /\ x.off # <<>> => x.off[Len(x.off)].c \in Nat /\ x.off[Len(x.off)].u \in Nat
  <2>1. x.est \in Nat /\ x.off \in Seq(Pairs)
    BY <1>3 DEF Indexes
  <2>2. BlockSize \in Nat /\ BlockSize >= 1
    BY DEF LifecycleAssumption
  <2>3. x.off # <<>> => x.off[Len(x.off)].c \in Nat /\ x.off[Len(x.off)].u \in Nat
    BY <2>1, PairsAt
  <2>4. e.ulen \in Nat /\ e.ulen <= BlockSize
    BY <2>2 DEF StreamChunks
  <2> QED
    BY <1>3, <2>1, <2>2, <2>3, <2>4
<1>5. /\ w \in Nat /\ 2 * x.est <= w
      /\ ((times + 1) + 2) * (2 * x.est) = 2 * x.est + 2 * w
  BY <1>3, <1>4, Bounds
<1>8. q.u <= p.u + x.est
  <2>1. \A a, b, d, f, g \in Nat : f = a + b /\ b <= d /\ d <= g => f <= a + g
    OBVIOUS
  <2>2. p.u \in Nat /\ e.ulen \in Nat /\ BlockSize \in Nat /\ q.u \in Nat /\ x.est \in Nat
    BY <1>1, <1>2, <1>4
  <2>3. q.u = p.u + e.ulen /\ e.ulen <= BlockSize /\ BlockSize <= x.est
    BY <1>2, <1>3, <1>4
  <2> QED
    BY <2>1, <2>2, <2>3
<1> HIDE DEF w
<1>6. CASE y = x /\ e.kind # "data"
  <2>1. e.ulen = 0 /\ q.u = p.u
    BY <1>1, <1>2, <1>6
  <2>2. ~(y.est > x.est)
    BY <1>4, <1>6
  <2>3. x.off # <<>> => x.off[Len(x.off)].c < q.c
    <3> DEFINE z == x.off[Len(x.off)]
    <3>1. x.off # <<>> => z.c \in Nat /\ z.c < p.c
      BY <1>3, <1>4
    <3> HIDE DEF z
    <3>2. x.off # <<>> => z.c < q.c
      BY <1>1, <1>2, <3>1
    <3> QED
      BY <3>2 DEF z
  <2>4. \A i \in 1 .. Len(x.off) : \E k \in 1 .. Len(r) : x.off[i] = EndsOf(r)[k - 1]
    BY <1>1, <1>3
  <2>5. Placed(r, q, x, times, x.est)
    BY <1>1, <1>3, <2>1, <2>3, <2>4 DEF Placed, w
  <2> QED
    BY <1>6, <2>2, <2>5 DEF r, q
<1>7. CASE y = Add(x, p.c, p.u)
  <2>1. /\ y \in Indexes /\ Len(y.off) <= MaxIndexEntries /\ y.off # <<>>
        /\ y.off[1] = IF x.off = <<>> THEN Pair(p.c, p.u) ELSE x.off[1]
        /\ \A i \in 1 .. Len(y.off) :
             y.off[i] = Pair(p.c, p.u) \/ \E j \in 1 .. Len(x.off) : y.off[i] = x.off[j]
        /\ Sorted(y.off, y.est)
        /\ \/ y.est = x.est /\ (Spread(x, p.u, w) => /\ Gaps(y.off, w)
                                                     /\ p.u - y.off[Len(y.off)].u < x.est)
           \/ y.est = 2 * x.est
              /\ (Spread(x, p.u, w) => /\ Gaps(y.off, 2 * x.est + 2 * w)
                                       /\ p.u - y.off[Len(y.off)].u < 2 * x.est + w)
    <3>1. Added(x, p.c, p.u, w, y)
      BY <1>1, <1>3, <1>4, <1>5, <1>7, AddKeeps
    <3> QED
      BY <3>1 DEF Added
  <2>2. Pair(p.c, p.u) = p /\ Pair(p.c, p.u).u = p.u
    BY <1>1 DEF Pairs, Pair
  <2>3. y.off[1].u = 0
    BY <1>3, <2>1, <2>2
  <2> DEFINE z == y.off[Len(y.off)]
  <2>4. z \in Pairs /\ z.c \in Nat /\ z.u \in Nat /\ Len(y.off) \in 1 .. Len(y.off)
    <3>1. y.off \in Seq(Pairs)
      BY <2>1 DEF Indexes
    <3> QED
      BY <2>1, <3>1, PairsAt
  <2>5. z.c <= p.c /\ z.u <= p.u
    <3>1. z = p \/ \E j \in 1 .. Len(x.off) : z = x.off[j]
      BY <2>1, <2>2, <2>4
    <3>2. ASSUME NEW j \in 1 .. Len(x.off), z = x.off[j] PROVE z.c <= p.c /\ z.u <= p.u
      <4>1. x.off[j].c <= x.off[Len(x.off)].c /\ x.off[j].u <= x.off[Len(x.off)].u
        BY <1>3, <1>4, Latest
      <4>2. x.off # <<>>
        BY <1>4
      <4>3. x.off[Len(x.off)].c < p.c /\ x.off[Len(x.off)].u <= p.u
        BY <1>3, <4>2
      <4> DEFINE last == x.off[Len(x.off)]
      <4>4. last.c \in Nat /\ last.u \in Nat /\ z.c <= last.c /\ z.u <= last.u
            /\ last.c < p.c /\ last.u <= p.u
        BY <1>4, <3>2, <4>1, <4>2, <4>3
      <4> HIDE DEF z, last
      <4> QED
        BY <1>1, <2>4, <4>4, SMTT(30)
    <3> HIDE DEF z
    <3> QED
      BY <1>1, <3>1, <3>2
  <2>6. z.c < q.c /\ z.u <= q.u
    <3> HIDE DEF z
    <3> QED
      BY <1>1, <1>2, <2>4, <2>5, SMTT(30)
  <2>7. \A i \in 1 .. Len(y.off) : \E k \in 1 .. Len(r) : y.off[i] = EndsOf(r)[k - 1]
    <3> SUFFICES ASSUME NEW i \in 1 .. Len(y.off)
                 PROVE  \E k \in 1 .. Len(r) : y.off[i] = EndsOf(r)[k - 1]
      OBVIOUS
    <3>1. CASE y.off[i] = p
      BY <1>1, <3>1
    <3>2. CASE \E j \in 1 .. Len(x.off) : y.off[i] = x.off[j]
      BY <1>1, <1>3, <3>2, ZenonT(30)
    <3> QED
      BY <2>1, <2>2, <3>1, <3>2
  <2> DEFINE next == IF y.est > x.est THEN times + 1 ELSE times
  <2>8. /\ next \in Nat /\ BlockSize <= y.est
        /\ Spread(y, q.u, (next + 2) * y.est)
    <3>1. CASE /\ y.est = x.est
               /\ Gaps(y.off, w) /\ p.u - z.u < x.est
      <4>1. next = times
        BY <1>4, <3>1
      <4>2. (next + 2) * y.est = w
        BY <3>1, <4>1 DEF w
      <4> HIDE DEF z, next
      <4>3. q.u - z.u < w
        <5>1. \A a, b, z1, e1, w1 \in Nat :
                b <= a + e1 /\ a - z1 < e1 /\ 2 * e1 <= w1 => b - z1 < w1
          OBVIOUS
        <5> QED
          BY <1>1, <1>2, <1>4, <1>5, <2>4, <3>1, <5>1, <1>8
      <4> QED
        BY <1>3, <3>1, <4>1, <4>2, <4>3 DEF Spread, z
    <3>2. CASE /\ y.est = 2 * x.est
               /\ Gaps(y.off, 2 * x.est + 2 * w) /\ p.u - z.u < 2 * x.est + w
      <4>1. y.est > x.est
        BY <1>4, <3>2
      <4>2. next = times + 1
        BY <4>1
      <4>3. (next + 2) * y.est = 2 * x.est + 2 * w
        BY <1>5, <3>2, <4>2
      <4> HIDE DEF z, next
      <4>4. q.u - z.u < 2 * x.est + 2 * w
        <5>1. \A a, b, z1, e1, w1 \in Nat :
                b <= a + e1 /\ a - z1 < 2 * e1 + w1 /\ 2 * e1 <= w1 => b - z1 < 2 * e1 + 2 * w1
          OBVIOUS
        <5> QED
          BY <1>1, <1>2, <1>4, <1>5, <2>4, <3>2, <5>1, <1>8
      <4>5. BlockSize <= y.est /\ next \in Nat
        BY <1>3, <1>4, <3>2, <4>1, <4>2
      <4> QED
        BY <3>2, <4>3, <4>4, <4>5 DEF Spread, z
    <3> QED
      BY <1>3, <2>1, <3>1, <3>2
  <2> HIDE DEF next
  <2>9. Placed(r, q, y, next, y.est)
    BY <1>1, <2>1, <2>3, <2>6, <2>7, <2>8 DEF Placed
  <2> QED
    BY <2>9 DEF r, q, next
<1> QED
  BY <1>6, <1>7

\* closeIndex: the EOF chunk, and the index reduced.
LEMMA EndPlaces ==
  ASSUME IndexAssumption, LifecycleAssumption,
         NEW s, NEW p, NEW x, NEW times, Placed(s, p, x, times, x.est),
         NEW e \in StreamChunks, e.kind # "data" /\ e.ulen = 0
  PROVE  Placed(Append(s, e), Behind(p, e), Reduce(x), times, 1)
<1> DEFINE r == Append(s, e)
           q == Behind(p, e)
           y == Reduce(x)
           t == times + 2
<1>1. /\ p \in Pairs /\ p.c \in Nat /\ p.u \in Nat /\ Len(s) \in Nat
      /\ r \in Seq(StreamChunks) /\ Len(r) = Len(s) + 1 /\ q = EndsOf(r)[Len(r)]
      /\ \A k \in 1 .. Len(r) : IF r[k].kind = "data" THEN r[k].ulen \in 1 .. BlockSize
                                ELSE r[k].ulen = 0
      /\ \A a : (\E k \in 1 .. Len(s) : a = EndsOf(s)[k - 1])
                  => \E k \in 1 .. Len(r) : a = EndsOf(r)[k - 1]
  <2>1. OneMore(s, p, e)
    BY PlaceChunk
  <2> QED
    BY <2>1 DEF OneMore
<1>2. q.u = p.u /\ p.c < q.c /\ q.c \in Nat
  <2>1. q \in Pairs /\ q.u = p.u + e.ulen /\ p.c < q.c
    BY <1>1, BehindIs
  <2> HIDE DEF q
  <2> QED
    BY <1>1, <2>1 DEF Pairs
<1> HIDE DEF r, q
<1>3. /\ x \in Indexes /\ BlockSize <= x.est /\ Len(x.off) <= MaxIndexEntries /\ times \in Nat
      /\ Sorted(x.off, x.est) /\ Spread(x, p.u, t * x.est)
      /\ IF x.off = <<>> THEN p.u = 0
         ELSE x.off[1].u = 0 /\ x.off[Len(x.off)].c < p.c /\ x.off[Len(x.off)].u <= p.u
      /\ \A i \in 1 .. Len(x.off) : \E k \in 1 .. Len(s) : x.off[i] = EndsOf(s)[k - 1]
  BY DEF Placed
<1>4. x.est \in Nat /\ x.est >= 1 /\ BlockSize \in Nat /\ x.off \in Seq(Pairs) /\ t \in Nat
  <2>1. x.est \in Nat /\ x.off \in Seq(Pairs)
    BY <1>3 DEF Indexes
  <2>2. BlockSize \in Nat /\ BlockSize >= 1
    BY DEF LifecycleAssumption
  <2> QED
    BY <1>3, <2>1, <2>2
<1>5. Sorted(x.off, 1)
  <2> SUFFICES ASSUME NEW j \in 1 .. Len(x.off), NEW k \in 1 .. Len(x.off), j < k
               PROVE  x.off[j].c < x.off[k].c /\ x.off[j].u + 1 <= x.off[k].u
    BY DEF Sorted
  <2>1. x.off[j].c < x.off[k].c /\ x.off[j].u + x.est <= x.off[k].u
    BY <1>3 DEF Sorted
  <2>2. x.off[j].u \in Nat /\ x.off[k].u \in Nat
    BY <1>4, PairsAt
  <2> QED
    BY <1>4, <2>1, <2>2, SMTT(30)
<1> HIDE DEF t
<1>6. /\ y \in Indexes /\ y.est >= x.est /\ (y.off = <<>> <=> x.off = <<>>)
      /\ x.off # <<>> => y.off[1] = x.off[1]
      /\ Len(y.off) <= Len(x.off)
      /\ \A i \in 1 .. Len(y.off) : \E j \in 1 .. Len(x.off) : y.off[i] = x.off[j]
      /\ Sorted(y.off, 1)
      /\ Spread(x, p.u, t * x.est) => Spread(y, p.u, t * y.est)
  <2>1. x.off # <<>> => x.est > 0
    BY <1>4
  <2> QED
    BY <1>1, <1>3, <1>4, <1>5, <2>1, ReduceKeeps
<1> HIDE DEF y
<1>7. Len(y.off) <= MaxIndexEntries /\ BlockSize <= y.est
  <2>1. Len(y.off) \in Nat /\ Len(x.off) \in Nat /\ MaxIndexEntries \in Nat /\ y.est \in Nat
    BY <1>3, <1>6, PairsAt DEF Indexes, IndexAssumption
  <2> QED
    BY <1>3, <1>4, <1>6, <2>1
<1>8. \A i \in 1 .. Len(y.off) : \E k \in 1 .. Len(r) : y.off[i] = EndsOf(r)[k - 1]
  <2> SUFFICES ASSUME NEW i \in 1 .. Len(y.off)
               PROVE  \E k \in 1 .. Len(r) : y.off[i] = EndsOf(r)[k - 1]
    OBVIOUS
  <2>1. PICK j \in 1 .. Len(x.off) : y.off[i] = x.off[j]
    BY <1>6
  <2>2. \E k \in 1 .. Len(s) : y.off[i] = EndsOf(s)[k - 1]
    BY <1>3, <2>1
  <2>3. (\E k \in 1 .. Len(s) : y.off[i] = EndsOf(s)[k - 1])
          => \E k \in 1 .. Len(r) : y.off[i] = EndsOf(r)[k - 1]
    BY <1>1
  <2> QED
    BY <2>2, <2>3
<1>9. y.off # <<>> => y.off[Len(y.off)].c < q.c /\ y.off[Len(y.off)].u <= q.u
  <2> SUFFICES ASSUME y.off # <<>> PROVE y.off[Len(y.off)].c < q.c /\ y.off[Len(y.off)].u <= q.u
    OBVIOUS
  <2> DEFINE z == y.off[Len(y.off)]
             last == x.off[Len(x.off)]
  <2>1. Len(y.off) \in 1 .. Len(y.off) /\ z.c \in Nat /\ z.u \in Nat
    BY <1>6, PairsAt DEF Indexes
  <2>2. PICK j \in 1 .. Len(x.off) : z = x.off[j]
    BY <1>6, <2>1
  <2>3. z.c <= last.c /\ z.u <= last.u
    BY <1>3, <1>4, <2>2, Latest
  <2>4. last.c < p.c /\ last.u <= p.u /\ last.c \in Nat /\ last.u \in Nat
    <3>1. x.off # <<>>
      BY <1>6
    <3>2. Len(x.off) \in 1 .. Len(x.off)
      BY <1>4, <3>1, PairsAt
    <3>3. last.c \in Nat /\ last.u \in Nat
      BY <1>4, <3>2, PairsAt
    <3> QED
      BY <1>3, <3>1, <3>3
  <2> HIDE DEF z, last
  <2>5. z.c < q.c /\ z.u <= q.u
    BY <1>1, <1>2, <2>1, <2>3, <2>4, SMTT(30)
  <2> QED
    BY <2>5 DEF z
<1>10. Placed(r, q, y, times, 1)
  BY <1>1, <1>2, <1>3, <1>6, <1>7, <1>8, <1>9 DEF Placed, t
<1> QED
  BY <1>10 DEF r, q, y

\* A varint has some bytes, whatever the base.
LEMMA EofTyped ==
  ASSUME NEW total
  PROVE  EofLen(total) \in Nat
<1> DEFINE over == {k \in 1 .. 9 : total >= VarintBase ^ k}
<1>1. IsFiniteSet(1 .. 9)
  <2>1. PICK n \in Int : n = 9
    OBVIOUS
  <2>2. IsFiniteSet(1 .. n)
    BY FS_Interval
  <2> QED
    BY <2>1, <2>2, Zenon
<1>2. over \subseteq 1 .. 9
  OBVIOUS
<1> HIDE DEF over
<1>3. IsFiniteSet(over)
  BY <1>1, <1>2, FS_Subset
<1>4. Cardinality(over) \in Nat
  BY <1>3, FS_CardinalityType
<1>5. EofLen(total) = 1 + Cardinality(over)
  BY DEF EofLen, over
<1> QED
  BY <1>4, <1>5

LEMMA InitLife ==
  ASSUME IndexAssumption, LifecycleAssumption, Init
  PROVE  LifeInv
<1>1. /\ chunks = <<>> /\ pos = Pair(0, 0) /\ ix = [est |-> EstBlock, off |-> <<>>]
      /\ ended = FALSE /\ concurrent \in BOOLEAN /\ thinned = 0
  BY DEF Init, EmptyIndex
<1>2. chunks \in Seq(StreamChunks) /\ Len(chunks) = 0
  BY <1>1
<1>3. pos = EndsOf(chunks)[Len(chunks)] /\ pos.u = 0
  BY <1>1, <1>2, EndsAre DEF Pair
<1>4. EstBlock \in Nat /\ BlockSize <= EstBlock
  BY EstBlockIs DEF LifecycleAssumption
<1>5. ix \in Indexes /\ ix.est = EstBlock /\ ix.off = <<>> /\ Len(ix.off) = 0
  BY <1>1, <1>4 DEF Indexes
<1>6. Len(ix.off) <= MaxIndexEntries
  BY <1>5 DEF IndexAssumption
<1>7. Sorted(ix.off, ix.est) /\ Spread(ix, pos.u, (thinned + 2) * ix.est)
  BY <1>5 DEF Sorted, Spread, Gaps
<1>8. Placed(chunks, pos, ix, thinned, ix.est)
  BY <1>1, <1>2, <1>3, <1>4, <1>5, <1>6, <1>7 DEF Placed
<1> QED
  BY <1>1, <1>8 DEF LifeInv

LEMMA LifeKeeps ==
  ASSUME IndexAssumption, LifecycleAssumption, LifeInv, [Next]_vars
  PROVE  LifeInv'
<1>1. Placed(chunks, pos, ix, thinned, IF ended THEN 1 ELSE ix.est)
      /\ ended \in BOOLEAN /\ concurrent \in BOOLEAN
  BY DEF LifeInv
<1>2. ASSUME NEW e \in StreamChunks, IF e.kind = "data" THEN e.ulen \in 1 .. BlockSize ELSE e.ulen = 0,
             ~ended, Put(e), ended' = ended, concurrent' = concurrent
      PROVE  LifeInv'
  <2>1. Placed(chunks, pos, ix, thinned, ix.est)
    BY <1>1, <1>2
  <2>2. ix' = Add(ix, pos.c, pos.u) \/ (ix' = ix /\ e.kind # "data")
    BY <1>2 DEF Put, Recorded
  <2>3. Placed(Append(chunks, e), Behind(pos, e), ix', IF ix'.est > ix.est THEN thinned + 1 ELSE thinned, ix'.est)
    BY <1>2, <2>1, <2>2, PutPlaces
  <2>4. Placed(chunks', pos', ix', thinned', ix'.est)
    BY <1>2, <2>3 DEF Put
  <2> QED
    BY <1>1, <1>2, <2>4 DEF LifeInv
<1>3. CASE WriteHeader
  <2>1. Chunk("id", 6, 0) \in StreamChunks /\ Chunk("id", 6, 0).kind = "id" /\ Chunk("id", 6, 0).ulen = 0
    BY DEF StreamChunks, Chunk
  <2> QED
    BY <1>2, <1>3, <2>1 DEF WriteHeader
<1>4. ASSUME NEW n \in 1 .. BlockSize, NEW len \in BodySizes, WriteBlock(n, len) PROVE LifeInv'
  <2>1. n \in Nat /\ len \in Nat
    BY DEF LifecycleAssumption
  <2>2. /\ Chunk("data", len, n) \in StreamChunks
        /\ Chunk("data", len, n).kind = "data" /\ Chunk("data", len, n).ulen = n
    BY <2>1 DEF StreamChunks, Chunk
  <2> QED
    BY <1>2, <1>4, <2>2 DEF WriteBlock
<1>5. ASSUME NEW len \in BodySizes, WriteUserChunk(len) PROVE LifeInv'
  <2>1. len \in Nat
    BY DEF LifecycleAssumption
  <2>2. /\ Chunk("user", len, 0) \in StreamChunks
        /\ Chunk("user", len, 0).kind = "user" /\ Chunk("user", len, 0).ulen = 0
    BY <2>1 DEF StreamChunks, Chunk
  <2> QED
    BY <1>2, <1>5, <2>2 DEF WriteUserChunk
<1>6. CASE End
  <2> DEFINE e == Chunk("eof", EofLen(pos.u), 0)
  <2>1. e \in StreamChunks /\ e.kind = "eof" /\ e.ulen = 0 /\ e.len = EofLen(pos.u)
    <3> DEFINE n == EofLen(pos.u)
    <3>1. n \in Nat
      BY EofTyped
    <3> HIDE DEF n
    <3>2. Chunk("eof", n, 0) \in StreamChunks /\ Chunk("eof", n, 0).kind = "eof"
          /\ Chunk("eof", n, 0).ulen = 0 /\ Chunk("eof", n, 0).len = n
      BY <3>1 DEF StreamChunks, Chunk
    <3> QED
      BY <3>2 DEF n
  <2>2. Placed(chunks, pos, ix, thinned, ix.est)
    BY <1>1, <1>6 DEF End
  <2>3. pos \in Pairs
    <3>1. OneMore(chunks, pos, e)
      BY <2>1, <2>2, PlaceChunk
    <3> QED
      BY <3>1 DEF OneMore
  <2>4. pos' = Behind(pos, e)
    <3>1. pos.u + e.ulen = pos.u
      BY <2>1, <2>3 DEF Pairs
    <3> HIDE DEF e
    <3> QED
      BY <1>6, <2>1, <3>1 DEF End, Behind
  <2>5. Placed(Append(chunks, e), Behind(pos, e), Reduce(ix), thinned, 1)
    BY <2>1, <2>2, EndPlaces
  <2>6. Placed(chunks', pos', ix', thinned', 1) /\ ended' = TRUE /\ concurrent' = concurrent
    BY <1>6, <2>4, <2>5 DEF End
  <2> QED
    BY <1>1, <2>6 DEF LifeInv
<1>7. CASE UNCHANGED vars
  BY <1>1, <1>7 DEF LifeInv, vars
<1> QED
  BY <1>3, <1>4, <1>5, <1>6, <1>7 DEF Next

LEMMA LifeHolds == Spec => []LifeInv
<1>1. Init => LifeInv
  BY InitLife, IndexAssumption, LifecycleAssumption
<1>2. LifeInv /\ [Next]_vars => LifeInv'
  BY LifeKeeps, IndexAssumption, LifecycleAssumption
<1> QED
  BY <1>1, <1>2, PTL DEF Spec

\* EntriesAreChunkStarts is the last part of the invariant.
THEOREM EntriesAreChunkStartsHolds == Spec => []EntriesAreChunkStarts
<1>1. ASSUME LifeInv PROVE EntriesAreChunkStarts
  <2> DEFINE end == EndsOf(chunks)
  <2>1. \A i \in 1 .. Len(ix.off) : \E k \in 1 .. Len(chunks) : ix.off[i] = end[k - 1]
    BY <1>1 DEF LifeInv, Placed
  <2>2. DOMAIN ix.off = 1 .. Len(ix.off) /\ DOMAIN chunks = 1 .. Len(chunks)
    <3>1. ix.off \in Seq(Pairs) /\ chunks \in Seq(StreamChunks)
      BY <1>1 DEF LifeInv, Placed, Indexes
    <3> QED
      BY <3>1
  <2>3. Starts = {end[k - 1] : k \in 1 .. Len(chunks)}
    BY <2>2 DEF Starts
  <2> HIDE DEF end
  <2> SUFFICES ASSUME NEW i \in 1 .. Len(ix.off) PROVE ix.off[i] \in Starts
    BY <2>2 DEF EntriesAreChunkStarts
  <2>4. PICK k \in 1 .. Len(chunks) : ix.off[i] = end[k - 1]
    BY <2>1
  <2> QED
    BY <2>3, <2>4
<1> QED
  BY <1>1, LifeHolds, PTL

-----------------------------------------------------------------------------
(* Finding                                                                 *)

\* Find, by scan or by bisection, gives the last entry at or before the offset.
LEMMA FindIs ==
  ASSUME IndexAssumption,
         NEW x \in Indexes, Sorted(x.off, 0), x.off # <<>>, x.off[1].u = 0, NEW o \in Nat
  PROVE  \E m \in 1 .. Len(x.off) :
           /\ Find(x, o) = x.off[m] /\ x.off[m].u <= o
           /\ \A k \in 1 .. Len(x.off) : x.off[k].u <= o => k <= m /\ x.off[k].u <= x.off[m].u
<1> DEFINE off == x.off
           L == Len(x.off)
           before == {k \in DOMAIN x.off : x.off[k].u <= o}
           prefix == {k \in DOMAIN x.off : \A j \in 1 .. k : x.off[j].u <= o}
<1>1. /\ off \in Seq(Pairs) /\ L \in Nat /\ L >= 1 /\ DOMAIN x.off = 1 .. L
      /\ 1 \in 1 .. L
      /\ \A i \in 1 .. L : off[i].u \in Nat
  <2>1. off \in Seq(Pairs)
    BY DEF Indexes
  <2>2. L \in Nat /\ L >= 1 /\ DOMAIN x.off = 1 .. L
    BY <2>1, PairsAt
  <2> QED
    BY <2>1, <2>2, PairsAt
<1>2. \A j \in 1 .. L, k \in 1 .. L : j <= k => off[j].u <= off[k].u
  <2> SUFFICES ASSUME NEW j \in 1 .. L, NEW k \in 1 .. L, j <= k PROVE off[j].u <= off[k].u
    OBVIOUS
  <2>1. j < k => off[j].u + 0 <= off[k].u
    BY DEF Sorted
  <2>2. j = k \/ j < k
    BY <1>1
  <2>3. off[j].u \in Nat /\ off[k].u \in Nat
    BY <1>1
  <2> QED
    BY <2>1, <2>2, <2>3
<1>3. prefix = before
  <2>1. ASSUME NEW k \in 1 .. L, off[k].u <= o, NEW j \in 1 .. k PROVE off[j].u <= o
    <3>1. j \in 1 .. L /\ j <= k
      BY <1>1
    <3>2. off[j].u <= off[k].u /\ off[j].u \in Nat /\ off[k].u \in Nat
      BY <1>1, <1>2, <3>1
    <3> QED
      BY <2>1, <3>2
  <2>2. \A k \in 1 .. L : k \in 1 .. k
    BY <1>1
  <2> QED
    BY <1>1, <2>1, <2>2
<1>4. 1 \in before /\ before \in SUBSET (1 .. L) /\ before # {}
  <2>1. 1 \in before
    BY <1>1
  <2> QED
    BY <1>1, <2>1
<1> DEFINE m == Max(before)
<1>5. m \in before /\ \A k \in before : k <= m
  <2> HIDE DEF before
  <2> QED
    BY <1>1, <1>4, LargestOf
<1>6. Find(x, o) = off[m]
  BY <1>3, <1>4 DEF Find
<1> HIDE DEF m
<1>7. m \in 1 .. L /\ off[m].u <= o
  BY <1>1, <1>5
<1>8. \A k \in 1 .. L : off[k].u <= o => k <= m /\ off[k].u <= off[m].u
  BY <1>1, <1>2, <1>5, <1>7
<1> QED
  BY <1>6, <1>7, <1>8

LEMMA Findable ==
  ASSUME LifeInv, ix.off # <<>>
  PROVE  /\ ix \in Indexes /\ Sorted(ix.off, 0) /\ ix.off[1].u = 0
         /\ pos \in Pairs /\ ix.off \in Seq(Pairs) /\ Len(ix.off) \in Nat
<1>1. /\ Placed(chunks, pos, ix, thinned, IF ended THEN 1 ELSE ix.est) /\ ended \in BOOLEAN
  BY DEF LifeInv
<1>2. /\ ix \in Indexes /\ ix.off[1].u = 0 /\ chunks \in Seq(StreamChunks)
      /\ pos = EndsOf(chunks)[Len(chunks)]
  BY <1>1 DEF Placed
<1>3. ix.off \in Seq(Pairs) /\ Len(ix.off) \in Nat /\ ix.est \in Nat
  BY <1>2, PairsAt DEF Indexes
<1>4. pos \in Pairs
  <2>1. Len(chunks) \in 0 .. Len(chunks)
    BY <1>2
  <2> QED
    BY <1>2, <2>1, EndsAre
<1>5. Sorted(ix.off, 0)
  <2> DEFINE d == IF ended THEN 1 ELSE ix.est
  <2>1. d \in Nat /\ Sorted(ix.off, d)
    BY <1>1, <1>3 DEF Placed
  <2> HIDE DEF d
  <2> SUFFICES ASSUME NEW j \in 1 .. Len(ix.off), NEW k \in 1 .. Len(ix.off), j < k
               PROVE  ix.off[j].c < ix.off[k].c /\ ix.off[j].u + 0 <= ix.off[k].u
    BY DEF Sorted
  <2>2. ix.off[j].c < ix.off[k].c /\ ix.off[j].u + d <= ix.off[k].u
    BY <2>1 DEF Sorted
  <2>3. ix.off[j].u \in Nat /\ ix.off[k].u \in Nat
    BY <1>3, PairsAt
  <2> QED
    BY <2>1, <2>2, <2>3
<1> QED
  BY <1>2, <1>3, <1>4, <1>5

\* Every byte of the stream can be found, by scan or by bisection, through an
\* index that was thinned any number of times.
THEOREM FindIsFloorHolds == Spec => []FindIsFloor
<1>1. ASSUME LifeInv PROVE FindIsFloor
  <2> SUFFICES ASSUME NEW o \in 0 .. pos.u - 1, ix.off # <<>>
               PROVE  /\ Find(ix, o).u <= o
                      /\ Find(ix, o) \in {ix.off[k] : k \in DOMAIN ix.off}
                      /\ \A k \in DOMAIN ix.off : ix.off[k].u <= o => ix.off[k].u <= Find(ix, o).u
    BY DEF FindIsFloor
  <2>1. /\ ix \in Indexes /\ Sorted(ix.off, 0) /\ ix.off[1].u = 0 /\ ix.off \in Seq(Pairs)
        /\ DOMAIN ix.off = 1 .. Len(ix.off)
    BY <1>1, Findable
  <2>2. o \in Nat
    BY <1>1, Findable DEF Pairs
  <2>3. PICK m \in 1 .. Len(ix.off) :
          /\ Find(ix, o) = ix.off[m] /\ ix.off[m].u <= o
          /\ \A k \in 1 .. Len(ix.off) : ix.off[k].u <= o => k <= m /\ ix.off[k].u <= ix.off[m].u
    BY <2>1, <2>2, FindIs, IndexAssumption
  <2> QED
    BY <2>1, <2>3
<1> QED
  BY <1>1, LifeHolds, PTL

\* What is decoded and thrown away to reach a byte grows by one estimate with
\* each thinning, and by no more (index.go: add, reduceLight, Find).  A bound
\* of three estimates and a block, which small instances suggest, fails after
\* a second thinning.
THEOREM SeekCostHolds == Spec => []SeekCost
<1>1. ASSUME LifeInv PROVE SeekCost
  <2> DEFINE w == (thinned + 2) * ix.est
  <2> SUFFICES ASSUME NEW o \in 0 .. pos.u - 1, ix.off # <<>>
               PROVE  o - Find(ix, o).u < w
    BY DEF SeekCost
  <2>1. /\ ix \in Indexes /\ Sorted(ix.off, 0) /\ ix.off[1].u = 0 /\ ix.off \in Seq(Pairs)
        /\ Len(ix.off) \in Nat /\ pos.u \in Nat
    BY <1>1, Findable DEF Pairs
  <2>2. o \in Nat /\ o < pos.u
    BY <2>1
  <2>3. w \in Nat
    <3>1. thinned \in Nat /\ ix.est \in Nat
      BY <1>1, <2>1 DEF LifeInv, Placed, Indexes
    <3> QED
      BY <3>1, Bounds
  <2>4. Gaps(ix.off, w) /\ pos.u - ix.off[Len(ix.off)].u < w
    BY <1>1 DEF LifeInv, Placed, Spread
  <2> HIDE DEF w
  <2>5. PICK m \in 1 .. Len(ix.off) :
          /\ Find(ix, o) = ix.off[m] /\ ix.off[m].u <= o
          /\ \A k \in 1 .. Len(ix.off) : ix.off[k].u <= o => k <= m /\ ix.off[k].u <= ix.off[m].u
    BY <2>1, <2>2, FindIs, IndexAssumption
  <2>6. ix.off[m].u \in Nat
    BY <2>1, PairsAt
  <2>7. CASE m = Len(ix.off)
    <3>1. pos.u - ix.off[m].u < w
      BY <2>4, <2>7
    <3> QED
      BY <2>1, <2>2, <2>3, <2>5, <2>6, <3>1
  <2>8. CASE m # Len(ix.off)
    <3>1. m \in 1 .. Len(ix.off) - 1 /\ m + 1 \in 1 .. Len(ix.off) /\ ~(m + 1 <= m)
      BY <2>1, <2>8
    <3>2. ix.off[m + 1].u \in Nat /\ ~(ix.off[m + 1].u <= o)
      BY <2>1, <2>5, <3>1, PairsAt
    <3>3. ix.off[m + 1].u - ix.off[m].u < w
      BY <2>4, <3>1 DEF Gaps
    <3> QED
      BY <2>2, <2>3, <2>5, <2>6, <3>2, <3>3
  <2> QED
    BY <2>7, <2>8
<1> QED
  BY <1>1, LifeHolds, PTL

-----------------------------------------------------------------------------
(* The scan                                                                *)

Scans == [ok : BOOLEAN, c : Nat, u : Nat, ix : Indexes]

LEMMA AddTyped ==
  ASSUME NEW x \in Indexes, NEW c \in Nat, NEW u \in Nat
  PROVE  Add(x, c, u) \in Indexes
<1> DEFINE r == Append(x.off, Pair(c, u))
           longer == [x EXCEPT !.off = Append(@, Pair(c, u))]
<1>1. x.off \in Seq(Pairs) /\ x.est \in Nat /\ Pair(c, u) \in Pairs
  BY DEF Indexes, Pairs, Pair
<1>2. longer = [est |-> x.est, off |-> r]
  BY WithOff
<1>3. r \in Seq(Pairs)
  BY <1>1
<1> HIDE DEF r
<1>4. longer.est = x.est /\ longer.off = r /\ longer \in Indexes
  BY <1>1, <1>2, <1>3 DEF Indexes
<1>5. LightStates(r, 2 * x.est)[Len(r)].kept \in Seq(Pairs) /\ 2 * x.est \in Nat
  BY <1>1, <1>3, LightStatesAre
<1> HIDE DEF longer
<1>6. ReduceLight(longer) \in Indexes
  BY <1>4, <1>5 DEF ReduceLight, Indexes
<1>7. Add(x, c, u) \in {x, longer, ReduceLight(longer)}
  BY DEF Add, longer
<1> QED
  BY <1>4, <1>6, <1>7

LEMMA WithEst ==
  ASSUME NEW x \in Indexes, NEW n \in Nat
  PROVE  /\ [x EXCEPT !.est = n] \in Indexes
         /\ [x EXCEPT !.est = n].est = n /\ [x EXCEPT !.est = n].off = x.off
BY DEF Indexes

LEMMA ScanWith ==
  ASSUME NEW a \in Scans, NEW v
  PROVE  /\ [a EXCEPT !.ok = v] = [ok |-> v, c |-> a.c, u |-> a.u, ix |-> a.ix]
         /\ [a EXCEPT !.c = v] = [ok |-> a.ok, c |-> v, u |-> a.u, ix |-> a.ix]
<1>1. PICK ok, c, u, x : a = [ok |-> ok, c |-> c, u |-> u, ix |-> x]
  BY DEF Scans
<1> QED
  BY <1>1

\* What the scan sets the estimate to when it meets a chunk.
Seen(a, e) ==
  [a.ix EXCEPT !.est = IF a.ix.est = 0 /\ e.kind = "data" THEN e.ulen ELSE a.ix.est]

LEMMA ScanStepIs ==
  ASSUME NEW a \in Scans, NEW e \in StreamChunks
  PROVE  /\ ScanStep(a, e) \in Scans
         /\ ~a.ok => ScanStep(a, e) = a
         /\ a.ok /\ ScanRefuses(e)
              => ScanStep(a, e) = [ok |-> FALSE, c |-> a.c, u |-> a.u, ix |-> a.ix]
         /\ a.ok /\ ~ScanRefuses(e) /\ e.kind = "data"
              => ScanStep(a, e) = [ok |-> ~AddFails(Seen(a, e), a.c, a.u), c |-> a.c + HeaderLen + e.len,
                                   u |-> a.u + e.ulen, ix |-> Add(Seen(a, e), a.c, a.u)]
         /\ a.ok /\ ~ScanRefuses(e) /\ e.kind # "data"
              => ScanStep(a, e) = [ok |-> TRUE, c |-> a.c + HeaderLen + e.len, u |-> a.u, ix |-> a.ix]
<1>1. /\ a.ok \in BOOLEAN /\ a.c \in Nat /\ a.u \in Nat /\ a.ix \in Indexes
      /\ a = [ok |-> a.ok, c |-> a.c, u |-> a.u, ix |-> a.ix]
      /\ e.len \in Nat /\ e.ulen \in Nat
  BY DEF Scans, StreamChunks
<1>2. Seen(a, e) \in Indexes
  <2>1. a.ix.est \in Nat
    BY <1>1 DEF Indexes
  <2> QED
    BY <1>1, <2>1, WithEst DEF Seen
<1>3. Add(Seen(a, e), a.c, a.u) \in Indexes
  BY <1>1, <1>2, AddTyped
<1>4. a.c + HeaderLen + e.len \in Nat /\ a.u + e.ulen \in Nat
  BY <1>1 DEF HeaderLen
<1>5. CASE ~a.ok
  <2>1. ScanStep(a, e) = a
    BY <1>5 DEF ScanStep
  <2> QED
    BY <1>5, <2>1
<1>6. CASE a.ok /\ ScanRefuses(e)
  <2>1. ScanStep(a, e) = [a EXCEPT !.ok = FALSE]
    BY <1>6 DEF ScanStep
  <2>2. [a EXCEPT !.ok = FALSE] = [ok |-> FALSE, c |-> a.c, u |-> a.u, ix |-> a.ix]
    BY ScanWith
  <2> QED
    BY <1>1, <1>6, <2>1, <2>2 DEF Scans
<1>7. CASE a.ok /\ ~ScanRefuses(e) /\ e.kind = "data"
  <2> DEFINE b == [ok |-> ~AddFails(Seen(a, e), a.c, a.u), c |-> a.c + HeaderLen + e.len,
                   u |-> a.u + e.ulen, ix |-> Add(Seen(a, e), a.c, a.u)]
  <2>1. ScanStep(a, e) = b
    BY <1>7 DEF ScanStep, Seen
  <2>2. b \in Scans
    <3> DEFINE yes == ~AddFails(Seen(a, e), a.c, a.u)
    <3>1. yes \in BOOLEAN
      BY DEF AddFails
    <3> HIDE DEF yes
    <3>2. [ok |-> yes, c |-> a.c + HeaderLen + e.len,
           u |-> a.u + e.ulen, ix |-> Add(Seen(a, e), a.c, a.u)] \in Scans
      BY <1>3, <1>4, <3>1 DEF Scans
    <3> QED
      BY <3>2 DEF yes
  <2> HIDE DEF b
  <2>3. ScanStep(a, e) \in Scans
    BY <2>1, <2>2
  <2> QED
    BY <1>7, <2>1, <2>3 DEF b
<1>8. CASE a.ok /\ ~ScanRefuses(e) /\ e.kind # "data"
  <2>1. ScanStep(a, e) = [a EXCEPT !.c = a.c + HeaderLen + e.len]
    BY <1>8 DEF ScanStep
  <2>2. [a EXCEPT !.c = a.c + HeaderLen + e.len] = [ok |-> TRUE, c |-> a.c + HeaderLen + e.len, u |-> a.u, ix |-> a.ix]
    BY <1>8, ScanWith
  <2> QED
    BY <1>1, <1>4, <1>8, <2>1, <2>2 DEF Scans
<1> QED
  BY <1>1, <1>5, <1>6, <1>7, <1>8

ScanFirst == [ok |-> TRUE, c |-> 0, u |-> 0, ix |-> EmptyIndex(0)]

LEMMA ScanStatesAre ==
  ASSUME NEW s \in Seq(StreamChunks)
  PROVE  /\ ScanStates(s)[0] = ScanFirst /\ ScanFirst \in Scans
         /\ \A k \in 1 .. Len(s) : ScanStates(s)[k] = ScanStep(ScanStates(s)[k - 1], s[k])
<1> DEFINE step == [k \in 1 .. Len(s) |-> [a \in Scans |-> ScanStep(a, s[k])]]
<1>1. ScanFirst \in Scans /\ Len(s) \in Nat
  BY DEF ScanFirst, Scans, EmptyIndex, Indexes
<1>2. step \in [1 .. Len(s) -> [Scans -> Scans]]
  <2>1. \A k \in 1 .. Len(s) : s[k] \in StreamChunks
    OBVIOUS
  <2> QED
    BY <2>1, ScanStepIs
<1> HIDE DEF step
<1>3. PICK g \in [0 .. Len(s) -> Scans] :
        g[0] = ScanFirst /\ \A k \in 1 .. Len(s) : g[k] = step[k][g[k - 1]]
  <2>1. Recursive(Len(s), Scans, ScanFirst, step)
    BY <1>1, <1>2, Recursion
  <2> QED
    BY <2>1 DEF Recursive
<1>4. g = [k \in 0 .. Len(s) |-> IF k = 0 THEN ScanFirst ELSE ScanStep(g[k - 1], s[k])]
  <2>1. ASSUME NEW k \in 0 .. Len(s), k # 0 PROVE g[k] = ScanStep(g[k - 1], s[k])
    <3>1. k \in 1 .. Len(s) /\ k - 1 \in 0 .. Len(s) /\ g[k - 1] \in Scans
      BY <1>1, <2>1
    <3> QED
      BY <1>3, <3>1 DEF step
  <2> QED
    BY <1>3, <2>1
<1> DEFINE f == CHOOSE f : f = [k \in 0 .. Len(s) |-> IF k = 0 THEN ScanFirst ELSE ScanStep(f[k - 1], s[k])]
<1>5. f = [k \in 0 .. Len(s) |-> IF k = 0 THEN ScanFirst ELSE ScanStep(f[k - 1], s[k])]
  BY <1>4
<1>6. ScanStates(s) = f
  BY DEF ScanStates, ScanFirst
<1> HIDE DEF f
<1>7. f[0] = ScanFirst /\ \A k \in 1 .. Len(s) : f[k] = ScanStep(f[k - 1], s[k])
  BY <1>1, <1>5
<1> QED
  BY <1>1, <1>6, <1>7

\* Where add leaves the last entry.
LEMMA AddedLatest ==
  ASSUME NEW x \in Indexes, Sorted(x.off, x.est), NEW c \in Nat, NEW u \in Nat, NEW w,
         x.off # <<>> => x.off[Len(x.off)].c < c /\ x.off[Len(x.off)].u <= u,
         NEW y, Added(x, c, u, w, y)
  PROVE  y.off[Len(y.off)].c <= c /\ y.off[Len(y.off)].u <= u
<1> DEFINE z == y.off[Len(y.off)]
           last == x.off[Len(x.off)]
<1>1. /\ x.off \in Seq(Pairs) /\ x.est \in Nat /\ y.off \in Seq(Pairs) /\ y.off # <<>>
      /\ \A i \in 1 .. Len(y.off) :
           y.off[i] = Pair(c, u) \/ \E j \in 1 .. Len(x.off) : y.off[i] = x.off[j]
  BY DEF Added, Indexes
<1>2. Len(y.off) \in 1 .. Len(y.off) /\ z.c \in Nat /\ z.u \in Nat
  BY <1>1, PairsAt
<1>3. z = Pair(c, u) \/ \E j \in 1 .. Len(x.off) : z = x.off[j]
  BY <1>1, <1>2
<1>4. CASE z = Pair(c, u)
  <2>1. z.c = c /\ z.u = u
    BY <1>4 DEF Pair
  <2> QED
    BY <2>1
<1>5. ASSUME NEW j \in 1 .. Len(x.off), z = x.off[j] PROVE z.c <= c /\ z.u <= u
  <2>1. x.off # <<>> /\ Len(x.off) \in 1 .. Len(x.off)
    BY <1>1, PairsAt
  <2>2. last.c \in Nat /\ last.u \in Nat /\ last.c < c /\ last.u <= u
    BY <1>1, <2>1, PairsAt
  <2>3. z.c <= last.c /\ z.u <= last.u
    BY <1>1, <1>5, Latest
  <2> HIDE DEF z, last
  <2> QED
    BY <1>2, <2>2, <2>3
<1> QED
  BY <1>3, <1>4, <1>5

NoneShort(s, k) == \A j \in 1 .. k : ~ScanRefuses(s[j])

\* What the scan knows after k chunks.
Scanned(s, k, a) ==
  /\ a \in Scans
  /\ Len(a.ix.off) <= MaxIndexEntries /\ Sorted(a.ix.off, a.ix.est)
  /\ a.ix.off # <<>> => /\ a.ix.est > 0
                        /\ a.ix.off[Len(a.ix.off)].c < a.c /\ a.ix.off[Len(a.ix.off)].u <= a.u
  /\ a.ok <=> NoneShort(s, k)
  /\ a.ok => a.c = EndsOf(s)[k].c /\ a.u = EndsOf(s)[k].u
  /\ \A i \in 1 .. Len(a.ix.off) :
       \E j \in 1 .. k : s[j].kind = "data" /\ a.ix.off[i] = EndsOf(s)[j - 1]

LEMMA ScanKeeps ==
  ASSUME IndexAssumption, LifecycleAssumption,
         NEW s \in Seq(StreamChunks),
         \A k \in 1 .. Len(s) : IF s[k].kind = "data" THEN s[k].ulen \in 1 .. BlockSize
                                ELSE s[k].ulen = 0,
         NEW k \in Nat, k + 1 <= Len(s), NEW a, Scanned(s, k, a)
  PROVE  Scanned(s, k + 1, ScanStep(a, s[k + 1]))
<1> DEFINE e == s[k + 1]
           b == ScanStep(a, e)
           p == EndsOf(s)[k]
           q == EndsOf(s)[k + 1]
           total == a.c + HeaderLen + e.len
<1>1. /\ k + 1 \in 1 .. Len(s) /\ k \in 0 .. Len(s) /\ k + 1 - 1 = k /\ e \in StreamChunks
      /\ IF e.kind = "data" THEN e.ulen \in 1 .. BlockSize ELSE e.ulen = 0
  OBVIOUS
<1>2. /\ a \in Scans /\ a.ok \in BOOLEAN /\ a.c \in Nat /\ a.u \in Nat /\ a.ix \in Indexes
      /\ a.ix.est \in Nat /\ a.ix.off \in Seq(Pairs)
  BY DEF Scanned, Scans, Indexes
<1>3. p \in Pairs /\ q = Behind(p, e)
  BY <1>1, EndsAre
<1>4. /\ q.c = p.c + HeaderLen + e.len /\ q.u = p.u + e.ulen
      /\ e.len \in Nat /\ e.ulen \in Nat /\ p.c \in Nat /\ p.u \in Nat
  <2>1. e.len \in Nat /\ e.ulen \in Nat
    BY <1>1 DEF StreamChunks
  <2>2. p.c \in Nat /\ p.u \in Nat
    BY <1>3 DEF Pairs
  <2> HIDE DEF e, p, q
  <2> QED
    BY <1>1, <1>3, <2>1, <2>2, BehindIs
<1> HIDE DEF e, p, q
<1>5. \A x : (\E j \in 1 .. k : s[j].kind = "data" /\ x = EndsOf(s)[j - 1])
               => \E j \in 1 .. k + 1 : s[j].kind = "data" /\ x = EndsOf(s)[j - 1]
  <2>1. \A j \in 1 .. k : j \in 1 .. k + 1
    OBVIOUS
  <2> QED
    BY <2>1
<1>6. /\ Len(a.ix.off) <= MaxIndexEntries /\ Sorted(a.ix.off, a.ix.est)
      /\ a.ix.off # <<>> => /\ a.ix.est > 0
                            /\ a.ix.off[Len(a.ix.off)].c < a.c /\ a.ix.off[Len(a.ix.off)].u <= a.u
      /\ a.ok => a.c = p.c /\ a.u = p.u
      /\ \A i \in 1 .. Len(a.ix.off) :
           \E j \in 1 .. k : s[j].kind = "data" /\ a.ix.off[i] = EndsOf(s)[j - 1]
  BY DEF Scanned, p
<1>7. \A i \in 1 .. Len(a.ix.off) :
        \E j \in 1 .. k + 1 : s[j].kind = "data" /\ a.ix.off[i] = EndsOf(s)[j - 1]
  BY <1>5, <1>6
<1>8. b \in Scans /\ (a.ok <=> NoneShort(s, k))
      /\ (NoneShort(s, k + 1) <=> NoneShort(s, k) /\ ~ScanRefuses(e))
  <2>1. b \in Scans
    BY <1>1, <1>2, ScanStepIs
  <2>2. a.ok <=> NoneShort(s, k)
    BY DEF Scanned
  <2>3. \A j : j \in 1 .. k + 1 <=> j \in 1 .. k \/ j = k + 1
    OBVIOUS
  <2> QED
    BY <2>1, <2>2, <2>3 DEF NoneShort, e
<1>9. total \in Nat /\ a.c < total
  <2>1. \A c1, c2 \in Nat : c1 + HeaderLen + c2 \in Nat /\ c1 < c1 + HeaderLen + c2
    BY DEF HeaderLen
  <2>2. a.c \in Nat /\ e.len \in Nat
    BY <1>2, <1>4
  <2> QED
    BY <2>1, <2>2
<1> HIDE DEF b, total
\* The index as it was, with the place further on or the scan refused.
<1>10. ASSUME b.ix = a.ix, b.u = a.u, b.c = a.c \/ b.c = total,
              b.ok <=> NoneShort(s, k + 1), b.ok => b.c = q.c /\ b.u = q.u
       PROVE  Scanned(s, k + 1, b)
  <2>1. a.ix.off # <<>> => a.ix.off[Len(a.ix.off)].c < b.c
    <3> SUFFICES ASSUME a.ix.off # <<>> PROVE a.ix.off[Len(a.ix.off)].c < b.c
      OBVIOUS
    <3> DEFINE z == a.ix.off[Len(a.ix.off)]
    <3>1. Len(a.ix.off) \in 1 .. Len(a.ix.off)
      BY <1>2, PairsAt
    <3>2. z.c \in Nat /\ z.c < a.c
      BY <1>2, <1>6, <3>1, PairsAt
    <3> HIDE DEF z
    <3>3. z.c < b.c
      BY <1>2, <1>9, <1>10, <3>2
    <3> QED
      BY <3>3 DEF z
  <2>2. /\ Len(b.ix.off) <= MaxIndexEntries /\ Sorted(b.ix.off, b.ix.est)
        /\ b.ix.off # <<>> => /\ b.ix.est > 0
                              /\ b.ix.off[Len(b.ix.off)].c < b.c /\ b.ix.off[Len(b.ix.off)].u <= b.u
    BY <1>6, <1>10, <2>1
  <2>3. \A i \in 1 .. Len(b.ix.off) :
          \E j \in 1 .. k + 1 : s[j].kind = "data" /\ b.ix.off[i] = EndsOf(s)[j - 1]
    BY <1>7, <1>10
  <2> QED
    BY <1>8, <1>10, <2>2, <2>3 DEF Scanned, q
<1>11. CASE ~a.ok
  <2>1. b = a
    BY <1>1, <1>2, <1>11, ScanStepIs DEF b
  <2>2. ~b.ok /\ ~NoneShort(s, k + 1)
    BY <1>8, <1>11, <2>1
  <2> QED
    BY <1>10, <2>1, <2>2 DEF b, e
<1>12. CASE a.ok /\ ScanRefuses(e)
  <2>1. b = [ok |-> FALSE, c |-> a.c, u |-> a.u, ix |-> a.ix]
    BY <1>1, <1>2, <1>12, ScanStepIs DEF b
  <2>2. b.ix = a.ix /\ b.u = a.u /\ b.c = a.c /\ ~b.ok /\ ~NoneShort(s, k + 1)
    BY <1>8, <1>12, <2>1
  <2> QED
    BY <1>10, <2>2 DEF b, e
<1>13. CASE a.ok /\ ~ScanRefuses(e) /\ e.kind # "data"
  <2>1. b = [ok |-> TRUE, c |-> total, u |-> a.u, ix |-> a.ix]
    BY <1>1, <1>2, <1>13, ScanStepIs DEF b, total
  <2>2. b.ix = a.ix /\ b.u = a.u /\ b.c = total /\ b.ok /\ NoneShort(s, k + 1)
    BY <1>8, <1>13, <2>1
  <2>3. b.c = q.c /\ b.u = q.u
    <3>1. a.c = p.c /\ a.u = p.u /\ e.ulen = 0
      BY <1>1, <1>6, <1>13
    <3> QED
      BY <1>2, <1>4, <2>2, <3>1 DEF total
  <2> QED
    BY <1>10, <2>2, <2>3 DEF b, e
<1>14. CASE a.ok /\ ~ScanRefuses(e) /\ e.kind = "data"
  <2> DEFINE x == Seen(a, e)
             n == IF a.ix.est = 0 /\ e.kind = "data" THEN e.ulen ELSE a.ix.est
             y == Add(x, a.c, a.u)
  <2>1. b = [ok |-> ~AddFails(x, a.c, a.u), c |-> total, u |-> a.u + e.ulen, ix |-> y]
    BY <1>1, <1>2, <1>14, ScanStepIs DEF b, total
  <2>2. n \in Nat /\ n > 0 /\ (a.ix.off # <<>> => n = a.ix.est)
    <3>1. e.ulen > 0
      BY <1>1, <1>4, <1>14
    <3> QED
      BY <1>2, <1>4, <1>6, <1>14, <3>1
  <2>3. x \in Indexes /\ x.est = n /\ x.off = a.ix.off
    <3> HIDE DEF n
    <3>1. x = [a.ix EXCEPT !.est = n]
      BY DEF Seen, n
    <3> HIDE DEF x
    <3> QED
      BY <1>2, <2>2, <3>1, WithEst
  <2> HIDE DEF n, x
  <2>4. Sorted(x.off, x.est)
    <3>1. CASE a.ix.off = <<>>
      BY <2>3, <3>1 DEF Sorted
    <3>2. CASE a.ix.off # <<>>
      BY <1>6, <2>2, <2>3, <3>2
    <3> QED
      BY <3>1, <3>2
  <2>5. /\ x.est > 0 /\ Len(x.off) <= MaxIndexEntries
        /\ x.off # <<>> => x.off[Len(x.off)].c < a.c /\ x.off[Len(x.off)].u <= a.u
    BY <1>6, <2>2, <2>3
  <2>6. ~AddFails(x, a.c, a.u) /\ Added(x, a.c, a.u, 0, y)
    BY <1>2, <2>3, <2>4, <2>5, AddKeeps
  <2> HIDE DEF y
  <2>7. y.off[Len(y.off)].c <= a.c /\ y.off[Len(y.off)].u <= a.u
    BY <1>2, <2>3, <2>4, <2>5, <2>6, AddedLatest
  <2>8. /\ y \in Indexes /\ Len(y.off) <= MaxIndexEntries /\ y.off # <<>> /\ Sorted(y.off, y.est)
        /\ \A i \in 1 .. Len(y.off) :
             y.off[i] = Pair(a.c, a.u) \/ \E j \in 1 .. Len(x.off) : y.off[i] = x.off[j]
        /\ y.est = x.est \/ y.est = 2 * x.est
    BY <2>6 DEF Added
  <2>9. y.est > 0
    BY <2>2, <2>3, <2>8
  <2>10. b.ix = y /\ b.c = total /\ b.u = a.u + e.ulen /\ b.ok /\ NoneShort(s, k + 1)
    BY <1>8, <1>14, <2>1, <2>6
  <2>11. y.off[Len(y.off)].c < b.c /\ y.off[Len(y.off)].u <= b.u
    <3> DEFINE z == y.off[Len(y.off)]
    <3>1. Len(y.off) \in 1 .. Len(y.off) /\ y.off \in Seq(Pairs)
      BY <2>8, PairsAt DEF Indexes
    <3>2. z.c \in Nat /\ z.u \in Nat /\ z.c <= a.c /\ z.u <= a.u
      BY <2>7, <3>1, PairsAt
    <3> HIDE DEF z
    <3>3. z.c < total /\ z.u <= a.u + e.ulen
      <4>1. \A c1, c2, c3 \in Nat : (c1 <= c2 /\ c2 < c3 => c1 < c3) /\ (c1 <= c2 => c1 <= c2 + c3)
        OBVIOUS
      <4>2. a.c \in Nat /\ a.u \in Nat /\ total \in Nat /\ a.c < total /\ e.ulen \in Nat
        BY <1>2, <1>4, <1>9
      <4> QED
        BY <3>2, <4>1, <4>2
    <3> QED
      BY <2>10, <3>3 DEF z
  <2>12. a.c = p.c /\ a.u = p.u
    BY <1>6, <1>14
  <2>13. b.c = q.c /\ b.u = q.u
    BY <1>2, <1>4, <2>10, <2>12 DEF total
  <2>14. Pair(a.c, a.u) = EndsOf(s)[(k + 1) - 1] /\ s[k + 1].kind = "data"
    <3>1. Pair(a.c, a.u) = p
      BY <1>3, <2>12 DEF Pairs, Pair
    <3> QED
      BY <1>1, <1>14, <3>1 DEF p, e
  <2>15. \A i \in 1 .. Len(y.off) :
           \E j \in 1 .. k + 1 : s[j].kind = "data" /\ y.off[i] = EndsOf(s)[j - 1]
    <3> SUFFICES ASSUME NEW i \in 1 .. Len(y.off)
                 PROVE  \E j \in 1 .. k + 1 : s[j].kind = "data" /\ y.off[i] = EndsOf(s)[j - 1]
      OBVIOUS
    <3>1. CASE y.off[i] = Pair(a.c, a.u)
      <4>1. k + 1 \in 1 .. k + 1
        OBVIOUS
      <4> QED
        BY <2>14, <3>1, <4>1
    <3>2. CASE \E j \in 1 .. Len(x.off) : y.off[i] = x.off[j]
      BY <1>7, <2>3, <3>2
    <3> QED
      BY <2>8, <3>1, <3>2
  <2>16. Scanned(s, k + 1, b)
    BY <1>8, <2>8, <2>9, <2>10, <2>11, <2>13, <2>15 DEF Scanned, q
  <2> QED
    BY <2>16 DEF b, e
<1> QED
  BY <1>2, <1>11, <1>12, <1>13, <1>14

LEMMA ScanIs ==
  ASSUME IndexAssumption, LifecycleAssumption,
         NEW s \in Seq(StreamChunks),
         \A k \in 1 .. Len(s) : IF s[k].kind = "data" THEN s[k].ulen \in 1 .. BlockSize
                                ELSE s[k].ulen = 0
  PROVE  Scanned(s, Len(s), IndexStream(s))
<1> DEFINE f == ScanStates(s)
           T == {k \in Nat : k <= Len(s) => Scanned(s, k, f[k])}
<1>1. /\ Len(s) \in Nat /\ f[0] = ScanFirst /\ ScanFirst \in Scans
      /\ \A k \in 1 .. Len(s) : f[k] = ScanStep(f[k - 1], s[k])
  BY ScanStatesAre
<1> HIDE DEF f
<1>2. 0 \in T
  <2> DEFINE a == ScanFirst
  <2>1. /\ a.ix.off = <<>> /\ a.ix.est = 0 /\ a.c = 0 /\ a.u = 0 /\ Len(a.ix.off) = 0
    BY DEF ScanFirst, EmptyIndex
  <2>2. EndsOf(s)[0].c = 0 /\ EndsOf(s)[0].u = 0
    BY EndsAre DEF Pair
  <2>3. 0 <= MaxIndexEntries
    BY DEF IndexAssumption
  <2>5. a.ok /\ NoneShort(s, 0)
    BY DEF ScanFirst, NoneShort
  <2> HIDE DEF a
  <2>4. Scanned(s, 0, a)
    BY <1>1, <2>1, <2>2, <2>3, <2>5 DEF Scanned, Sorted, a
  <2> QED
    BY <1>1, <2>4 DEF a
<1>3. ASSUME NEW k \in Nat, k \in T PROVE k + 1 \in T
  <2> SUFFICES ASSUME k + 1 <= Len(s) PROVE Scanned(s, k + 1, f[k + 1])
    OBVIOUS
  <2>1. k + 1 \in 1 .. Len(s) /\ k + 1 - 1 = k /\ Scanned(s, k, f[k])
    BY <1>1, <1>3
  <2>2. f[k + 1] = ScanStep(f[k], s[k + 1])
    BY <1>1, <2>1
  <2> QED
    BY <2>1, <2>2, ScanKeeps
<1> HIDE DEF T
<1>4. Len(s) \in T
  BY <1>1, <1>2, <1>3, NatSet
<1> QED
  BY <1>1, <1>4 DEF T, IndexStream, f

\* IndexStream builds an index from every stream without a chunk shorter than a
\* checksum, finished or not; it starts at data chunks only and counts the bytes
\* the Writer counted.
THEOREM ScanSoundHolds == Spec => []ScanSound
<1>1. ASSUME LifeInv PROVE ScanSound
  <2> DEFINE s == IndexStream(chunks)
             end == EndsOf(chunks)
  <2>1. /\ chunks \in Seq(StreamChunks) /\ pos = end[Len(chunks)]
        /\ \A k \in 1 .. Len(chunks) : IF chunks[k].kind = "data" THEN chunks[k].ulen \in 1 .. BlockSize
                                       ELSE chunks[k].ulen = 0
    BY <1>1 DEF LifeInv, Placed
  <2>2. Scanned(chunks, Len(chunks), s)
    BY <2>1, ScanIs, IndexAssumption, LifecycleAssumption
  <2>3. DataStarts = {end[k - 1] : k \in {j \in 1 .. Len(chunks) : chunks[j].kind = "data"}}
    <3>1. DOMAIN chunks = 1 .. Len(chunks)
      BY <2>1
    <3> QED
      BY <3>1 DEF DataStarts
  <2> HIDE DEF s
  <2>4. DOMAIN s.ix.off = 1 .. Len(s.ix.off)
    <3>1. s.ix.off \in Seq(Pairs)
      BY <2>2 DEF Scanned, Scans, Indexes
    <3> QED
      BY <3>1
  <2>5. ASSUME NEW i \in 1 .. Len(s.ix.off) PROVE s.ix.off[i] \in DataStarts
    <3>1. PICK j \in 1 .. Len(chunks) : chunks[j].kind = "data" /\ s.ix.off[i] = end[j - 1]
      BY <2>2 DEF Scanned
    <3> HIDE DEF end
    <3> QED
      BY <2>3, <3>1
  <2>6. s.ok => s.c = pos.c /\ s.u = pos.u
    BY <2>1, <2>2 DEF Scanned
  <2>7. s.ok <=> \A k \in DOMAIN chunks : ~ScanRefuses(chunks[k])
    BY <2>1, <2>2 DEF Scanned, NoneShort
  <2> QED
    BY <2>4, <2>5, <2>6, <2>7 DEF ScanSound, s
<1> QED
  BY <1>1, LifeHolds, PTL

-----------------------------------------------------------------------------
(* The stored form                                                         *)

LEMMA HalfIs == ASSUME NEW n \in Int PROVE Half(n) \in Int
BY DEF Half

\* Before each entry the prediction is a number, made from the one before.
LEMMA PredictIs ==
  ASSUME NEW x \in Indexes
  PROVE  \A k \in 0 .. Len(x.off) :
           /\ Predict(x)[k] \in Int
           /\ Predict(x)[k] = IF k <= 1 THEN Half(x.est)
                              ELSE Predict(x)[k - 1]
                                   + Half(x.off[k].c - x.off[k - 1].c - Predict(x)[k - 1])
<1> DEFINE L == Len(x.off)
           first == Half(x.est)
           Next1(k, a) == IF k <= 1 THEN first ELSE a + Half(x.off[k].c - x.off[k - 1].c - a)
           step == [k \in 1 .. L |-> [a \in Int |-> Next1(k, a)]]
<1>1. x.off \in Seq(Pairs) /\ x.est \in Nat /\ L \in Nat
  BY PairsAt DEF Indexes
<1>2. first \in Int
  BY <1>1, HalfIs
<1>3. ASSUME NEW k \in 1 .. L, NEW a \in Int PROVE Next1(k, a) \in Int
  <2>1. CASE k <= 1
    BY <1>2, <2>1
  <2>2. CASE ~(k <= 1)
    <3> DEFINE d == x.off[k].c - x.off[k - 1].c - a
    <3>1. k - 1 \in 1 .. L
      BY <1>1, <2>2
    <3>2. x.off[k].c \in Nat /\ x.off[k - 1].c \in Nat
      BY <1>1, <3>1, PairsAt
    <3>3. d \in Int
      BY <3>2
    <3> HIDE DEF d
    <3>4. a + Half(d) \in Int
      BY <3>3, HalfIs
    <3> QED
      BY <2>2, <3>4 DEF d
  <2> QED
    BY <2>1, <2>2
<1> HIDE DEF Next1, first, L
<1>4. step \in [1 .. L -> [Int -> Int]]
  BY <1>3
<1> HIDE DEF step
<1>5. PICK g \in [0 .. L -> Int] : g[0] = first /\ \A k \in 1 .. L : g[k] = step[k][g[k - 1]]
  <2>1. Recursive(L, Int, first, step)
    BY <1>1, <1>2, <1>4, Recursion
  <2> QED
    BY <2>1 DEF Recursive
<1>6. g = [k \in 0 .. L |-> IF k <= 1 THEN first
                            ELSE g[k - 1] + Half(x.off[k].c - x.off[k - 1].c - g[k - 1])]
  <2>1. ASSUME NEW k \in 0 .. L
        PROVE  g[k] = IF k <= 1 THEN first
                      ELSE g[k - 1] + Half(x.off[k].c - x.off[k - 1].c - g[k - 1])
    <3>1. CASE k = 0
      BY <1>5, <3>1
    <3>2. CASE k # 0
      <4>1. k \in 1 .. L /\ k - 1 \in 0 .. L /\ g[k - 1] \in Int
        BY <1>1, <3>2
      <4>2. g[k] = Next1(k, g[k - 1])
        BY <1>5, <4>1 DEF step
      <4> QED
        BY <4>2 DEF Next1
    <3> QED
      BY <3>1, <3>2
  <2> QED
    BY <2>1
<1> DEFINE f == CHOOSE f : f = [k \in 0 .. L |->
                  IF k <= 1 THEN first ELSE f[k - 1] + Half(x.off[k].c - x.off[k - 1].c - f[k - 1])]
<1>7. f = [k \in 0 .. L |->
             IF k <= 1 THEN first ELSE f[k - 1] + Half(x.off[k].c - x.off[k - 1].c - f[k - 1])]
  BY <1>6
<1>8. Predict(x) = f
  BY DEF Predict, L, first
<1> HIDE DEF f
<1>9. \A k \in 0 .. L : f[k] = IF k <= 1 THEN first
                               ELSE f[k - 1] + Half(x.off[k].c - x.off[k - 1].c - f[k - 1])
  BY <1>7
<1> DEFINE T == {k \in Nat : k <= L => f[k] \in Int}
<1>10. 0 \in T
  BY <1>1, <1>2, <1>9
<1>11. ASSUME NEW k \in Nat, k \in T PROVE k + 1 \in T
  <2> SUFFICES ASSUME k + 1 <= L PROVE f[k + 1] \in Int
    OBVIOUS
  <2>1. k + 1 \in 0 .. L /\ k + 1 \in 1 .. L /\ k + 1 - 1 = k /\ f[k] \in Int
    BY <1>1, <1>11
  <2>2. f[k + 1] = Next1(k + 1, f[k])
    BY <1>9, <2>1 DEF Next1
  <2> QED
    BY <1>3, <2>1, <2>2
<1> HIDE DEF T
<1>12. Nat \subseteq T
  BY <1>10, <1>11, NatSet
<1>13. \A k \in 0 .. L : f[k] \in Int
  BY <1>1, <1>12 DEF T
<1> QED
  BY <1>8, <1>9, <1>13 DEF first, L

\* A function on 1 .. n or on 0 .. n is given by its first value and a step.
Same(lo, n, f, g) == \A k \in lo .. n : f[k] = g[k]

LEMMA SameFrom ==
  ASSUME NEW n \in Nat, NEW lo \in {0, 1}, NEW f, NEW g,
         lo <= n => f[lo] = g[lo],
         \A k \in lo .. n : k > lo /\ f[k - 1] = g[k - 1] => f[k] = g[k]
  PROVE  Same(lo, n, f, g)
<1> DEFINE T == {k \in Nat : k \in lo .. n => f[k] = g[k]}
<1>1. 0 \in T
  <2>1. 0 \in lo .. n => lo = 0
    OBVIOUS
  <2> QED
    BY <2>1
<1>2. ASSUME NEW k \in Nat, k \in T PROVE k + 1 \in T
  <2> SUFFICES ASSUME k + 1 \in lo .. n PROVE f[k + 1] = g[k + 1]
    OBVIOUS
  <2>1. CASE k + 1 = lo
    BY <2>1
  <2>2. CASE k + 1 # lo
    <3>1. k \in lo .. n /\ k + 1 > lo /\ k + 1 - 1 = k /\ f[k] = g[k]
      BY <1>2, <2>2
    <3> QED
      BY <3>1
  <2> QED
    BY <2>1, <2>2
<1> HIDE DEF T
<1>3. Nat \subseteq T
  BY <1>1, <1>2, NatSet
<1>4. \A k \in lo .. n : k \in Nat
  OBVIOUS
<1> QED
  BY <1>3, <1>4 DEF T, Same

LEMMA StoredIs ==
  ASSUME NEW x \in Indexes
  PROVE  LET b == AppendTo(x)
         IN  /\ b.est = x.est /\ b.n = Len(x.off) /\ b.hasU = HasUncompressed(x)
             /\ DOMAIN x.off = 1 .. Len(x.off)
             /\ \A k \in 1 .. Len(x.off) :
                  /\ b.hasU => b.us[k] = x.off[k].u - IF k = 1 THEN 0 ELSE x.off[k - 1].u + x.est
                  /\ b.cs[k] = IF k = 1 THEN x.off[k].c
                               ELSE x.off[k].c - x.off[k - 1].c - Predict(x)[k - 1]
<1> DEFINE b == AppendTo(x)
<1>1. DOMAIN x.off = 1 .. Len(x.off)
  <2>1. x.off \in Seq(Pairs)
    BY DEF Indexes
  <2> QED
    BY <2>1
<1>2. /\ b.est = x.est /\ b.n = Len(x.off) /\ b.hasU = HasUncompressed(x)
      /\ b.us = IF HasUncompressed(x)
                THEN [k \in DOMAIN x.off |-> x.off[k].u - IF k = 1 THEN 0 ELSE x.off[k - 1].u + x.est]
                ELSE <<>>
      /\ b.cs = [k \in DOMAIN x.off |->
                   IF k = 1 THEN x.off[k].c
                   ELSE x.off[k].c - x.off[k - 1].c - Predict(x)[k - 1]]
  BY DEF AppendTo
<1> HIDE DEF b
<1>3. \A k \in 1 .. Len(x.off) : b.hasU =>
        b.us[k] = x.off[k].u - IF k = 1 THEN 0 ELSE x.off[k - 1].u + x.est
  BY <1>1, <1>2
<1>4. \A k \in 1 .. Len(x.off) :
        b.cs[k] = IF k = 1 THEN x.off[k].c ELSE x.off[k].c - x.off[k - 1].c - Predict(x)[k - 1]
  BY <1>1, <1>2
<1> QED
  BY <1>1, <1>2, <1>3, <1>4 DEF b

\* The uncompressed offsets come back, whether they were stored or left out.
LEMMA LoadUIs ==
  ASSUME NEW x \in Indexes
  PROVE  \A k \in 1 .. Len(x.off) : LoadU(AppendTo(x))[k] = x.off[k].u
<1> DEFINE L == Len(x.off)
           b == AppendTo(x)
           Delta(k) == IF b.hasU THEN b.us[k] ELSE 0
           g == [k \in 1 .. L |-> x.off[k].u]
<1>1. x.off \in Seq(Pairs) /\ x.est \in Nat /\ L \in Nat
  BY PairsAt DEF Indexes
<1>2. /\ b.est = x.est /\ b.n = L /\ b.hasU = HasUncompressed(x) /\ DOMAIN x.off = 1 .. L
      /\ \A k \in 1 .. L : b.hasU => b.us[k] = x.off[k].u - IF k = 1 THEN 0 ELSE x.off[k - 1].u + x.est
  BY StoredIs
<1> HIDE DEF b
<1>3. ASSUME NEW k \in 1 .. L
      PROVE  x.off[k].u = IF k = 1 THEN Delta(1) ELSE Delta(k) + x.off[k - 1].u + b.est
  <2>1. x.off[k].u \in Nat /\ (k # 1 => k - 1 \in 1 .. L /\ x.off[k - 1].u \in Nat)
    <3>1. k # 1 => k - 1 \in 1 .. L
      BY <1>1
    <3> QED
      BY <1>1, <3>1, PairsAt
  <2>2. b.hasU => Delta(k) = x.off[k].u - IF k = 1 THEN 0 ELSE x.off[k - 1].u + x.est
    BY <1>2
  <2>3. ~b.hasU => Delta(k) = 0 /\ x.off[k].u = IF k = 1 THEN 0 ELSE x.off[k - 1].u + x.est
    BY <1>2 DEF HasUncompressed
  <2>4. CASE k = 1
    <3>1. Delta(1) = Delta(k)
      BY <2>4
    <3> HIDE DEF Delta
    <3> QED
      BY <2>1, <2>2, <2>3, <2>4, <3>1
  <2>5. CASE k # 1
    <3> HIDE DEF Delta
    <3> DEFINE p == x.off[k].u
               q == x.off[k - 1].u
    <3>1. p \in Nat /\ q \in Nat /\ b.est = x.est
      BY <1>2, <2>1, <2>5
    <3>2. b.hasU => Delta(k) = p - (q + x.est)
      BY <2>2, <2>5
    <3>3. ~b.hasU => Delta(k) = 0 /\ p = q + x.est
      BY <2>3, <2>5
    <3> HIDE DEF p, q
    <3>4. p = Delta(k) + q + b.est
      BY <1>1, <3>1, <3>2, <3>3
    <3> QED
      BY <2>5, <3>4 DEF p, q
  <2> QED
    BY <2>4, <2>5
<1>4. g = [k \in 1 .. b.n |-> IF k = 1 THEN Delta(1) ELSE Delta(k) + g[k - 1] + b.est]
  <2>1. ASSUME NEW k \in 1 .. L
        PROVE  g[k] = IF k = 1 THEN Delta(1) ELSE Delta(k) + g[k - 1] + b.est
    <3>1. k # 1 => k - 1 \in 1 .. L
      BY <1>1
    <3>2. g[k] = x.off[k].u /\ (k # 1 => g[k - 1] = x.off[k - 1].u)
      BY <3>1
    <3> HIDE DEF g, Delta
    <3> QED
      BY <1>3, <3>2
  <2> HIDE DEF Delta
  <2> QED
    BY <1>2, <2>1, ZenonT(30)
<1> DEFINE f == CHOOSE f : f = [k \in 1 .. b.n |->
                                  IF k = 1 THEN Delta(1) ELSE Delta(k) + f[k - 1] + b.est]
<1>5. LoadU(b) = f
  BY DEF LoadU
<1> HIDE DEF g, Delta
<1>6. f = [k \in 1 .. b.n |-> IF k = 1 THEN Delta(1) ELSE Delta(k) + f[k - 1] + b.est]
  BY <1>4
<1> HIDE DEF f
<1>7. \A k \in 1 .. L : /\ f[k] = IF k = 1 THEN Delta(1) ELSE Delta(k) + f[k - 1] + b.est
                        /\ g[k] = IF k = 1 THEN Delta(1) ELSE Delta(k) + g[k - 1] + b.est
  BY <1>2, <1>4, <1>6
<1>8. 1 <= L => f[1] = g[1]
  <2>1. 1 <= L => 1 \in 1 .. L
    BY <1>1
  <2> QED
    BY <1>7, <2>1
<1>9. \A k \in 1 .. L : k > 1 /\ f[k - 1] = g[k - 1] => f[k] = g[k]
  <2> SUFFICES ASSUME NEW k \in 1 .. L, k > 1, f[k - 1] = g[k - 1] PROVE f[k] = g[k]
    OBVIOUS
  <2>1. k # 1
    OBVIOUS
  <2> QED
    BY <1>7, <2>1
<1>10. \A k \in 1 .. L : f[k] = g[k]
  <2> HIDE DEF L
  <2>1. Same(1, L, f, g)
    BY <1>1, <1>8, <1>9, SameFrom
  <2> QED
    BY <2>1 DEF Same
<1> QED
  BY <1>5, <1>10 DEF g, b

\* The prediction Load makes is the one appendTo made.
LEMMA LoadPredictIs ==
  ASSUME NEW x \in Indexes
  PROVE  \A k \in 0 .. Len(x.off) : LoadPredict(AppendTo(x))[k] = Predict(x)[k]
<1> DEFINE L == Len(x.off)
           b == AppendTo(x)
           p == Predict(x)
           g == [k \in 0 .. L |-> p[k]]
<1>1. L \in Nat
  BY PairsAt DEF Indexes
<1>2. /\ b.est = x.est /\ b.n = L
      /\ \A k \in 1 .. L : b.cs[k] = IF k = 1 THEN x.off[k].c
                                     ELSE x.off[k].c - x.off[k - 1].c - p[k - 1]
  BY StoredIs
<1>3. \A k \in 0 .. L : p[k] = IF k <= 1 THEN Half(x.est)
                               ELSE p[k - 1] + Half(x.off[k].c - x.off[k - 1].c - p[k - 1])
  BY PredictIs
<1> HIDE DEF b, p
<1>4. ASSUME NEW k \in 0 .. L
      PROVE  g[k] = IF k <= 1 THEN Half(b.est) ELSE g[k - 1] + Half(b.cs[k])
  <2>1. CASE k <= 1
    BY <1>2, <1>3, <2>1
  <2>2. CASE ~(k <= 1)
    <3>1. k \in 1 .. L /\ k - 1 \in 0 .. L /\ k # 1
      BY <1>1, <2>2
    <3>2. g[k] = p[k] /\ g[k - 1] = p[k - 1]
      BY <3>1
    <3>3. b.cs[k] = x.off[k].c - x.off[k - 1].c - p[k - 1]
      BY <1>2, <3>1
    <3> HIDE DEF g
    <3> QED
      BY <1>3, <2>2, <3>2, <3>3
  <2> QED
    BY <2>1, <2>2
<1>5. g = [k \in 0 .. b.n |-> IF k <= 1 THEN Half(b.est) ELSE g[k - 1] + Half(b.cs[k])]
  BY <1>2, <1>4
<1> DEFINE f == CHOOSE f : f = [k \in 0 .. b.n |->
                                  IF k <= 1 THEN Half(b.est) ELSE f[k - 1] + Half(b.cs[k])]
<1>6. LoadPredict(b) = f
  BY DEF LoadPredict
<1> HIDE DEF g
<1>7. f = [k \in 0 .. b.n |-> IF k <= 1 THEN Half(b.est) ELSE f[k - 1] + Half(b.cs[k])]
  BY <1>5
<1> HIDE DEF f
<1>8. \A k \in 0 .. L : f[k] = IF k <= 1 THEN Half(b.est) ELSE f[k - 1] + Half(b.cs[k])
  BY <1>2, <1>7
<1>9. 0 <= L => f[0] = g[0]
  <2>1. 0 \in 0 .. L
    BY <1>1
  <2> QED
    BY <1>4, <1>8, <2>1
<1>10. \A k \in 0 .. L : k > 0 /\ f[k - 1] = g[k - 1] => f[k] = g[k]
  BY <1>4, <1>8
<1>11. \A k \in 0 .. L : f[k] = g[k]
  <2> HIDE DEF L
  <2>1. Same(0, L, f, g)
    BY <1>1, <1>9, <1>10, SameFrom
  <2> QED
    BY <2>1 DEF Same
<1> QED
  BY <1>6, <1>11 DEF g, b, p

LEMMA LoadCIs ==
  ASSUME NEW x \in Indexes
  PROVE  \A k \in 1 .. Len(x.off) : LoadC(AppendTo(x))[k] = x.off[k].c
<1> DEFINE L == Len(x.off)
           b == AppendTo(x)
           p == Predict(x)
           lp == LoadPredict(b)
           g == [k \in 1 .. L |-> x.off[k].c]
<1>1. x.off \in Seq(Pairs) /\ L \in Nat
  BY PairsAt DEF Indexes
<1>2. /\ b.n = L
      /\ \A k \in 1 .. L : b.cs[k] = IF k = 1 THEN x.off[k].c
                                     ELSE x.off[k].c - x.off[k - 1].c - p[k - 1]
  BY StoredIs
<1>3. \A k \in 0 .. L : p[k] \in Int /\ lp[k] = p[k]
  BY PredictIs, LoadPredictIs
<1> HIDE DEF b, p, lp
<1>4. ASSUME NEW k \in 1 .. L
      PROVE  g[k] = IF k = 1 THEN b.cs[1] ELSE b.cs[k] + g[k - 1] + lp[k - 1]
  <2>1. CASE k = 1
    BY <1>2, <2>1
  <2>2. CASE k # 1
    <3>1. k - 1 \in 1 .. L /\ k - 1 \in 0 .. L
      BY <1>1, <2>2
    <3> DEFINE c1 == x.off[k].c
               c2 == x.off[k - 1].c
               p1 == p[k - 1]
    <3>2. g[k] = c1 /\ g[k - 1] = c2 /\ b.cs[k] = c1 - c2 - p1 /\ lp[k - 1] = p1
      BY <1>2, <1>3, <2>2, <3>1
    <3>3. c1 \in Nat /\ c2 \in Nat /\ p1 \in Int
      BY <1>1, <1>3, <3>1, PairsAt
    <3> HIDE DEF g, c1, c2, p1
    <3>4. c1 = (c1 - c2 - p1) + c2 + p1
      BY <3>3
    <3>5. g[k] = b.cs[k] + g[k - 1] + lp[k - 1]
      BY <3>2, <3>4
    <3> QED
      BY <2>2, <3>5
  <2> QED
    BY <2>1, <2>2
<1>5. g = [k \in 1 .. b.n |-> IF k = 1 THEN b.cs[1] ELSE b.cs[k] + g[k - 1] + lp[k - 1]]
  BY <1>2, <1>4
<1> DEFINE f == CHOOSE f : f = [k \in 1 .. b.n |->
                                  IF k = 1 THEN b.cs[1] ELSE b.cs[k] + f[k - 1] + lp[k - 1]]
<1>6. LoadC(b) = f
  BY DEF LoadC, lp
<1> HIDE DEF g
<1>7. f = [k \in 1 .. b.n |-> IF k = 1 THEN b.cs[1] ELSE b.cs[k] + f[k - 1] + lp[k - 1]]
  BY <1>5
<1> HIDE DEF f
<1>8. \A k \in 1 .. L : f[k] = IF k = 1 THEN b.cs[1] ELSE b.cs[k] + f[k - 1] + lp[k - 1]
  BY <1>2, <1>7
<1>9. 1 <= L => f[1] = g[1]
  <2>1. 1 <= L => 1 \in 1 .. L
    BY <1>1
  <2> QED
    BY <1>4, <1>8, <2>1
<1>10. \A k \in 1 .. L : k > 1 /\ f[k - 1] = g[k - 1] => f[k] = g[k]
  <2> SUFFICES ASSUME NEW k \in 1 .. L, k > 1, f[k - 1] = g[k - 1] PROVE f[k] = g[k]
    OBVIOUS
  <2>1. k # 1
    OBVIOUS
  <2> QED
    BY <1>4, <1>8, <2>1
<1>11. \A k \in 1 .. L : f[k] = g[k]
  <2> HIDE DEF L
  <2>1. Same(1, L, f, g)
    BY <1>1, <1>9, <1>10, SameFrom
  <2> QED
    BY <2>1 DEF Same
<1> QED
  BY <1>6, <1>11 DEF g, b

\* An index in order is what Load makes of what appendTo wrote.
LEMMA StoredLoads ==
  ASSUME NEW x \in Indexes, Len(x.off) <= MaxIndexEntries, Sorted(x.off, 1)
  PROVE  LoadAccepts(AppendTo(x)) /\ Load(AppendTo(x)) = x
<1> DEFINE L == Len(x.off)
           b == AppendTo(x)
           lu == LoadU(b)
           lc == LoadC(b)
<1>1. x.off \in Seq(Pairs) /\ x.est \in Nat /\ L \in Nat /\ x = [est |-> x.est, off |-> x.off]
  BY PairsAt DEF Indexes
<1>2. b.est = x.est /\ b.n = L
  BY StoredIs
<1>3. \A k \in 1 .. L : lu[k] = x.off[k].u /\ lc[k] = x.off[k].c
  BY LoadUIs, LoadCIs
<1> HIDE DEF b, lu, lc
<1>4. ASSUME NEW k \in 1 .. L
      PROVE  /\ lu[k] >= 0 /\ lc[k] >= 0
             /\ k > 1 => lu[k] > lu[k - 1] /\ lc[k] > lc[k - 1]
  <2>1. x.off[k].u \in Nat /\ x.off[k].c \in Nat
    BY <1>1, PairsAt
  <2>2. ASSUME k > 1 PROVE lu[k] > lu[k - 1] /\ lc[k] > lc[k - 1]
    <3>1. k - 1 \in 1 .. L /\ k - 1 < k
      BY <1>1, <2>2
    <3>2. x.off[k - 1].c < x.off[k].c /\ x.off[k - 1].u + 1 <= x.off[k].u
      BY <3>1 DEF Sorted
    <3>3. x.off[k - 1].c \in Nat /\ x.off[k - 1].u \in Nat
      BY <1>1, <3>1, PairsAt
    <3>4. lu[k] = x.off[k].u /\ lc[k] = x.off[k].c /\ lu[k - 1] = x.off[k - 1].u /\ lc[k - 1] = x.off[k - 1].c
      BY <1>3, <3>1
    <3> QED
      BY <2>1, <3>2, <3>3, <3>4
  <2> QED
    BY <1>3, <2>1, <2>2
<1>5. LoadAccepts(b)
  <2>1. \A f \in {lu, lc} : \A k \in 1 .. b.n : f[k] >= 0 /\ (k > 1 => f[k] > f[k - 1])
    BY <1>2, <1>4
  <2> QED
    BY <1>1, <1>2, <2>1 DEF LoadAccepts, lu, lc
<1>6. [k \in 1 .. b.n |-> Pair(lc[k], lu[k])] = x.off
  <2>1. ASSUME NEW k \in 1 .. L PROVE Pair(lc[k], lu[k]) = x.off[k]
    <3>1. x.off[k] \in Pairs
      BY <1>1, PairsAt
    <3>2. x.off[k] = [c |-> x.off[k].c, u |-> x.off[k].u]
      BY <3>1 DEF Pairs
    <3> QED
      BY <1>3, <3>2 DEF Pair
  <2>2. x.off = [k \in 1 .. L |-> x.off[k]]
    BY <1>1
  <2> QED
    BY <1>2, <2>1, <2>2
<1>7. Load(b) = [est |-> b.est, off |-> [k \in 1 .. b.n |-> Pair(lc[k], lu[k])]]
  BY DEF Load, lu, lc
<1> QED
  BY <1>1, <1>2, <1>5, <1>6, <1>7 DEF b

\* What is stored is what is loaded: of the Writer's index at any time and of
\* one IndexStream has built, whichever prediction the offsets lead to and
\* whether or not the uncompressed offsets are left out.
THEOREM StoredIndexLoadsHolds == Spec => []StoredIndexLoads
<1>1. ASSUME NEW x \in Indexes, x.off # <<>> => x.est > 0, Len(x.off) <= MaxIndexEntries,
             NEW est \in Nat, est > 0 \/ x.off = <<>>, Sorted(x.off, est)
      PROVE  LoadAccepts(AppendTo(Reduce(x))) /\ Load(AppendTo(Reduce(x))) = Reduce(x)
  <2>1. Sorted(x.off, 1)
    <3>1. CASE x.off = <<>>
      BY <3>1 DEF Sorted
    <3>2. CASE est > 0
      <4> SUFFICES ASSUME NEW j \in 1 .. Len(x.off), NEW k \in 1 .. Len(x.off), j < k
                   PROVE  x.off[j].c < x.off[k].c /\ x.off[j].u + 1 <= x.off[k].u
        BY DEF Sorted
      <4>1. x.off[j].c < x.off[k].c /\ x.off[j].u + est <= x.off[k].u
        BY <1>1 DEF Sorted
      <4>2. x.off[j].u \in Nat /\ x.off[k].u \in Nat
        BY PairsAt DEF Indexes
      <4> QED
        BY <3>2, <4>1, <4>2
    <3> QED
      BY <1>1, <3>1, <3>2
  <2> DEFINE y == Reduce(x)
  <2>2. y \in Indexes /\ Len(y.off) <= Len(x.off) /\ Sorted(y.off, 1)
    <3>1. 0 \in Nat
      OBVIOUS
    <3> QED
      BY <1>1, <2>1, <3>1, ReduceKeeps, IndexAssumption
  <2>3. Len(y.off) <= MaxIndexEntries
    <3>1. Len(y.off) \in Nat /\ Len(x.off) \in Nat /\ MaxIndexEntries \in Nat
      BY <2>2, PairsAt, IndexAssumption DEF Indexes, IndexAssumption
    <3> HIDE DEF y
    <3> QED
      BY <1>1, <2>2, <3>1
  <2> HIDE DEF y
  <2>4. LoadAccepts(AppendTo(y)) /\ Load(AppendTo(y)) = y
    BY <2>2, <2>3, StoredLoads
  <2> QED
    BY <2>4 DEF y
<1>2. ASSUME LifeInv PROVE StoredIndexLoads
  <2> SUFFICES ASSUME NEW x \in {ix, IndexStream(chunks).ix}
               PROVE  LoadAccepts(AppendTo(Reduce(x))) /\ Load(AppendTo(Reduce(x))) = Reduce(x)
    BY DEF StoredIndexLoads
  <2>1. CASE x = ix
    <3> DEFINE est == IF ended THEN 1 ELSE ix.est
    <3>1. /\ ix \in Indexes /\ BlockSize <= ix.est /\ Len(ix.off) <= MaxIndexEntries
          /\ Sorted(ix.off, est)
      BY <1>2 DEF LifeInv, Placed
    <3>2. ix.est \in Nat /\ ix.est > 0
      BY <3>1, LifecycleAssumption DEF LifecycleAssumption, Indexes
    <3>3. est \in Nat /\ est > 0
      BY <3>2
    <3> HIDE DEF est
    <3> QED
      BY <1>1, <2>1, <3>1, <3>2, <3>3
  <2>2. CASE x = IndexStream(chunks).ix
    <3>1. Scanned(chunks, Len(chunks), IndexStream(chunks))
      BY <1>2, ScanIs, IndexAssumption, LifecycleAssumption DEF LifeInv, Placed
    <3>2. /\ x \in Indexes /\ Len(x.off) <= MaxIndexEntries /\ Sorted(x.off, x.est)
          /\ x.off # <<>> => x.est > 0
      BY <2>2, <3>1 DEF Scanned, Scans
    <3>3. x.est \in Nat
      BY <3>2 DEF Indexes
    <3> QED
      BY <1>1, <3>2, <3>3
  <2> QED
    BY <2>1, <2>2
<1> QED
  BY <1>2, LifeHolds, PTL

=============================================================================
