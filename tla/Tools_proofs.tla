---------------------------- MODULE Tools_proofs ----------------------------
(***************************************************************************)
(* Theorems about the selection of a panel and the operations on what is   *)
(* selected, for any number of entries, acts and operations; about the     *)
(* stores on disk, for any number of profiles, commands and stops; and     *)
(* about the terminal profiles and the page that shows them, for any       *)
(* number of calls.                                                        *)
(***************************************************************************)
EXTENDS MCTools, SequenceTheorems, FiniteSetTheorems, WellFoundedInduction, TLAPS

-----------------------------------------------------------------------------
(* Sequences and the sets of what is in them.                              *)

Smaller == {ss \in Nat \X Nat : ss[1] < ss[2]}

\* A set of numbers that is not empty has a least one.
LEMMA LeastNumber ==
    ASSUME NEW T, T \subseteq Nat, T # {}
    PROVE  \E x \in T : \A y \in T : x <= y
<1>1. IsWellFoundedOn(Smaller, Nat)
  <2>1. OpToRel(<, Nat) = Smaller
    BY Zenon DEF OpToRel, Smaller
  <2> QED BY <2>1, NatLessThanWellFounded
<1>2. PICK x \in T : \A y \in T : ~(<<y, x>> \in Smaller)
  BY <1>1, WFMin
<1>3. ASSUME NEW y \in T PROVE x <= y
  <2>1. x \in Nat /\ y \in Nat /\ <<y, x>> \notin Smaller
    BY <1>2
  <2>2. ~(y < x)
    BY <2>1 DEF Smaller
  <2> QED BY <2>1, <2>2
<1> QED BY <1>3

\* A set that 0 is in, and every number whose predecessor is in it, is all there is up to n.
LEMMA AllUpTo ==
    ASSUME NEW n \in Nat, NEW T, 0 \in T, \A k \in 1 .. n : k - 1 \in T => k \in T
    PROVE  0 .. n \subseteq T
<1> DEFINE U == (0 .. n) \ T
<1> SUFFICES ASSUME U # {} PROVE FALSE
  OBVIOUS
<1>1. U \subseteq Nat
  OBVIOUS
<1>2. PICK k \in U : \A j \in U : k <= j
  <2> HIDE DEF U
  <2> QED BY <1>1, LeastNumber
<1>3. k \in 1 .. n /\ k \notin T
  BY <1>2
<1>4. k - 1 \notin U
  BY <1>2, <1>3
<1>5. k - 1 \in T
  BY <1>3, <1>4
<1> QED BY <1>3, <1>5

\* f is what there is of s in S up to each place, up to n.
Picked(f, s, S, n) ==
    f = [k \in 0 .. n |-> IF k = 0 THEN <<>>
                          ELSE IF s[k] \in S THEN Append(f[k - 1], s[k]) ELSE f[k - 1]]

\* The recursive definition of Among has a solution.
LEMMA AmongIs ==
    ASSUME NEW s, Len(s) \in Nat, NEW S
    PROVE  \E f : Picked(f, s, S, Len(s)) /\ Among(s, S) = f[Len(s)]
<1> DEFINE T == {n \in Nat : \E f : Picked(f, s, S, n)}
<1>1. 0 \in T
  <2>1. Picked([k \in 0 .. 0 |-> <<>>], s, S, 0)
    BY DEF Picked
  <2> QED BY <2>1
<1>2. ASSUME NEW n \in 1 .. Len(s), n - 1 \in T PROVE n \in T
  <2>0. n \in Nat /\ n - 1 \in Nat /\ n # 0
    OBVIOUS
  <2>1. PICK f : Picked(f, s, S, n - 1)
    BY <1>2
  <2> DEFINE last == IF s[n] \in S THEN Append(f[n - 1], s[n]) ELSE f[n - 1]
             g == [k \in 0 .. n |-> IF k = n THEN last ELSE f[k]]
  <2>2. ASSUME NEW k \in 0 .. n
        PROVE  g[k] = IF k = 0 THEN <<>>
                      ELSE IF s[k] \in S THEN Append(g[k - 1], s[k]) ELSE g[k - 1]
    <3>1. CASE k = n
      <4>1. g[n] = last /\ g[n - 1] = f[n - 1]
        BY <2>0
      <4> QED BY <3>1, <4>1, <2>0
    <3>2. CASE k # n
      <4>1. k \in 0 .. n - 1 /\ g[k] = f[k]
        BY <3>2, <2>0
      <4>2. f[k] = IF k = 0 THEN <<>>
                   ELSE IF s[k] \in S THEN Append(f[k - 1], s[k]) ELSE f[k - 1]
        BY <4>1, <2>1 DEF Picked
      <4>3. k # 0 => g[k - 1] = f[k - 1]
        BY <4>1, <2>0
      <4> HIDE DEF g
      <4> QED BY <4>1, <4>2, <4>3
    <3> QED BY <3>1, <3>2
  <2>3. Picked(g, s, S, n)
    <3>1. g = [k \in 0 .. n |-> g[k]]
      OBVIOUS
    <3> HIDE DEF g
    <3> QED BY <3>1, <2>2 DEF Picked
  <2> HIDE DEF g
  <2> QED BY <2>3, <2>0
<1>3. Len(s) \in T
  <2> HIDE DEF T
  <2>1. 0 .. Len(s) \subseteq T
    BY <1>1, <1>2, AllUpTo
  <2> QED BY <2>1
<1> DEFINE h == CHOOSE f : Picked(f, s, S, Len(s))
<1>4. Among(s, S) = h[Len(s)]
  BY DEF Among, Picked
<1>5. Picked(h, s, S, Len(s))
  BY <1>3
<1> QED BY <1>4, <1>5

LEMMA AppendSet ==
    ASSUME NEW T, NEW s \in Seq(T), NEW e \in T
    PROVE  /\ Append(s, e) \in Seq(T) /\ ToSet(Append(s, e)) = ToSet(s) \cup {e}
           /\ IsInjective(s) /\ e \notin ToSet(s) => IsInjective(Append(s, e))
<1> DEFINE a == Append(s, e)
<1>1. /\ a \in Seq(T) /\ Len(a) = Len(s) + 1 /\ a[Len(s) + 1] = e
      /\ \A i \in 1 .. Len(s) : a[i] = s[i]
  BY AppendProperties
<1>2. DOMAIN a = 1 .. Len(s) + 1 /\ DOMAIN s = 1 .. Len(s) /\ Len(s) \in Nat
  BY <1>1, LenProperties
<1> HIDE DEF a
<1>3. ToSet(a) = ToSet(s) \cup {e}
  BY <1>1, <1>2 DEF ToSet
<1>4. IsInjective(s) /\ e \notin ToSet(s) => IsInjective(a)
  BY <1>1, <1>2 DEF IsInjective, ToSet
<1> QED BY <1>1, <1>3, <1>4 DEF a

\* What is among a sequence is in it and in the set, and nothing is there twice that was not.
LEMMA AmongSet ==
    ASSUME NEW T, NEW s \in Seq(T), NEW S
    PROVE  /\ Among(s, S) \in Seq(T) /\ ToSet(Among(s, S)) = ToSet(s) \cap S
           /\ IsInjective(s) => IsInjective(Among(s, S))
<1>0. Len(s) \in Nat /\ DOMAIN s = 1 .. Len(s) /\ \A k \in 1 .. Len(s) : s[k] \in T
  BY LenProperties, ElementOfSeq
<1>1. PICK f : Picked(f, s, S, Len(s)) /\ Among(s, S) = f[Len(s)]
  BY <1>0, AmongIs
<1> DEFINE Q(k) == /\ f[k] \in Seq(T) /\ ToSet(f[k]) = {s[j] : j \in 1 .. k} \cap S
                   /\ IsInjective(s) => IsInjective(f[k])
           G == {k \in 0 .. Len(s) : Q(k)}
<1>2. 0 \in G
  <2>1. f[0] = <<>>
    BY <1>0, <1>1 DEF Picked
  <2>2. f[0] \in Seq(T) /\ IsInjective(f[0])
    BY <2>1 DEF IsInjective
  <2>3. ToSet(f[0]) = {} /\ {s[j] : j \in 1 .. 0} = {}
    BY <2>1 DEF ToSet
  <2> QED BY <2>2, <2>3, <1>0
<1>3. ASSUME NEW k \in 1 .. Len(s), k - 1 \in G PROVE k \in G
  <2>0. k - 1 \in 0 .. Len(s) /\ Q(k - 1) /\ k \in 0 .. Len(s) /\ k # 0
    BY <1>0, <1>3
  <2>1. f[k] = IF s[k] \in S THEN Append(f[k - 1], s[k]) ELSE f[k - 1]
    BY <1>1, <2>0 DEF Picked
  <2>2. {s[j] : j \in 1 .. k} = {s[j] : j \in 1 .. k - 1} \cup {s[k]}
    BY <1>0, <2>0
  <2>3. CASE s[k] \in S
    <3>1. IsInjective(s) => s[k] \notin ToSet(f[k - 1])
      <4>1. IsInjective(s) => \A j \in 1 .. k - 1 : s[j] # s[k]
        BY <1>0, <2>0 DEF IsInjective
      <4> QED BY <4>1, <2>0
    <3>2. /\ f[k] \in Seq(T) /\ ToSet(f[k]) = ToSet(f[k - 1]) \cup {s[k]}
          /\ IsInjective(f[k - 1]) /\ s[k] \notin ToSet(f[k - 1]) => IsInjective(f[k])
      BY <2>0, <2>1, <2>3, <1>0, AppendSet
    <3> QED BY <3>1, <3>2, <2>0, <2>2, <2>3
  <2>4. CASE s[k] \notin S
    BY <2>0, <2>1, <2>2, <2>4
  <2> QED BY <2>3, <2>4
<1>4. Q(Len(s))
  <2> HIDE DEF Q
  <2>1. 0 .. Len(s) \subseteq G
    <3> HIDE DEF G
    <3> QED BY <1>0, <1>2, <1>3, AllUpTo
  <2> QED BY <2>1, <1>0
<1>5. {s[j] : j \in 1 .. Len(s)} = ToSet(s)
  BY <1>0 DEF ToSet
<1> QED BY <1>1, <1>4, <1>5

LEMMA WithoutSet ==
    ASSUME NEW T, NEW s \in Seq(T), NEW S
    PROVE  /\ Without(s, S) \in Seq(T) /\ ToSet(Without(s, S)) = ToSet(s) \ S
           /\ IsInjective(s) => IsInjective(Without(s, S))
  BY AmongSet DEF Without

LEMMA ConcatSet ==
    ASSUME NEW T, NEW s \in Seq(T), NEW t \in Seq(T)
    PROVE  /\ s \o t \in Seq(T) /\ ToSet(s \o t) = ToSet(s) \cup ToSet(t)
           /\ IsInjective(s) /\ IsInjective(t) /\ ToSet(s) \cap ToSet(t) = {} => IsInjective(s \o t)
<1> DEFINE c == s \o t
<1>1. /\ c \in Seq(T) /\ Len(c) = Len(s) + Len(t)
      /\ \A i \in 1 .. Len(s) + Len(t) : c[i] = IF i <= Len(s) THEN s[i] ELSE t[i - Len(s)]
  BY ConcatProperties
<1>2. /\ DOMAIN c = 1 .. Len(s) + Len(t) /\ DOMAIN s = 1 .. Len(s) /\ DOMAIN t = 1 .. Len(t)
      /\ Len(s) \in Nat /\ Len(t) \in Nat
  BY <1>1, LenProperties
<1> HIDE DEF c
<1>3. \A i \in 1 .. Len(t) : c[i + Len(s)] = t[i] /\ i + Len(s) \in DOMAIN c
  BY <1>1, <1>2
<1>4. \A i \in 1 .. Len(s) : c[i] = s[i] /\ i \in DOMAIN c
  BY <1>1, <1>2
<1>5. ToSet(c) \subseteq ToSet(s) \cup ToSet(t)
  <2> SUFFICES ASSUME NEW i \in 1 .. Len(s) + Len(t) PROVE c[i] \in ToSet(s) \cup ToSet(t)
    BY <1>2 DEF ToSet
  <2>1. CASE i <= Len(s)
    <3>1. i \in DOMAIN s /\ c[i] = s[i]
      BY <2>1, <1>1, <1>2
    <3> QED BY <3>1 DEF ToSet
  <2>2. CASE ~(i <= Len(s))
    <3>1. i - Len(s) \in DOMAIN t /\ c[i] = t[i - Len(s)]
      BY <2>2, <1>1, <1>2
    <3> QED BY <3>1 DEF ToSet
  <2> QED BY <2>1, <2>2
<1>6. ToSet(s) \subseteq ToSet(c) /\ ToSet(t) \subseteq ToSet(c)
  BY <1>2, <1>3, <1>4 DEF ToSet
<1>7. ASSUME IsInjective(s), IsInjective(t), ToSet(s) \cap ToSet(t) = {} PROVE IsInjective(c)
  <2>1. ASSUME NEW i \in DOMAIN c, NEW k \in DOMAIN c, c[i] = c[k] PROVE i = k
    <3>1. CASE i <= Len(s) /\ k <= Len(s)
      BY <3>1, <2>1, <1>1, <1>2, <1>7 DEF IsInjective
    <3>2. CASE ~(i <= Len(s)) /\ ~(k <= Len(s))
      <4>1. i - Len(s) \in DOMAIN t /\ k - Len(s) \in DOMAIN t /\ t[i - Len(s)] = t[k - Len(s)]
        BY <3>2, <2>1, <1>1, <1>2
      <4>2. i - Len(s) = k - Len(s)
        BY <4>1, <1>7 DEF IsInjective
      <4> QED BY <4>2, <1>2
    <3>3. CASE i <= Len(s) /\ ~(k <= Len(s))
      <4>1. i \in DOMAIN s /\ c[i] = s[i] /\ k - Len(s) \in DOMAIN t /\ c[k] = t[k - Len(s)]
        BY <3>3, <1>1, <1>2
      <4>2. c[i] \in ToSet(s) /\ c[k] \in ToSet(t)
        BY <4>1 DEF ToSet
      <4> QED BY <4>2, <2>1, <1>7
    <3>4. CASE ~(i <= Len(s)) /\ k <= Len(s)
      <4>1. k \in DOMAIN s /\ c[k] = s[k] /\ i - Len(s) \in DOMAIN t /\ c[i] = t[i - Len(s)]
        BY <3>4, <1>1, <1>2
      <4>2. c[k] \in ToSet(s) /\ c[i] \in ToSet(t)
        BY <4>1 DEF ToSet
      <4> QED BY <4>2, <2>1, <1>7
    <3> QED BY <3>1, <3>2, <3>3, <3>4
  <2> QED BY <2>1 DEF IsInjective
<1> QED BY <1>1, <1>5, <1>6, <1>7 DEF c

LEMMA SubSeqSet ==
    ASSUME NEW T, NEW s \in Seq(T), NEW m \in 1 .. Len(s) + 1, NEW n \in 0 .. Len(s)
    PROVE  /\ SubSeq(s, m, n) \in Seq(T) /\ ToSet(SubSeq(s, m, n)) = {s[i] : i \in m .. n}
           /\ IsInjective(s) => IsInjective(SubSeq(s, m, n))
<1> DEFINE u == SubSeq(s, m, n)
<1>0. DOMAIN s = 1 .. Len(s) /\ Len(s) \in Nat /\ \A i \in m .. n : s[i] \in T
  BY LenProperties, ElementOfSeq
<1>1. /\ u \in Seq(T) /\ Len(u) = IF m <= n THEN n - m + 1 ELSE 0
      /\ \A i \in 1 .. n - m + 1 : u[i] = s[m + i - 1]
  BY <1>0, SubSeqProperties
<1>2. DOMAIN u = 1 .. n - m + 1
  BY <1>0, <1>1, LenProperties
<1> HIDE DEF u
<1>3. ASSUME NEW i \in m .. n PROVE i - m + 1 \in DOMAIN u /\ u[i - m + 1] = s[i]
  <2>1. i - m + 1 \in 1 .. n - m + 1 /\ m + (i - m + 1) - 1 = i
    BY <1>0
  <2> QED BY <2>1, <1>1, <1>2
<1>4. ToSet(u) = {s[i] : i \in m .. n}
  <2>1. ASSUME NEW i \in DOMAIN u PROVE u[i] \in {s[k] : k \in m .. n}
    <3>1. m + i - 1 \in m .. n
      BY <1>0, <1>2
    <3>2. u[i] = s[m + i - 1]
      BY <1>1, <1>2
    <3> QED BY <3>1, <3>2
  <2> QED BY <2>1, <1>3 DEF ToSet
<1>5. ASSUME IsInjective(s) PROVE IsInjective(u)
  <2>1. ASSUME NEW i \in DOMAIN u, NEW k \in DOMAIN u, u[i] = u[k] PROVE i = k
    <3>0. m + i - 1 \in DOMAIN s /\ m + k - 1 \in DOMAIN s
      BY <1>0, <1>2
    <3>1. m + i - 1 \in DOMAIN s /\ m + k - 1 \in DOMAIN s /\ s[m + i - 1] = s[m + k - 1]
      BY <3>0, <2>1, <1>1, <1>2
    <3>2. m + i - 1 = m + k - 1
      BY <3>1, <1>5 DEF IsInjective
    <3> QED BY <3>2, <1>2, <1>0
  <2> QED BY <2>1 DEF IsInjective
<1> QED BY <1>1, <1>4, <1>5 DEF u

\* A sequence in two parts
LEMMA SplitSet ==
    ASSUME NEW T, NEW s \in Seq(T), NEW k \in 0 .. Len(s)
    PROVE  /\ SubSeq(s, 1, k) \in Seq(T) /\ SubSeq(s, k + 1, Len(s)) \in Seq(T)
           /\ IsInjective(s) =>
                  IsInjective(SubSeq(s, 1, k)) /\ IsInjective(SubSeq(s, k + 1, Len(s)))
           /\ ToSet(SubSeq(s, 1, k)) \cup ToSet(SubSeq(s, k + 1, Len(s))) = ToSet(s)
           /\ k = Len(s) => ToSet(SubSeq(s, k + 1, Len(s))) = {}
<1>0. DOMAIN s = 1 .. Len(s) /\ Len(s) \in Nat
  BY LenProperties
<1>1. /\ 1 \in 1 .. Len(s) + 1 /\ k + 1 \in 1 .. Len(s) + 1
      /\ k \in 0 .. Len(s) /\ Len(s) \in 0 .. Len(s)
  BY <1>0
<1>2. /\ SubSeq(s, 1, k) \in Seq(T) /\ ToSet(SubSeq(s, 1, k)) = {s[i] : i \in 1 .. k}
      /\ IsInjective(s) => IsInjective(SubSeq(s, 1, k))
  BY <1>1, SubSeqSet
<1>3. /\ SubSeq(s, k + 1, Len(s)) \in Seq(T)
      /\ ToSet(SubSeq(s, k + 1, Len(s))) = {s[i] : i \in k + 1 .. Len(s)}
      /\ IsInjective(s) => IsInjective(SubSeq(s, k + 1, Len(s)))
  BY <1>1, SubSeqSet
<1>4. {s[i] : i \in 1 .. k} \cup {s[i] : i \in k + 1 .. Len(s)} = ToSet(s)
  BY <1>0 DEF ToSet
<1>5. k = Len(s) => {s[i] : i \in k + 1 .. Len(s)} = {}
  BY <1>0
<1> QED BY <1>2, <1>3, <1>4, <1>5

LEMMA ReverseSet ==
    ASSUME NEW T, NEW s \in Seq(T)
    PROVE  /\ Reverse(s) \in Seq(T) /\ ToSet(Reverse(s)) = ToSet(s)
           /\ IsInjective(s) => IsInjective(Reverse(s))
<1> DEFINE r == Reverse(s)
<1>0. DOMAIN s = 1 .. Len(s) /\ Len(s) \in Nat /\ \A i \in 1 .. Len(s) : s[i] \in T
  BY LenProperties, ElementOfSeq
<1>1. r = [i \in 1 .. Len(s) |-> s[(Len(s) - i) + 1]]
  BY DEF Reverse
<1>2. r \in Seq(T)
  <2>1. \A i \in 1 .. Len(s) : s[(Len(s) - i) + 1] \in T
    BY <1>0
  <2> QED BY <1>0, <1>1, <2>1, IsASeq
<1>3. DOMAIN r = 1 .. Len(s) /\ \A i \in 1 .. Len(s) : r[i] = s[(Len(s) - i) + 1]
  BY <1>1
<1> HIDE DEF r
<1>4. \A i \in 1 .. Len(s) : (Len(s) - i) + 1 \in 1 .. Len(s) /\ r[(Len(s) - i) + 1] = s[i]
  BY <1>0, <1>3
<1>5. ToSet(r) = ToSet(s)
  BY <1>0, <1>3, <1>4 DEF ToSet
<1>6. ASSUME IsInjective(s) PROVE IsInjective(r)
  <2>1. ASSUME NEW i \in DOMAIN r, NEW k \in DOMAIN r, r[i] = r[k] PROVE i = k
    <3>1. (Len(s) - i) + 1 \in DOMAIN s /\ (Len(s) - k) + 1 \in DOMAIN s
      BY <1>0, <1>3
    <3>2. s[(Len(s) - i) + 1] = s[(Len(s) - k) + 1]
      BY <2>1, <1>3
    <3>3. (Len(s) - i) + 1 = (Len(s) - k) + 1
      BY <3>1, <3>2, <1>6 DEF IsInjective
    <3> QED BY <3>3, <1>0, <1>3
  <2> QED BY <2>1 DEF IsInjective
<1> QED BY <1>2, <1>5, <1>6 DEF r

-----------------------------------------------------------------------------
(* The tab: what its operations make of it.                                *)

PaneRow  == Entries_ \cup {Up}
PaneSpot == PaneRow \cup {Nowhere}

Tabs == [rows : Seq(Entries_), sel : Seq(PaneRow), lead : PaneSpot, focus : PaneSpot,
         anchor : PaneSpot, passes : SUBSET Entries_, asc : BOOLEAN, aside : Seq(Entries_),
         waits : BOOLEAN, back : BOOLEAN]

\* The rows and what a listing has collected are the same.
SameRows(t, u) ==
    u.rows = t.rows /\ u.aside = t.aside /\ u.back = t.back /\ u.waits = t.waits

\* All that is selected but one row at most is among the chosen.
AlmostAll(sel, known) == \A x, y \in ToSet(sel) \ known : x = y

LEMMA SingleSeq ==
    ASSUME NEW T, NEW e \in T
    PROVE  <<e>> \in Seq(T) /\ ToSet(<<e>>) = {e} /\ IsInjective(<<e>>)
<1> DEFINE s == <<e>>
<1>1. s \in Seq(T) /\ DOMAIN s = 1 .. 1 /\ s[1] = e
  OBVIOUS
<1> HIDE DEF s
<1>2. \A i \in DOMAIN s : i = 1
  BY <1>1
<1>3. ToSet(s) = {e} /\ IsInjective(s)
  BY <1>1, <1>2 DEF ToSet, IsInjective
<1> QED BY <1>1, <1>3 DEF s

LEMMA NoneSeq ==
    ASSUME NEW T
    PROVE  <<>> \in Seq(T) /\ ToSet(<<>>) = {} /\ IsInjective(<<>>)
<1>1. <<>> \in Seq(T)
  OBVIOUS
<1>2. ToSet(<<>>) = {}
  BY DEF ToSet
<1>3. IsInjective(<<>>)
  BY DEF IsInjective
<1> QED BY <1>1, <1>2, <1>3

LEMMA LeadingIn ==
    ASSUME NEW T, NEW s \in Seq(T)
    PROVE  Leading(s) \in T \cup {Nowhere} /\ (s # <<>> => s[1] \in ToSet(s) /\ s[1] \in T)
<1>1. s # <<>> => 1 \in DOMAIN s /\ s[1] \in T
  BY LenProperties, EmptySeq, ElementOfSeq
<1> QED BY <1>1 DEF Leading, ToSet

LEMMA SetOfSeq ==
    ASSUME NEW T, NEW s \in Seq(T)
    PROVE  ToSet(s) \subseteq T
  BY LenProperties, ElementOfSeq DEF ToSet

LEMMA SortedSet ==
    ASSUME NEW t \in Tabs
    PROVE  /\ Sorted(t) \in Seq(Entries_) /\ ToSet(Sorted(t)) = Shown(t) /\ IsInjective(Sorted(t))
           /\ Displayed(t) \in Seq(PaneRow) /\ ToSet(Displayed(t)) = {Up} \cup Shown(t)
           /\ Shown(t) \subseteq Known(t) /\ Known(t) \subseteq Entries_
<1>0. t.rows \in Seq(Entries_) /\ t.passes \in SUBSET Entries_
  BY DEF Tabs
<1>1. Known(t) \subseteq Entries_ /\ Shown(t) \subseteq Known(t)
  BY <1>0, SetOfSeq DEF Known, Shown
<1> DEFINE up == Among(RowOrder, Shown(t))
<1>2. RowOrder \in Seq(Entries_) /\ ToSet(RowOrder) = Entries_ /\ IsInjective(RowOrder)
  BY SelectionConstants DEF Entries_
<1>3. up \in Seq(Entries_) /\ ToSet(up) = Entries_ \cap Shown(t) /\ IsInjective(up)
  BY <1>2, AmongSet
<1>4. Reverse(up) \in Seq(Entries_) /\ ToSet(Reverse(up)) = ToSet(up) /\ IsInjective(Reverse(up))
  BY <1>3, ReverseSet
<1>5. Sorted(t) \in Seq(Entries_) /\ ToSet(Sorted(t)) = Shown(t) /\ IsInjective(Sorted(t))
  <2> HIDE DEF up
  <2>1. Sorted(t) = IF t.asc THEN up ELSE Reverse(up)
    BY DEF Sorted, up
  <2> QED BY <2>1, <1>1, <1>3, <1>4
<1>6. Sorted(t) \in Seq(PaneRow) /\ <<Up>> \in Seq(PaneRow) /\ ToSet(<<Up>>) = {Up}
  <2>1. Sorted(t) \in Seq(PaneRow)
    BY <1>5, SeqMonotonic DEF PaneRow
  <2>2. Up \in PaneRow
    BY DEF PaneRow
  <2>3. <<Up>> \in Seq(PaneRow) /\ ToSet(<<Up>>) = {Up}
    BY <2>2, SingleSeq, Zenon
  <2> QED BY <2>1, <2>3
<1>7. Displayed(t) \in Seq(PaneRow) /\ ToSet(Displayed(t)) = {Up} \cup Shown(t)
  <2> DEFINE one == <<Up>>
             all == Sorted(t)
  <2>1. one \in Seq(PaneRow) /\ all \in Seq(PaneRow) /\ ToSet(one) = {Up} /\ ToSet(all) = Shown(t)
    BY <1>5, <1>6
  <2>2. Displayed(t) = one \o all
    BY DEF Displayed
  <2> HIDE DEF one, all
  <2>3. one \o all \in Seq(PaneRow) /\ ToSet(one \o all) = ToSet(one) \cup ToSet(all)
    BY <2>1, ConcatSet
  <2> QED BY <2>1, <2>2, <2>3
<1> QED BY <1>1, <1>5, <1>7

LEMMA WithSelIs ==
    ASSUME NEW t \in Tabs, NEW s \in Seq(PaneRow), NEW lead \in PaneSpot, NEW centre \in PaneSpot,
           NEW anchor \in PaneSpot
    PROVE  /\ WithSel(t, s, lead, centre, anchor) \in Tabs
           /\ SameRows(t, WithSel(t, s, lead, centre, anchor))
           /\ WithSel(t, s, lead, centre, anchor).sel = s
<1>1. WithSel(t, s, lead, centre, anchor) \in Tabs
  BY DEF Tabs, WithSel
<1>2. SameRows(t, WithSel(t, s, lead, centre, anchor))
  BY DEF Tabs, WithSel, SameRows
<1>3. WithSel(t, s, lead, centre, anchor).sel = s
  BY DEF Tabs, WithSel
<1> QED BY <1>1, <1>2, <1>3

LEMMA SingleIs ==
    ASSUME NEW t \in Tabs, NEW n \in PaneRow
    PROVE  /\ Single(t, n) \in Tabs /\ SameRows(t, Single(t, n))
           /\ ToSet(Single(t, n).sel) = {n} /\ IsInjective(Single(t, n).sel)
<1>1. n \in PaneSpot /\ <<n>> \in Seq(PaneRow) /\ ToSet(<<n>>) = {n} /\ IsInjective(<<n>>)
  BY SingleSeq DEF PaneSpot
<1> DEFINE u == Single(t, n)
<1>2. u = WithSel(t, <<n>>, n, n, n)
  BY DEF Single
<1> HIDE DEF u
<1>3. u \in Tabs /\ SameRows(t, u) /\ u.sel = <<n>>
  BY <1>1, <1>2, WithSelIs
<1>4. ToSet(u.sel) = {n} /\ IsInjective(u.sel)
  BY <1>1, <1>3
<1> QED BY <1>3, <1>4 DEF u

\* An act takes rows that are displayed, and what was selected before, and none of them twice.
Taken(t, u) ==
    /\ u \in Tabs /\ SameRows(t, u) /\ ToSet(u.sel) \subseteq ToSet(t.sel) \cup ToSet(Displayed(t))
    /\ IsInjective(t.sel) => IsInjective(u.sel)

LEMMA SingleTakes ==
    ASSUME NEW t \in Tabs, NEW n \in ToSet(Displayed(t))
    PROVE  Taken(t, Single(t, n))
<1>1. n \in PaneRow
  BY SortedSet DEF PaneRow
<1> DEFINE u == Single(t, n)
<1>2. u \in Tabs /\ SameRows(t, u) /\ ToSet(u.sel) = {n} /\ IsInjective(u.sel)
  BY <1>1, SingleIs
<1> HIDE DEF u
<1>3. Taken(t, u)
  BY <1>2 DEF Taken
<1> QED BY <1>3 DEF u

LEMMA ToggledTakes ==
    ASSUME NEW t \in Tabs, NEW n \in ToSet(Displayed(t))
    PROVE  Taken(t, Toggled(t, n))
<1>0. n \in PaneRow /\ t.sel \in Seq(PaneRow) /\ n \in PaneSpot
  BY SortedSet DEF PaneRow, PaneSpot, Tabs
<1>1. CASE n = Up
  BY <1>1, SingleTakes DEF Toggled
<1>2. CASE n # Up
  <2> DEFINE old == Without(t.sel, {Up})
             s   == IF n \in ToSet(old) THEN Without(old, {n}) ELSE Append(old, n)
  <2>1. /\ old \in Seq(PaneRow) /\ ToSet(old) \subseteq ToSet(t.sel)
        /\ IsInjective(t.sel) => IsInjective(old)
    BY <1>0, WithoutSet
  <2>2. /\ Without(old, {n}) \in Seq(PaneRow) /\ ToSet(Without(old, {n})) \subseteq ToSet(old)
        /\ IsInjective(old) => IsInjective(Without(old, {n}))
    <3> HIDE DEF old
    <3> QED BY <2>1, WithoutSet
  <2>3. /\ Append(old, n) \in Seq(PaneRow) /\ ToSet(Append(old, n)) = ToSet(old) \cup {n}
        /\ IsInjective(old) /\ n \notin ToSet(old) => IsInjective(Append(old, n))
    <3> HIDE DEF old
    <3> QED BY <2>1, <1>0, AppendSet
  <2>4. /\ s \in Seq(PaneRow) /\ ToSet(s) \subseteq ToSet(t.sel) \cup {n}
        /\ IsInjective(t.sel) => IsInjective(s)
    <3> HIDE DEF old
    <3> QED BY <2>1, <2>2, <2>3
  <2>5. Toggled(t, n) = WithSel(t, s, Leading(s), n, n)
    BY <1>2 DEF Toggled
  <2> HIDE DEF s
  <2>6. Leading(s) \in PaneSpot
    BY <2>4, LeadingIn DEF PaneSpot
  <2> QED BY <2>4, <2>5, <2>6, <1>0, WithSelIs DEF Taken
<1> QED BY <1>1, <1>2

LEMMA RangedTakes ==
    ASSUME NEW t \in Tabs, NEW n \in Shown(t)
    PROVE  Taken(t, Ranged(t, n))
<1> DEFINE allRows   == Sorted(t)
           first  == IF t.anchor # Nowhere THEN t.anchor
                     ELSE IF t.focus # Nowhere THEN t.focus ELSE n
           anchor == CHOOSE m \in {t.anchor, t.focus, n} : m = first
           i == Place(allRows, anchor)
           k == Place(allRows, n)
           s == IF i < k THEN SubSeq(allRows, i, k) ELSE SubSeq(allRows, k, i)
<1>0. /\ n \in PaneRow /\ n \in PaneSpot
      /\ allRows \in Seq(Entries_) /\ ToSet(allRows) = Shown(t) /\ IsInjective(allRows)
      /\ ToSet(Displayed(t)) = {Up} \cup Shown(t)
      /\ t.anchor \in PaneSpot /\ t.focus \in PaneSpot
  BY SortedSet DEF PaneRow, PaneSpot, Tabs
<1>1. anchor \in PaneSpot
  BY <1>0
<1>2. Ranged(t, n) = IF {anchor, n} \subseteq ToSet(allRows)
                     THEN WithSel(t, s, Leading(s), n, anchor) ELSE Single(t, n)
  BY DEF Ranged
<1> HIDE DEF anchor, allRows
<1>3. CASE {anchor, n} \subseteq ToSet(allRows)
  <2>1. i \in DOMAIN allRows /\ k \in DOMAIN allRows
    BY <1>3 DEF Place, ToSet
  <2>2. DOMAIN allRows = 1 .. Len(allRows) /\ Len(allRows) \in Nat
    BY <1>0, LenProperties
  <2> HIDE DEF i, k
  <2>3. ASSUME NEW a \in DOMAIN allRows, NEW b \in DOMAIN allRows
        PROVE  /\ SubSeq(allRows, a, b) \in Seq(PaneRow) /\ IsInjective(SubSeq(allRows, a, b))
               /\ ToSet(SubSeq(allRows, a, b)) \subseteq ToSet(allRows)
    <3>1. /\ SubSeq(allRows, a, b) \in Seq(Entries_) /\ IsInjective(SubSeq(allRows, a, b))
          /\ ToSet(SubSeq(allRows, a, b)) = {allRows[j] : j \in a .. b}
      BY <2>2, <1>0, SubSeqSet
    <3>2. {allRows[j] : j \in a .. b} \subseteq ToSet(allRows)
      BY <2>2 DEF ToSet
    <3> QED BY <3>1, <3>2, SeqMonotonic DEF PaneRow
  <2>4. s \in Seq(PaneRow) /\ ToSet(s) \subseteq ToSet(allRows) /\ IsInjective(s)
    BY <2>1, <2>3
  <2> HIDE DEF s
  <2>5. Leading(s) \in PaneSpot
    BY <2>4, LeadingIn DEF PaneSpot
  <2>6. Ranged(t, n) = WithSel(t, s, Leading(s), n, anchor)
    BY <1>2, <1>3
  <2> DEFINE u == WithSel(t, s, Leading(s), n, anchor)
  <2>7. u \in Tabs /\ SameRows(t, u) /\ u.sel = s
    BY <2>4, <2>5, <1>0, <1>1, WithSelIs
  <2> HIDE DEF u
  <2>8. ToSet(u.sel) \subseteq ToSet(Displayed(t)) /\ IsInjective(u.sel)
    BY <2>4, <2>7, <1>0
  <2>9. Taken(t, u)
    BY <2>7, <2>8 DEF Taken
  <2> QED BY <2>6, <2>9 DEF u
<1>4. CASE ~({anchor, n} \subseteq ToSet(allRows))
  <2>1. Ranged(t, n) = Single(t, n)
    BY <1>2, <1>4
  <2> DEFINE u == Single(t, n)
  <2>2. u \in Tabs /\ SameRows(t, u) /\ ToSet(u.sel) = {n} /\ IsInjective(u.sel)
    BY <1>0, SingleIs
  <2> HIDE DEF u
  <2>3. Taken(t, u)
    BY <2>2, <1>0 DEF Taken
  <2> QED BY <2>1, <2>3 DEF u
<1> QED BY <1>3, <1>4

LEMMA MovedTakes ==
    ASSUME NEW t \in Tabs, NEW delta \in Int
    PROVE  Taken(t, Moved(t, delta))
<1> DEFINE allRows == Displayed(t)
           here == {k \in DOMAIN allRows : allRows[k] \in {t.focus, t.lead}}
           i    == IF here = {} THEN 1 ELSE CHOOSE k \in here : \A j \in here : k <= j
           last == Len(allRows)
           at   == IF i + delta < 1 THEN 1 ELSE IF i + delta > last THEN last ELSE i + delta
<1>0. allRows \in Seq(PaneRow) /\ DOMAIN allRows = 1 .. last /\ last \in Nat /\ last # 0
  <2>1. allRows \in Seq(PaneRow) /\ Up \in ToSet(allRows)
    BY SortedSet
  <2> HIDE DEF allRows
  <2>2. allRows # <<>>
    BY <2>1, NoneSeq
  <2> QED BY <2>1, <2>2, LenProperties, EmptySeq
<1>1. i \in Int
  <2>1. here \subseteq Nat
    BY <1>0
  <2> HIDE DEF here
  <2>2. here # {} => \E k \in here : \A j \in here : k <= j
    BY <2>1, LeastNumber
  <2> DEFINE least == CHOOSE k \in here : \A j \in here : k <= j
  <2>3. here # {} => least \in here
    BY <2>2
  <2> HIDE DEF least
  <2>4. i = IF here = {} THEN 1 ELSE least
    BY DEF least
  <2> HIDE DEF i
  <2> QED BY <2>1, <2>3, <2>4
<1>2. Moved(t, delta) = Single(t, allRows[at])
  BY DEF Moved
<1> HIDE DEF i, allRows
<1>3. at \in 1 .. last
  BY <1>0, <1>1
<1>4. allRows[at] \in PaneRow /\ allRows[at] \in ToSet(allRows)
  <2> HIDE DEF at
  <2> QED BY <1>0, <1>3, ElementOfSeq DEF ToSet
<1> HIDE DEF at
<1>5. ToSet(Single(t, allRows[at]).sel) = {allRows[at]} /\ IsInjective(Single(t, allRows[at]).sel)
  BY <1>4, SingleIs
<1> QED BY <1>2, <1>4, <1>5, SingleIs DEF Taken, allRows

LEMMA TogetherTakes ==
    ASSUME NEW t \in Tabs, NEW s \in Seq(Entries_), ToSet(s) \subseteq Shown(t), IsInjective(s)
    PROVE  Taken(t, Together(t, s)) /\ Taken(t, Rows(t, s))
<1>0. s \in Seq(PaneRow) /\ ToSet(Displayed(t)) = {Up} \cup Shown(t)
  BY SeqMonotonic, SortedSet DEF PaneRow
<1>1. Leading(s) \in PaneSpot /\ (IF s = <<>> THEN Nowhere ELSE Last(s)) \in PaneSpot
  <2>1. Leading(s) \in PaneSpot
    BY <1>0, LeadingIn DEF PaneSpot
  <2>2. s # <<>> => Last(s) \in PaneRow
    BY <1>0, LenProperties, EmptySeq, ElementOfSeq DEF Last
  <2> QED BY <2>1, <2>2 DEF PaneSpot
<1>2. Taken(t, Together(t, s))
  BY <1>0, <1>1, WithSelIs DEF Taken, Together
<1>3. Taken(t, Rows(t, s))
  BY <1>0, <1>1, WithSelIs DEF Taken, Rows
<1> QED BY <1>2, <1>3

LEMMA SelectionsTake ==
    ASSUME NEW t \in Tabs, NEW u \in Selections(t)
    PROVE  Taken(t, u)
<1>0. /\ Sorted(t) \in Seq(Entries_) /\ ToSet(Sorted(t)) = Shown(t) /\ IsInjective(Sorted(t))
      /\ ToSet(Displayed(t)) = {Up} \cup Shown(t) /\ Shown(t) \subseteq Entries_
  BY SortedSet
<1>1. CASE \E n \in ToSet(Displayed(t)) : u = Single(t, n)
  BY <1>1, SingleTakes
<1>2. CASE \E n \in ToSet(Displayed(t)) : u = Toggled(t, n)
  BY <1>2, ToggledTakes
<1>3. CASE \E n \in Shown(t) : u = Ranged(t, n)
  BY <1>3, RangedTakes
<1>4. CASE \E delta \in {-1, 1} \cup {-Len(t.rows), Len(t.rows)} : u = Moved(t, delta)
  <2>1. Len(t.rows) \in Nat
    BY LenProperties DEF Tabs
  <2> QED BY <1>4, <2>1, MovedTakes
<1>5. CASE u \in {Together(t, Sorted(t)), Together(t, Inverted(t))}
  <2>1. /\ Inverted(t) \in Seq(Entries_) /\ ToSet(Inverted(t)) \subseteq Shown(t)
        /\ IsInjective(Inverted(t))
    BY <1>0, WithoutSet DEF Inverted
  <2> QED BY <1>0, <1>5, <2>1, TogetherTakes
<1>6. CASE \E s \in Banded(t) : u = Rows(t, s)
  <2>0. PICK b \in Banded(t) : u = Rows(t, b)
    BY <1>6
  <2>1. PICK i \in DOMAIN Sorted(t), k \in DOMAIN Sorted(t) : b = SubSeq(Sorted(t), i, k)
    BY DEF Banded
  <2> DEFINE s == SubSeq(Sorted(t), i, k)
  <2>2. DOMAIN Sorted(t) = 1 .. Len(Sorted(t)) /\ Len(Sorted(t)) \in Nat
    BY <1>0, LenProperties
  <2>3. s \in Seq(Entries_) /\ ToSet(s) = {Sorted(t)[j] : j \in i .. k} /\ IsInjective(s)
    BY <1>0, <2>2, SubSeqSet
  <2>4. {Sorted(t)[j] : j \in i .. k} \subseteq Shown(t)
    BY <1>0, <2>2 DEF ToSet
  <2> HIDE DEF s
  <2>5. u = Rows(t, s)
    BY <2>0, <2>1 DEF s
  <2> QED BY <2>3, <2>4, <2>5, TogetherTakes
<1>7. CASE u = WithSel(t, <<>>, Nowhere, Nowhere, Nowhere)
  <2>1. Nowhere \in PaneSpot /\ <<>> \in Seq(PaneRow) /\ ToSet(<<>>) = {} /\ IsInjective(<<>>)
    BY NoneSeq DEF PaneSpot
  <2>2. u \in Tabs /\ SameRows(t, u) /\ u.sel = <<>>
    BY <1>7, <2>1, WithSelIs
  <2> QED BY <2>1, <2>2 DEF Taken
<1> QED BY <1>1, <1>2, <1>3, <1>4, <1>5, <1>6, <1>7 DEF Selections

-----------------------------------------------------------------------------
(* The tab: what listings and renames make of it.                          *)

\* What the listing under way has collected
Collected(t) == IF t.back THEN t.aside ELSE t.rows

Batched(t, u, names, complete) ==
    /\ u \in Tabs
    /\ \A known : AlmostAll(t.sel, known) => AlmostAll(u.sel, known)
    /\ complete => u.back = FALSE
    /\ u.waits <=> t.waits /\ ~complete
    /\ IsInjective(t.sel) => IsInjective(u.sel)
    /\ IsInjective(t.aside) => IsInjective(u.aside)
    /\ IsInjective(t.aside) /\ IsInjective(t.rows) => IsInjective(u.rows)
    /\ ToSet(Collected(u)) = ToSet(Collected(t)) \cup ToSet(names)
    /\ IsInjective(Collected(t)) => IsInjective(Collected(u))

LEMMA BatchMakes ==
    ASSUME NEW t \in Tabs, NEW names \in Seq(Entries_), IsInjective(names),
           NEW complete \in BOOLEAN
    PROVE  Batched(t, BatchTab(t, names, complete), names, complete)
<1> DEFINE old   == Collected(t)
           fresh == Without(names, ToSet(old))
           allRows  == old \o fresh
           kept  == Among(t.sel, ToSet(allRows))
           first == IF kept # <<>> THEN kept[1]
                    ELSE IF t.lead # Nowhere THEN t.lead ELSE Leading(allRows)
           sel   == IF kept # <<>> THEN kept ELSE IF first = Nowhere THEN <<>> ELSE <<first>>
           now   == [t EXCEPT !.rows = allRows, !.lead = first, !.focus = first, !.sel = sel]
           u     == BatchTab(t, names, complete)
<1>0. /\ old \in Seq(Entries_) /\ t.sel \in Seq(PaneRow) /\ t.lead \in PaneSpot
      /\ t.back \in BOOLEAN /\ t.waits \in BOOLEAN /\ old = IF t.back THEN t.aside ELSE t.rows
  BY DEF Collected, Tabs
<1>1. /\ fresh \in Seq(Entries_) /\ ToSet(fresh) = ToSet(names) \ ToSet(old)
      /\ IsInjective(fresh)
  <2> HIDE DEF old
  <2> QED BY WithoutSet
<1>2. /\ allRows \in Seq(Entries_) /\ ToSet(allRows) = ToSet(old) \cup ToSet(names)
      /\ IsInjective(old) => IsInjective(allRows)
  <2> HIDE DEF old, fresh
  <2>1. /\ allRows \in Seq(Entries_) /\ ToSet(allRows) = ToSet(old) \cup ToSet(fresh)
        /\ IsInjective(old) /\ IsInjective(fresh) /\ ToSet(old) \cap ToSet(fresh) = {}
               => IsInjective(allRows)
    BY <1>0, <1>1, ConcatSet
  <2> HIDE DEF allRows
  <2> QED BY <2>1, <1>1
<1>3. /\ kept \in Seq(PaneRow) /\ ToSet(kept) \subseteq ToSet(t.sel)
      /\ IsInjective(t.sel) => IsInjective(kept)
  <2> HIDE DEF allRows
  <2> QED BY <1>0, AmongSet
<1>4. u = IF complete THEN [now EXCEPT !.waits = FALSE, !.back = FALSE, !.aside = <<>>]
          ELSE IF t.back THEN [t EXCEPT !.aside = allRows] ELSE now
  BY DEF BatchTab, Collected
<1> HIDE DEF kept, allRows, old, u
<1>5. first \in PaneSpot
  <2>1. kept # <<>> => kept[1] \in PaneRow
    BY <1>3, LeadingIn
  <2>2. Leading(allRows) \in Entries_ \cup {Nowhere}
    BY <1>2, LeadingIn
  <2> QED BY <2>1, <2>2, <1>0 DEF PaneSpot, PaneRow
<1> HIDE DEF first
<1>6. /\ sel \in Seq(PaneRow) /\ \A known : AlmostAll(t.sel, known) => AlmostAll(sel, known)
      /\ IsInjective(t.sel) => IsInjective(sel)
  <2>1. CASE kept # <<>>
    BY <2>1, <1>3 DEF AlmostAll
  <2>2. CASE kept = <<>> /\ first = Nowhere
    <3>1. sel = <<>>
      BY <2>2
    <3> QED BY <3>1, NoneSeq DEF AlmostAll
  <2>3. CASE kept = <<>> /\ first # Nowhere
    <3>1. sel = <<first>> /\ first \in PaneRow
      BY <2>3, <1>5 DEF PaneSpot
    <3>2. sel \in Seq(PaneRow) /\ ToSet(sel) = {first} /\ IsInjective(sel)
      <4> HIDE DEF sel
      <4> QED BY <3>1, SingleSeq
    <3> QED BY <3>2 DEF AlmostAll
  <2> QED BY <2>1, <2>2, <2>3
<1> HIDE DEF sel
<1>7. CASE complete
  <2>1. u = [now EXCEPT !.waits = FALSE, !.back = FALSE, !.aside = <<>>]
    BY <1>4, <1>7
  <2>2. /\ u \in Tabs /\ u.sel = sel /\ u.back = FALSE /\ u.rows = allRows
        /\ ~u.waits /\ u.aside = <<>>
    BY <2>1, <1>2, <1>5, <1>6, NoneSeq DEF Tabs
  <2>3. Collected(u) = allRows
    BY <2>2 DEF Collected
  <2> QED BY <2>2, <2>3, <1>0, <1>2, <1>6, <1>7, NoneSeq DEF u, old, Batched
<1>8. CASE ~complete /\ t.back
  <2>1. u = [t EXCEPT !.aside = allRows]
    BY <1>4, <1>8
  <2>2. /\ u \in Tabs /\ u.sel = t.sel /\ u.back = t.back /\ u.aside = allRows
        /\ u.waits = t.waits /\ u.rows = t.rows
    BY <2>1, <1>2 DEF Tabs
  <2>3. Collected(u) = allRows
    BY <2>2, <1>8 DEF Collected
  <2> QED BY <2>2, <2>3, <1>0, <1>2, <1>8 DEF u, old, Batched
<1>9. CASE ~complete /\ ~t.back
  <2>1. u = now
    BY <1>4, <1>9
  <2>2. /\ u \in Tabs /\ u.sel = sel /\ u.back = t.back /\ u.rows = allRows
        /\ u.waits = t.waits /\ u.aside = t.aside
    BY <2>1, <1>2, <1>5, <1>6 DEF Tabs
  <2>3. Collected(u) = allRows
    BY <2>2, <1>9 DEF Collected
  <2> QED BY <2>2, <2>3, <1>0, <1>2, <1>6, <1>9 DEF u, old, Batched
<1> QED BY <1>7, <1>8, <1>9

Renamed(n, old, new) == IF n = old THEN new ELSE n

LEMMA RenameMakes ==
    ASSUME NEW t \in Tabs, NEW old \in Known(t), NEW new \in Entries_
    PROVE  LET u == RenameRow(t, old, new)
           IN  /\ u \in Tabs /\ u.aside = t.aside /\ u.back = t.back /\ u.waits = t.waits
               /\ ToSet(u.sel) = {Renamed(n, old, new) : n \in ToSet(t.sel)}
<1> DEFINE all(s) == [k \in DOMAIN s |-> Renamed(s[k], old, new)]
           u == RenameRow(t, old, new)
<1>0. /\ t.rows \in Seq(Entries_) /\ t.sel \in Seq(PaneRow)
      /\ t.lead \in PaneSpot /\ t.focus \in PaneSpot /\ t.anchor \in PaneSpot
  BY DEF Tabs
<1>1. u = [t EXCEPT !.rows = all(@), !.sel = all(@), !.lead = Renamed(@, old, new),
                    !.focus = Renamed(@, old, new), !.anchor = Renamed(@, old, new)]
  BY DEF RenameRow, Renamed
<1>2. ASSUME NEW T, Entries_ \subseteq T, NEW s \in Seq(T)
      PROVE  all(s) \in Seq(T) /\ ToSet(all(s)) = {Renamed(n, old, new) : n \in ToSet(s)}
  <2>0. DOMAIN s = 1 .. Len(s) /\ Len(s) \in Nat /\ \A i \in 1 .. Len(s) : s[i] \in T
    BY LenProperties, ElementOfSeq
  <2>1. \A i \in 1 .. Len(s) : Renamed(s[i], old, new) \in T
    BY <2>0, <1>2 DEF Renamed
  <2>2. all(s) = [i \in 1 .. Len(s) |-> Renamed(s[i], old, new)]
    BY <2>0
  <2>3. all(s) \in Seq(T)
    BY <2>0, <2>1, <2>2, IsASeq
  <2>4. DOMAIN all(s) = DOMAIN s /\ \A i \in DOMAIN s : all(s)[i] = Renamed(s[i], old, new)
    OBVIOUS
  <2> HIDE DEF all
  <2> QED BY <2>3, <2>4 DEF ToSet
<1>3. all(t.rows) \in Seq(Entries_)
  BY <1>0, <1>2
<1>4. all(t.sel) \in Seq(PaneRow) /\ ToSet(all(t.sel)) = {Renamed(n, old, new) : n \in ToSet(t.sel)}
  <2>1. Entries_ \subseteq PaneRow
    BY DEF PaneRow
  <2> HIDE DEF all
  <2> QED BY <2>1, <1>0, <1>2
<1>5. \A n \in PaneSpot : Renamed(n, old, new) \in PaneSpot
  BY DEF Renamed, PaneSpot, PaneRow
<1> HIDE DEF all
<1>6. /\ u \in Tabs /\ u.sel = all(t.sel)
      /\ u.aside = t.aside /\ u.back = t.back /\ u.waits = t.waits
  BY <1>0, <1>1, <1>3, <1>4, <1>5 DEF Tabs
<1> QED BY <1>4, <1>6

\* A listing begins with nothing collected, whichever way it begins.
LEMMA ListingBegins ==
    ASSUME tab \in Tabs, NEW t \in {InBackground, FromNothing}
    PROVE  /\ t \in Tabs /\ Collected(t) = <<>> /\ t.waits /\ IsInjective(t.aside)
           /\ IsInjective(tab.rows) => IsInjective(t.rows)
           /\ IsInjective(tab.sel) => IsInjective(t.sel)
           /\ \A known : AlmostAll(tab.sel, known) => AlmostAll(t.sel, known)
<1>1. CASE t = InBackground
  <2>1. /\ t \in Tabs /\ t.sel = tab.sel /\ t.back = TRUE /\ t.aside = <<>> /\ t.rows = tab.rows
        /\ t.waits = TRUE
    BY <1>1, NoneSeq DEF InBackground, Tabs
  <2> QED BY <2>1, NoneSeq DEF Collected
<1>2. CASE t = FromNothing
  <2>1. /\ t \in Tabs /\ t.sel = <<>> /\ t.back = FALSE /\ t.rows = <<>> /\ t.aside = <<>>
        /\ t.waits = TRUE
    BY <1>2, NoneSeq DEF FromNothing, Tabs, PaneSpot
  <2> QED BY <2>1, NoneSeq DEF Collected, AlmostAll
<1> QED BY <1>1, <1>2

LEMMA EntriesFinite == IsFiniteSet(Entries_)
<1>1. RowOrder \in Seq(Entries_)
  BY SelectionConstants
<1>2. DOMAIN RowOrder = 1 .. Len(RowOrder) /\ Len(RowOrder) \in Nat
  BY <1>1, LenProperties
<1>3. RowOrder \in Surjection(1 .. Len(RowOrder), Entries_)
  BY <1>1, <1>2 DEF Surjection, Entries_, ToSet
<1>4. IsFiniteSet(1 .. Len(RowOrder))
  BY <1>2, FS_Interval
<1> QED BY <1>3, <1>4, FS_Surjection

\* The orders of a set have each of its members once.
LEMMA OrdersOf ==
    ASSUME NEW S, S \subseteq Entries_, NEW s \in SetToSeqs(S)
    PROVE  s \in Seq(Entries_) /\ IsInjective(s) /\ ToSet(s) = S
<1> DEFINE n == Cardinality(S)
<1>1. IsFiniteSet(S)
  BY EntriesFinite, FS_Subset
<1>2. n \in Nat
  BY <1>1, FS_CardinalityType
<1>3. s \in [1 .. n -> S] /\ \A i, j \in 1 .. n : i # j => s[i] # s[j]
  BY DEF SetToSeqs
<1>4. s \in Injection(1 .. n, S)
  BY <1>3 DEF Injection, IsInjective
<1>5. Cardinality(1 .. n) = n
  <2> HIDE DEF n
  <2> QED BY <1>2, FS_Interval
<1>6. s \in Surjection(1 .. n, S)
  BY <1>1, <1>4, <1>5, FS_Injection
<1> HIDE DEF n
<1>7. ToSet(s) = S
  BY <1>3, <1>6 DEF Surjection, ToSet
<1>8. IsInjective(s)
  BY <1>3 DEF IsInjective
<1>9. s \in Seq(Entries_)
  BY <1>2, <1>3
<1> QED BY <1>7, <1>8, <1>9

\* A set of which any two members are the same has one member at most.
LEMMA OneAtMost ==
    ASSUME NEW S, \A x, y \in S : x = y
    PROVE  Cardinality(S) <= 1
<1>1. CASE S = {}
  BY <1>1, FS_EmptySet
<1>2. CASE S # {}
  <2>1. PICK x \in S : TRUE
    BY <1>2
  <2>2. S = {x}
    BY <2>1
  <2> QED BY <2>2, FS_Singleton
<1> QED BY <1>1, <1>2

-----------------------------------------------------------------------------
(* The inductive invariant.                                                *)

\* What an operation is about: a rename is of something and has a name, a create has a name.
Whats ==
    {w \in [kind : {"delete", "rename", "create", "move", "paste"}, names : SUBSET Entries_,
            new : Entries_ \cup {Nowhere}, more : SUBSET Entries_] :
        /\ w.kind \in {"rename", "create"} => w.new \in Entries_
        /\ w.kind = "rename" => w.names # {}}

\* An operation that has not been performed has not been answered, nor its end heard of.
Opers ==
    {o \in [what : Whats, state : {"asked", "done", "failed", "refused"}, answered : BOOLEAN,
            heard : BOOLEAN] :
        o.state = "asked" => ~o.answered /\ ~o.heard}

AskedFor == [kind |-> "asked"]

Reading == [kind : {"read"}, rest : Seq(Entries_), fresh : BOOLEAN]

Tolds == [chosen : SUBSET PaneRow, unseen : BOOLEAN, late : BOOLEAN, others : BOOLEAN, acts : Nat]

SelTypes ==
    /\ folder \in SUBSET Entries_ /\ tab \in Tabs
    /\ listing \in {Absent, AskedFor} \cup Reading
    /\ ask \in {Absent} \cup Whats /\ clip \in {Absent} \cup Whats
    /\ ops \in Seq(Opers) /\ told \in Tolds

\* One row at most is selected that the user has not chosen.
OneUnchosen == AlmostAll(tab.sel, told.chosen)

\* One name at most of what an operation is about was not chosen.
MostChosen(w) == w # Absent => \A x, y \in w.more : x = y

OneMore ==
    /\ MostChosen(ask) /\ MostChosen(clip)
    /\ \A i \in DOMAIN ops : MostChosen(ops[i].what)

Ended(o) == o.state \in {"done", "failed"}

\* The end of an operation is still to be heard of, or a row was renamed after that.
Unsettled == told.late \/ \E i \in DOMAIN ops : Ended(ops[i]) /\ ~ops[i].heard

\* A listing has collected nothing when it is asked for.  Once all ends have been heard of, the
\* rows are those of the folder, or of the folder as far as it is listed.
RowsFollow ==
    /\ listing = AskedFor => Collected(tab) = <<>>
    /\ listing \in Reading => IsInjective(listing.rest)
    /\ ~Unsettled /\ listing = Absent /\ ~told.unseen =>
           ToSet(tab.rows) = folder /\ IsInjective(tab.rows)
    /\ ~Unsettled /\ listing \in Reading /\ listing.fresh =>
           /\ ToSet(Collected(tab)) \cup ToSet(listing.rest) = folder
           /\ IsInjective(Collected(tab))

Renaming == \E i \in DOMAIN ops : ops[i].what.kind = "rename"

\* A listing collects no name twice, and as long as nothing was renamed no row is shown or
\* selected twice.
Distinct ==
    /\ tab.waits <=> listing # Absent
    /\ IsInjective(tab.aside)
    /\ ~Renaming => IsInjective(tab.rows) /\ IsInjective(tab.sel)

SelectionInv == SelTypes /\ OneUnchosen /\ OneMore /\ RowsFollow /\ Distinct

LEMMA ListingKinds ==
    /\ Absent.kind = "none" /\ AskedFor.kind = "asked" /\ \A l \in Reading : l.kind = "read"
    /\ Absent # AskedFor /\ Absent \notin Reading /\ AskedFor \notin Reading
<1>1. Absent.kind = "none" /\ AskedFor.kind = "asked" /\ \A l \in Reading : l.kind = "read"
  BY DEF Absent, AskedFor, Reading
<1> QED BY <1>1

LEMMA WhatsPresent == \A w \in Whats : w # Absent
<1>1. \A w \in Whats : w.kind # "none"
  BY DEF Whats
<1>2. Absent.kind = "none"
  BY DEF Absent
<1> QED BY <1>1, <1>2

LEMMA ChosenSet ==
    ASSUME NEW t \in Tabs
    PROVE  /\ Chosen(t) \in Seq(PaneRow) /\ ToSet(Chosen(t)) = ToSet(t.sel) \cap Known(t)
           /\ ToSet(Chosen(t)) \subseteq Entries_
           /\ Len(Chosen(t)) = 1 => Chosen(t)[1] \in ToSet(Chosen(t))
<1>1. Chosen(t) \in Seq(PaneRow) /\ ToSet(Chosen(t)) = ToSet(t.sel) \cap Known(t)
  BY AmongSet DEF Chosen, Tabs
<1>2. Known(t) \subseteq Entries_
  BY SortedSet
<1>3. Len(Chosen(t)) = 1 => Chosen(t) # <<>>
  BY EmptySeq
<1> QED BY <1>1, <1>2, <1>3, LeadingIn

\* What is asked for is about names of the folder, of which one at most was not chosen.
LEMMA AboutNames ==
    ASSUME NEW kind \in {"delete", "rename", "create", "move"}, NEW names \in SUBSET Entries_,
           NEW new \in Entries_ \cup {Nowhere},
           kind \in {"rename", "create"} => new \in Entries_, kind = "rename" => names # {},
           \A x, y \in names \ told.chosen : x = y
    PROVE  About(kind, names, new) \in Whats /\ MostChosen(About(kind, names, new))
  BY DEF About, Whats, MostChosen

LEMMA SubmitKeeps ==
    ASSUME NEW w \in Whats, ops \in Seq(Opers), Submit(w)
    PROVE  /\ ops' \in Seq(Opers)
           /\ (\A i \in DOMAIN ops : MostChosen(ops[i].what)) /\ MostChosen(w) =>
                  \A i \in DOMAIN ops' : MostChosen(ops'[i].what)
           /\ (\E i \in DOMAIN ops : Ended(ops[i]) /\ ~ops[i].heard) =>
                  \E i \in DOMAIN ops' : Ended(ops'[i]) /\ ~ops'[i].heard
           /\ Renaming => Renaming'
<1>1. NewOp(w) \in Opers /\ NewOp(w).what = w
  BY DEF NewOp, Opers
<1>2. ops' = Append(ops, NewOp(w))
  BY DEF Submit
<1>3. /\ ops' \in Seq(Opers) /\ Len(ops') = Len(ops) + 1 /\ ops'[Len(ops) + 1] = NewOp(w)
      /\ \A i \in 1 .. Len(ops) : ops'[i] = ops[i]
  BY <1>1, <1>2, AppendProperties
<1>4. DOMAIN ops' = 1 .. Len(ops) + 1 /\ DOMAIN ops = 1 .. Len(ops) /\ Len(ops) \in Nat
  BY <1>3, LenProperties
<1>5. \A i \in DOMAIN ops' : i = Len(ops) + 1 \/ i \in DOMAIN ops
  BY <1>4
<1>6. (\A i \in DOMAIN ops : MostChosen(ops[i].what)) /\ MostChosen(w) =>
          \A i \in DOMAIN ops' : MostChosen(ops'[i].what)
  BY <1>1, <1>3, <1>4, <1>5
<1>7. \A i \in DOMAIN ops : i \in DOMAIN ops' /\ ops'[i] = ops[i]
  BY <1>3, <1>4
<1>8. Renaming => Renaming'
  BY <1>7 DEF Renaming
<1> QED BY <1>3, <1>6, <1>7, <1>8

\* One operation goes on, and is about what it was about.
LEMMA GoesOn ==
    ASSUME ops \in Seq(Opers), NEW i \in DOMAIN ops, NEW o \in Opers, o.what = ops[i].what,
           ops' = [ops EXCEPT ![i] = o]
    PROVE  /\ ops' \in Seq(Opers) /\ DOMAIN ops' = DOMAIN ops /\ ops'[i] = o
           /\ \A k \in DOMAIN ops : k # i => ops'[k] = ops[k]
           /\ (\A k \in DOMAIN ops : MostChosen(ops[k].what)) =>
                  \A k \in DOMAIN ops' : MostChosen(ops'[k].what)
           /\ Renaming => Renaming'
<1>0. DOMAIN ops = 1 .. Len(ops) /\ Len(ops) \in Nat
  BY LenProperties
<1>1. ops' \in Seq(Opers) /\ DOMAIN ops' = DOMAIN ops
  BY <1>0, ExceptSeq
<1>2. ops'[i] = o /\ \A k \in DOMAIN ops : k # i => ops'[k] = ops[k]
  BY <1>0
<1>3. \A k \in DOMAIN ops : ops'[k].what = ops[k].what
  BY <1>2
<1>4. Renaming => Renaming'
  BY <1>1, <1>3 DEF Renaming
<1> QED BY <1>1, <1>2, <1>3, <1>4

-----------------------------------------------------------------------------
(* Every step keeps the invariant.                                         *)

LEMMA BeginsRight == SelectionInit => SelectionInv
<1> SUFFICES ASSUME SelectionInit PROVE SelectionInv
  OBVIOUS
<1>1. tab.rows = <<>> /\ tab.sel = <<>> /\ tab.back = FALSE /\ listing = AskedFor
  BY DEF SelectionInit, AskedFor
<1>2. SelTypes
  <2>1. tab \in Tabs
    BY NoneSeq DEF SelectionInit, Tabs, PaneSpot
  <2>2. told \in Tolds
    BY DEF SelectionInit, Tolds
  <2> QED BY <2>1, <2>2, <1>1 DEF SelectionInit, SelTypes
<1>3. OneUnchosen
  BY <1>1, NoneSeq DEF OneUnchosen, AlmostAll
<1>4. OneMore
  BY DEF SelectionInit, OneMore, MostChosen
<1>5. RowsFollow
  BY <1>1, ListingKinds DEF RowsFollow, Collected
<1>6. Distinct
  BY <1>1, ListingKinds, NoneSeq DEF SelectionInit, Distinct
<1> QED BY <1>2, <1>3, <1>4, <1>5, <1>6 DEF SelectionInv

\* The rows follow as they did when nothing has happened to them or to the folder.
LEMMA RowsStay ==
    ASSUME RowsFollow, folder' = folder, listing' = listing, SameRows(tab, tab'),
           told'.late = told.late, told'.unseen = told.unseen,
           (\E i \in DOMAIN ops : Ended(ops[i]) /\ ~ops[i].heard) =>
               \E i \in DOMAIN ops' : Ended(ops'[i]) /\ ~ops'[i].heard
    PROVE  RowsFollow'
<1>1. Unsettled => Unsettled'
  BY DEF Unsettled
<1>2. Collected(tab)' = Collected(tab) /\ tab.rows' = tab.rows
  BY DEF Collected, SameRows
<1> QED BY <1>1, <1>2 DEF RowsFollow

\* Nothing is there twice that was not when the rows are the same and a selection has none twice.
LEMMA StillDistinct ==
    ASSUME Distinct, SameRows(tab, tab'), listing' # Absent <=> listing # Absent,
           IsInjective(tab.sel) => IsInjective(tab'.sel), Renaming => Renaming'
    PROVE  Distinct'
<1>1. tab.rows' = tab.rows /\ tab.aside' = tab.aside /\ tab.waits' = tab.waits
  BY DEF SameRows
<1> QED BY <1>1 DEF Distinct

LEMMA ChoiceTold ==
    ASSUME told \in Tolds, NEW c \in SUBSET PaneRow,
           told' = [told EXCEPT !.acts = @ + 1, !.chosen = c]
    PROVE  /\ told' \in Tolds /\ told'.chosen = c /\ told'.late = told.late
           /\ told'.unseen = told.unseen
<1>1. told.acts + 1 \in Nat /\ {told.unseen, told.late, told.others} \subseteq BOOLEAN
  BY DEF Tolds
<1>2. told' = [chosen |-> c, unseen |-> told.unseen, late |-> told.late, others |-> told.others,
               acts |-> told.acts + 1]
  BY DEF Tolds
<1>3. told' \in Tolds
  BY <1>1, <1>2 DEF Tolds
<1> QED BY <1>2, <1>3

LEMMA ChooseKeeps == SelectionInv /\ Choose_ => SelectionInv'
<1> SUFFICES ASSUME SelectionInv, Choose_ PROVE SelectionInv'
  OBVIOUS
<1> USE DEF SelectionInv
<1>1. Taken(tab, tab')
  BY SelectionsTake DEF Choose_, SelTypes
<1> DEFINE known == ToSet(tab'.sel) \cap (ToSet(Displayed(tab)) \cup told.chosen)
<1>2. /\ told' = [told EXCEPT !.acts = @ + 1, !.chosen = known]
      /\ UNCHANGED <<folder, listing, ask, clip, ops>>
  BY DEF Choose_
<1>3. known \subseteq PaneRow
  BY <1>1, SetOfSeq DEF Taken, Tabs
<1>4. /\ told' \in Tolds /\ told'.chosen = known /\ told'.late = told.late
      /\ told'.unseen = told.unseen
  <2>1. told \in Tolds
    BY DEF SelTypes
  <2>2. told' = [told EXCEPT !.acts = @ + 1, !.chosen = known]
    BY <1>2
  <2>3. known \in SUBSET PaneRow
    BY <1>3
  <2> HIDE DEF known
  <2> QED BY <2>1, <2>2, <2>3, ChoiceTold
<1>5. SelTypes'
  BY <1>1, <1>2, <1>4 DEF SelTypes, Taken
<1>6. OneUnchosen'
  <2>1. \A x \in ToSet(tab'.sel) \ known : x \in ToSet(tab.sel) \ told.chosen
    BY <1>1 DEF Taken
  <2> QED BY <2>1, <1>4 DEF OneUnchosen, AlmostAll
<1>7. OneMore'
  BY <1>2 DEF OneMore
<1>8. RowsFollow'
  BY <1>1, <1>2, <1>4, RowsStay DEF Taken
<1>9. Distinct'
  BY <1>1, <1>2, StillDistinct DEF Taken, Renaming
<1> QED BY <1>5, <1>6, <1>7, <1>8, <1>9

LEMMA CountedIs ==
    ASSUME told \in Tolds, Counted
    PROVE  /\ told' \in Tolds /\ told'.chosen = told.chosen /\ told'.late = told.late
           /\ told'.unseen = told.unseen
  BY DEF Tolds, Counted

LEMMA FilterOrSortKeeps == SelectionInv /\ FilterOrSort => SelectionInv'
<1> SUFFICES ASSUME SelectionInv, FilterOrSort PROVE SelectionInv'
  OBVIOUS
<1> USE DEF SelectionInv
<1>1. /\ told' \in Tolds /\ told'.chosen = told.chosen /\ told'.late = told.late
      /\ told'.unseen = told.unseen
  BY CountedIs DEF FilterOrSort, SelTypes
<1>2. tab' \in Tabs /\ SameRows(tab, tab') /\ tab'.sel = tab.sel
  <2>0. tab \in Tabs
    BY DEF SelTypes
  <2>1. CASE \E passes \in {Entries_, {RowOrder[Len(RowOrder)]}} \ {tab.passes} :
                 tab' = [tab EXCEPT !.passes = passes]
    <3>1. PICK passes \in {Entries_, {RowOrder[Len(RowOrder)]}} :
              tab' = [tab EXCEPT !.passes = passes]
      BY <2>1
    <3>2. RowOrder[Len(RowOrder)] \in Entries_
      BY SelectionConstants, LenProperties, EmptySeq, ElementOfSeq
    <3>3. passes \in SUBSET Entries_
      BY <3>2
    <3> QED BY <3>1, <3>3, <2>0 DEF Tabs, SameRows
  <2>2. CASE tab' = [tab EXCEPT !.asc = ~@]
    BY <2>0, <2>2 DEF Tabs, SameRows
  <2> QED BY <2>1, <2>2 DEF FilterOrSort
<1>3. UNCHANGED <<folder, listing, ask, clip, ops>>
  BY DEF FilterOrSort
<1>4. SelTypes'
  BY <1>1, <1>2, <1>3 DEF SelTypes
<1>5. OneUnchosen'
  BY <1>1, <1>2 DEF OneUnchosen
<1>6. OneMore'
  BY <1>3 DEF OneMore
<1>7. RowsFollow'
  BY <1>1, <1>2, <1>3, RowsStay
<1>8. Distinct'
  BY <1>2, <1>3, StillDistinct DEF Renaming
<1> QED BY <1>4, <1>5, <1>6, <1>7, <1>8

\* A listing that begins takes nothing from the rows that were there.
LEMMA ListFollows ==
    ASSUME SelTypes, OneUnchosen, Distinct, NEW t \in {InBackground, FromNothing}, List(t),
           told'.chosen = told.chosen, Renaming => Renaming'
    PROVE  /\ tab' \in Tabs /\ listing' \in {Absent, AskedFor} \cup Reading
           /\ OneUnchosen' /\ RowsFollow' /\ Distinct'
<1>1. tab' = t /\ listing' = AskedFor
  BY DEF List, AskedFor
<1>2. /\ t \in Tabs /\ Collected(t) = <<>> /\ t.waits /\ IsInjective(t.aside)
      /\ IsInjective(tab.rows) => IsInjective(t.rows)
      /\ IsInjective(tab.sel) => IsInjective(t.sel)
      /\ \A known : AlmostAll(tab.sel, known) => AlmostAll(t.sel, known)
  BY ListingBegins DEF SelTypes
<1>3. OneUnchosen'
  BY <1>1, <1>2 DEF OneUnchosen
<1>4. Collected(tab)' = <<>>
  BY <1>1, <1>2 DEF Collected
<1>5. RowsFollow'
  BY <1>1, <1>4, ListingKinds DEF RowsFollow
<1>6. Distinct'
  BY <1>1, <1>2, ListingKinds DEF Distinct
<1> QED BY <1>1, <1>2, <1>3, <1>5, <1>6

LEMMA RefreshKeeps == SelectionInv /\ Refresh_ => SelectionInv'
<1> SUFFICES ASSUME SelectionInv, Refresh_ PROVE SelectionInv'
  OBVIOUS
<1> USE DEF SelectionInv
<1>1. PICK t \in {InBackground, FromNothing} : List(t)
  BY DEF Refresh_
<1>2. told' \in Tolds /\ told'.chosen = told.chosen
  BY CountedIs DEF Refresh_, SelTypes
<1>3. UNCHANGED <<folder, ask, clip, ops>>
  BY DEF Refresh_
<1>4. /\ tab' \in Tabs /\ listing' \in {Absent, AskedFor} \cup Reading
      /\ OneUnchosen' /\ RowsFollow' /\ Distinct'
  BY <1>1, <1>2, <1>3, ListFollows DEF Renaming
<1>5. SelTypes'
  BY <1>2, <1>3, <1>4 DEF SelTypes
<1>6. OneMore'
  BY <1>3 DEF OneMore
<1> QED BY <1>4, <1>5, <1>6

LEMMA ReadFolderKeeps == SelectionInv /\ ReadFolder => SelectionInv'
<1> SUFFICES ASSUME SelectionInv, ReadFolder PROVE SelectionInv'
  OBVIOUS
<1> USE DEF SelectionInv
<1>1. PICK s \in SetToSeqs(folder) : listing' = [kind |-> "read", rest |-> s, fresh |-> TRUE]
  BY DEF ReadFolder
<1>2. s \in Seq(Entries_) /\ IsInjective(s) /\ ToSet(s) = folder
  BY OrdersOf DEF SelTypes
<1>3. listing' \in Reading /\ listing'.rest = s
  BY <1>1, <1>2 DEF Reading
<1>4. listing = AskedFor /\ UNCHANGED <<folder, tab, ask, clip, ops, told>>
  BY ListingKinds DEF ReadFolder, SelTypes
<1>5. SelTypes'
  BY <1>3, <1>4 DEF SelTypes
<1>6. OneUnchosen' /\ OneMore'
  BY <1>4 DEF OneUnchosen, OneMore
<1>7. Collected(tab)' = <<>>
  BY <1>4 DEF RowsFollow, Collected
<1>8. RowsFollow'
  BY <1>2, <1>3, <1>4, <1>7, ListingKinds, NoneSeq DEF RowsFollow
<1>9. Distinct'
  BY <1>3, <1>4, ListingKinds, StillDistinct DEF SameRows, Renaming
<1> QED BY <1>5, <1>6, <1>8, <1>9

LEMMA ApplyBatchKeeps == SelectionInv /\ ApplyBatch_ => SelectionInv'
<1> SUFFICES ASSUME SelectionInv, ApplyBatch_ PROVE SelectionInv'
  OBVIOUS
<1> USE DEF SelectionInv
<1> DEFINE rest == listing.rest
<1>0. /\ listing \in Reading /\ listing.kind = "read" /\ rest \in Seq(Entries_)
      /\ listing.fresh \in BOOLEAN /\ IsInjective(rest)
  BY ListingKinds DEF ApplyBatch_, SelTypes, RowsFollow, Reading
<1>1. PICK k \in {Len(rest)} \cup (IF Len(rest) > 1 THEN {1} ELSE {}) :
          LET complete == k = Len(rest) IN
          /\ tab' = BatchTab(tab, SubSeq(rest, 1, k), complete)
          /\ listing' = IF complete THEN Absent
                        ELSE [listing EXCEPT !.rest = SubSeq(@, k + 1, Len(@))]
          /\ told' = IF complete THEN [told EXCEPT !.unseen = ~listing.fresh] ELSE told
  BY DEF ApplyBatch_
<1> DEFINE complete == k = Len(rest)
           names == SubSeq(rest, 1, k)
           left  == SubSeq(rest, k + 1, Len(rest))
<1>2. UNCHANGED <<folder, ask, clip, ops>>
  BY DEF ApplyBatch_
<1>3. Len(rest) \in Nat /\ k \in 0 .. Len(rest) /\ DOMAIN rest = 1 .. Len(rest)
  BY <1>0, LenProperties
<1> HIDE DEF rest
<1>4. /\ names \in Seq(Entries_) /\ IsInjective(names)
      /\ left \in Seq(Entries_) /\ IsInjective(left)
  BY <1>0, <1>3, SplitSet
<1>5. ToSet(names) \cup ToSet(left) = ToSet(rest) /\ (complete => ToSet(left) = {})
  BY <1>0, <1>3, SplitSet
<1> HIDE DEF names, left
<1>6. /\ tab' \in Tabs
      /\ \A known : AlmostAll(tab.sel, known) => AlmostAll(tab'.sel, known)
      /\ complete => tab'.back = FALSE
      /\ tab'.waits <=> tab.waits /\ ~complete
      /\ IsInjective(tab.sel) => IsInjective(tab'.sel)
      /\ IsInjective(tab.aside) => IsInjective(tab'.aside)
      /\ IsInjective(tab.aside) /\ IsInjective(tab.rows) => IsInjective(tab'.rows)
      /\ ToSet(Collected(tab')) = ToSet(Collected(tab)) \cup ToSet(names)
      /\ IsInjective(Collected(tab)) => IsInjective(Collected(tab'))
  <2>1. tab \in Tabs /\ complete \in BOOLEAN /\ tab' = BatchTab(tab, names, complete)
    BY <1>1 DEF SelTypes, names
  <2> HIDE DEF complete
  <2>2. Batched(tab, tab', names, complete)
    BY <2>1, <1>4, BatchMakes
  <2> QED BY <2>2 DEF Batched
<1>7. told' \in Tolds /\ told'.chosen = told.chosen /\ told'.late = told.late
  BY <1>0, <1>1 DEF SelTypes, Tolds
<1>8. Collected(tab)' = Collected(tab')
  BY DEF Collected
<1>9. Unsettled' = Unsettled
  BY <1>2, <1>7 DEF Unsettled
<1>10. OneUnchosen'
  BY <1>6, <1>7 DEF OneUnchosen
<1>11. OneMore'
  BY <1>2 DEF OneMore
<1>14. listing' # Absent <=> ~complete
  BY <1>0, <1>1, ListingKinds DEF Reading
<1>15. Distinct'
  <2>1. listing # Absent /\ Renaming' = Renaming
    BY <1>0, <1>2, ListingKinds DEF Renaming
  <2> HIDE DEF complete
  <2> QED BY <1>6, <1>14, <2>1 DEF Distinct
<1>12. CASE complete
  <2>1. listing' = Absent /\ told'.unseen = ~listing.fresh
    BY <1>1, <1>12 DEF SelTypes, Tolds
  <2>2. SelTypes'
    BY <1>2, <1>6, <1>7, <2>1 DEF SelTypes
  <2>3. tab'.rows = Collected(tab')
    BY <1>6, <1>12 DEF Collected
  <2>4. RowsFollow'
    <3>1. ASSUME ~Unsettled', ~told'.unseen
          PROVE  ToSet(tab'.rows) = folder' /\ IsInjective(tab'.rows)
      <4>1. ToSet(Collected(tab)) \cup ToSet(rest) = folder /\ IsInjective(Collected(tab))
        BY <3>1, <1>0, <1>9, <2>1 DEF RowsFollow, rest
      <4> QED BY <4>1, <2>3, <1>2, <1>5, <1>6, <1>12
    <3> QED BY <3>1, <2>1, ListingKinds DEF RowsFollow
  <2> QED BY <2>2, <2>4, <1>10, <1>11, <1>15
<1>13. CASE ~complete
  <2>1. listing' = [listing EXCEPT !.rest = left] /\ told' = told
    BY <1>1, <1>13 DEF left, rest
  <2>2. listing' \in Reading /\ listing'.rest = left /\ listing'.fresh = listing.fresh
    BY <2>1, <1>0, <1>4 DEF Reading
  <2>3. SelTypes'
    BY <1>2, <1>6, <1>7, <2>2 DEF SelTypes
  <2>4. RowsFollow'
    <3>1. ASSUME ~Unsettled', listing'.fresh
          PROVE  /\ ToSet(Collected(tab)') \cup ToSet(left) = folder'
                 /\ IsInjective(Collected(tab)')
      <4>1. ToSet(Collected(tab)) \cup ToSet(rest) = folder /\ IsInjective(Collected(tab))
        BY <3>1, <1>0, <1>9, <2>2 DEF RowsFollow, rest
      <4> QED BY <4>1, <1>2, <1>5, <1>6, <1>8
    <3> QED BY <3>1, <2>2, <1>4, ListingKinds DEF RowsFollow
  <2> QED BY <2>3, <2>4, <1>10, <1>11, <1>15
<1> QED BY <1>12, <1>13

LEMMA ListingFailsKeeps == SelectionInv /\ ListingFails => SelectionInv'
<1> SUFFICES ASSUME SelectionInv, ListingFails PROVE SelectionInv'
  OBVIOUS
<1> USE DEF SelectionInv
<1>1. /\ listing' = Absent /\ tab' = [tab EXCEPT !.waits = FALSE, !.back = FALSE, !.aside = <<>>]
      /\ told' = [told EXCEPT !.unseen = TRUE] /\ UNCHANGED <<folder, ask, clip, ops>>
  BY DEF ListingFails
<1>2. /\ tab' \in Tabs /\ tab'.sel = tab.sel /\ tab'.rows = tab.rows /\ tab'.aside = <<>>
      /\ ~tab'.waits
  BY <1>1, NoneSeq DEF SelTypes, Tabs
<1>3. told' \in Tolds /\ told'.chosen = told.chosen /\ told'.unseen
  BY <1>1 DEF SelTypes, Tolds
<1>4. SelTypes'
  BY <1>1, <1>2, <1>3 DEF SelTypes
<1>5. OneUnchosen' /\ OneMore'
  BY <1>1, <1>2, <1>3 DEF OneUnchosen, OneMore
<1>6. RowsFollow'
  BY <1>1, <1>3, ListingKinds DEF RowsFollow
<1>7. Distinct'
  BY <1>1, <1>2, NoneSeq DEF Distinct, Renaming
<1> QED BY <1>4, <1>5, <1>6, <1>7

-----------------------------------------------------------------------------
(* What is asked for, and what becomes of it.                              *)

\* A step that touches no rows, and adds at most an operation that is rightly about something
LEMMA AsksKeep ==
    ASSUME SelectionInv, UNCHANGED <<folder, tab, listing>>,
           told' \in Tolds, told'.chosen = told.chosen, told'.late = told.late,
           told'.unseen = told.unseen,
           ask' \in {Absent} \cup Whats, MostChosen(ask'),
           clip' \in {Absent} \cup Whats, MostChosen(clip'),
           ops' = ops \/ \E w \in Whats : MostChosen(w) /\ Submit(w)
    PROVE  SelectionInv'
<1>0. ops \in Seq(Opers) /\ \A i \in DOMAIN ops : MostChosen(ops[i].what)
  BY DEF SelectionInv, SelTypes, OneMore
<1>1. /\ ops' \in Seq(Opers) /\ \A i \in DOMAIN ops' : MostChosen(ops'[i].what)
      /\ (\E i \in DOMAIN ops : Ended(ops[i]) /\ ~ops[i].heard) =>
             \E i \in DOMAIN ops' : Ended(ops'[i]) /\ ~ops'[i].heard
      /\ Renaming => Renaming'
  <2>1. CASE ops' = ops
    BY <1>0, <2>1 DEF Renaming
  <2>2. CASE \E w \in Whats : MostChosen(w) /\ Submit(w)
    BY <1>0, <2>2, SubmitKeeps
  <2> QED BY <2>1, <2>2
<1>2. SelTypes'
  BY <1>1 DEF SelectionInv, SelTypes
<1>3. OneUnchosen'
  BY DEF SelectionInv, OneUnchosen
<1>4. OneMore'
  BY <1>1 DEF OneMore
<1>5. RowsFollow'
  BY <1>1, RowsStay DEF SelectionInv, SameRows
<1>6. Distinct'
  BY <1>1, StillDistinct DEF SelectionInv, SameRows
<1> QED BY <1>2, <1>3, <1>4, <1>5, <1>6 DEF SelectionInv

\* The dialog and the clipboard as they are
LEMMA HasNow ==
    ASSUME SelectionInv
    PROVE  /\ ask \in {Absent} \cup Whats /\ MostChosen(ask)
           /\ clip \in {Absent} \cup Whats /\ MostChosen(clip)
  BY DEF SelectionInv, SelTypes, OneMore

\* What is about the rows that are chosen now
LEMMA AboutChosen ==
    ASSUME SelectionInv, NEW kind \in {"delete", "move"}
    PROVE  LET w == About(kind, ToSet(Chosen(tab)), Nowhere)
           IN  w \in Whats /\ MostChosen(w)
<1>1. /\ ToSet(Chosen(tab)) \in SUBSET Entries_
      /\ \A x, y \in ToSet(Chosen(tab)) \ told.chosen : x = y
  BY ChosenSet DEF SelectionInv, SelTypes, OneUnchosen, AlmostAll
<1> QED BY <1>1, AboutNames

LEMMA AskDeleteKeeps == SelectionInv /\ AskDelete => SelectionInv'
<1> SUFFICES ASSUME SelectionInv, AskDelete PROVE SelectionInv'
  OBVIOUS
<1>0. PICK kind \in {"delete", "move"} : kind = "delete"
  OBVIOUS
<1> DEFINE what == About(kind, ToSet(Chosen(tab)), Nowhere)
<1>1. what \in Whats /\ MostChosen(what)
  BY AboutChosen
<1>2. /\ UNCHANGED <<folder, tab, listing, clip>> /\ Counted
      /\ (ask' = what /\ ops' = ops) \/ (Submit(what) /\ ask' = ask)
  BY <1>0 DEF AskDelete
<1>3. /\ told' \in Tolds /\ told'.chosen = told.chosen /\ told'.late = told.late
      /\ told'.unseen = told.unseen
  BY <1>2, CountedIs DEF SelectionInv, SelTypes
<1> HIDE DEF what
<1>4. CASE ask' = what /\ ops' = ops
  BY <1>1, <1>2, <1>3, <1>4, HasNow, AsksKeep
<1>5. CASE Submit(what) /\ ask' = ask
  BY <1>1, <1>2, <1>3, <1>5, HasNow, AsksKeep
<1> QED BY <1>2, <1>4, <1>5

LEMMA AskRenameKeeps == SelectionInv /\ AskRename => SelectionInv'
<1> SUFFICES ASSUME SelectionInv, AskRename PROVE SelectionInv'
  OBVIOUS
<1>0. PICK kind \in {"delete", "rename", "create", "move"} : kind = "rename"
  OBVIOUS
<1>1. PICK new \in Entries_ \ {Chosen(tab)[1]} : ask' = About(kind, {Chosen(tab)[1]}, new)
  BY <1>0 DEF AskRename
<1>2. Chosen(tab)[1] \in Entries_
  BY ChosenSet DEF AskRename, SelectionInv, SelTypes
<1>3. ask' \in Whats /\ MostChosen(ask')
  <2>1. \A x, y \in {Chosen(tab)[1]} \ told.chosen : x = y
    OBVIOUS
  <2> QED BY <2>1, <1>0, <1>1, <1>2, AboutNames
<1>4. UNCHANGED <<folder, tab, listing, clip, ops>> /\ Counted
  BY DEF AskRename
<1>5. /\ told' \in Tolds /\ told'.chosen = told.chosen /\ told'.late = told.late
      /\ told'.unseen = told.unseen
  BY <1>4, CountedIs DEF SelectionInv, SelTypes
<1> QED BY <1>3, <1>4, <1>5, HasNow, AsksKeep

LEMMA AskCreateKeeps == SelectionInv /\ AskCreate => SelectionInv'
<1> SUFFICES ASSUME SelectionInv, AskCreate PROVE SelectionInv'
  OBVIOUS
<1>0. PICK kind \in {"delete", "rename", "create", "move"} : kind = "create"
  OBVIOUS
<1>1. PICK new \in Entries_ : ask' = About(kind, {}, new)
  BY <1>0 DEF AskCreate
<1>3. ask' \in Whats /\ MostChosen(ask')
  BY <1>0, <1>1, AboutNames
<1>4. UNCHANGED <<folder, tab, listing, clip, ops>> /\ Counted
  BY DEF AskCreate
<1>5. /\ told' \in Tolds /\ told'.chosen = told.chosen /\ told'.late = told.late
      /\ told'.unseen = told.unseen
  BY <1>4, CountedIs DEF SelectionInv, SelTypes
<1> QED BY <1>3, <1>4, <1>5, HasNow, AsksKeep

LEMMA DropKeeps ==
    ASSUME SelectionInv, NEW n \in Shown(tab), Drop(n)
    PROVE  SelectionInv'
<1>0. PICK kind \in {"delete", "rename", "create", "move"} : kind = "move"
  OBVIOUS
<1> DEFINE names == Dragged(n) \cap Known(tab)
<1>1. ask' = About(kind, names, Nowhere)
  BY <1>0 DEF Drop
<1>2. names \in SUBSET Entries_
  BY SortedSet DEF SelectionInv, SelTypes
<1>3. \A x, y \in names \ told.chosen : x = y
  BY DEF Dragged, SelectionInv, OneUnchosen, AlmostAll
<1> HIDE DEF names
<1>4. ask' \in Whats /\ MostChosen(ask')
  BY <1>0, <1>1, <1>2, <1>3, AboutNames
<1>5. UNCHANGED <<folder, tab, listing, clip, ops>> /\ Counted
  BY DEF Drop
<1>6. /\ told' \in Tolds /\ told'.chosen = told.chosen /\ told'.late = told.late
      /\ told'.unseen = told.unseen
  BY <1>5, CountedIs DEF SelectionInv, SelTypes
<1> QED BY <1>4, <1>5, <1>6, HasNow, AsksKeep

LEMMA CutKeeps == SelectionInv /\ Cut => SelectionInv'
<1> SUFFICES ASSUME SelectionInv, Cut PROVE SelectionInv'
  OBVIOUS
<1>0. PICK kind \in {"delete", "move"} : kind = "move"
  OBVIOUS
<1>1. clip' = About(kind, ToSet(Chosen(tab)), Nowhere)
  BY <1>0 DEF Cut
<1>2. clip' \in Whats /\ MostChosen(clip')
  BY <1>1, AboutChosen
<1>3. UNCHANGED <<folder, tab, listing, ask, ops>> /\ Counted
  BY DEF Cut
<1>4. /\ told' \in Tolds /\ told'.chosen = told.chosen /\ told'.late = told.late
      /\ told'.unseen = told.unseen
  BY <1>3, CountedIs DEF SelectionInv, SelTypes
<1> QED BY <1>2, <1>3, <1>4, HasNow, AsksKeep

LEMMA PasteClipKeeps == SelectionInv /\ PasteClip => SelectionInv'
<1> SUFFICES ASSUME SelectionInv, PasteClip PROVE SelectionInv'
  OBVIOUS
<1> DEFINE what == [clip EXCEPT !.kind = "paste"]
<1>0. clip \in Whats /\ MostChosen(clip) /\ clip # Absent
  BY HasNow DEF PasteClip
<1>1. what \in Whats /\ MostChosen(what)
  <2>1. what \in Whats /\ what.more = clip.more
    BY <1>0 DEF Whats
  <2> HIDE DEF what
  <2> QED BY <2>1, <1>0 DEF MostChosen
<1>2. /\ UNCHANGED <<folder, tab, listing, clip>> /\ Counted
      /\ (ask' = clip /\ ops' = ops) \/ (Submit(what) /\ ask' = ask)
  BY DEF PasteClip
<1>3. /\ told' \in Tolds /\ told'.chosen = told.chosen /\ told'.late = told.late
      /\ told'.unseen = told.unseen
  BY <1>2, CountedIs DEF SelectionInv, SelTypes
<1> HIDE DEF what
<1>4. CASE ask' = clip /\ ops' = ops
  BY <1>0, <1>2, <1>3, <1>4, HasNow, AsksKeep
<1>5. CASE Submit(what) /\ ask' = ask
  BY <1>1, <1>2, <1>3, <1>5, HasNow, AsksKeep
<1> QED BY <1>2, <1>4, <1>5

LEMMA DialogKeeps == SelectionInv /\ (SubmitDialog \/ DismissDialog) => SelectionInv'
<1> SUFFICES ASSUME SelectionInv, SubmitDialog \/ DismissDialog PROVE SelectionInv'
  OBVIOUS
<1>1. ask \in Whats /\ MostChosen(ask) /\ MostChosen(Absent)
  BY HasNow DEF SubmitDialog, DismissDialog, MostChosen
<1>2. UNCHANGED <<folder, tab, listing, clip, told>> /\ told \in Tolds
  BY DEF SubmitDialog, DismissDialog, SelectionInv, SelTypes
<1>3. CASE SubmitDialog
  BY <1>1, <1>2, <1>3, HasNow, AsksKeep DEF SubmitDialog
<1>4. CASE DismissDialog
  BY <1>1, <1>2, <1>4, HasNow, AsksKeep DEF DismissDialog
<1> QED BY <1>3, <1>4

LEMMA PerformKeeps ==
    ASSUME SelectionInv, NEW i \in DOMAIN ops, Perform(i)
    PROVE  SelectionInv'
<1> USE DEF SelectionInv
<1> DEFINE what == ops[i].what
           can  == what.names \subseteq folder
           ok   == can /\ what.new \notin folder
<1>0. /\ ops \in Seq(Opers) /\ ops[i] \in Opers /\ what \in Whats /\ ops[i].state = "asked"
      /\ ~ops[i].answered /\ ~ops[i].heard
  <2>1. ops[i] \in Opers
    BY LenProperties, ElementOfSeq DEF SelTypes
  <2> QED BY <2>1 DEF Perform, Opers, SelTypes
<1>1. PICK end \in IF ok THEN {"done"} ELSE IF can /\ what.kind = "rename" THEN {"failed"}
                   ELSE {"failed", "refused"} :
          ops' = [ops EXCEPT ![i].state = end]
  BY DEF Perform
<1>2. /\ folder' = IF ok THEN (folder \ what.names) \cup ({what.new} \ {Nowhere}) ELSE folder
      /\ listing' = IF ok THEN Stale(listing) ELSE listing
      /\ UNCHANGED <<tab, ask, clip, told>>
  BY DEF Perform
<1>3. folder' \in SUBSET Entries_
  BY <1>0, <1>2 DEF SelTypes, Whats
<1>4. end \in {"done", "failed", "refused"} /\ (ok => end = "done")
  OBVIOUS
<1> HIDE DEF ok, can
<1> DEFINE o == [ops[i] EXCEPT !.state = end]
<1>5. /\ o \in Opers /\ o.what = ops[i].what /\ o.state = end /\ ~o.heard
      /\ ops' = [ops EXCEPT ![i] = o]
  BY <1>0, <1>1, <1>4 DEF Opers
<1> HIDE DEF o
<1>6. /\ ops' \in Seq(Opers) /\ DOMAIN ops' = DOMAIN ops /\ ops'[i] = o
      /\ \A k \in DOMAIN ops : k # i => ops'[k] = ops[k]
      /\ (\A k \in DOMAIN ops : MostChosen(ops[k].what)) =>
             \A k \in DOMAIN ops' : MostChosen(ops'[k].what)
      /\ Renaming => Renaming'
  BY <1>0, <1>5, GoesOn
<1>7. listing' \in {Absent, AskedFor} \cup Reading
  <2>1. Stale(listing) \in {Absent, AskedFor} \cup Reading
    BY ListingKinds DEF Stale, SelTypes, Reading
  <2> QED BY <1>2, <2>1 DEF SelTypes
<1>8. SelTypes'
  BY <1>2, <1>3, <1>6, <1>7 DEF SelTypes
<1>9. OneUnchosen' /\ OneMore'
  BY <1>2, <1>6 DEF OneUnchosen, OneMore
<1>10. RowsFollow'
  <2>1. CASE end = "refused"
    <3>1. folder' = folder /\ listing' = listing
      BY <1>2, <1>4, <2>1
    <3>2. \A k \in DOMAIN ops : Ended(ops[k]) /\ ~ops[k].heard => k # i
      BY <1>0 DEF Ended
    <3>3. (\E k \in DOMAIN ops : Ended(ops[k]) /\ ~ops[k].heard) =>
              \E k \in DOMAIN ops' : Ended(ops'[k]) /\ ~ops'[k].heard
      BY <3>2, <1>6
    <3> QED BY <3>1, <3>3, <1>2, RowsStay DEF SameRows
  <2>2. CASE end # "refused"
    <3>1. Ended(ops'[i]) /\ ~ops'[i].heard /\ i \in DOMAIN ops'
      BY <1>4, <1>5, <1>6, <2>2 DEF Ended
    <3>2. Unsettled'
      BY <3>1 DEF Unsettled
    <3>3. /\ listing' = AskedFor => listing = AskedFor
          /\ listing' \in Reading => listing \in Reading /\ listing'.rest = listing.rest
      <4>1. CASE listing \in Reading
        <5>1. Stale(listing) \in Reading /\ Stale(listing).rest = listing.rest
          BY <4>1, ListingKinds DEF Stale, Reading
        <5> QED BY <4>1, <5>1, <1>2, ListingKinds
      <4>2. CASE listing \notin Reading
        <5>1. Stale(listing) = listing
          BY <4>2, ListingKinds DEF Stale, SelTypes
        <5> QED BY <5>1, <1>2, <4>2
      <4> QED BY <4>1, <4>2
    <3>4. Collected(tab)' = Collected(tab)
      BY <1>2 DEF Collected
    <3> QED BY <3>2, <3>3, <3>4 DEF RowsFollow
  <2> QED BY <2>1, <2>2
<1>11. Distinct'
  <2>1. Stale(listing) # Absent <=> listing # Absent
    BY ListingKinds DEF Stale, SelTypes, Reading
  <2> QED BY <2>1, <1>2, <1>6, StillDistinct DEF SameRows
<1> QED BY <1>8, <1>9, <1>10, <1>11

\* The answer to a start: only that to a rename changes rows, and then they are unsettled.
LEMMA AnswerKeeps ==
    ASSUME SelectionInv, NEW i \in DOMAIN ops, Answer_(i)
    PROVE  SelectionInv'
<1> USE DEF SelectionInv
<1> DEFINE what == ops[i].what
           old  == CHOOSE n \in what.names : TRUE
           o    == [ops[i] EXCEPT !.answered = TRUE]
<1>0. /\ ops \in Seq(Opers) /\ ops[i] \in Opers /\ what \in Whats /\ ops[i].state # "asked"
      /\ ops[i].heard \in BOOLEAN
  <2>1. ops[i] \in Opers
    BY LenProperties, ElementOfSeq DEF SelTypes
  <2> QED BY <2>1 DEF Answer_, Opers, SelTypes
<1>1. /\ ops' = [ops EXCEPT ![i] = o] /\ UNCHANGED <<folder, listing>>
      /\ o \in Opers /\ o.what = what /\ o.state = ops[i].state /\ o.heard = ops[i].heard
  BY <1>0 DEF Answer_, Opers
<1> HIDE DEF o
<1>2. /\ ops' \in Seq(Opers) /\ DOMAIN ops' = DOMAIN ops /\ ops'[i] = o
      /\ \A k \in DOMAIN ops : k # i => ops'[k] = ops[k]
      /\ (\A k \in DOMAIN ops : MostChosen(ops[k].what)) =>
             \A k \in DOMAIN ops' : MostChosen(ops'[k].what)
      /\ Renaming => Renaming'
  BY <1>0, <1>1, GoesOn
<1>3. \A k \in DOMAIN ops : ops'[k].state = ops[k].state /\ ops'[k].heard = ops[k].heard
  BY <1>1, <1>2
<1>4. (\E k \in DOMAIN ops : Ended(ops[k]) /\ ~ops[k].heard) =>
          \E k \in DOMAIN ops' : Ended(ops'[k]) /\ ~ops'[k].heard
  BY <1>2, <1>3 DEF Ended
<1>5. /\ ask' \in {ask, Absent} /\ clip' \in {clip, Absent}
  BY DEF Answer_
<1>6. OneMore'
  BY <1>2, <1>5 DEF OneMore, MostChosen
<1>7. /\ \/ told' = told /\ tab' = tab
         \/ /\ what.kind = "create" /\ tab' = Single(tab, what.new)
            /\ told' = [told EXCEPT !.chosen = {what.new}]
         \/ /\ what.kind = "rename" /\ tab' = RenameRow(tab, old, what.new)
            /\ ops[i].state # "refused" /\ old \in Known(tab)
            /\ told' = [told EXCEPT !.chosen = {IF n = old THEN what.new ELSE n : n \in @},
                                    !.late = @ \/ ops[i].heard]
  BY DEF Answer_, RenameRow
<1>8. CASE told' = told /\ tab' = tab
  <2>1. SelTypes'
    BY <1>1, <1>2, <1>5, <1>8 DEF SelTypes
  <2>2. OneUnchosen'
    BY <1>8 DEF OneUnchosen
  <2>3. RowsFollow'
    BY <1>1, <1>4, <1>8, RowsStay DEF SameRows
  <2>4. Distinct'
    BY <1>1, <1>2, <1>8, StillDistinct DEF SameRows
  <2> QED BY <2>1, <2>2, <2>3, <2>4, <1>6
<1>9. CASE /\ what.kind = "create" /\ tab' = Single(tab, what.new)
           /\ told' = [told EXCEPT !.chosen = {what.new}]
  <2>1. what.new \in PaneRow
    BY <1>0, <1>9 DEF Whats, PaneRow
  <2>2. /\ tab' \in Tabs /\ SameRows(tab, tab') /\ ToSet(tab'.sel) = {what.new}
        /\ IsInjective(tab'.sel)
    BY <1>9, <2>1, SingleIs DEF SelTypes
  <2>3. /\ told' \in Tolds /\ told'.chosen = {what.new} /\ told'.late = told.late
        /\ told'.unseen = told.unseen
    BY <1>9, <2>1 DEF SelTypes, Tolds
  <2>4. SelTypes'
    BY <1>1, <1>2, <1>5, <2>2, <2>3 DEF SelTypes
  <2>5. OneUnchosen'
    BY <2>2, <2>3 DEF OneUnchosen, AlmostAll
  <2>6. RowsFollow'
    BY <1>1, <1>4, <2>2, <2>3, RowsStay
  <2>7. Distinct'
    BY <1>1, <1>2, <2>2, StillDistinct
  <2> QED BY <2>4, <2>5, <2>6, <2>7, <1>6
<1>10. CASE /\ what.kind = "rename" /\ tab' = RenameRow(tab, old, what.new)
            /\ ops[i].state # "refused" /\ old \in Known(tab)
            /\ told' = [told EXCEPT !.chosen = {IF n = old THEN what.new ELSE n : n \in @},
                                    !.late = @ \/ ops[i].heard]
  <2> DEFINE known == {Renamed(n, old, what.new) : n \in told.chosen}
  <2>1. what.new \in Entries_ /\ tab \in Tabs
    BY <1>0, <1>10 DEF Whats, SelTypes
  <2> HIDE DEF what, old
  <2>2. /\ tab' \in Tabs /\ tab'.aside = tab.aside /\ tab'.back = tab.back
        /\ tab'.waits = tab.waits
        /\ ToSet(tab'.sel) = {Renamed(n, old, what.new) : n \in ToSet(tab.sel)}
    BY <1>10, <2>1, RenameMakes
  <2>3. known \in SUBSET PaneRow
    BY <2>1 DEF Renamed, PaneRow, SelTypes, Tolds
  <2>4. told' = [told EXCEPT !.chosen = known, !.late = @ \/ ops[i].heard]
    BY <1>10 DEF Renamed
  <2> HIDE DEF known
  <2>5. told' \in Tolds /\ told'.chosen = known /\ told'.late = (told.late \/ ops[i].heard)
    <3>1. told.late \in BOOLEAN /\ (told.late \/ ops[i].heard) \in BOOLEAN
      BY DEF SelTypes, Tolds
    <3>2. told' = [chosen |-> known, unseen |-> told.unseen, late |-> told.late \/ ops[i].heard,
                   others |-> told.others, acts |-> told.acts]
      BY <2>4 DEF SelTypes, Tolds
    <3> QED BY <3>1, <3>2, <2>3 DEF SelTypes, Tolds
  <2>6. SelTypes'
    BY <1>1, <1>2, <1>5, <2>2, <2>5 DEF SelTypes
  <2>7. OneUnchosen'
    <3>1. ASSUME NEW x \in ToSet(tab'.sel) \ known
          PROVE  \E a \in ToSet(tab.sel) \ told.chosen : x = Renamed(a, old, what.new)
      BY <2>2 DEF known
    <3>2. ASSUME NEW x \in ToSet(tab'.sel) \ known, NEW y \in ToSet(tab'.sel) \ known
          PROVE  x = y
      <4>1. PICK a \in ToSet(tab.sel) \ told.chosen : x = Renamed(a, old, what.new)
        BY <3>1
      <4>2. PICK b \in ToSet(tab.sel) \ told.chosen : y = Renamed(b, old, what.new)
        BY <3>1
      <4>3. a = b
        BY DEF OneUnchosen, AlmostAll
      <4> QED BY <4>1, <4>2, <4>3
    <3> QED BY <3>2, <2>5 DEF OneUnchosen, AlmostAll
  <2>8. Unsettled'
    <3>1. Ended(ops[i])
      BY <1>0, <1>10 DEF Ended, Opers
    <3>2. CASE ops[i].heard
      BY <3>2, <2>5 DEF Unsettled
    <3>3. CASE ~ops[i].heard
      BY <3>1, <3>3, <1>4 DEF Unsettled
    <3> QED BY <3>2, <3>3
  <2>9. listing' = AskedFor => Collected(tab)' = <<>>
    <3>1. CASE tab.back
      BY <3>1, <1>1, <2>2 DEF RowsFollow, Collected
    <3>2. CASE ~tab.back
      <4>1. tab.rows # <<>>
        BY <1>10, NoneSeq DEF Known
      <4> QED BY <4>1, <3>2, <1>1 DEF RowsFollow, Collected
    <3> QED BY <3>1, <3>2
  <2>10. RowsFollow'
    BY <1>1, <2>8, <2>9 DEF RowsFollow
  <2>11. Distinct'
    <3>1. Renaming'
      BY <1>1, <1>2, <1>10 DEF Renaming, what
    <3> QED BY <3>1, <1>1, <2>2 DEF Distinct
  <2> QED BY <2>6, <2>7, <2>10, <2>11, <1>6
<1> QED BY <1>7, <1>8, <1>9, <1>10

LEMMA HearEndKeeps ==
    ASSUME SelectionInv, NEW i \in DOMAIN ops, HearEnd_(i)
    PROVE  SelectionInv'
<1> USE DEF SelectionInv
<1> DEFINE o == [ops[i] EXCEPT !.heard = TRUE]
<1>0. ops \in Seq(Opers) /\ ops[i] \in Opers /\ ops[i].state # "asked"
  <2>1. ops[i] \in Opers
    BY LenProperties, ElementOfSeq DEF SelTypes
  <2> QED BY <2>1 DEF HearEnd_, SelTypes
<1>1. /\ ops' = [ops EXCEPT ![i] = o] /\ UNCHANGED <<folder, ask, clip>>
      /\ o \in Opers /\ o.what = ops[i].what
  BY <1>0 DEF HearEnd_, Opers
<1> HIDE DEF o
<1>2. /\ ops' \in Seq(Opers)
      /\ (\A k \in DOMAIN ops : MostChosen(ops[k].what)) =>
             \A k \in DOMAIN ops' : MostChosen(ops'[k].what)
      /\ Renaming => Renaming'
  BY <1>0, <1>1, GoesOn
<1>3. PICK t \in {InBackground, FromNothing} : List(t)
  BY DEF HearEnd_
<1>4. told' = [told EXCEPT !.late = FALSE]
  BY DEF HearEnd_
<1>5. told' \in Tolds /\ told'.chosen = told.chosen
  BY <1>4 DEF SelTypes, Tolds
<1>6. /\ tab' \in Tabs /\ listing' \in {Absent, AskedFor} \cup Reading
      /\ OneUnchosen' /\ RowsFollow' /\ Distinct'
  BY <1>2, <1>3, <1>5, ListFollows
<1>7. SelTypes'
  BY <1>1, <1>2, <1>5, <1>6 DEF SelTypes
<1>8. OneMore'
  BY <1>1, <1>2 DEF OneMore
<1> QED BY <1>6, <1>7, <1>8

LEMMA OthersKeep == SelectionInv /\ OthersAct => SelectionInv'
<1> SUFFICES ASSUME SelectionInv, OthersAct PROVE SelectionInv'
  OBVIOUS
<1> USE DEF SelectionInv
<1>1. PICK n \in OthersChange :
          folder' = IF n \in folder THEN folder \ {n} ELSE folder \cup {n}
  BY DEF OthersAct
<1>2. /\ listing' = Stale(listing) /\ told' = [told EXCEPT !.others = TRUE, !.unseen = TRUE]
      /\ UNCHANGED <<tab, ask, clip, ops>>
  BY DEF OthersAct
<1>3. folder' \in SUBSET Entries_
  BY <1>1, SelectionConstants DEF SelTypes
<1>4. told' \in Tolds /\ told'.chosen = told.chosen /\ told'.unseen
  BY <1>2 DEF SelTypes, Tolds
<1>5. CASE listing \in Reading
  <2>1. /\ listing' \in Reading /\ listing'.rest = listing.rest /\ ~listing'.fresh
    BY <1>2, <1>5, ListingKinds DEF Stale, Reading
  <2>2. SelTypes'
    BY <1>2, <1>3, <1>4, <2>1 DEF SelTypes
  <2>3. OneUnchosen' /\ OneMore'
    BY <1>2, <1>4 DEF OneUnchosen, OneMore
  <2>4. RowsFollow'
    BY <1>5, <2>1, ListingKinds DEF RowsFollow
  <2>5. Distinct'
    BY <1>2, <1>5, <2>1, ListingKinds, StillDistinct DEF SameRows, Renaming
  <2> QED BY <2>2, <2>3, <2>4, <2>5
<1>6. CASE listing \notin Reading
  <2>1. listing' = listing
    BY <1>2, <1>6, ListingKinds DEF Stale, SelTypes
  <2>2. SelTypes'
    BY <1>2, <1>3, <1>4, <2>1 DEF SelTypes
  <2>3. OneUnchosen' /\ OneMore'
    BY <1>2, <1>4 DEF OneUnchosen, OneMore
  <2>4. Collected(tab)' = Collected(tab)
    BY <1>2 DEF Collected
  <2>5. RowsFollow'
    BY <1>4, <1>6, <2>1, <2>4 DEF RowsFollow
  <2>6. Distinct'
    BY <1>2, <2>1, StillDistinct DEF SameRows, Renaming
  <2> QED BY <2>2, <2>3, <2>5, <2>6
<1> QED BY <1>5, <1>6

LEMMA StepsKeep == SelectionInv /\ [SelectionNext]_selectionVars => SelectionInv'
<1> SUFFICES ASSUME SelectionInv, [SelectionNext]_selectionVars PROVE SelectionInv'
  OBVIOUS
<1>1. CASE Choose_ \/ FilterOrSort
  BY <1>1, ChooseKeeps, FilterOrSortKeeps
<1>2. CASE Refresh_ \/ ReadFolder \/ ApplyBatch_ \/ ListingFails
  BY <1>2, RefreshKeeps, ReadFolderKeeps, ApplyBatchKeeps, ListingFailsKeeps
<1>3. CASE AskDelete \/ AskRename \/ AskCreate \/ Cut \/ PasteClip
  BY <1>3, AskDeleteKeeps, AskRenameKeeps, AskCreateKeeps, CutKeeps, PasteClipKeeps
<1>4. CASE \E n \in Shown(tab) : Drop(n)
  BY <1>4, DropKeeps
<1>5. CASE SubmitDialog \/ DismissDialog
  BY <1>5, DialogKeeps
<1>6. CASE \E i \in DOMAIN ops : Perform(i) \/ Answer_(i) \/ HearEnd_(i)
  BY <1>6, PerformKeeps, AnswerKeeps, HearEndKeeps
<1>7. CASE OthersAct
  BY <1>7, OthersKeep
<1>8. CASE UNCHANGED selectionVars
  <2>1. UNCHANGED <<folder, tab, listing, ask, clip, ops, told>>
    BY <1>8 DEF selectionVars
  <2>2. SelTypes' /\ OneUnchosen' /\ OneMore'
    BY <2>1 DEF SelectionInv, SelTypes, OneUnchosen, OneMore
  <2>3. RowsFollow'
    BY <2>1, RowsStay DEF SelectionInv, SameRows
  <2>4. Distinct'
    BY <2>1, StillDistinct DEF SelectionInv, SameRows, Renaming
  <2> QED BY <2>2, <2>3, <2>4 DEF SelectionInv
<1> QED BY <1>1, <1>2, <1>3, <1>4, <1>5, <1>6, <1>7, <1>8 DEF SelectionNext

\* What the invariant says of what is acted on and of the rows
LEMMA InvIsTrue == SelectionInv => SelectionTrue
<1> SUFFICES ASSUME SelectionInv PROVE SelectionTrue
  OBVIOUS
<1>1. ActsOnChosen
  <2>1. ASSUME NEW what \in Acts PROVE Cardinality(what.more) <= 1
    <3>1. MostChosen(what) /\ what # Absent
      <4>1. \A i \in DOMAIN ops : ops[i].what # Absent
        <5>1. \A i \in DOMAIN ops : ops[i] \in Opers
          BY LenProperties, ElementOfSeq DEF SelectionInv, SelTypes
        <5> QED BY <5>1, WhatsPresent DEF Opers
      <4> QED BY <4>1 DEF Acts, SelectionInv, OneMore
    <3> QED BY <3>1, OneAtMost DEF MostChosen
  <2> QED BY <2>1 DEF ActsOnChosen
<1>2. RowsSettle
  <2> SUFFICES ASSUME listing = Absent, ~told.unseen, ~told.late,
                      \A i \in DOMAIN ops :
                          ops[i].answered /\ (ops[i].state = "refused" \/ ops[i].heard)
               PROVE  ToSet(tab.rows) = folder /\ IsInjective(tab.rows)
    BY DEF RowsSettle
  <2>1. ~Unsettled
    BY DEF Unsettled, Ended
  <2> QED BY <2>1 DEF SelectionInv, RowsFollow
<1> QED BY <1>1, <1>2 DEF SelectionTrue

LEMMA InvIsTyped == SelectionInv => SelTypeOK
<1> SUFFICES ASSUME SelectionInv PROVE SelTypeOK
  OBVIOUS
<1>0. folder \in SUBSET Entries_ /\ tab \in Tabs /\ listing \in {Absent, AskedFor} \cup Reading
  BY DEF SelectionInv, SelTypes
<1>1. /\ ToSet(tab.rows) \cup ToSet(tab.aside) \subseteq Entries_
      /\ ToSet(tab.sel) \subseteq Entries_ \cup {Up}
  <2>1. tab.rows \in Seq(Entries_) /\ tab.aside \in Seq(Entries_) /\ tab.sel \in Seq(PaneRow)
    BY <1>0 DEF Tabs
  <2> QED BY <2>1, SetOfSeq DEF PaneRow
<1>2. /\ {tab.lead, tab.focus, tab.anchor} \subseteq Entries_ \cup {Up, Nowhere}
      /\ tab.passes \subseteq Entries_ /\ {tab.asc, tab.waits, tab.back} \subseteq BOOLEAN
  BY <1>0 DEF Tabs, PaneSpot, PaneRow
<1>3. listing.kind \in {"none", "asked", "read"}
  BY <1>0, ListingKinds
<1>4. tab.waits = (listing # Absent)
  <2>1. tab.waits \in BOOLEAN /\ (tab.waits <=> listing # Absent)
    BY <1>0 DEF Tabs, SelectionInv, Distinct
  <2> QED BY <2>1
<1>5. (\A i \in DOMAIN ops : ops[i].what.kind # "rename") => ~Renaming
  BY DEF Renaming
<1> QED BY <1>0, <1>1, <1>2, <1>3, <1>4, <1>5 DEF SelTypeOK, SelectionInv, Distinct

-----------------------------------------------------------------------------
(* The stores: what is on disk.                                             *)

Both == {"secret", "options"}

\* What a preference can be: a value that is accepted and that reading leaves as it is.
Settled(k) == {v \in 0 .. 3 : ApplyValue(k, v) = v}

Caches == {c \in [Keys -> 0 .. 3] : \A k \in Keys : c[k] \in Settled(k)}

Login == [auth : {"password", "key"}, flag : BOOLEAN]

StoreTypes ==
    /\ phase \in {"down", "boot", "up", "failed"} /\ opened \in 0 .. 5
    /\ version \in [Stores -> Nat] /\ tables \in [Stores -> Nat]
    /\ columns \subseteq Both /\ hosts \in [DOMAIN hosts -> Login]
    /\ DOMAIN rows \subseteq StoredKeys /\ \A k \in DOMAIN rows : rows[k] \in Settled(k)
    /\ cache \in Caches
    /\ DOMAIN promised = Keys

\* What a version says is there is there.
DiskWhole ==
    /\ \A s \in Stores : tables[s] <= Objects[s]
    /\ version["network"] \in 1 .. 3 => tables["network"] = 1
    /\ version["network"] = 1 => \A p \in DOMAIN hosts : hosts[p].auth = "password" => p \in secrets
    /\ version["network"] = 2 => "secret" \in columns
    /\ version["network"] = 3 => columns = Both
    /\ version["navigation"] = 1 => tables["navigation"] = 4

\* What a preference was answered to be is on disk.
PromisesKept == \A k \in StoredKeys : promised[k] = Unset \/ (k \in DOMAIN rows /\ promised[k] = rows[k])

Loaded == \A k \in DOMAIN rows : cache[k] = rows[k]

-----------------------------------------------------------------------------
(* What is left to do, and what has been done by then.                      *)

Done(s) == version[s] = Current[s] /\ tables[s] = Objects[s]

NetworkDone == Done("network") /\ columns = Both
TerminalDone == Done("terminal") /\ seeded
PreferencesDone == Done("preferences") /\ Loaded

NetworkLeft ==
    LET last    == <<"version", "network", 3>>
        options == <<"column", "options">>
        second  == <<"version", "network", 2>>
        keys    == <<"flag", "key">>
        words   == <<"flag", "password">>
    IN  \/ todo = <<>> /\ NetworkDone
        \/ todo = <<<<"create", "network", 1>>, last>> /\ version["network"] = 0
        \/ todo = <<last>> /\ tables["network"] = 1 /\ columns = Both
        \/ todo = <<options, last>> /\ version["network"] = 2
        \/ todo = <<second, options, last>> /\ version["network"] = 1 /\ "secret" \in columns
        \/ todo = <<keys, second, options, last>> /\ version["network"] = 1 /\ "secret" \in columns
        \/ todo = <<words, keys, second, options, last>> /\ version["network"] = 1 /\ "secret" \in columns
        \/ todo = <<<<"column", "secret">>, words, keys, second, options, last>> /\ version["network"] = 1

TerminalLeft ==
    \/ todo = <<>> /\ TerminalDone
    \/ todo = <<<<"seed">>>> /\ Done("terminal")
    \/ todo = <<<<"version", "terminal", 1>>, <<"seed">>>> /\ tables["terminal"] = 1
    \/ todo = <<<<"ensure", "terminal", 1>>, <<"version", "terminal", 1>>, <<"seed">>>>

HistoryLeft ==
    \/ todo = <<>> /\ Done("history")
    \/ todo = <<<<"version", "history", 1>>>> /\ tables["history"] = 2
    \/ todo = <<<<"ensure", "history", 2>>, <<"version", "history", 1>>>>
    \/ todo = <<<<"ensure", "history", 1>>, <<"ensure", "history", 2>>, <<"version", "history", 1>>>>

NavigationLeft ==
    LET C(n) == <<"create", "navigation", n>>
        last == <<"version", "navigation", 1>>
    IN  \/ todo = <<>> /\ Done("navigation")
        \/ todo = <<last>> /\ tables["navigation"] = 4
        \/ todo = <<C(4), last>> /\ version["navigation"] = 0
        \/ todo = <<C(3), C(4), last>> /\ version["navigation"] = 0
        \/ todo = <<C(2), C(3), C(4), last>> /\ version["navigation"] = 0
        \/ todo = <<C(1), C(2), C(3), C(4), last>> /\ version["navigation"] = 0

Now == <<"version", "preferences", 2>>
Fills == {<<"fill", k>> : k \in StoredKeys}

PreferencesLeft ==
    \/ todo = <<>> /\ PreferencesDone
    \/ \E rest \in Seq(Fills \cup {Now}) :
          LET more == rest \o <<<<"load">>>>
          IN  \/ todo = more /\ Done("preferences")
              \/ todo = <<Now>> \o more /\ tables["preferences"] = 1
              \/ todo = <<<<"ensure", "preferences", 1>>, Now>> \o more

Opening ==
    /\ opened = 0 => todo = <<>>
    /\ opened = 1 => NetworkLeft
    /\ opened = 2 => NetworkDone /\ TerminalLeft
    /\ opened = 3 => NetworkDone /\ TerminalDone /\ PreferencesLeft
    /\ opened = 4 => NetworkDone /\ TerminalDone /\ PreferencesDone /\ HistoryLeft
    /\ opened = 5 => NetworkDone /\ TerminalDone /\ PreferencesDone /\ Done("history") /\ NavigationLeft

\* What is left of a command about profiles of servers or about folders.
ProfilesLeft ==
    \/ todo = <<>>
    \/ todo = <<<<"prune">>>>
    \/ \E p \in Profiles :
          \/ todo = <<<<"delete", p>>, <<"forget", p>>>>
          \/ todo = <<<<"forget", p>>>> /\ p \notin DOMAIN hosts
          \/ todo = <<<<"store", p>>, <<"mark", p, TRUE>>>>
          \/ todo = <<<<"mark", p, TRUE>>>> /\ p \in secrets
    \/ \E p \in Profiles, auth \in {"password", "key"} :
          \/ todo = <<<<"mark", p, FALSE>>, <<"forget", p>>, <<"write", p, auth>>>>
          \/ todo = <<<<"forget", p>>, <<"write", p, auth>>>> /\ (p \in DOMAIN hosts => ~hosts[p].flag)
          \/ todo = <<<<"write", p, auth>>>>

\* What is left of a change of a preference.
ChangeLeft ==
    \E k \in Keys, all \in Caches :
       /\ \A l \in Keys \ {k} : all[l] = cache[l]
       /\ \/ todo = <<<<"persist", all, k>>, <<"remember", all, k>>>> /\ Loaded
          \/ /\ todo = <<<<"remember", all, k>>>>
             /\ DOMAIN rows = StoredKeys /\ \A l \in StoredKeys : rows[l] = all[l]

Running ==
    /\ version = Current /\ tables = Objects /\ columns = Both /\ seeded
    /\ (ProfilesLeft /\ Loaded) \/ ChangeLeft

StoresInv ==
    /\ StoreTypes /\ DiskWhole /\ PromisesKept /\ FlagsTrue
    /\ phase \in {"down", "failed"} => todo = <<>>
    /\ StartsAgain
    /\ phase = "boot" => Opening
    /\ phase = "up" => Running

-----------------------------------------------------------------------------
(* The stores, their names and their statements.                            *)

LEMMA StoreNames ==
    /\ Stores = {"network", "terminal", "preferences", "history", "navigation"}
    /\ StoreOrder[1] = "network" /\ StoreOrder[2] = "terminal" /\ StoreOrder[3] = "preferences"
    /\ StoreOrder[4] = "history" /\ StoreOrder[5] = "navigation"
    /\ 1 .. 5 = {1, 2, 3, 4, 5}
<1>1. /\ StoreOrder[1] = "network" /\ StoreOrder[2] = "terminal" /\ StoreOrder[3] = "preferences"
      /\ StoreOrder[4] = "history" /\ StoreOrder[5] = "navigation"
  BY DEF StoreOrder
<1>2. 1 .. 5 = {1, 2, 3, 4, 5}
  OBVIOUS
<1>3. Stores = {StoreOrder[i] : i \in {1, 2, 3, 4, 5}}
  BY <1>2 DEF Stores
<1> QED BY <1>1, <1>2, <1>3

LEMMA Limits ==
    /\ Current = [s \in Stores |-> Current[s]] /\ Objects = [s \in Stores |-> Objects[s]]
    /\ Current["network"] = 3 /\ Current["terminal"] = 1 /\ Current["preferences"] = 2
    /\ Current["history"] = 1 /\ Current["navigation"] = 1
    /\ Objects["network"] = 1 /\ Objects["terminal"] = 1 /\ Objects["preferences"] = 1
    /\ Objects["history"] = 2 /\ Objects["navigation"] = 4
BY StoreNames DEF Current, Objects

LEMMA Two == ASSUME NEW a, NEW b PROVE Head(<<a, b>>) = a /\ Tail(<<a, b>>) = <<b>> /\ <<a, b>> # <<>>
OBVIOUS
LEMMA One == ASSUME NEW a PROVE Head(<<a>>) = a /\ Tail(<<a>>) = <<>> /\ <<a>> # <<>>
OBVIOUS
LEMMA Three ==
    ASSUME NEW a, NEW b, NEW c
    PROVE  Head(<<a, b, c>>) = a /\ Tail(<<a, b, c>>) = <<b, c>>
OBVIOUS
LEMMA Four ==
    ASSUME NEW a, NEW b, NEW c, NEW d
    PROVE  Head(<<a, b, c, d>>) = a /\ Tail(<<a, b, c, d>>) = <<b, c, d>>
OBVIOUS
LEMMA Five ==
    ASSUME NEW a, NEW b, NEW c, NEW d, NEW e
    PROVE  Head(<<a, b, c, d, e>>) = a /\ Tail(<<a, b, c, d, e>>) = <<b, c, d, e>>
OBVIOUS
LEMMA Six ==
    ASSUME NEW a, NEW b, NEW c, NEW d, NEW e, NEW f
    PROVE  Head(<<a, b, c, d, e, f>>) = a /\ Tail(<<a, b, c, d, e, f>>) = <<b, c, d, e, f>>
OBVIOUS

\* A statement that is run is the first of those left.
LEMMA StatementIs ==
    ASSUME Statement
    PROVE  /\ todo # <<>>
           /\ Head(todo)[1] = "ensure" => EnsureTable
           /\ Head(todo)[1] = "create" => CreateTable
           /\ Head(todo)[1] = "column" => AddColumn
           /\ Head(todo)[1] = "version" => SetVersion
           /\ Head(todo)[1] = "flag" => FlagOld
           /\ Head(todo)[1] = "seed" => SeedTerminal
           /\ Head(todo)[1] = "fill" => FillRow
           /\ Head(todo)[1] = "load" => Load
           /\ Head(todo)[1] = "persist" => Persist
           /\ Head(todo)[1] = "remember" => Remember
           /\ Head(todo)[1] \in {"store", "forget"} => Keychain
           /\ Head(todo)[1] = "mark" => SetFlag
           /\ Head(todo)[1] = "write" => WriteRow
           /\ Head(todo)[1] = "delete" => DeleteRow
           /\ Head(todo)[1] = "prune" => Prune
<1>1. \/ EnsureTable \/ CreateTable \/ AddColumn \/ SetVersion \/ FlagOld \/ SeedTerminal
      \/ FillRow \/ Load \/ Persist \/ Remember \/ Keychain \/ SetFlag \/ WriteRow \/ DeleteRow \/ Prune
  BY DEF Statement
<1> QED BY <1>1 DEF Does, EnsureTable, CreateTable, AddColumn, SetVersion, FlagOld, SeedTerminal, FillRow,
        Load, Persist, Remember, Keychain, SetFlag, WriteRow, DeleteRow, Prune

LEMMA StillOpening ==
    ASSUME StoresInv, UNCHANGED <<rows, promised, cache, opened>>, phase' = "boot",
           version' \in [Stores -> Nat], tables' \in [Stores -> Nat], columns' \subseteq Both,
           hosts' \in [DOMAIN hosts' -> Login], FlagsTrue', DiskWhole', Opening'
    PROVE  StoresInv'
<1>1. StoreTypes' /\ PromisesKept'
  BY DEF StoresInv, StoreTypes, PromisesKept
<1>2. (phase' \in {"down", "failed"} => todo' = <<>>) /\ StartsAgain' /\ (phase' = "up" => Running')
  BY DEF StartsAgain
<1> QED BY <1>1, <1>2 DEF StoresInv

LEMMA StoresMade ==
    ASSUME StoresInv, UNCHANGED <<hosts, rows, promised, secrets, cache, opened>>, phase' = "boot",
           version' \in [Stores -> Nat], tables' \in [Stores -> Nat], columns' \subseteq Both,
           DiskWhole', Opening'
    PROVE  StoresInv'
<1>1. hosts' \in [DOMAIN hosts' -> Login] /\ FlagsTrue'
  BY DEF StoresInv, StoreTypes, FlagsTrue
<1> QED BY <1>1, StillOpening

LEMMA HasGivenUp ==
    ASSUME StoresInv, GivesUp, StartsAgain', UNCHANGED <<diskVars, cache, promised, opened>>
    PROVE  StoresInv'
<1>1. phase' = "failed" /\ todo' = <<>>
  BY DEF GivesUp
<1>2. StoreTypes'
  BY <1>1 DEF StoresInv, StoreTypes, diskVars
<1>3. PromisesKept' /\ FlagsTrue'
  BY <1>1 DEF StoresInv, PromisesKept, FlagsTrue, diskVars
<1>4. DiskWhole'
  BY DEF StoresInv, DiskWhole, diskVars
<1>5. (phase' = "boot" => Opening') /\ (phase' = "up" => Running')
  BY <1>1
<1> QED BY <1>1, <1>2, <1>3, <1>4, <1>5 DEF StoresInv

\* What each statement of a boot does.
LEMMA EnsureDoes ==
    ASSUME Statement, NEW s, NEW n, Head(todo) = <<"ensure", s, n>>
    PROVE  /\ todo' = Tail(todo) /\ tables' = [tables EXCEPT ![s] = IF @ < n THEN n ELSE @]
           /\ UNCHANGED <<version, columns, seeded, hosts, rows, promised, secrets, cache, opened, phase>>
<1>1. EnsureTable /\ Head(todo)[2] = s /\ Head(todo)[3] = n
  BY StatementIs
<1> QED BY <1>1 DEF EnsureTable, Goes, Around

LEMMA CreateDoes ==
    ASSUME Statement, NEW s, NEW n, Head(todo) = <<"create", s, n>>
    PROVE  \/ tables[s] >= n /\ GivesUp /\ UNCHANGED <<diskVars, cache, promised, opened>>
           \/ /\ ~(tables[s] >= n)
              /\ todo' = Tail(todo) /\ tables' = [tables EXCEPT ![s] = n]
              /\ columns' = IF s = "network" THEN Both ELSE columns
              /\ UNCHANGED <<version, seeded, hosts, rows, promised, secrets, cache, opened, phase>>
<1>1. CreateTable /\ Head(todo)[2] = s /\ Head(todo)[3] = n
  BY StatementIs
<1> QED BY <1>1 DEF CreateTable, Goes, Around, diskVars, Both

LEMMA ColumnDoes ==
    ASSUME Statement, NEW c, Head(todo) = <<"column", c>>
    PROVE  \/ c \in columns /\ GivesUp /\ UNCHANGED <<diskVars, cache, promised, opened>>
           \/ /\ todo' = Tail(todo) /\ columns' = columns \cup {c}
              /\ UNCHANGED <<version, tables, seeded, hosts, rows, promised, secrets, cache, opened, phase>>
<1>1. AddColumn /\ Head(todo)[2] = c
  BY StatementIs
<1> QED BY <1>1 DEF AddColumn, Goes, Around, diskVars

LEMMA VersionDoes ==
    ASSUME Statement, NEW s, NEW n, Head(todo) = <<"version", s, n>>
    PROVE  /\ todo' = Tail(todo) /\ version' = [version EXCEPT ![s] = n]
           /\ UNCHANGED <<tables, columns, seeded, hosts, rows, promised, secrets, cache, opened, phase>>
<1>1. SetVersion /\ Head(todo)[2] = s /\ Head(todo)[3] = n
  BY StatementIs
<1> QED BY <1>1 DEF SetVersion, Goes, Around

LEMMA FlagDoes ==
    ASSUME StoresInv, Statement, NEW auth \in {"password", "key"}, Head(todo) = <<"flag", auth>>
    PROVE  /\ todo' = Tail(todo) /\ DOMAIN hosts' = DOMAIN hosts /\ hosts' \in [DOMAIN hosts -> Login]
           /\ \A p \in DOMAIN hosts : hosts'[p].auth = hosts[p].auth
           /\ UNCHANGED <<version, tables, columns, seeded, rows, promised, secrets, cache, opened, phase>>
<1>1. FlagOld /\ Head(todo)[2] = auth
  BY StatementIs
<1>2. hosts' = [p \in DOMAIN hosts |-> [hosts[p] EXCEPT !.flag = @ \/ hosts[p].auth = auth]]
  BY <1>1, Zenon DEF FlagOld
<1>3. hosts \in [DOMAIN hosts -> Login]
  BY DEF StoresInv, StoreTypes
<1>4. \A p \in DOMAIN hosts : /\ [hosts[p] EXCEPT !.flag = @ \/ hosts[p].auth = auth].auth = hosts[p].auth
                              /\ [hosts[p] EXCEPT !.flag = @ \/ hosts[p].auth = auth] \in Login
  <2> TAKE p \in DOMAIN hosts
  <2>1. hosts[p] \in Login
    BY <1>3
  <2> DEFINE f == hosts[p].flag \/ hosts[p].auth = auth
  <2>2. f \in BOOLEAN
    OBVIOUS
  <2>3. [hosts[p] EXCEPT !.flag = f] \in Login /\ [hosts[p] EXCEPT !.flag = f].auth = hosts[p].auth
    <3> HIDE DEF f
    <3> QED BY <2>1, <2>2 DEF Login
  <2> QED BY <2>3, Zenon
<1>5. DOMAIN hosts' = DOMAIN hosts /\ hosts' \in [DOMAIN hosts -> Login]
      /\ \A p \in DOMAIN hosts : hosts'[p].auth = hosts[p].auth
  BY <1>2, <1>4, Zenon
<1> QED BY <1>1, <1>5 DEF FlagOld, Goes, Around

LEMMA SeedDoes ==
    ASSUME Statement, Head(todo) = <<"seed">>
    PROVE  /\ todo' = Tail(todo) /\ seeded'
           /\ UNCHANGED <<version, tables, columns, hosts, rows, promised, secrets, cache, opened, phase>>
<1>1. SeedTerminal
  BY StatementIs
<1> QED BY <1>1 DEF SeedTerminal, Goes, Around

LEMMA NetworkGoesOn ==
    ASSUME StoresInv, phase = "boot", opened = 1, Statement
    PROVE  StoresInv'
<1> DEFINE last    == <<"version", "network", 3>>
           options == <<"column", "options">>
           second  == <<"version", "network", 2>>
           keys    == <<"flag", "key">>
           words   == <<"flag", "password">>
<1>0. /\ version \in [Stores -> Nat] /\ tables \in [Stores -> Nat] /\ DiskWhole /\ NetworkLeft
      /\ todo # <<>> /\ columns \subseteq Both
  BY StatementIs DEF StoresInv, StoreTypes, Opening
<1>t. tables["network"] <= 1 /\ "network" \in Stores /\ "navigation" \in Stores
  BY <1>0, StoreNames, Limits DEF DiskWhole
<1>1. CASE todo = <<<<"create", "network", 1>>, last>> /\ version["network"] = 0
  <2>1. Tail(todo) = <<last>> /\ Head(todo) = <<"create", "network", 1>>
    BY <1>1, Two
  <2>2. CASE tables["network"] >= 1 /\ GivesUp /\ UNCHANGED <<diskVars, cache, promised, opened>>
    <3>1. Torn'
      BY <1>0, <1>1, <2>2, StoreNames DEF Torn, diskVars
    <3> QED BY <2>2, <3>1, HasGivenUp DEF StartsAgain
  <2>3. CASE /\ todo' = Tail(todo) /\ tables' = [tables EXCEPT !["network"] = 1] /\ columns' = Both
             /\ UNCHANGED <<version, seeded, hosts, rows, promised, secrets, cache, opened, phase>>
    <3>2. tables' \in [Stores -> Nat] /\ DiskWhole'
      BY <1>0, <1>1, <1>t, <2>3, Limits DEF DiskWhole
    <3>3. Opening'
      BY <1>0, <1>t, <2>1, <2>3 DEF Opening, NetworkLeft
    <3> QED BY <1>0, <2>3, <3>2, <3>3, StoresMade
  <2> QED BY <2>1, <2>2, <2>3, CreateDoes
<1>2. CASE todo = <<last>> /\ tables["network"] = 1 /\ columns = Both
  <2>1. Tail(todo) = <<>> /\ Head(todo) = last
    BY <1>2, One
  <2>2. /\ todo' = <<>> /\ version' = [version EXCEPT !["network"] = 3]
        /\ UNCHANGED <<tables, columns, hosts, rows, promised, secrets, cache, opened, phase>>
    BY <2>1, VersionDoes
  <2>3. version' \in [Stores -> Nat] /\ DiskWhole'
    BY <1>0, <1>2, <1>t, <2>2 DEF DiskWhole
  <2>4. Opening'
    BY <1>0, <1>2, <1>t, <2>2, Limits DEF Opening, NetworkLeft, NetworkDone, Done
  <2> QED BY <1>0, <2>2, <2>3, <2>4, StoresMade
<1>3. CASE todo = <<options, last>> /\ version["network"] = 2
  <2>1. Tail(todo) = <<last>> /\ Head(todo) = options
    BY <1>3, Two
  <2>2. CASE "options" \in columns /\ GivesUp /\ UNCHANGED <<diskVars, cache, promised, opened>>
    <3>1. Torn'
      BY <1>3, <2>2 DEF Torn, diskVars
    <3> QED BY <2>2, <3>1, HasGivenUp DEF StartsAgain
  <2>3. CASE /\ todo' = Tail(todo) /\ columns' = columns \cup {"options"}
             /\ UNCHANGED <<version, tables, seeded, hosts, rows, promised, secrets, cache, opened, phase>>
    <3>0. "secret" \in columns /\ tables["network"] = 1
      BY <1>0, <1>3 DEF DiskWhole
    <3>1. columns' = Both /\ tables["network"] = 1
      BY <1>0, <2>3, <3>0 DEF Both
    <3>2. DiskWhole'
      BY <1>0, <1>3, <2>3, <3>1 DEF DiskWhole, Both
    <3>3. Opening'
      BY <1>0, <2>1, <2>3, <3>1 DEF Opening, NetworkLeft
    <3> QED BY <1>0, <2>3, <3>1, <3>2, <3>3, StoresMade
  <2> QED BY <2>1, <2>2, <2>3, ColumnDoes
<1>4. CASE todo = <<second, options, last>> /\ version["network"] = 1 /\ "secret" \in columns
  <2>1. Tail(todo) = <<options, last>> /\ Head(todo) = second
    BY <1>4, Three
  <2>2. /\ todo' = <<options, last>> /\ version' = [version EXCEPT !["network"] = 2]
        /\ UNCHANGED <<tables, columns, hosts, rows, promised, secrets, cache, opened, phase>>
    BY <2>1, VersionDoes
  <2>3. version' \in [Stores -> Nat] /\ DiskWhole'
    BY <1>0, <1>4, <1>t, <2>2 DEF DiskWhole
  <2>4. Opening'
    BY <1>0, <1>4, <1>t, <2>2 DEF Opening, NetworkLeft
  <2> QED BY <1>0, <2>2, <2>3, <2>4, StoresMade
<1>5. ASSUME NEW auth \in {"password", "key"}, NEW rest, Tail(todo) = rest, Head(todo) = <<"flag", auth>>,
             version["network"] = 1, "secret" \in columns,
             rest = <<second, options, last>> \/ rest = <<keys, second, options, last>>
      PROVE  StoresInv'
  <2>1. /\ todo' = rest /\ DOMAIN hosts' = DOMAIN hosts /\ hosts' \in [DOMAIN hosts -> Login]
        /\ \A p \in DOMAIN hosts : hosts'[p].auth = hosts[p].auth
        /\ UNCHANGED <<version, tables, columns, rows, promised, secrets, cache, opened, phase>>
    BY <1>5, FlagDoes
  <2>2. \A p \in DOMAIN hosts' : hosts'[p].auth = "password" => p \in secrets'
    BY <1>0, <1>5, <2>1 DEF DiskWhole
  <2>3. FlagsTrue' /\ DiskWhole'
    BY <1>0, <1>5, <2>1, <2>2 DEF FlagsTrue, DiskWhole
  <2>4. Opening'
    BY <1>5, <2>1 DEF Opening, NetworkLeft
  <2> QED BY <1>0, <2>1, <2>3, <2>4, StillOpening
<1>6. CASE todo = <<keys, second, options, last>> /\ version["network"] = 1 /\ "secret" \in columns
  <2>1. Tail(todo) = <<second, options, last>> /\ Head(todo) = <<"flag", "key">>
    BY <1>6, Four
  <2> QED BY <1>5, <1>6, <2>1
<1>7. CASE todo = <<words, keys, second, options, last>> /\ version["network"] = 1 /\ "secret" \in columns
  <2>1. Tail(todo) = <<keys, second, options, last>> /\ Head(todo) = <<"flag", "password">>
    BY <1>7, Five
  <2> QED BY <1>5, <1>7, <2>1
<1>8. CASE todo = <<<<"column", "secret">>, words, keys, second, options, last>> /\ version["network"] = 1
  <2>1. Tail(todo) = <<words, keys, second, options, last>> /\ Head(todo) = <<"column", "secret">>
    BY <1>8, Six
  <2>2. CASE "secret" \in columns /\ GivesUp /\ UNCHANGED <<diskVars, cache, promised, opened>>
    <3>1. Torn'
      BY <1>8, <2>2 DEF Torn, diskVars
    <3> QED BY <2>2, <3>1, HasGivenUp DEF StartsAgain
  <2>3. CASE /\ todo' = Tail(todo) /\ columns' = columns \cup {"secret"}
             /\ UNCHANGED <<version, tables, seeded, hosts, rows, promised, secrets, cache, opened, phase>>
    <3>1. DiskWhole' /\ columns' \subseteq Both
      BY <1>0, <1>8, <2>3 DEF DiskWhole, Both
    <3>2. Opening'
      BY <1>0, <1>8, <2>1, <2>3 DEF Opening, NetworkLeft
    <3> QED BY <1>0, <2>3, <3>1, <3>2, StoresMade
  <2> QED BY <2>1, <2>2, <2>3, ColumnDoes
<1> QED BY <1>0, <1>1, <1>2, <1>3, <1>4, <1>6, <1>7, <1>8 DEF NetworkLeft

LEMMA TerminalGoesOn ==
    ASSUME StoresInv, phase = "boot", opened = 2, Statement
    PROVE  StoresInv'
<1>0. /\ version \in [Stores -> Nat] /\ tables \in [Stores -> Nat] /\ DiskWhole /\ NetworkDone
      /\ TerminalLeft /\ todo # <<>> /\ columns \subseteq Both
  BY StatementIs DEF StoresInv, StoreTypes, Opening
<1>t. tables["terminal"] <= 1 /\ {"terminal", "network", "navigation"} \subseteq Stores
  BY <1>0, StoreNames, Limits DEF DiskWhole
<1>1. CASE todo = <<<<"seed">>>> /\ Done("terminal")
  <2>1. Tail(todo) = <<>> /\ Head(todo) = <<"seed">>
    BY <1>1, One
  <2>2. /\ todo' = <<>> /\ seeded'
        /\ UNCHANGED <<version, tables, columns, hosts, rows, promised, secrets, cache, opened, phase>>
    BY <2>1, SeedDoes
  <2>3. DiskWhole'
    BY <1>0, <1>t, <2>2 DEF DiskWhole
  <2>4. Opening'
    BY <1>0, <1>1, <2>2 DEF Opening, NetworkDone, TerminalLeft, TerminalDone, Done
  <2> QED BY <1>0, <2>2, <2>3, <2>4, StoresMade
<1>2. CASE todo = <<<<"version", "terminal", 1>>, <<"seed">>>> /\ tables["terminal"] = 1
  <2>1. Tail(todo) = <<<<"seed">>>> /\ Head(todo) = <<"version", "terminal", 1>>
    BY <1>2, Two
  <2>2. /\ todo' = <<<<"seed">>>> /\ version' = [version EXCEPT !["terminal"] = 1]
        /\ UNCHANGED <<tables, columns, hosts, rows, promised, secrets, cache, opened, phase>>
    BY <2>1, VersionDoes
  <2>3. version' \in [Stores -> Nat] /\ DiskWhole'
    BY <1>0, <1>t, <2>2 DEF DiskWhole
  <2>4. Opening'
    BY <1>0, <1>2, <1>t, <2>2, Limits DEF Opening, NetworkDone, TerminalLeft, Done
  <2> QED BY <1>0, <2>2, <2>3, <2>4, StoresMade
<1>3. CASE todo = <<<<"ensure", "terminal", 1>>, <<"version", "terminal", 1>>, <<"seed">>>>
  <2>1. Tail(todo) = <<<<"version", "terminal", 1>>, <<"seed">>>> /\ Head(todo) = <<"ensure", "terminal", 1>>
    BY <1>3, Three
  <2>2. /\ todo' = <<<<"version", "terminal", 1>>, <<"seed">>>>
        /\ tables' = [tables EXCEPT !["terminal"] = IF @ < 1 THEN 1 ELSE @]
        /\ UNCHANGED <<version, columns, hosts, rows, promised, secrets, cache, opened, phase>>
    BY <2>1, EnsureDoes
  <2>3. tables' = [tables EXCEPT !["terminal"] = 1]
    <3> DEFINE m == IF tables["terminal"] < 1 THEN 1 ELSE tables["terminal"]
    <3>1. tables' = [tables EXCEPT !["terminal"] = m]
      BY <2>2, Zenon
    <3>2. m = 1
      BY <1>0, <1>t
    <3> QED BY <3>1, <3>2, Zenon
  <2>4. tables' \in [Stores -> Nat] /\ DiskWhole'
    BY <1>0, <1>t, <2>2, <2>3, Limits DEF DiskWhole
  <2>5. Opening'
    BY <1>0, <1>t, <2>2, <2>3 DEF Opening, NetworkDone, TerminalLeft, Done
  <2> QED BY <1>0, <2>2, <2>4, <2>5, StoresMade
<1> QED BY <1>0, <1>1, <1>2, <1>3 DEF TerminalLeft

LEMMA HistoryGoesOn ==
    ASSUME StoresInv, phase = "boot", opened = 4, Statement
    PROVE  StoresInv'
<1>0. /\ version \in [Stores -> Nat] /\ tables \in [Stores -> Nat] /\ DiskWhole
      /\ NetworkDone /\ TerminalDone /\ PreferencesDone
      /\ HistoryLeft /\ todo # <<>> /\ columns \subseteq Both
  BY StatementIs DEF StoresInv, StoreTypes, Opening
<1>t. tables["history"] <= 2 /\ {"history", "network", "navigation"} \subseteq Stores
  BY <1>0, StoreNames, Limits DEF DiskWhole
<1>1. CASE todo = <<<<"version", "history", 1>>>> /\ tables["history"] = 2
  <2>1. Tail(todo) = <<>> /\ Head(todo) = <<"version", "history", 1>>
    BY <1>1, One
  <2>2. /\ todo' = <<>> /\ version' = [version EXCEPT !["history"] = 1]
        /\ UNCHANGED <<tables, columns, seeded, hosts, rows, promised, secrets, cache, opened, phase>>
    BY <2>1, VersionDoes
  <2>3. version' \in [Stores -> Nat] /\ DiskWhole'
    BY <1>0, <1>t, <2>2 DEF DiskWhole
  <2>4. Opening'
    BY <1>0, <1>1, <1>t, <2>2, Limits
       DEF Opening, NetworkDone, TerminalDone, PreferencesDone, Loaded, HistoryLeft, Done
  <2> QED BY <1>0, <2>2, <2>3, <2>4, StoresMade
<1>2. ASSUME NEW n \in {1, 2}, NEW rest, todo' = rest, Head(todo) = <<"ensure", "history", n>>, rest = Tail(todo),
             \/ n = 2 /\ rest = <<<<"version", "history", 1>>>>
             \/ n = 1 /\ rest = <<<<"ensure", "history", 2>>, <<"version", "history", 1>>>>
      PROVE  StoresInv'
  <2>1. /\ tables' = [tables EXCEPT !["history"] = IF @ < n THEN n ELSE @]
        /\ UNCHANGED <<version, columns, seeded, hosts, rows, promised, secrets, cache, opened, phase>>
    BY <1>2, EnsureDoes
  <2>2. PICK m \in Nat : m <= 2 /\ m >= n /\ tables' = [tables EXCEPT !["history"] = m]
    <3> DEFINE k == IF tables["history"] < n THEN n ELSE tables["history"]
    <3>1. tables' = [tables EXCEPT !["history"] = k]
      BY <2>1, Zenon
    <3>2. k \in Nat /\ k <= 2 /\ k >= n
      BY <1>0, <1>t
    <3> QED BY <3>1, <3>2, Zenon
  <2>3. tables' \in [Stores -> Nat] /\ DiskWhole'
    BY <1>0, <1>t, <2>1, <2>2, Limits DEF DiskWhole
  <2>4. Opening'
    BY <1>0, <1>2, <1>t, <2>1, <2>2
       DEF Opening, NetworkDone, TerminalDone, PreferencesDone, Loaded, HistoryLeft, Done
  <2> QED BY <1>0, <2>1, <2>3, <2>4, StoresMade
<1>3. CASE todo = <<<<"ensure", "history", 2>>, <<"version", "history", 1>>>>
  <2>1. Tail(todo) = <<<<"version", "history", 1>>>> /\ Head(todo) = <<"ensure", "history", 2>>
    BY <1>3, Two
  <2>2. todo' = Tail(todo)
    BY <2>1, EnsureDoes
  <2> QED BY <1>2, <2>1, <2>2
<1>4. CASE todo = <<<<"ensure", "history", 1>>, <<"ensure", "history", 2>>, <<"version", "history", 1>>>>
  <2>1. /\ Tail(todo) = <<<<"ensure", "history", 2>>, <<"version", "history", 1>>>>
        /\ Head(todo) = <<"ensure", "history", 1>>
    BY <1>4, Three
  <2>2. todo' = Tail(todo)
    BY <2>1, EnsureDoes
  <2> QED BY <1>2, <2>1, <2>2
<1> QED BY <1>0, <1>1, <1>3, <1>4 DEF HistoryLeft

LEMMA NavigationGoesOn ==
    ASSUME StoresInv, phase = "boot", opened = 5, Statement
    PROVE  StoresInv'
<1> DEFINE C(n) == <<"create", "navigation", n>>
           last == <<"version", "navigation", 1>>
<1>0. /\ version \in [Stores -> Nat] /\ tables \in [Stores -> Nat] /\ DiskWhole
      /\ NetworkDone /\ TerminalDone /\ PreferencesDone /\ Done("history")
      /\ NavigationLeft /\ todo # <<>> /\ columns \subseteq Both
  BY StatementIs DEF StoresInv, StoreTypes, Opening
<1>t. {"navigation", "network"} \subseteq Stores
  BY StoreNames
<1>1. CASE todo = <<last>> /\ tables["navigation"] = 4
  <2>1. Tail(todo) = <<>> /\ Head(todo) = last
    BY <1>1, One
  <2>2. /\ todo' = <<>> /\ version' = [version EXCEPT !["navigation"] = 1]
        /\ UNCHANGED <<tables, columns, seeded, hosts, rows, promised, secrets, cache, opened, phase>>
    BY <2>1, VersionDoes
  <2>3. version' \in [Stores -> Nat] /\ DiskWhole'
    BY <1>0, <1>1, <1>t, <2>2 DEF DiskWhole
  <2>4. Opening'
    BY <1>0, <1>1, <1>t, <2>2, Limits
       DEF Opening, NetworkDone, TerminalDone, PreferencesDone, Loaded, NavigationLeft, Done
  <2> QED BY <1>0, <2>2, <2>3, <2>4, StoresMade
<1>2. ASSUME NEW n \in 1 .. 4, NEW rest, rest = Tail(todo), Head(todo) = C(n), version["navigation"] = 0,
             \/ n = 4 /\ rest = <<last>>
             \/ n = 3 /\ rest = <<C(4), last>>
             \/ n = 2 /\ rest = <<C(3), C(4), last>>
             \/ n = 1 /\ rest = <<C(2), C(3), C(4), last>>
      PROVE  StoresInv'
  <2>1. CASE tables["navigation"] >= n /\ GivesUp /\ UNCHANGED <<diskVars, cache, promised, opened>>
    <3>1. Torn'
      BY <1>0, <1>2, <1>t, <2>1 DEF Torn, diskVars
    <3> QED BY <2>1, <3>1, HasGivenUp DEF StartsAgain
  <2>2. CASE /\ todo' = Tail(todo) /\ tables' = [tables EXCEPT !["navigation"] = n] /\ columns' = columns
             /\ UNCHANGED <<version, seeded, hosts, rows, promised, secrets, cache, opened, phase>>
    <3>0. /\ tables' \in [Stores -> Nat] /\ tables'["navigation"] = n
          /\ \A s \in Stores \ {"navigation"} : tables'[s] = tables[s]
      BY <1>0, <1>2, <1>t, <2>2
    <3>4. \A s \in Stores : tables'[s] <= Objects[s]
      <4>1. ASSUME NEW s \in Stores, s # "navigation" PROVE tables'[s] <= Objects[s]
        BY <1>0, <3>0, <4>1 DEF DiskWhole
      <4>2. tables'["navigation"] <= Objects["navigation"]
        BY <3>0, Limits
      <4> QED BY <4>1, <4>2
    <3>1. tables' \in [Stores -> Nat] /\ DiskWhole'
      BY <1>0, <1>2, <1>t, <2>2, <3>0, <3>4 DEF DiskWhole
    <3>2. NavigationLeft'
      BY <1>0, <1>2, <1>t, <2>2 DEF NavigationLeft
    <3>3. Opening'
      BY <1>0, <2>2, <3>2 DEF Opening, NetworkDone, TerminalDone, PreferencesDone, Loaded, Done
    <3> QED BY <1>0, <2>2, <3>1, <3>3, StoresMade
  <2> QED BY <1>2, <2>1, <2>2, CreateDoes
<1>3. CASE todo = <<C(4), last>> /\ version["navigation"] = 0
  <2>1. Tail(todo) = <<last>> /\ Head(todo) = C(4)
    BY <1>3, Two
  <2> QED BY <1>2, <1>3, <2>1
<1>4. CASE todo = <<C(3), C(4), last>> /\ version["navigation"] = 0
  <2>1. Tail(todo) = <<C(4), last>> /\ Head(todo) = C(3)
    BY <1>4, Three
  <2> QED BY <1>2, <1>4, <2>1
<1>5. CASE todo = <<C(2), C(3), C(4), last>> /\ version["navigation"] = 0
  <2>1. Tail(todo) = <<C(3), C(4), last>> /\ Head(todo) = C(2)
    BY <1>5, Four
  <2> QED BY <1>2, <1>5, <2>1
<1>6. CASE todo = <<C(1), C(2), C(3), C(4), last>> /\ version["navigation"] = 0
  <2>1. Tail(todo) = <<C(2), C(3), C(4), last>> /\ Head(todo) = C(1)
    BY <1>6, Five
  <2> QED BY <1>2, <1>6, <2>1
<1> QED BY <1>0, <1>1, <1>3, <1>4, <1>5, <1>6 DEF NavigationLeft

LEMMA KeysAre ==
    /\ Keys = {"theme", "logLevel", "sidebarWidth", "operationIdleTimeoutSecs", "layoutProfiles", "leftDefaultViewMode"}
    /\ StoredKeys \subseteq Keys
BY DEF Keys, StoredKeys

LEMMA Reads ==
    ASSUME NEW v
    PROVE  /\ ApplyValue("theme", v) = ParseChoice(v)
           /\ ApplyValue("logLevel", v) = ParseWord(v)
           /\ ApplyValue("sidebarWidth", v) = ParseNumber(v)
           /\ ApplyValue("operationIdleTimeoutSecs", v) = ParseIdle(v)
           /\ ApplyValue("layoutProfiles", v) = ParseText(v)
           /\ ApplyValue("leftDefaultViewMode", v) = Defaults["leftDefaultViewMode"]
BY Zenon DEF ApplyValue

\* A preference with its default stays as it is when it is read.
LEMMA DefaultsSettled == Defaults \in Caches
<1>1. \A k \in Keys : Defaults[k] = IF k = "operationIdleTimeoutSecs" THEN 3 ELSE 1
  BY DEF Defaults
<1>2. Defaults \in [Keys -> 0 .. 3]
  BY DEF Defaults
<1>3. ASSUME NEW k \in Keys PROVE ApplyValue(k, Defaults[k]) = Defaults[k]
  BY <1>1, KeysAre, Reads DEF ParseChoice, ParseWord, ParseNumber, ParseIdle, ParseText, Within
<1> QED BY <1>2, <1>3 DEF Caches, Settled

\* What is accepted for a preference is a value that stays as it is when it is read again.
LEMMA AcceptedSettled ==
    ASSUME NEW k \in Keys, NEW v \in 0 .. 3, ApplyValue(k, v) # Refused
    PROVE  ApplyValue(k, v) \in Settled(k)
<1> DEFINE a == ApplyValue(k, v)
<1>0. v \in {0, 1, 2, 3}
  OBVIOUS
<1>1. a \in 0 .. 3 /\ ApplyValue(k, a) = a
  <2>1. CASE k = "theme"
    BY <1>0, <2>1, Reads DEF ParseChoice, Refused
  <2>2. CASE k = "logLevel"
    BY <1>0, <2>2, Reads DEF ParseWord, ParseChoice, Refused
  <2>3. CASE k = "sidebarWidth"
    BY <1>0, <2>3, Reads DEF ParseNumber, Within
  <2>4. CASE k = "operationIdleTimeoutSecs"
    BY <1>0, <2>4, Reads DEF ParseIdle, Within
  <2>5. CASE k = "layoutProfiles"
    BY <1>0, <2>5, Reads DEF ParseText, Refused
  <2>6. CASE k = "leftDefaultViewMode"
    <3>1. Defaults["leftDefaultViewMode"] = 1
      BY KeysAre DEF Defaults
    <3> QED BY <2>6, <3>1, Reads
  <2> QED BY <2>1, <2>2, <2>3, <2>4, <2>5, <2>6, KeysAre
<1> QED BY <1>1 DEF Settled

LEMMA FillDoes ==
    ASSUME Statement, NEW k \in StoredKeys, Head(todo) = <<"fill", k>>
    PROVE  /\ todo' = Tail(todo) /\ DOMAIN rows' = DOMAIN rows \cup {k}
           /\ \A l \in DOMAIN rows : rows'[l] = rows[l]
           /\ k \in DOMAIN rows \/ rows'[k] = Defaults[k]
           /\ UNCHANGED <<version, tables, columns, seeded, hosts, promised, secrets, cache, opened, phase>>
<1>1. FillRow /\ Head(todo)[2] = k
  BY StatementIs
<1>2. rows' = IF k \in DOMAIN rows THEN rows
              ELSE [l \in DOMAIN rows \cup {k} |-> IF l = k THEN Defaults[k] ELSE rows[l]]
  BY <1>1 DEF FillRow
<1> QED BY <1>1, <1>2 DEF FillRow, Goes, Around

LEMMA LoadDoes ==
    ASSUME StoresInv, Statement, Head(todo) = <<"load">>
    PROVE  /\ todo' = Tail(todo) /\ cache' \in Caches /\ \A k \in DOMAIN rows : cache'[k] = rows[k]
           /\ UNCHANGED <<version, tables, columns, seeded, hosts, rows, promised, secrets, opened, phase>>
<1>1. Load
  BY StatementIs
<1> DEFINE read == [k \in Keys |-> IF k \in DOMAIN rows THEN ApplyValue(k, rows[k]) ELSE Defaults[k]]
<1>2. DOMAIN rows \subseteq Keys /\ \A k \in DOMAIN rows : rows[k] \in Settled(k)
  BY KeysAre DEF StoresInv, StoreTypes
<1>3. ASSUME NEW k \in Keys
      PROVE  read[k] \in Settled(k) /\ read[k] \in 0 .. 3 /\ (k \in DOMAIN rows => read[k] = rows[k])
  <2>1. CASE k \in DOMAIN rows
    BY <1>2, <2>1 DEF Settled
  <2>2. CASE k \notin DOMAIN rows
    BY <2>2, DefaultsSettled DEF Caches
  <2> QED BY <2>1, <2>2
<1>4. read \in Caches
  <2>1. read \in [Keys -> 0 .. 3]
    BY <1>3
  <2> QED BY <2>1, <1>3 DEF Caches
<1>5. Refused \notin {read[k] : k \in Keys}
  BY <1>3 DEF Refused
<1>6. Goes /\ cache' = read
  BY <1>1, <1>5 DEF Load
<1> QED BY <1>1, <1>2, <1>3, <1>4, <1>6 DEF Load, Goes, Around, diskVars

LEMMA NextOf ==
    ASSUME NEW S, NEW rest \in Seq(S), NEW x
    PROVE  \/ rest = <<>> /\ rest \o <<x>> = <<x>>
           \/ /\ Head(rest) \in S /\ Tail(rest) \in Seq(S)
              /\ Head(rest \o <<x>>) = Head(rest) /\ Tail(rest \o <<x>>) = Tail(rest) \o <<x>>
<1>1. CASE rest = <<>>
  BY <1>1
<1>2. CASE rest # <<>>
  <2>1. /\ Head(rest) \in S /\ Tail(rest) \in Seq(S) /\ Len(rest) \in Nat \ {0}
        /\ Len(Tail(rest)) = Len(rest) - 1
    BY <1>2
  <2>2. Head(rest \o <<x>>) = Head(rest)
    BY <1>2
  <2>3. Tail(rest \o <<x>>) = Tail(rest) \o <<x>>
    <3> DEFINE T == S \cup {x}
    <3>1. rest \in Seq(T) /\ Tail(rest) \in Seq(T) /\ x \in T
      BY <2>1
    <3> HIDE DEF T
    <3>2. rest \o <<x>> = Append(rest, x) /\ Tail(rest) \o <<x>> = Append(Tail(rest), x)
      BY <3>1, AppendIsConcat
    <3>3. Tail(Append(rest, x)) = Append(Tail(rest), x)
      BY <1>2, <3>1, HeadTailAppend
    <3> QED BY <3>2, <3>3
  <2> QED BY <2>1, <2>2, <2>3
<1> QED BY <1>1, <1>2

LEMMA Before ==
    ASSUME NEW S, NEW m \in Seq(S), NEW a, NEW b
    PROVE  /\ Head(<<a>> \o m) = a /\ Tail(<<a>> \o m) = m
           /\ Head(<<a, b>> \o m) = a /\ Tail(<<a, b>> \o m) = <<b>> \o m
<1>1. Head(<<a>> \o m) = a /\ Tail(<<a>> \o m) = m
  OBVIOUS
<1>2. Head(<<a, b>> \o m) = a /\ Tail(<<a, b>> \o m) = <<b>> \o m
  OBVIOUS
<1> QED BY <1>1, <1>2

LEMMA PreferencesGoOn ==
    ASSUME StoresInv, phase = "boot", opened = 3, Statement
    PROVE  StoresInv'
<1> DEFINE load == <<"load">>
           Steps == Fills \cup {Now}
<1>0. /\ version \in [Stores -> Nat] /\ tables \in [Stores -> Nat] /\ DiskWhole
      /\ NetworkDone /\ TerminalDone /\ PreferencesLeft
      /\ todo # <<>> /\ columns \subseteq Both
  BY StatementIs DEF StoresInv, StoreTypes, Opening
<1>t. tables["preferences"] <= 1 /\ {"preferences", "terminal", "network", "navigation"} \subseteq Stores
  BY <1>0, StoreNames, Limits DEF DiskWhole
<1>1. PICK rest \in Seq(Steps) :
         LET more == rest \o <<load>>
         IN  \/ todo = more /\ Done("preferences")
             \/ todo = <<Now>> \o more /\ tables["preferences"] = 1
             \/ todo = <<<<"ensure", "preferences", 1>>, Now>> \o more
  BY <1>0 DEF PreferencesLeft
<1> DEFINE more == rest \o <<load>>
<1>2. more \in Seq(Steps \cup {load})
  BY <1>1
<1> HIDE DEF more
<1>3. ASSUME version'["preferences"] = 2, tables'["preferences"] = 1, NEW r \in Seq(Steps), todo' = r \o <<load>>,
             opened' = 3, UNCHANGED columns, UNCHANGED seeded,
             \A s \in {"network", "terminal"} : version'[s] = version[s] /\ tables'[s] = tables[s]
      PROVE  Opening'
  <2>1. PreferencesLeft'
    BY <1>3, Limits DEF PreferencesLeft, Done
  <2> QED BY <1>0, <1>3, <2>1 DEF Opening, NetworkDone, TerminalDone, Done
<1>4. CASE todo = <<Now>> \o more /\ tables["preferences"] = 1
  <2>1. Tail(todo) = more /\ Head(todo) = <<"version", "preferences", 2>>
    BY <1>2, <1>4, Before DEF Now
  <2>2. /\ todo' = more /\ version' = [version EXCEPT !["preferences"] = 2]
        /\ UNCHANGED <<tables, columns, seeded, hosts, rows, promised, secrets, cache, opened, phase>>
    BY <2>1, VersionDoes
  <2>3. version' \in [Stores -> Nat] /\ DiskWhole'
    BY <1>0, <1>t, <2>2 DEF DiskWhole
  <2>4. Opening'
    BY <1>0, <1>1, <1>3, <1>4, <1>t, <2>2 DEF more
  <2> QED BY <1>0, <2>2, <2>3, <2>4, StoresMade
<1>5. CASE todo = <<<<"ensure", "preferences", 1>>, Now>> \o more
  <2>1. Tail(todo) = <<Now>> \o more /\ Head(todo) = <<"ensure", "preferences", 1>>
    BY <1>2, <1>5, Before
  <2>2. /\ todo' = <<Now>> \o more
        /\ tables' = [tables EXCEPT !["preferences"] = IF @ < 1 THEN 1 ELSE @]
        /\ UNCHANGED <<version, columns, seeded, hosts, rows, promised, secrets, cache, opened, phase>>
    BY <2>1, EnsureDoes
  <2>3. tables' = [tables EXCEPT !["preferences"] = 1]
    <3> DEFINE m == IF tables["preferences"] < 1 THEN 1 ELSE tables["preferences"]
    <3>1. tables' = [tables EXCEPT !["preferences"] = m]
      BY <2>2, Zenon
    <3>2. m = 1
      BY <1>0, <1>t
    <3> QED BY <3>1, <3>2, Zenon
  <2>4. tables' \in [Stores -> Nat] /\ DiskWhole'
    BY <1>0, <1>t, <2>2, <2>3, Limits DEF DiskWhole
  <2>5. PreferencesLeft'
    BY <1>0, <1>1, <1>t, <2>2, <2>3 DEF PreferencesLeft, more
  <2>6. Opening'
    BY <1>0, <1>t, <2>2, <2>3, <2>5 DEF Opening, NetworkDone, TerminalDone, Done
  <2> QED BY <1>0, <2>2, <2>4, <2>6, StoresMade
<1>6. CASE todo = more /\ Done("preferences")
  <2>0. /\ version["preferences"] = 2 /\ tables["preferences"] = 1
    BY <1>6, Limits DEF Done
  <2>1. CASE rest = <<>> /\ todo = <<load>>
    <3>1. Tail(todo) = <<>> /\ Head(todo) = <<"load">>
      BY <2>1, One
    <3>2. /\ todo' = <<>> /\ cache' \in Caches /\ \A k \in DOMAIN rows : cache'[k] = rows[k]
          /\ UNCHANGED <<version, tables, columns, seeded, hosts, rows, promised, secrets, opened, phase>>
      BY <3>1, LoadDoes
    <3>3. Opening'
      BY <1>0, <1>6, <3>2
         DEF Opening, NetworkDone, TerminalDone, PreferencesDone, PreferencesLeft, Done, Loaded
    <3>4. StoreTypes' /\ PromisesKept' /\ FlagsTrue' /\ DiskWhole'
      BY <3>2 DEF StoresInv, StoreTypes, PromisesKept, FlagsTrue, DiskWhole
    <3>5. phase' = "boot" /\ StartsAgain'
      BY <3>2 DEF StartsAgain
    <3> QED BY <3>3, <3>4, <3>5 DEF StoresInv
  <2>2. ASSUME Head(rest) \in Steps, Tail(rest) \in Seq(Steps), Head(todo) = Head(rest),
               Tail(todo) = Tail(rest) \o <<load>>
        PROVE  StoresInv'
    <3>1. CASE Head(rest) = Now
      <4>1. /\ todo' = Tail(rest) \o <<load>> /\ version' = [version EXCEPT !["preferences"] = 2]
            /\ UNCHANGED <<tables, columns, seeded, hosts, rows, promised, secrets, cache, opened, phase>>
        BY <2>2, <3>1, VersionDoes DEF Now
      <4>2. version' \in [Stores -> Nat] /\ DiskWhole'
        BY <1>0, <1>t, <4>1 DEF DiskWhole
      <4>3. Opening'
        BY <1>0, <1>3, <1>t, <2>0, <2>2, <4>1
      <4> QED BY <1>0, <4>1, <4>2, <4>3, StoresMade
    <3>2. ASSUME NEW k \in StoredKeys, Head(rest) = <<"fill", k>> PROVE StoresInv'
      <4>1. /\ todo' = Tail(rest) \o <<load>> /\ DOMAIN rows' = DOMAIN rows \cup {k}
            /\ \A l \in DOMAIN rows : rows'[l] = rows[l]
            /\ k \in DOMAIN rows \/ rows'[k] = Defaults[k]
            /\ UNCHANGED <<version, tables, columns, seeded, hosts, promised, secrets, cache, opened, phase>>
        BY <2>2, <3>2, FillDoes
      <4>2. Opening'
        BY <1>0, <1>3, <1>t, <2>0, <2>2, <4>1
      <4>3. Defaults[k] \in Settled(k)
        BY DefaultsSettled, KeysAre DEF Caches
      <4>4. StoreTypes'
        BY <4>1, <4>3 DEF StoresInv, StoreTypes
      <4>5. PromisesKept' /\ FlagsTrue' /\ DiskWhole'
        BY <4>1 DEF StoresInv, PromisesKept, FlagsTrue, DiskWhole
      <4>6. phase' = "boot" /\ StartsAgain'
        BY <4>1 DEF StartsAgain
      <4> QED BY <4>2, <4>4, <4>5, <4>6 DEF StoresInv
    <3> QED BY <2>2, <3>1, <3>2 DEF Fills
  <2>3. \/ rest = <<>> /\ more = <<load>>
        \/ /\ Head(rest) \in Steps /\ Tail(rest) \in Seq(Steps)
           /\ Head(more) = Head(rest) /\ Tail(more) = Tail(rest) \o <<load>>
    BY <1>1, NextOf DEF more
  <2> QED BY <1>6, <2>1, <2>2, <2>3
<1> QED BY <1>1, <1>4, <1>5, <1>6 DEF more

-----------------------------------------------------------------------------
(* What opening a store is to do.                                           *)

LEMMA KeysFinite == IsFiniteSet(StoredKeys)
<1>1. IsFiniteSet({"theme"})
  BY FS_Singleton
<1>2. IsFiniteSet({"theme"} \cup {"logLevel"})
  BY <1>1, FS_AddElement
<1>3. IsFiniteSet({"theme"} \cup {"logLevel"} \cup {"sidebarWidth"})
  BY <1>2, FS_AddElement
<1>4. IsFiniteSet({"theme"} \cup {"logLevel"} \cup {"sidebarWidth"} \cup {"operationIdleTimeoutSecs"})
  BY <1>3, FS_AddElement
<1>5. IsFiniteSet({"theme"} \cup {"logLevel"} \cup {"sidebarWidth"} \cup {"operationIdleTimeoutSecs"}
                  \cup {"layoutProfiles"})
  BY <1>4, FS_AddElement
<1>6. StoredKeys = {"theme"} \cup {"logLevel"} \cup {"sidebarWidth"} \cup {"operationIdleTimeoutSecs"}
                   \cup {"layoutProfiles"}
  BY DEF StoredKeys
<1> QED BY <1>5, <1>6

LEMMA SeedsFill == SeedDefaults \in Seq(Fills)
<1> DEFINE n == Cardinality(StoredKeys)
           order == SetToSeq(StoredKeys)
<1>1. n \in Nat /\ ExistsBijection(1 .. n, StoredKeys)
  BY KeysFinite, FS_CardinalityType
<1>2. PICK f \in Bijection(1 .. n, StoredKeys) : TRUE
  BY <1>1 DEF ExistsBijection
<1>3. f \in [1 .. n -> StoredKeys] /\ IsInjective(f)
  BY <1>2, Zenon DEF Bijection, Injection, IsInjective
<1>4. order \in [1 .. n -> StoredKeys]
  BY <1>3 DEF SetToSeq
<1> HIDE DEF n, order
<1>5. [i \in 1 .. n |-> <<"fill", order[i]>>] \in Seq(Fills)
  BY <1>1, <1>4 DEF Fills
<1> QED BY <1>5 DEF SeedDefaults, n, order

LEMMA FillOne == ASSUME NEW n PROVE Fill(n) \in Seq(Fills)
<1> DEFINE keys == {k \in StoredKeys : Since(k) = n}
           some == CHOOSE k \in keys : TRUE
<1>1. CASE keys = {}
  <2>1. Fill(n) = <<>>
    BY <1>1 DEF Fill
  <2> QED BY <2>1
<1>2. CASE keys # {}
  <2>1. some \in StoredKeys
    <3>1. some \in keys
      BY <1>2
    <3> QED BY <3>1
  <2>2. Fill(n) = <<<<"fill", some>>>>
    BY <1>2 DEF Fill
  <2> HIDE DEF some
  <2> QED BY <2>1, <2>2 DEF Fills
<1> QED BY <1>1, <1>2

LEMMA FillsListed ==
    /\ Ensure("terminal") = <<<<"ensure", "terminal", 1>>>>
    /\ Ensure("preferences") = <<<<"ensure", "preferences", 1>>>>
    /\ Ensure("history") = <<<<"ensure", "history", 1>>, <<"ensure", "history", 2>>>>
    /\ Create("network") = <<<<"create", "network", 1>>>>
    /\ Create("navigation") = <<<<"create", "navigation", 1>>, <<"create", "navigation", 2>>,
                                <<"create", "navigation", 3>>, <<"create", "navigation", 4>>>>
<1>1. Ensure("terminal") = <<<<"ensure", "terminal", 1>>>>
  BY Limits DEF Ensure
<1>2. Ensure("preferences") = <<<<"ensure", "preferences", 1>>>>
  BY Limits DEF Ensure
<1>3. Ensure("history") = <<<<"ensure", "history", 1>>, <<"ensure", "history", 2>>>>
  BY Limits DEF Ensure
<1>4. Create("network") = <<<<"create", "network", 1>>>>
  BY Limits DEF Create
<1>5. Create("navigation") = <<<<"create", "navigation", 1>>, <<"create", "navigation", 2>>,
                               <<"create", "navigation", 3>>, <<"create", "navigation", 4>>>>
  BY Limits DEF Create
<1> QED BY <1>1, <1>2, <1>3, <1>4, <1>5

\* Short sequences joined to one statement more.
LEMMA Join11 ==
    ASSUME NEW a, NEW b
    PROVE  <<a>> \o <<b>> = <<a, b>>
<1> DEFINE T == {a, b}
           u == <<a>> \o <<b>>
           w == <<a, b>>
<1>1. u \in Seq(T) /\ w \in Seq(T)
  OBVIOUS
<1>2. Len(u) = 2 /\ u[1] = a /\ u[2] = b
  OBVIOUS
<1>3. Len(w) = 2 /\ w[1] = a /\ w[2] = b
  OBVIOUS
<1> HIDE DEF T, u, w
<1>4. \A i \in 1 .. Len(u) : u[i] = w[i]
  BY <1>2, <1>3
<1>5. u = w
  BY <1>1, <1>2, <1>3, <1>4, SeqEqual
<1> QED BY <1>5 DEF u, w

LEMMA Join21 ==
    ASSUME NEW a, NEW b, NEW c
    PROVE  <<a, b>> \o <<c>> = <<a, b, c>>
<1> DEFINE T == {a, b, c}
           u == <<a, b>> \o <<c>>
           w == <<a, b, c>>
<1>1. u \in Seq(T) /\ w \in Seq(T)
  OBVIOUS
<1>2. Len(u) = 3 /\ u[1] = a /\ u[2] = b /\ u[3] = c
  OBVIOUS
<1>3. Len(w) = 3 /\ w[1] = a /\ w[2] = b /\ w[3] = c
  OBVIOUS
<1> HIDE DEF T, u, w
<1>4. \A i \in 1 .. Len(u) : u[i] = w[i]
  BY <1>2, <1>3
<1>5. u = w
  BY <1>1, <1>2, <1>3, <1>4, SeqEqual
<1> QED BY <1>5 DEF u, w

LEMMA Join31 ==
    ASSUME NEW a, NEW b, NEW c, NEW d
    PROVE  <<a, b, c>> \o <<d>> = <<a, b, c, d>>
<1> DEFINE T == {a, b, c, d}
           u == <<a, b, c>> \o <<d>>
           w == <<a, b, c, d>>
<1>1. u \in Seq(T) /\ w \in Seq(T)
  OBVIOUS
<1>2. Len(u) = 4 /\ u[1] = a /\ u[2] = b /\ u[3] = c /\ u[4] = d
  OBVIOUS
<1>3. Len(w) = 4 /\ w[1] = a /\ w[2] = b /\ w[3] = c /\ w[4] = d
  OBVIOUS
<1> HIDE DEF T, u, w
<1>4. \A i \in 1 .. Len(u) : u[i] = w[i]
  BY <1>2, <1>3
<1>5. u = w
  BY <1>1, <1>2, <1>3, <1>4, SeqEqual
<1> QED BY <1>5 DEF u, w

LEMMA Join41 ==
    ASSUME NEW a, NEW b, NEW c, NEW d, NEW e
    PROVE  <<a, b, c, d>> \o <<e>> = <<a, b, c, d, e>>
<1> DEFINE T == {a, b, c, d, e}
           u == <<a, b, c, d>> \o <<e>>
           w == <<a, b, c, d, e>>
<1>1. u \in Seq(T) /\ w \in Seq(T)
  OBVIOUS
<1>2. Len(u) = 5 /\ u[1] = a /\ u[2] = b /\ u[3] = c /\ u[4] = d /\ u[5] = e
  OBVIOUS
<1>3. Len(w) = 5 /\ w[1] = a /\ w[2] = b /\ w[3] = c /\ w[4] = d /\ w[5] = e
  OBVIOUS
<1> HIDE DEF T, u, w
<1>4. \A i \in 1 .. Len(u) : u[i] = w[i]
  BY <1>2, <1>3
<1>5. u = w
  BY <1>1, <1>2, <1>3, <1>4, SeqEqual
<1> QED BY <1>5 DEF u, w

LEMMA Join51 ==
    ASSUME NEW a, NEW b, NEW c, NEW d, NEW e, NEW f
    PROVE  <<a, b, c, d, e>> \o <<f>> = <<a, b, c, d, e, f>>
<1> DEFINE T == {a, b, c, d, e, f}
           u == <<a, b, c, d, e>> \o <<f>>
           w == <<a, b, c, d, e, f>>
<1>1. u \in Seq(T) /\ w \in Seq(T)
  OBVIOUS
<1>2. Len(u) = 6 /\ u[1] = a /\ u[2] = b /\ u[3] = c /\ u[4] = d /\ u[5] = e /\ u[6] = f
  OBVIOUS
<1>3. Len(w) = 6 /\ w[1] = a /\ w[2] = b /\ w[3] = c /\ w[4] = d /\ w[5] = e /\ w[6] = f
  OBVIOUS
<1> HIDE DEF T, u, w
<1>4. \A i \in 1 .. Len(u) : u[i] = w[i]
  BY <1>2, <1>3
<1>5. u = w
  BY <1>1, <1>2, <1>3, <1>4, SeqEqual
<1> QED BY <1>5 DEF u, w

LEMMA SingleIn == ASSUME NEW T, NEW a \in T PROVE <<a>> \in Seq(T)
OBVIOUS

\* Concatenation, where only its laws matter.
Cat(s, t) == s \o t

LEMMA Regrouped ==
    ASSUME NEW T, NEW d \in Seq(T), NEW a \in Seq(T), NEW b \in Seq(T), NEW c \in Seq(T), NEW e \in Seq(T)
    PROVE  Cat(Cat(Cat(Cat(d, a), b), c), e) = Cat(d, Cat(Cat(Cat(a, b), c), e))
<1> DEFINE ab == a \o b
           abc == ab \o c
<1>1. ab \in Seq(T)
  BY ConcatProperties
<1>2. (d \o a) \o b = d \o ab
  BY ConcatAssociative, SMTT(30)
<1> HIDE DEF ab
<1>3. abc \in Seq(T)
  BY <1>1, ConcatProperties
<1>4. (d \o ab) \o c = d \o abc
  BY <1>1, ConcatAssociative, SMTT(30)
<1> HIDE DEF abc
<1>5. (d \o abc) \o e = d \o (abc \o e)
  BY <1>3, ConcatAssociative, SMTT(30)
<1>6. d \o a \o b \o c \o e = d \o (abc \o e)
  BY <1>2, <1>4, <1>5, Zenon
<1> QED BY <1>6, Zenon DEF ab, abc, Cat

LEMMA PreferencesToDo ==
    \E rest \in Seq(Fills \cup {Now}) :
       MigratePreferences = <<<<"ensure", "preferences", 1>>, Now>> \o (rest \o <<<<"load">>>>)
<1> DEFINE Steps == Fills \cup {Now}
           now == At("preferences", 2)
           v == version["preferences"]
           A == IF v = 0 THEN SeedDefaults ELSE <<>>
           B == IF v < 1 THEN Fill(1) \o now ELSE <<>>
           C == IF v < 2 THEN Fill(2) \o now ELSE <<>>
           E == Ensure("preferences")
           load == <<<<"load">>>>
           All == Steps \cup {<<"load">>, <<"ensure", "preferences", 1>>}
<1>1. now = <<Now>> /\ now \in Seq(Steps) /\ E \in Seq(All) /\ load \in Seq(All)
  <2>1. now = <<Now>> /\ Now \in Steps
    BY DEF At, Now
  <2>2. now \in Seq(Steps)
    <3> HIDE DEF now, Steps
    <3> QED BY <2>1, SingleIn
  <2>3. E \in Seq(All) /\ load \in Seq(All)
    <3>1. <<"ensure", "preferences", 1>> \in All /\ <<"load">> \in All
      OBVIOUS
    <3> HIDE DEF All
    <3> QED BY <3>1, FillsListed, SingleIn
  <2> QED BY <2>1, <2>2, <2>3
<1>2. SeedDefaults \in Seq(Steps) /\ Fill(1) \in Seq(Steps) /\ Fill(2) \in Seq(Steps)
  <2>1. Seq(Fills) \subseteq Seq(Steps)
    OBVIOUS
  <2> QED BY <2>1, SeedsFill, FillOne
<1> HIDE DEF now
<1>3. A \in Seq(Steps) /\ B \in Seq(Steps) /\ C \in Seq(Steps)
  <2>1. Fill(1) \o now \in Seq(Steps) /\ Fill(2) \o now \in Seq(Steps)
    BY <1>1, <1>2, ConcatProperties
  <2>2. <<>> \in Seq(Steps)
    OBVIOUS
  <2> QED BY <1>2, <2>1, <2>2
<1>4. MigratePreferences = E \o now \o A \o B \o C \o load
  BY DEF MigratePreferences, now
<1> HIDE DEF A, B, C, E, load
<1>5. A \o B \in Seq(Steps) /\ (A \o B) \o C \in Seq(Steps)
  BY <1>3, ConcatProperties
<1>6. Seq(Steps) \subseteq Seq(All)
  <2> HIDE DEF Steps
  <2> QED OBVIOUS
<1> DEFINE D == E \o now
           R == (A \o B) \o C
<1>7. A \in Seq(All) /\ B \in Seq(All) /\ C \in Seq(All) /\ D \in Seq(All) /\ A \o B \in Seq(All) /\ R \in Seq(All)
  <2>1. now \in Seq(All)
    BY <1>1, <1>6
  <2>2. D \in Seq(All)
    BY <1>1, <2>1, ConcatProperties
  <2> QED BY <1>3, <1>5, <1>6, <2>2
<1>8. D \o A \o B \o C \o load = D \o (R \o load)
  <2> HIDE DEF D, R, All
  <2>1. load \in Seq(All)
    BY <1>1
  <2>2. Cat(Cat(Cat(Cat(D, A), B), C), load) = Cat(D, Cat(Cat(Cat(A, B), C), load))
    BY <1>7, <2>1, Regrouped, SMT
  <2> QED BY <2>2, Zenon DEF R, Cat
<1>9. D = <<<<"ensure", "preferences", 1>>, Now>>
  BY <1>1, FillsListed, Join11 DEF E
<1> QED BY <1>4, <1>5, <1>8, <1>9 DEF load

LEMMA SameDisk ==
    ASSUME StoresInv, UNCHANGED <<diskVars, cache, promised>>, opened' \in 0 .. 5,
           phase' \in {"down", "boot", "up", "failed"}
    PROVE  StoreTypes' /\ DiskWhole' /\ PromisesKept' /\ FlagsTrue'
<1>1. StoreTypes'
  BY DEF StoresInv, StoreTypes, diskVars
<1>2. DiskWhole' /\ PromisesKept' /\ FlagsTrue'
  BY DEF StoresInv, DiskWhole, PromisesKept, FlagsTrue, diskVars
<1> QED BY <1>1, <1>2

LEMMA LaunchKeeps == StoresInv /\ Launch => StoresInv'
<1> SUFFICES ASSUME StoresInv, Launch PROVE StoresInv'
  OBVIOUS
<1>1. phase' = "boot" /\ opened' = 0 /\ todo' = <<>> /\ UNCHANGED <<diskVars, cache, promised>>
  BY DEF Launch
<1>2. Opening' /\ StartsAgain'
  BY <1>1 DEF Opening, StartsAgain
<1> QED BY <1>1, <1>2, SameDisk DEF StoresInv

\* A store is opened with what its version says is left to do.
LEMMA MigrationStarts ==
    /\ version["network"] \in 0 .. 3 /\ DiskWhole /\ version \in [Stores -> Nat]
       /\ todo' = Migration("network") /\ UNCHANGED <<version, tables, columns>>
       => NetworkLeft'
    /\ todo' = Migration("terminal") => TerminalLeft'
    /\ todo' = Migration("preferences") => PreferencesLeft'
    /\ todo' = Migration("history") => HistoryLeft'
    /\ version["navigation"] \in 0 .. 1 /\ DiskWhole /\ todo' = Migration("navigation")
       /\ UNCHANGED <<version, tables>>
       => NavigationLeft'
<1>0. /\ Migration("network") = MigrateNetwork
      /\ Migration("terminal") = Ensure("terminal") \o At("terminal", 1) \o <<<<"seed">>>>
      /\ Migration("preferences") = MigratePreferences
      /\ Migration("history") = Ensure("history") \o At("history", 1)
      /\ Migration("navigation") = MigrateNavigation
  BY Zenon DEF Migration
<1>1. ASSUME version["network"] \in 0 .. 3, DiskWhole, todo' = Migration("network"),
             UNCHANGED <<version, tables, columns>>
      PROVE  NetworkLeft'
  <2> DEFINE last    == <<"version", "network", 3>>
             options == <<"column", "options">>
             second  == <<"version", "network", 2>>
             keys    == <<"flag", "key">>
             words   == <<"flag", "password">>
             secret  == <<"column", "secret">>
  <2>1. CASE version["network"] = 0
    <3>1. todo' = Create("network") \o At("network", 3)
      <4>1. version["network"] # 1 /\ version["network"] # 2
        BY <2>1
      <4> QED BY <1>0, <1>1, <2>1, <4>1, Zenon DEF MigrateNetwork
    <3>2. todo' = <<<<"create", "network", 1>>, last>>
      BY <3>1, FillsListed, Join11 DEF At
    <3> QED BY <1>1, <2>1, <3>2 DEF NetworkLeft
  <2>2. CASE version["network"] = 1
    <3>1. todo' = <<secret, words, keys>> \o At("network", 2) \o <<options>> \o At("network", 3)
      <4>1. version["network"] # 0 /\ version["network"] # 2
        BY <2>2
      <4> QED BY <1>0, <1>1, <2>2, <4>1, Zenon DEF MigrateNetwork
    <3>2. todo' = <<secret, words, keys>> \o <<second>> \o <<options>> \o <<last>>
      BY <3>1, Zenon DEF At
    <3>3. todo' = <<secret, words, keys, second, options, last>>
      <4> HIDE DEF secret, words, keys, second, options, last
      <4>1. <<secret, words, keys>> \o <<second>> = <<secret, words, keys, second>>
        BY Join31
      <4>2. <<secret, words, keys, second>> \o <<options>> = <<secret, words, keys, second, options>>
        BY Join41
      <4>3. <<secret, words, keys, second, options>> \o <<last>> = <<secret, words, keys, second, options, last>>
        BY Join51
      <4> QED BY <3>2, <4>1, <4>2, <4>3, Zenon
    <3> QED BY <1>1, <2>2, <3>3 DEF NetworkLeft
  <2>3. CASE version["network"] = 2
    <3>1. todo' = <<options>> \o At("network", 3)
      <4>1. version["network"] # 0 /\ version["network"] # 1
        BY <2>3
      <4> QED BY <1>0, <1>1, <2>3, <4>1, Zenon DEF MigrateNetwork
    <3>2. todo' = <<options, last>>
      BY <3>1, Join11 DEF At
    <3> QED BY <1>1, <2>3, <3>2 DEF NetworkLeft
  <2>4. CASE version["network"] = 3
    <3>1. todo' = <<>>
      <4>1. version["network"] # 0 /\ version["network"] # 1 /\ version["network"] # 2
        BY <2>4
      <4> QED BY <1>0, <1>1, <4>1, Zenon DEF MigrateNetwork
    <3>2. NetworkDone'
      BY <1>1, <2>4, Limits DEF DiskWhole, NetworkDone, Done
    <3> QED BY <3>1, <3>2 DEF NetworkLeft
  <2> QED BY <1>1, <2>1, <2>2, <2>3, <2>4
<1>2. ASSUME todo' = Migration("terminal") PROVE TerminalLeft'
  <2>1. todo' = <<<<"ensure", "terminal", 1>>>> \o <<<<"version", "terminal", 1>>>> \o <<<<"seed">>>>
    BY <1>0, <1>2, FillsListed, Zenon DEF At
  <2>2. todo' = <<<<"ensure", "terminal", 1>>, <<"version", "terminal", 1>>, <<"seed">>>>
    <3>1. <<<<"ensure", "terminal", 1>>>> \o <<<<"version", "terminal", 1>>>>
          = <<<<"ensure", "terminal", 1>>, <<"version", "terminal", 1>>>>
      BY Join11, Zenon
    <3>2. <<<<"ensure", "terminal", 1>>, <<"version", "terminal", 1>>>> \o <<<<"seed">>>>
          = <<<<"ensure", "terminal", 1>>, <<"version", "terminal", 1>>, <<"seed">>>>
      BY Join21, Zenon
    <3> QED BY <2>1, <3>1, <3>2, Zenon
  <2> QED BY <2>2 DEF TerminalLeft
<1>3. ASSUME todo' = Migration("preferences") PROVE PreferencesLeft'
  <2>1. \E rest \in Seq(Fills \cup {Now}) : todo' = <<<<"ensure", "preferences", 1>>, Now>> \o (rest \o <<<<"load">>>>)
    BY <1>0, <1>3, PreferencesToDo, Zenon
  <2> QED BY <2>1, Zenon DEF PreferencesLeft
<1>4. ASSUME todo' = Migration("history") PROVE HistoryLeft'
  <2>1. todo' = <<<<"ensure", "history", 1>>, <<"ensure", "history", 2>>>> \o <<<<"version", "history", 1>>>>
    BY <1>0, <1>4, FillsListed, Zenon DEF At
  <2>2. todo' = <<<<"ensure", "history", 1>>, <<"ensure", "history", 2>>, <<"version", "history", 1>>>>
    BY <2>1, Join21, Zenon
  <2> QED BY <2>2 DEF HistoryLeft
<1>5. ASSUME version["navigation"] \in 0 .. 1, DiskWhole, todo' = Migration("navigation"), UNCHANGED <<version, tables>>
      PROVE  NavigationLeft'
  <2>1. CASE version["navigation"] = 0
    <3>1. todo' = Create("navigation") \o <<<<"version", "navigation", 1>>>>
      BY <1>0, <1>5, <2>1, Zenon DEF MigrateNavigation, At
    <3>2. todo' = <<<<"create", "navigation", 1>>, <<"create", "navigation", 2>>, <<"create", "navigation", 3>>,
                    <<"create", "navigation", 4>>, <<"version", "navigation", 1>>>>
      BY <3>1, FillsListed, Join41, Zenon
    <3> QED BY <1>5, <2>1, <3>2 DEF NavigationLeft
  <2>2. CASE version["navigation"] = 1
    <3>1. todo' = <<>>
      <4>1. version["navigation"] # 0
        BY <2>2
      <4> QED BY <1>0, <1>5, <4>1, Zenon DEF MigrateNavigation
    <3>2. Done("navigation")'
      BY <1>5, <2>2, Limits DEF DiskWhole, Done
    <3> QED BY <3>1, <3>2 DEF NavigationLeft
  <2> QED BY <1>5, <2>1, <2>2
<1> QED BY <1>1, <1>2, <1>3, <1>4, <1>5

LEMMA OpenStoreKeeps == StoresInv /\ OpenStore => StoresInv'
<1> SUFFICES ASSUME StoresInv, OpenStore PROVE StoresInv'
  OBVIOUS
<1> DEFINE s == StoreOrder[opened + 1]
<1>1. /\ phase = "boot" /\ todo = <<>> /\ opened \in 0 .. 4 /\ UNCHANGED <<diskVars, cache, promised>>
      /\ Opening /\ DiskWhole /\ version \in [Stores -> Nat]
  BY DEF OpenStore, StoresInv, StoreTypes
<1>0. s \in Stores
  BY <1>1, StoreNames
<1>2. CASE version[s] > Current[s]
  <2>1. phase' = "failed" /\ opened' = opened /\ todo' = todo
    BY <1>2 DEF OpenStore
  <2>2. StartsAgain'
    BY <1>0, <1>1, <1>2, <2>1 DEF StartsAgain, diskVars
  <2>3. StoreTypes' /\ DiskWhole' /\ PromisesKept' /\ FlagsTrue'
    BY <1>1, <2>1, SameDisk
  <2> QED BY <1>1, <2>1, <2>2, <2>3 DEF StoresInv
<1>3. CASE ~(version[s] > Current[s])
  <2>1. phase' = "boot" /\ opened' = opened + 1 /\ todo' = Migration(s)
    BY <1>1, <1>3 DEF OpenStore
  <2>2. UNCHANGED <<version, tables, columns, seeded, rows>>
    BY <1>1 DEF diskVars
  <2>3. \A r \in Stores : Done(r)' <=> Done(r)
    BY <2>2 DEF Done
  <2>4. /\ NetworkDone => NetworkDone' 
        /\ TerminalDone => TerminalDone'
        /\ PreferencesDone => PreferencesDone'
    BY <1>1, <2>2, <2>3, StoreNames DEF NetworkDone, TerminalDone, PreferencesDone, Loaded
  <2> HIDE DEF s
  <2>5. Opening'
    <3>1. CASE opened = 0
      <4>1. s = "network" /\ version["network"] \in 0 .. 3
        BY <1>0, <1>1, <1>3, <3>1, StoreNames, Limits DEF s
      <4>2. NetworkLeft'
        BY <1>1, <2>1, <2>2, <4>1, MigrationStarts
      <4> QED BY <2>1, <3>1, <4>2 DEF Opening
    <3>2. CASE opened = 1
      <4>1. s = "terminal" /\ NetworkDone
        BY <1>1, <3>2, StoreNames DEF s, Opening, NetworkLeft
      <4>2. TerminalLeft'
        BY <2>1, <4>1, MigrationStarts
      <4> QED BY <2>1, <2>4, <3>2, <4>1, <4>2 DEF Opening
    <3>3. CASE opened = 2
      <4>1. s = "preferences" /\ NetworkDone /\ TerminalDone
        BY <1>1, <3>3, StoreNames DEF s, Opening, TerminalLeft
      <4>2. PreferencesLeft'
        BY <2>1, <4>1, MigrationStarts
      <4> QED BY <2>1, <2>4, <3>3, <4>1, <4>2 DEF Opening
    <3>4. CASE opened = 3
      <4>1. s = "history" /\ NetworkDone /\ TerminalDone /\ PreferencesDone
        <5>1. PreferencesLeft => PreferencesDone
          <6> SUFFICES ASSUME NEW rest \in Seq(Fills \cup {Now})
                       PROVE /\ rest \o <<<<"load">>>> # <<>>
                             /\ <<Now>> \o (rest \o <<<<"load">>>>) # <<>>
                             /\ <<<<"ensure", "preferences", 1>>, Now>> \o (rest \o <<<<"load">>>>) # <<>>
            BY <1>1, Zenon DEF PreferencesLeft
          <6> DEFINE more == rest \o <<<<"load">>>>
          <6>1. more \in Seq(Fills \cup {Now, <<"load">>}) /\ more # <<>>
            OBVIOUS
          <6> HIDE DEF more
          <6>2. <<Now>> \o more # <<>> /\ <<<<"ensure", "preferences", 1>>, Now>> \o more # <<>>
            BY <6>1
          <6> QED BY <6>1, <6>2 DEF more
        <5> QED BY <1>1, <3>4, <5>1, StoreNames DEF s, Opening
      <4>2. HistoryLeft'
        BY <2>1, <4>1, MigrationStarts
      <4> QED BY <2>1, <2>4, <3>4, <4>1, <4>2 DEF Opening
    <3>5. CASE opened = 4
      <4>1. s = "navigation" /\ NetworkDone /\ TerminalDone /\ PreferencesDone /\ Done("history")
        BY <1>1, <3>5, StoreNames DEF s, Opening, HistoryLeft
      <4>2. version["navigation"] \in 0 .. 1
        BY <1>0, <1>1, <1>3, <4>1, Limits
      <4>3. NavigationLeft'
        BY <1>1, <2>1, <2>2, <4>1, <4>2, MigrationStarts
      <4> QED BY <2>1, <2>3, <2>4, <3>5, <4>1, <4>3, StoreNames DEF Opening
    <3> QED BY <1>1, <3>1, <3>2, <3>3, <3>4, <3>5
  <2>6. StoreTypes' /\ DiskWhole' /\ PromisesKept' /\ FlagsTrue'
    <3>1. opened' \in 0 .. 5
      BY <1>1, <2>1
    <3> QED BY <1>1, <2>1, <3>1, SameDisk
  <2>7. StartsAgain'
    BY <2>1 DEF StartsAgain
  <2> QED BY <2>1, <2>5, <2>6, <2>7 DEF StoresInv
<1> QED BY <1>2, <1>3

-----------------------------------------------------------------------------
(* The commands.                                                            *)

LEMMA StillRunning ==
    ASSUME StoresInv, phase = "up", UNCHANGED <<phase, opened, version, tables, columns, seeded>>,
           hosts' \in [DOMAIN hosts' -> Login], FlagsTrue',
           DOMAIN rows' \subseteq StoredKeys, \A k \in DOMAIN rows' : rows'[k] \in Settled(k),
           cache' \in Caches, DOMAIN promised' = Keys, PromisesKept',
           (ProfilesLeft' /\ Loaded') \/ ChangeLeft'
    PROVE  StoresInv'
<1>1. Running
  BY DEF StoresInv
<1>2. version["network"] = 3 /\ version["navigation"] = 1
  BY <1>1, Limits DEF Running
<1>3. StoreTypes' /\ DiskWhole'
  BY <1>2 DEF StoresInv, StoreTypes, DiskWhole
<1>4. Running' /\ StartsAgain'
  BY <1>1 DEF Running, StartsAgain
<1> QED BY <1>3, <1>4 DEF StoresInv

LEMMA ProfilesRun ==
    ASSUME StoresInv, phase = "up", Loaded,
           UNCHANGED <<phase, opened, version, tables, columns, seeded, rows, cache, promised>>,
           hosts' \in [DOMAIN hosts' -> Login], FlagsTrue', ProfilesLeft'
    PROVE  StoresInv'
<1>1. DOMAIN rows' \subseteq StoredKeys /\ (\A k \in DOMAIN rows' : rows'[k] \in Settled(k))
      /\ cache' \in Caches /\ DOMAIN promised' = Keys /\ PromisesKept' /\ Loaded'
  BY DEF StoresInv, StoreTypes, PromisesKept, Loaded
<1> QED BY <1>1, StillRunning

LEMMA KeychainDoes ==
    ASSUME Statement, NEW op \in {"store", "forget"}, NEW p, Head(todo) = <<op, p>>
    PROVE  /\ todo' = Tail(todo)
           /\ secrets' = IF op = "store" THEN secrets \cup {p} ELSE secrets \ {p}
           /\ UNCHANGED <<phase, opened, version, tables, columns, seeded, hosts, rows, cache, promised>>
<1>1. Keychain /\ Head(todo)[1] = op /\ Head(todo)[2] = p
  BY StatementIs
<1>2. Does("store") <=> op = "store"
  BY <1>1, StatementIs DEF Does
<1> QED BY <1>1, <1>2 DEF Keychain, Goes, Around

LEMMA MarkDoes ==
    ASSUME StoresInv, Statement, NEW p, NEW b \in BOOLEAN, Head(todo) = <<"mark", p, b>>
    PROVE  /\ todo' = Tail(todo) /\ DOMAIN hosts' = DOMAIN hosts /\ hosts' \in [DOMAIN hosts -> Login]
           /\ \A q \in DOMAIN hosts \ {p} : hosts'[q] = hosts[q]
           /\ p \in DOMAIN hosts => hosts'[p].flag = b
           /\ UNCHANGED <<phase, opened, version, tables, columns, seeded, secrets, rows, cache, promised>>
<1>1. SetFlag /\ Head(todo)[2] = p /\ Head(todo)[3] = b
  BY StatementIs
<1>2. hosts' = [hosts EXCEPT ![p].flag = b]
  BY <1>1, Zenon DEF SetFlag
<1>3. hosts \in [DOMAIN hosts -> Login]
  BY DEF StoresInv, StoreTypes
<1>4. /\ DOMAIN hosts' = DOMAIN hosts /\ hosts' \in [DOMAIN hosts -> Login]
      /\ \A q \in DOMAIN hosts \ {p} : hosts'[q] = hosts[q]
      /\ p \in DOMAIN hosts => hosts'[p].flag = b
  BY <1>2, <1>3 DEF Login
<1> QED BY <1>1, <1>4 DEF SetFlag, Goes, Around

LEMMA WriteDoes ==
    ASSUME StoresInv, Statement, NEW p, NEW auth \in {"password", "key"}, Head(todo) = <<"write", p, auth>>
    PROVE  /\ todo' = Tail(todo) /\ hosts' \in [DOMAIN hosts' -> Login] /\ FlagsTrue'
           /\ UNCHANGED <<phase, opened, version, tables, columns, seeded, secrets, rows, cache, promised>>
<1>1. WriteRow /\ Head(todo)[2] = p /\ Head(todo)[3] = auth
  BY StatementIs
<1>2. hosts' = [hosts EXCEPT ![p] = [auth |-> auth, flag |-> FlagFor(hosts[p], auth)]]
  BY <1>1, Zenon DEF WriteRow
<1>3. hosts \in [DOMAIN hosts -> Login] /\ FlagsTrue
  BY DEF StoresInv, StoreTypes
<1>4. UNCHANGED secrets
  BY <1>1 DEF WriteRow
<1> DEFINE f == FlagFor(hosts[p], auth)
<1>5. p \in DOMAIN hosts => f \in BOOLEAN /\ (auth = "password" /\ f => hosts[p].auth = "password" /\ hosts[p].flag)
  BY <1>3 DEF FlagFor, Login
<1> HIDE DEF f
<1>6. hosts' = [hosts EXCEPT ![p] = [auth |-> auth, flag |-> f]]
  BY <1>2, Zenon DEF f
<1>7. DOMAIN hosts' = DOMAIN hosts /\ hosts' \in [DOMAIN hosts -> Login]
      /\ (\A q \in DOMAIN hosts \ {p} : hosts'[q] = hosts[q])
      /\ (p \in DOMAIN hosts => hosts'[p] = [auth |-> auth, flag |-> f])
  BY <1>3, <1>5, <1>6 DEF Login
<1>8. ASSUME NEW q \in DOMAIN hosts', hosts'[q].auth = "password", hosts'[q].flag PROVE q \in secrets'
  <2>1. CASE q = p
    BY <1>3, <1>4, <1>5, <1>7, <1>8, <2>1 DEF FlagsTrue
  <2>2. CASE q # p
    BY <1>3, <1>4, <1>7, <1>8, <2>2 DEF FlagsTrue
  <2> QED BY <2>1, <2>2
<1> QED BY <1>1, <1>7, <1>8 DEF WriteRow, Goes, Around, FlagsTrue

LEMMA DeleteDoes ==
    ASSUME StoresInv, Statement, NEW p, Head(todo) = <<"delete", p>>
    PROVE  /\ todo' = Tail(todo) /\ hosts' \in [DOMAIN hosts' -> Login] /\ FlagsTrue' /\ p \notin DOMAIN hosts'
           /\ UNCHANGED <<phase, opened, version, tables, columns, seeded, secrets, rows, cache, promised>>
<1>1. DeleteRow /\ Head(todo)[2] = p
  BY StatementIs
<1>2. hosts' = [q \in DOMAIN hosts \ {p} |-> hosts[q]] /\ UNCHANGED secrets
  BY <1>1 DEF DeleteRow, Restrict
<1>3. hosts \in [DOMAIN hosts -> Login] /\ FlagsTrue
  BY DEF StoresInv, StoreTypes
<1>4. hosts' \in [DOMAIN hosts' -> Login] /\ p \notin DOMAIN hosts'
  BY <1>2, <1>3
<1>5. FlagsTrue'
  BY <1>2, <1>3 DEF FlagsTrue
<1> QED BY <1>1, <1>4, <1>5 DEF DeleteRow, Goes, Around

LEMMA PruneDoes ==
    ASSUME Statement, Head(todo) = <<"prune">>
    PROVE  /\ todo' = Tail(todo)
           /\ UNCHANGED <<phase, opened, version, tables, columns, seeded, hosts, secrets, rows, cache, promised>>
<1>1. Prune
  BY StatementIs
<1> QED BY <1>1 DEF Prune, Goes, Around

LEMMA PersistDoes ==
    ASSUME Statement, NEW all, NEW k \in Keys, Head(todo) = <<"persist", all, k>>, DOMAIN promised = Keys
    PROVE  /\ todo' = Tail(todo) /\ rows' = [l \in StoredKeys |-> all[l]]
           /\ DOMAIN promised' = Keys
           /\ \A l \in Keys \ {k} : promised'[l] = promised[l]
           /\ k \in StoredKeys => promised'[k] = Unset
           /\ UNCHANGED <<phase, opened, version, tables, columns, seeded, hosts, secrets, cache>>
<1>1. Persist /\ Head(todo)[2] = all /\ Head(todo)[3] = k
  BY StatementIs
<1>2. promised' = IF k \in StoredKeys THEN [promised EXCEPT ![k] = Unset] ELSE promised
  BY <1>1 DEF Persist
<1> QED BY <1>1, <1>2 DEF Persist, Goes, Around

LEMMA RememberDoes ==
    ASSUME Statement, NEW all, NEW k \in Keys, Head(todo) = <<"remember", all, k>>, DOMAIN promised = Keys
    PROVE  /\ todo' = Tail(todo) /\ cache' = all
           /\ DOMAIN promised' = Keys
           /\ \A l \in Keys \ {k} : promised'[l] = promised[l]
           /\ promised'[k] = all[k]
           /\ UNCHANGED <<phase, opened, version, tables, columns, seeded, hosts, secrets, rows>>
<1>1. Remember /\ Head(todo)[2] = all /\ Head(todo)[3] = k
  BY StatementIs
<1>2. promised' = [promised EXCEPT ![k] = all[k]]
  BY <1>1 DEF Remember
<1> QED BY <1>1, <1>2 DEF Remember, Goes, Around, diskVars

LEMMA CommandGoesOn ==
    ASSUME StoresInv, phase = "up", Statement
    PROVE  StoresInv'
<1>0. /\ Running /\ FlagsTrue /\ PromisesKept /\ DOMAIN promised = Keys /\ cache \in Caches
      /\ hosts \in [DOMAIN hosts -> Login] /\ todo # <<>>
      /\ DOMAIN rows \subseteq StoredKeys /\ \A k \in DOMAIN rows : rows[k] \in Settled(k)
  BY StatementIs DEF StoresInv, StoreTypes
<1>1. CASE ProfilesLeft /\ Loaded
  <2>1. CASE todo = <<<<"prune">>>>
    <3>1. Tail(todo) = <<>> /\ Head(todo) = <<"prune">>
      BY <2>1, One
    <3>2. /\ todo' = <<>>
          /\ UNCHANGED <<phase, opened, version, tables, columns, seeded, hosts, secrets, rows, cache, promised>>
      BY <3>1, PruneDoes
    <3>3. ProfilesLeft' /\ FlagsTrue'
      BY <1>0, <3>2 DEF ProfilesLeft, FlagsTrue
    <3> QED BY <1>0, <1>1, <3>2, <3>3, ProfilesRun
  <2>2. ASSUME NEW p \in Profiles,
               \/ todo = <<<<"delete", p>>, <<"forget", p>>>>
               \/ todo = <<<<"forget", p>>>> /\ p \notin DOMAIN hosts
               \/ todo = <<<<"store", p>>, <<"mark", p, TRUE>>>>
               \/ todo = <<<<"mark", p, TRUE>>>> /\ p \in secrets
        PROVE  StoresInv'
    <3>1. CASE todo = <<<<"delete", p>>, <<"forget", p>>>>
      <4>1. Tail(todo) = <<<<"forget", p>>>> /\ Head(todo) = <<"delete", p>>
        BY <3>1, Two
      <4>2. /\ todo' = <<<<"forget", p>>>> /\ hosts' \in [DOMAIN hosts' -> Login] /\ FlagsTrue' /\ p \notin DOMAIN hosts'
            /\ UNCHANGED <<phase, opened, version, tables, columns, seeded, secrets, rows, cache, promised>>
        BY <4>1, DeleteDoes
      <4>3. ProfilesLeft'
        BY <4>2 DEF ProfilesLeft
      <4> QED BY <1>1, <4>2, <4>3, ProfilesRun
    <3>2. CASE todo = <<<<"forget", p>>>> /\ p \notin DOMAIN hosts
      <4>1. Tail(todo) = <<>> /\ Head(todo) = <<"forget", p>>
        BY <3>2, One
      <4>2. /\ todo' = <<>> /\ secrets' = secrets \ {p}
            /\ UNCHANGED <<phase, opened, version, tables, columns, seeded, hosts, rows, cache, promised>>
        BY <4>1, KeychainDoes
      <4>3. ProfilesLeft' /\ FlagsTrue'
        BY <1>0, <3>2, <4>2 DEF ProfilesLeft, FlagsTrue
      <4> QED BY <1>0, <1>1, <4>2, <4>3, ProfilesRun
    <3>3. CASE todo = <<<<"store", p>>, <<"mark", p, TRUE>>>>
      <4>1. Tail(todo) = <<<<"mark", p, TRUE>>>> /\ Head(todo) = <<"store", p>>
        BY <3>3, Two
      <4>2. /\ todo' = <<<<"mark", p, TRUE>>>> /\ secrets' = secrets \cup {p}
            /\ UNCHANGED <<phase, opened, version, tables, columns, seeded, hosts, rows, cache, promised>>
        BY <4>1, KeychainDoes
      <4>3. ProfilesLeft' /\ FlagsTrue'
        BY <1>0, <4>2 DEF ProfilesLeft, FlagsTrue
      <4> QED BY <1>0, <1>1, <4>2, <4>3, ProfilesRun
    <3>4. CASE todo = <<<<"mark", p, TRUE>>>> /\ p \in secrets
      <4>1. Tail(todo) = <<>> /\ Head(todo) = <<"mark", p, TRUE>>
        BY <3>4, One
      <4>2. /\ todo' = <<>> /\ DOMAIN hosts' = DOMAIN hosts /\ hosts' \in [DOMAIN hosts -> Login]
            /\ \A q \in DOMAIN hosts \ {p} : hosts'[q] = hosts[q]
            /\ UNCHANGED <<phase, opened, version, tables, columns, seeded, secrets, rows, cache, promised>>
        BY <4>1, MarkDoes
      <4>3. ProfilesLeft'
        BY <4>2 DEF ProfilesLeft
      <4>4. FlagsTrue'
        BY <1>0, <3>4, <4>2 DEF FlagsTrue
      <4> QED BY <1>1, <4>2, <4>3, <4>4, ProfilesRun
    <3> QED BY <2>2, <3>1, <3>2, <3>3, <3>4
  <2>3. ASSUME NEW p \in Profiles, NEW auth \in {"password", "key"},
               \/ todo = <<<<"mark", p, FALSE>>, <<"forget", p>>, <<"write", p, auth>>>>
               \/ todo = <<<<"forget", p>>, <<"write", p, auth>>>> /\ (p \in DOMAIN hosts => ~hosts[p].flag)
               \/ todo = <<<<"write", p, auth>>>>
        PROVE  StoresInv'
    <3>1. CASE todo = <<<<"mark", p, FALSE>>, <<"forget", p>>, <<"write", p, auth>>>>
      <4>1. Tail(todo) = <<<<"forget", p>>, <<"write", p, auth>>>> /\ Head(todo) = <<"mark", p, FALSE>>
        BY <3>1, Three
      <4>2. /\ todo' = <<<<"forget", p>>, <<"write", p, auth>>>>
            /\ DOMAIN hosts' = DOMAIN hosts /\ hosts' \in [DOMAIN hosts -> Login]
            /\ \A q \in DOMAIN hosts \ {p} : hosts'[q] = hosts[q]
            /\ p \in DOMAIN hosts => ~hosts'[p].flag
            /\ UNCHANGED <<phase, opened, version, tables, columns, seeded, secrets, rows, cache, promised>>
        BY <4>1, MarkDoes
      <4>3. ProfilesLeft'
        BY <4>2 DEF ProfilesLeft
      <4>4. FlagsTrue'
        BY <1>0, <4>2 DEF FlagsTrue
      <4> QED BY <1>1, <4>2, <4>3, <4>4, ProfilesRun
    <3>2. CASE todo = <<<<"forget", p>>, <<"write", p, auth>>>> /\ (p \in DOMAIN hosts => ~hosts[p].flag)
      <4>1. Tail(todo) = <<<<"write", p, auth>>>> /\ Head(todo) = <<"forget", p>>
        BY <3>2, Two
      <4>2. /\ todo' = <<<<"write", p, auth>>>> /\ secrets' = secrets \ {p}
            /\ UNCHANGED <<phase, opened, version, tables, columns, seeded, hosts, rows, cache, promised>>
        BY <4>1, KeychainDoes
      <4>3. ProfilesLeft' /\ FlagsTrue'
        BY <1>0, <3>2, <4>2 DEF ProfilesLeft, FlagsTrue
      <4> QED BY <1>0, <1>1, <4>2, <4>3, ProfilesRun
    <3>3. CASE todo = <<<<"write", p, auth>>>>
      <4>1. Tail(todo) = <<>> /\ Head(todo) = <<"write", p, auth>>
        BY <3>3, One
      <4>2. /\ todo' = <<>> /\ hosts' \in [DOMAIN hosts' -> Login] /\ FlagsTrue'
            /\ UNCHANGED <<phase, opened, version, tables, columns, seeded, secrets, rows, cache, promised>>
        BY <4>1, WriteDoes
      <4>3. ProfilesLeft'
        BY <4>2 DEF ProfilesLeft
      <4> QED BY <1>1, <4>2, <4>3, ProfilesRun
    <3> QED BY <2>3, <3>1, <3>2, <3>3
  <2> QED BY <1>0, <1>1, <2>1, <2>2, <2>3 DEF ProfilesLeft
<1>2. CASE ChangeLeft
  <2>1. PICK k \in Keys, all \in Caches :
           /\ \A l \in Keys \ {k} : all[l] = cache[l]
           /\ \/ todo = <<<<"persist", all, k>>, <<"remember", all, k>>>> /\ Loaded
              \/ /\ todo = <<<<"remember", all, k>>>>
                 /\ DOMAIN rows = StoredKeys /\ \A l \in StoredKeys : rows[l] = all[l]
    BY <1>2 DEF ChangeLeft
  <2>2. CASE todo = <<<<"persist", all, k>>, <<"remember", all, k>>>> /\ Loaded
    <3>1. Tail(todo) = <<<<"remember", all, k>>>> /\ Head(todo) = <<"persist", all, k>>
      BY <2>2, Two
    <3>2. /\ todo' = <<<<"remember", all, k>>>> /\ rows' = [l \in StoredKeys |-> all[l]]
          /\ DOMAIN promised' = Keys
          /\ \A l \in Keys \ {k} : promised'[l] = promised[l]
          /\ k \in StoredKeys => promised'[k] = Unset
          /\ UNCHANGED <<phase, opened, version, tables, columns, seeded, hosts, secrets, cache>>
      BY <1>0, <3>1, PersistDoes
    <3>3. ChangeLeft'
      BY <2>1, <3>2 DEF ChangeLeft
    <3>4. PromisesKept'
      <4> SUFFICES ASSUME NEW l \in StoredKeys, promised'[l] # Unset
                   PROVE  l \in DOMAIN rows' /\ promised'[l] = rows'[l]
        BY DEF PromisesKept
      <4>1. l # k /\ l \in Keys /\ promised'[l] = promised[l]
        BY <3>2, KeysAre
      <4>2. l \in DOMAIN rows /\ promised[l] = rows[l] /\ cache[l] = rows[l]
        BY <1>0, <2>2, <4>1 DEF PromisesKept, Loaded
      <4>3. rows'[l] = all[l] /\ all[l] = cache[l]
        BY <2>1, <3>2, <4>1
      <4> QED BY <3>2, <4>1, <4>2, <4>3
    <3>5. DOMAIN rows' \subseteq StoredKeys /\ (\A l \in DOMAIN rows' : rows'[l] \in Settled(l))
      BY <2>1, <3>2, KeysAre DEF Caches
    <3>6. FlagsTrue'
      BY <1>0, <3>2 DEF FlagsTrue
    <3> QED BY <1>0, <3>2, <3>3, <3>4, <3>5, <3>6, StillRunning
  <2>3. CASE /\ todo = <<<<"remember", all, k>>>>
             /\ DOMAIN rows = StoredKeys /\ \A l \in StoredKeys : rows[l] = all[l]
    <3>1. Tail(todo) = <<>> /\ Head(todo) = <<"remember", all, k>>
      BY <2>3, One
    <3>2. /\ todo' = <<>> /\ cache' = all
          /\ DOMAIN promised' = Keys
          /\ \A l \in Keys \ {k} : promised'[l] = promised[l]
          /\ promised'[k] = all[k]
          /\ UNCHANGED <<phase, opened, version, tables, columns, seeded, hosts, secrets, rows>>
      BY <1>0, <3>1, RememberDoes
    <3>3. ProfilesLeft' /\ Loaded'
      BY <2>3, <3>2 DEF ProfilesLeft, Loaded
    <3>4. PromisesKept'
      <4> SUFFICES ASSUME NEW l \in StoredKeys, promised'[l] # Unset
                   PROVE  l \in DOMAIN rows' /\ promised'[l] = rows'[l]
        BY DEF PromisesKept
      <4>1. CASE l = k
        BY <2>3, <3>2, <4>1
      <4>2. CASE l # k
        BY <1>0, <3>2, <4>2, KeysAre DEF PromisesKept
      <4> QED BY <4>1, <4>2
    <3>5. FlagsTrue'
      BY <1>0, <3>2 DEF FlagsTrue
    <3> QED BY <1>0, <3>2, <3>3, <3>4, <3>5, StillRunning
  <2> QED BY <2>1, <2>2, <2>3
<1> QED BY <1>0, <1>1, <1>2 DEF Running

LEMMA BootedKeeps == StoresInv /\ Booted => StoresInv'
<1> SUFFICES ASSUME StoresInv, Booted PROVE StoresInv'
  OBVIOUS
<1>1. /\ phase = "boot" /\ todo = <<>> /\ opened = 5 /\ phase' = "up" /\ opened' = 5 /\ todo' = <<>>
      /\ UNCHANGED <<diskVars, cache, promised>> /\ Opening
      /\ version \in [Stores -> Nat] /\ tables \in [Stores -> Nat]
  BY DEF Booted, StoresInv, StoreTypes
<1>2. /\ NetworkDone /\ TerminalDone /\ PreferencesDone /\ Done("history") /\ Done("navigation")
  BY <1>1 DEF Opening, NavigationLeft
<1>3. version = Current /\ tables = Objects
  <2>1. \A s \in Stores : version[s] = Current[s] /\ tables[s] = Objects[s]
    BY <1>2, StoreNames DEF NetworkDone, TerminalDone, PreferencesDone, Done
  <2> QED BY <1>1, <2>1, Limits
<1>4. Running'
  BY <1>1, <1>2, <1>3 DEF Running, NetworkDone, TerminalDone, PreferencesDone, ProfilesLeft, Loaded, diskVars
<1>5. StartsAgain'
  BY <1>1 DEF StartsAgain
<1> QED BY <1>1, <1>4, <1>5, SameDisk DEF StoresInv

LEMMA StopKeeps == StoresInv /\ Stop => StoresInv'
<1> SUFFICES ASSUME StoresInv, Stop PROVE StoresInv'
  OBVIOUS
<1>1. phase' = "down" /\ todo' = <<>> /\ cache' = Defaults /\ UNCHANGED <<opened, diskVars, promised>>
  BY DEF Stop
<1>2. StoreTypes' /\ DiskWhole'
  BY <1>1, DefaultsSettled DEF StoresInv, StoreTypes, DiskWhole, diskVars
<1>3. PromisesKept' /\ FlagsTrue' /\ StartsAgain'
  BY <1>1 DEF StoresInv, PromisesKept, FlagsTrue, StartsAgain, diskVars
<1> QED BY <1>1, <1>2, <1>3 DEF StoresInv

LEMMA StatementFailsKeeps == StoresInv /\ StatementFails => StoresInv'
<1> SUFFICES ASSUME StoresInv, StatementFails PROVE StoresInv'
  OBVIOUS
<1>1. /\ phase = "up" /\ phase' = "up" /\ todo # <<>> /\ ~Does("remember") /\ todo' = <<>>
      /\ UNCHANGED <<opened, diskVars, cache, promised>>
  BY DEF StatementFails
<1>2. Loaded
  <2> SUFFICES ASSUME ChangeLeft PROVE Loaded
    BY <1>1 DEF StoresInv, Running
  <2>1. PICK k \in Keys, all \in Caches :
           \/ todo = <<<<"persist", all, k>>, <<"remember", all, k>>>> /\ Loaded
           \/ todo = <<<<"remember", all, k>>>>
    BY DEF ChangeLeft
  <2>2. todo = <<<<"remember", all, k>>>> => Head(todo)[1] = "remember"
    BY One
  <2> QED BY <1>1, <2>1, <2>2 DEF Does
<1>3. Running'
  BY <1>1, <1>2 DEF StoresInv, Running, ProfilesLeft, Loaded, diskVars
<1>4. StoreTypes' /\ DiskWhole' /\ PromisesKept' /\ FlagsTrue'
  BY <1>1, SameDisk DEF StoresInv, StoreTypes
<1>5. StartsAgain'
  BY <1>1 DEF StartsAgain
<1> QED BY <1>1, <1>3, <1>4, <1>5 DEF StoresInv

LEMMA CommandKeeps == StoresInv /\ Command => StoresInv'
<1> SUFFICES ASSUME StoresInv, Command PROVE StoresInv'
  OBVIOUS
<1>0. Called
  BY DEF Command, SetPreference, AddProfile, UpdateProfile, DeleteProfile, SetSecret, RecordVisit, RemoveRecent,
         Favor, ToggleStarred
<1>1. /\ phase = "up" /\ todo = <<>> /\ UNCHANGED <<phase, opened>>
      /\ cache \in Caches /\ hosts \in [DOMAIN hosts -> Login] /\ FlagsTrue /\ Running
  BY <1>0 DEF Called, StoresInv, StoreTypes
<1>2. Loaded
  BY <1>1, Two, One DEF Running, ChangeLeft
<1>3. ASSUME UNCHANGED <<version, tables, columns, hosts, secrets, seeded, rows, cache, promised>>, ProfilesLeft'
      PROVE  StoresInv'
  <2>1. hosts' \in [DOMAIN hosts' -> Login] /\ FlagsTrue'
    BY <1>1, <1>3 DEF FlagsTrue
  <2> QED BY <1>1, <1>2, <1>3, <2>1, ProfilesRun
<1>4. ASSUME NEW k \in Keys, NEW v \in 0 .. 3, SetPreference(k, v) PROVE StoresInv'
  <2>1. UNCHANGED <<version, tables, columns, hosts, secrets, seeded, rows, cache, promised>>
    BY <1>4 DEF SetPreference, diskVars
  <2>2. CASE ApplyValue(k, v) = Refused
    <3>1. ProfilesLeft'
      BY <1>4, <2>2 DEF SetPreference, ProfilesLeft
    <3> QED BY <1>3, <2>1, <3>1
  <2>3. CASE ApplyValue(k, v) # Refused
    <3> DEFINE all == [cache EXCEPT ![k] = ApplyValue(k, v)]
    <3>1. ApplyValue(k, v) \in Settled(k)
      BY <2>3, AcceptedSettled
    <3>2. all \in Caches /\ \A l \in Keys \ {k} : all[l] = cache'[l]
      <4>1. \A l \in Keys : all[l] = IF l = k THEN ApplyValue(k, v) ELSE cache[l]
        BY <1>1 DEF Caches
      <4>2. all \in [Keys -> 0 .. 3]
        BY <1>1, <3>1 DEF Caches, Settled
      <4>3. \A l \in Keys : all[l] \in Settled(l)
        BY <1>1, <3>1, <4>1 DEF Caches
      <4> QED BY <2>1, <4>1, <4>2, <4>3 DEF Caches
    <3>3. todo' = <<<<"persist", all, k>>, <<"remember", all, k>>>>
      BY <1>4, <2>3 DEF SetPreference
    <3>4. Loaded'
      BY <1>2, <2>1 DEF Loaded
    <3> HIDE DEF all
    <3>5. ChangeLeft'
      BY <3>2, <3>3, <3>4 DEF ChangeLeft
    <3>6. hosts' \in [DOMAIN hosts' -> Login] /\ FlagsTrue'
      BY <1>1, <2>1 DEF FlagsTrue
    <3>7. DOMAIN rows' \subseteq StoredKeys /\ (\A l \in DOMAIN rows' : rows'[l] \in Settled(l))
          /\ cache' \in Caches /\ DOMAIN promised' = Keys /\ PromisesKept'
      BY <2>1 DEF StoresInv, StoreTypes, PromisesKept
    <3> QED BY <1>1, <2>1, <3>5, <3>6, <3>7, StillRunning
  <2> QED BY <2>2, <2>3
<1>5. ASSUME NEW p \in Profiles, NEW auth \in {"password", "key"}, AddProfile(p, auth) PROVE StoresInv'
  <2> DEFINE row == [auth |-> auth, flag |-> auth = "key"]
  <2>1. /\ hosts' = [q \in DOMAIN hosts \cup {p} |-> IF q = p THEN row ELSE hosts[q]]
        /\ UNCHANGED <<todo, version, tables, columns, secrets, seeded, rows, cache, promised>>
    BY <1>5, Zenon DEF AddProfile
  <2>2. row \in Login /\ row.auth = auth /\ (row.flag => auth = "key")
    BY DEF Login
  <2> HIDE DEF row
  <2>3. hosts' \in [DOMAIN hosts' -> Login]
    BY <1>1, <2>1, <2>2
  <2>4. FlagsTrue'
    BY <1>1, <2>1, <2>2 DEF FlagsTrue
  <2>5. ProfilesLeft'
    BY <1>1, <2>1 DEF ProfilesLeft
  <2> QED BY <1>1, <1>2, <2>1, <2>3, <2>4, <2>5, ProfilesRun
<1>6. ASSUME NEW p \in Profiles, NEW auth \in {"password", "key"}, NEW moved \in BOOLEAN, UpdateProfile(p, auth, moved)
      PROVE  StoresInv'
  <2>1. UNCHANGED <<version, tables, columns, hosts, secrets, seeded, rows, cache, promised>>
    BY <1>6 DEF UpdateProfile, diskVars
  <2>2. todo' = (IF moved \/ auth # hosts[p].auth THEN <<<<"mark", p, FALSE>>, <<"forget", p>>>> ELSE <<>>)
                \o <<<<"write", p, auth>>>>
    BY <1>6 DEF UpdateProfile
  <2>3. \/ todo' = <<<<"mark", p, FALSE>>, <<"forget", p>>>> \o <<<<"write", p, auth>>>>
        \/ todo' = <<>> \o <<<<"write", p, auth>>>>
    BY <2>2, Zenon
  <2>4. \/ todo' = <<<<"mark", p, FALSE>>, <<"forget", p>>, <<"write", p, auth>>>>
        \/ todo' = <<<<"write", p, auth>>>>
    <3>1. <<<<"mark", p, FALSE>>, <<"forget", p>>>> \o <<<<"write", p, auth>>>>
          = <<<<"mark", p, FALSE>>, <<"forget", p>>, <<"write", p, auth>>>>
      BY Join21, Zenon
    <3>2. <<>> \o <<<<"write", p, auth>>>> = <<<<"write", p, auth>>>>
      <4> DEFINE w == <<"write", p, auth>>
      <4>1. <<w>> \in Seq({w})
        OBVIOUS
      <4> HIDE DEF w
      <4>2. <<>> \o <<w>> = <<w>>
        BY <4>1, ConcatEmptySeq
      <4> QED BY <4>2 DEF w
    <3> QED BY <2>3, <3>1, <3>2, Zenon
  <2>5. ProfilesLeft'
    BY <2>4, Zenon DEF ProfilesLeft
  <2> QED BY <1>3, <2>1, <2>5
<1>7. ASSUME NEW p \in Profiles, DeleteProfile(p) \/ SetSecret(p) PROVE StoresInv'
  <2>1. UNCHANGED <<version, tables, columns, hosts, secrets, seeded, rows, cache, promised>>
    BY <1>7 DEF DeleteProfile, SetSecret, diskVars
  <2>2. ProfilesLeft'
    BY <1>7 DEF DeleteProfile, SetSecret, ProfilesLeft
  <2> QED BY <1>3, <2>1, <2>2
<1>8. ASSUME NEW u, RecordVisit(u) \/ RemoveRecent({u}) \/ Favor(u) \/ ToggleStarred(u) \/ RemoveRecent(Uris)
      PROVE  StoresInv'
  <2>1. /\ UNCHANGED <<version, tables, columns, hosts, secrets, seeded, rows, cache, promised>>
        /\ todo' = <<<<"prune">>>> \/ todo' = todo
    BY <1>8 DEF RecordVisit, RemoveRecent, Favor, ToggleStarred
  <2>2. ProfilesLeft'
    BY <1>1, <2>1 DEF ProfilesLeft
  <2> QED BY <1>3, <2>1, <2>2
<1> QED BY <1>4, <1>5, <1>6, <1>7, <1>8 DEF Command

LEMMA StatementKeeps == StoresInv /\ Statement => StoresInv'
<1> SUFFICES ASSUME StoresInv, Statement PROVE StoresInv'
  OBVIOUS
<1>1. todo # <<>>
  BY StatementIs
<1>2. phase \in {"boot", "up"} /\ opened \in {0, 1, 2, 3, 4, 5}
  BY <1>1 DEF StoresInv, StoreTypes
<1>3. CASE phase = "boot"
  <2>1. opened # 0
    BY <1>1, <1>3 DEF StoresInv, Opening
  <2> QED BY <1>2, <1>3, <2>1, NetworkGoesOn, TerminalGoesOn, PreferencesGoOn, HistoryGoesOn, NavigationGoesOn
<1> QED BY <1>2, <1>3, CommandGoesOn

LEMMA StoresBegin == StoresInit => StoresInv
<1> SUFFICES ASSUME StoresInit PROVE StoresInv
  OBVIOUS
<1>1. /\ phase = "down" /\ opened = 0 /\ todo = <<>> /\ cache = Defaults
      /\ promised = [k \in Keys |-> IF k \in DOMAIN rows THEN rows[k] ELSE Unset]
  BY DEF StoresInit
<1>2. CASE Fresh
  <2>1. /\ version = [s \in Stores |-> 0] /\ tables = [s \in Stores |-> 0] /\ columns = {} /\ hosts = NoRow
        /\ rows = [k \in {} |-> 1]
    BY <1>2 DEF Fresh
  <2>2. /\ version \in [Stores -> Nat] /\ tables \in [Stores -> Nat]
        /\ \A s \in Stores : tables[s] <= Objects[s]
        /\ version["network"] = 0 /\ version["navigation"] = 0
    BY <2>1, StoreNames, Limits
  <2>3. DOMAIN hosts = {} /\ hosts \in [DOMAIN hosts -> Login]
    BY <2>1 DEF NoRow
  <2>4. StoreTypes
    BY <1>1, <2>1, <2>2, <2>3, DefaultsSettled DEF StoreTypes
  <2>5. DiskWhole /\ FlagsTrue
    BY <2>2, <2>3 DEF DiskWhole, FlagsTrue
  <2>6. PromisesKept /\ StartsAgain
    BY <1>1, <2>1, KeysAre DEF PromisesKept, StartsAgain
  <2> QED BY <1>1, <2>4, <2>5, <2>6 DEF StoresInv
<1>3. ASSUME NEW net \in 1 .. 3, NEW prefs \in 1 .. 2, NEW late, Left(net, prefs, late)
      PROVE  StoresInv
  <2>1. /\ version = [s \in Stores |-> IF s = late THEN Current[s] + 1 ELSE
                         CASE s = "network" -> net [] s = "preferences" -> prefs [] OTHER -> 1]
        /\ tables = Objects
        /\ columns = IF net = 1 THEN {} ELSE IF net = 2 THEN {"secret"} ELSE {"secret", "options"}
        /\ hosts \in [used -> [auth : {"password", "key"}, flag : BOOLEAN]]
        /\ secrets = {p \in used : hosts[p].auth = "password" /\ (net = 1 \/ hosts[p].flag)}
        /\ rows = [k \in {l \in StoredKeys : Since(l) <= prefs} |-> ApplyValue(k, 2)]
    BY <1>3, Zenon DEF Left
  <2>2. \A s \in Stores : version[s] = IF s = late THEN Current[s] + 1 ELSE
                             CASE s = "network" -> net [] s = "preferences" -> prefs [] OTHER -> 1
    BY <2>1, Zenon
  <2>3. /\ DOMAIN version = Stores
        /\ \A s \in Stores : version[s] = Current[s] + 1 \/ version[s] \in {net, prefs, 1}
        /\ version["network"] = IF late = "network" THEN Current["network"] + 1 ELSE net
    BY <2>1, <2>2, StoreNames, Zenon
  <2>4. version \in [Stores -> Nat]
    <3>1. \A s \in Stores : Current[s] \in Nat
      BY Limits, StoreNames
    <3>2. \A s \in Stores : version[s] \in Nat
      BY <2>3, <3>1
    <3>3. version = [s \in Stores |-> version[s]]
      BY <2>1, Zenon
    <3> QED BY <3>2, <3>3
  <2>5. tables \in [Stores -> Nat] /\ \A s \in Stores : tables[s] <= Objects[s]
    <3>1. \A s \in Stores : Objects[s] \in Nat
      BY Limits, StoreNames
    <3> QED BY <2>1, <3>1, Limits
  <2>6. \A k \in Keys : ApplyValue(k, 2) # Refused
    <3>1. Defaults["leftDefaultViewMode"] = 1
      BY KeysAre DEF Defaults
    <3> QED BY <3>1, KeysAre, Reads DEF ParseChoice, ParseWord, ParseNumber, ParseIdle, ParseText, Within, Refused
  <2>7. DOMAIN rows \subseteq StoredKeys /\ \A k \in DOMAIN rows : rows[k] \in Settled(k)
    BY <2>1, <2>6, AcceptedSettled, KeysAre
  <2>8. hosts \in [DOMAIN hosts -> Login] /\ DOMAIN hosts = used
    BY <2>1 DEF Login
  <2>9. StoreTypes
    <3>1. columns \subseteq Both
      BY <2>1 DEF Both
    <3> QED BY <1>1, <2>4, <2>5, <2>7, <2>8, <3>1, DefaultsSettled DEF StoreTypes
  <2>10. FlagsTrue /\ (net = 1 => \A p \in DOMAIN hosts : hosts[p].auth = "password" => p \in secrets)
    BY <2>1, <2>8 DEF FlagsTrue
  <2>11. DiskWhole
    <3>1. version["network"] = net \/ version["network"] = 4
      BY <2>3, Limits
    <3> QED BY <2>1, <2>5, <2>10, <3>1, Limits DEF DiskWhole, Both
  <2>12. PromisesKept /\ StartsAgain
    BY <1>1, KeysAre DEF PromisesKept, StartsAgain
  <2> QED BY <1>1, <2>9, <2>10, <2>11, <2>12 DEF StoresInv
<1>4. ASSUME NEW net \in 1 .. 3, NEW prefs \in 1 .. 2, Left(net, prefs, "none") PROVE StoresInv
  BY <1>3, <1>4, Zenon
<1>5. ASSUME NEW late \in Stores, Left(3, 2, late) PROVE StoresInv
  <2>1. 3 \in 1 .. 3 /\ 2 \in 1 .. 2
    OBVIOUS
  <2> QED BY <1>3, <1>5, <2>1
<1>6. Fresh \/ (\E net \in 1 .. 3, prefs \in 1 .. 2 : Left(net, prefs, "none")) \/ (\E late \in Stores : Left(3, 2, late))
  BY DEF StoresInit
<1> QED BY <1>2, <1>4, <1>5, <1>6

LEMMA StoresStep == StoresInv /\ [StoresNext]_storeVars => StoresInv'
<1> SUFFICES ASSUME StoresInv, [StoresNext]_storeVars PROVE StoresInv'
  OBVIOUS
<1>1. CASE UNCHANGED storeVars
  <2>1. UNCHANGED <<phase, opened, todo, diskVars, cache, promised>>
    BY <1>1 DEF storeVars
  <2>2. StoreTypes' /\ DiskWhole' /\ PromisesKept' /\ FlagsTrue'
    BY <2>1, SameDisk DEF StoresInv, StoreTypes
  <2>3. StartsAgain'
    BY <2>1 DEF StoresInv, StartsAgain, Torn, diskVars
  <2>4. phase = "boot" => Opening'
    BY <2>1 DEF StoresInv, Opening, NetworkDone, TerminalDone, PreferencesDone, Done, Loaded, NetworkLeft,
                TerminalLeft, PreferencesLeft, HistoryLeft, NavigationLeft, diskVars
  <2>5. phase = "up" => Running'
    BY <2>1 DEF StoresInv, Running, ProfilesLeft, ChangeLeft, Loaded, diskVars
  <2> QED BY <2>1, <2>2, <2>3, <2>4, <2>5 DEF StoresInv
<1> QED BY <1>1, LaunchKeeps, OpenStoreKeeps, BootedKeeps, StatementKeeps, CommandKeeps, StopKeeps, StatementFailsKeeps
        DEF StoresNext

LEMMA StoresAreTrue == StoresInv => StoresTrue
<1> SUFFICES ASSUME StoresInv PROVE StoresTrue
  OBVIOUS
<1>1. ASSUME phase = "up", todo = <<>> PROVE Loaded
  BY <1>1, Two, One DEF StoresInv, Running, ChangeLeft
<1>2. BootedWhole
  BY <1>1 DEF StoresInv, Running, BootedWhole, Both, Loaded
<1>3. SettingsKept
  BY <1>1 DEF StoresInv, PromisesKept, Loaded, SettingsKept
<1> QED BY <1>2, <1>3 DEF StoresInv, StoresTrue

-----------------------------------------------------------------------------
(* The profiles: the calls about them, and what the page owes the table.    *)

ProfileRows == [id : Int, name : ShellNames, default : BOOLEAN]

ProfileCalls ==
    [kind : {"list", "add", "update", "delete", "default"}, id : Int, name : ShellNames,
     at : {"sent", "half", "told", "done"}, told : Seq(ProfileRows), before : Seq(ProfileRows),
     live : BOOLEAN]

ProfileTypes ==
    /\ table \in [DOMAIN table -> [name : ShellNames, default : BOOLEAN]]
    /\ DOMAIN table \subseteq 1 .. Given
    /\ listed \in Seq(ProfileRows) /\ asked \in Seq(ProfileCalls) /\ asked # <<>>
    /\ chosen \in Int /\ draft \in [of : Int, name : ShellNames]
    /\ overlapped \in BOOLEAN /\ undone \in BOOLEAN

DraftFits == draft.of = chosen /\ (listed # <<>> => chosen \in IdsIn(listed))

OnlyDefault == ~undone => \E d \in DOMAIN table : \A i \in DOMAIN table : table[i].default <=> i = d

\* The profiles of a list that are in the table or were, and those of the table.
Saved(s)      == {p \in ToSet(s) : p.id # New}
TableRows       == {Row(i) : i \in DOMAIN table}
Besides(S, i) == {p \in S : p.id # i}
Marked(S, i)  == {[p EXCEPT !.default = p.id = i] : p \in S}

\* What the page and the table have in common while a call is under way: an answer brings
\* what is missing.
ListFits_(c) ==
    /\ c.kind = "list" /\ c.live
    /\ \/ c.at = "sent"
       \/ c.at = "told" /\ c.told # <<>> /\ ToSet(c.told) = TableRows

SaveFits(c) ==
    /\ c.kind \in {"add", "update"} /\ c.id \in DOMAIN table
    /\ c.at = "half" \/ (c.at = "told" /\ c.told = <<Row(c.id)>>)
    /\ Besides(Saved(listed), c.id) = Besides(TableRows, c.id)

DefaultFits(c) ==
    /\ c.kind = "default" /\ c.id \in DOMAIN table
    /\ c.at = "half" \/ (c.at = "told" /\ c.told # <<>>)
    /\ TableRows = Marked(Saved(listed), c.id)

DeleteFits(c) ==
    /\ c.kind = "delete"
    /\ \/ c.at = "half" /\ c.id \in DOMAIN table /\ ~table[c.id].default /\ Saved(c.before) = TableRows
       \/ c.at = "told" /\ c.told # <<>> /\ TableRows = Besides(Saved(c.before), c.id)

NothingChanged(c) ==
    /\ Saved(listed) = TableRows
    /\ \/ c.kind # "list" /\ c.at = "sent" /\ Saved(c.before) = TableRows
       \/ c.kind # "list" /\ c.at = "told" /\ c.told = <<>>
       \/ c.at = "done"

CallFits_(c) == ListFits_(c) \/ SaveFits(c) \/ DefaultFits(c) \/ DeleteFits(c) \/ NothingChanged(c)

PageFits ==
    ~overlapped =>
        /\ ~undone /\ \A i \in 1 .. Len(asked) - 1 : asked[i].at = "done"
        /\ CallFits_(asked[Len(asked)])

ShellInv == ProfileTypes /\ DraftFits /\ OnlyDefault /\ PageFits

LEMMA SingleSeq_ == ASSUME NEW T, NEW a \in T PROVE <<a>> \in Seq(T) /\ <<a>> # <<>> /\ <<a>>[1] = a
OBVIOUS

LEMMA OthersSet ==
    ASSUME NEW s \in Seq(ProfileRows), NEW i
    PROVE  Others(s, i) \in Seq(ProfileRows) /\ ToSet(Others(s, i)) = {p \in ToSet(s) : p.id # i}
<1> DEFINE S == {row \in ToSet(s) : row.id # i}
<1>1. Among(s, S) \in Seq(ProfileRows) /\ ToSet(Among(s, S)) = ToSet(s) \cap S
  <2> HIDE DEF S
  <2> QED BY AmongSet
<1> QED BY <1>1 DEF Others

LEMMA RowsIn ==
    ASSUME NEW s \in Seq(ProfileRows)
    PROVE  /\ ToSet(s) \subseteq ProfileRows /\ IdsIn(s) = {p.id : p \in ToSet(s)}
           /\ Len(s) \in Nat /\ DOMAIN s = 1 .. Len(s)
           /\ s # <<>> => s[1] \in ToSet(s)
           /\ \A id \in IdsIn(s) : Find(s, id) \in ToSet(s) /\ Find(s, id).id = id
<1>1. DOMAIN s = 1 .. Len(s) /\ Len(s) \in Nat /\ \A k \in 1 .. Len(s) : s[k] \in ProfileRows
  BY LenProperties, ElementOfSeq
<1>2. ToSet(s) = {s[k] : k \in 1 .. Len(s)}
  BY <1>1 DEF ToSet
<1>3. s # <<>> => 1 \in 1 .. Len(s)
  BY <1>1, EmptySeq
<1>4. ASSUME NEW id \in IdsIn(s) PROVE Find(s, id) \in ToSet(s) /\ Find(s, id).id = id
  <2>1. \E k \in DOMAIN s : s[k].id = id
    BY <1>1 DEF IdsIn
  <2> DEFINE k == CHOOSE k \in DOMAIN s : s[k].id = id
  <2>2. k \in DOMAIN s /\ s[k].id = id
    BY <2>1
  <2>3. Find(s, id) = s[k]
    BY DEF Find
  <2> HIDE DEF k
  <2> QED BY <2>2, <2>3, <1>1, <1>2
<1>5. IdsIn(s) = {p.id : p \in ToSet(s)}
  BY <1>2 DEF IdsIn
<1> QED BY <1>1, <1>2, <1>3, <1>4, <1>5

\* What a list becomes when its rows are changed one by one.
LEMMA RowsChanged ==
    ASSUME NEW s \in Seq(ProfileRows), NEW t, DOMAIN t = DOMAIN s, t = [k \in DOMAIN t |-> t[k]],
           \A k \in DOMAIN s : t[k] \in ProfileRows
    PROVE  t \in Seq(ProfileRows) /\ ToSet(t) = {t[k] : k \in DOMAIN s} /\ (s # <<>> => t # <<>>)
<1>1. DOMAIN s = 1 .. Len(s) /\ Len(s) \in Nat
  BY LenProperties
<1>2. t \in Seq(ProfileRows)
  BY <1>1, SeqDef
<1>3. Len(t) = Len(s)
  BY <1>1, <1>2, LenProperties
<1> QED BY <1>1, <1>2, <1>3, EmptySeq DEF ToSet

\* How many ids were given.
LEMMA GivenIs ==
    ASSUME asked \in Seq(ProfileCalls)
    PROVE  Given \in Nat /\ Given >= 2 /\ IsFiniteSet({i \in DOMAIN asked : asked[i].kind = "add" /\ asked[i].at # "sent"})
<1> DEFINE S == {i \in DOMAIN asked : asked[i].kind = "add" /\ asked[i].at # "sent"}
<1>1. IsFiniteSet(DOMAIN asked)
  <2>1. DOMAIN asked = 1 .. Len(asked) /\ Len(asked) \in Nat
    BY LenProperties
  <2> QED BY <2>1, FS_Interval
<1>2. IsFiniteSet(S)
  BY <1>1, FS_Subset
<1>3. Cardinality(S) \in Nat
  <2> HIDE DEF S
  <2> QED BY <1>2, FS_CardinalityType
<1>4. Given = 2 + Cardinality(S)
  BY DEF Given
<1> HIDE DEF S
<1>5. Given \in Nat /\ Given >= 2
  BY <1>3, <1>4
<1> QED BY <1>2, <1>5 DEF S

LEMMA CallChanges ==
    ASSUME asked \in Seq(ProfileCalls), asked # <<>>, NEW i \in DOMAIN asked, NEW c \in ProfileCalls,
           asked' = [asked EXCEPT ![i] = c], c.kind = asked[i].kind
    PROVE  /\ asked' \in Seq(ProfileCalls) /\ asked' # <<>>
           /\ DOMAIN asked' = DOMAIN asked /\ Len(asked') = Len(asked)
           /\ asked'[i] = c /\ \A j \in DOMAIN asked \ {i} : asked'[j] = asked[j]
           /\ (c.kind = "add" => (c.at = "sent" <=> asked[i].at = "sent")) => Given' = Given
           /\ c.kind = "add" /\ asked[i].at = "sent" /\ c.at # "sent" => Given' = Given + 1
<1>1. DOMAIN asked = 1 .. Len(asked) /\ Len(asked) \in Nat
  BY LenProperties
<1>2. asked' \in Seq(ProfileCalls)
  BY ExceptSeq, <1>1
<1>3. /\ DOMAIN asked' = DOMAIN asked /\ asked'[i] = c
      /\ \A j \in DOMAIN asked \ {i} : asked'[j] = asked[j]
  OBVIOUS
<1>4. Len(asked') = Len(asked)
  BY <1>1, <1>2, <1>3, LenProperties
<1>5. asked' # <<>>
  BY <1>1, <1>2, <1>4, EmptySeq
<1> DEFINE S == {j \in DOMAIN asked : asked[j].kind = "add" /\ asked[j].at # "sent"}
           T == {j \in DOMAIN asked' : asked'[j].kind = "add" /\ asked'[j].at # "sent"}
<1>6. Given = 2 + Cardinality(S) /\ Given' = 2 + Cardinality(T)
  BY DEF Given
<1>7. IsFiniteSet(S) /\ Given \in Nat
  BY GivenIs
<1>8. (c.kind = "add" => (c.at = "sent" <=> asked[i].at = "sent")) => T = S
  BY <1>3
<1>9. c.kind = "add" /\ asked[i].at = "sent" /\ c.at # "sent" => T = S \cup {i} /\ i \notin S
  BY <1>3
<1>10. i \notin S => Cardinality(S \cup {i}) = Cardinality(S) + 1
  <2> HIDE DEF S
  <2> QED BY <1>7, FS_AddElement
<1>11. Cardinality(S) \in Nat
  <2> HIDE DEF S
  <2> QED BY <1>7, FS_CardinalityType
<1> HIDE DEF S, T
<1>12. (c.kind = "add" => (c.at = "sent" <=> asked[i].at = "sent")) => Given' = Given
  BY <1>6, <1>8
<1>13. ASSUME c.kind = "add", asked[i].at = "sent", c.at # "sent" PROVE Given' = Given + 1
  <2>1. T = S \cup {i} /\ i \notin S
    BY <1>9, <1>13
  <2>2. Cardinality(T) = Cardinality(S) + 1
    BY <2>1, <1>10
  <2> QED BY <2>2, <1>6, <1>11
<1>14. /\ DOMAIN asked' = DOMAIN asked /\ Len(asked') = Len(asked)
       /\ asked'[i] = c /\ \A j \in DOMAIN asked \ {i} : asked'[j] = asked[j]
  BY <1>3, <1>4
<1>15. asked' \in Seq(ProfileCalls) /\ asked' # <<>>
  BY <1>2, <1>5
<1> QED BY Zenon, <1>14, <1>15, <1>12, <1>13

LEMMA TableIs ==
    ASSUME ProfileTypes
    PROVE  /\ \A i \in DOMAIN table : i \in Int /\ i # New /\ Row(i) \in ProfileRows /\ Row(i).id = i
           /\ TableRows \subseteq ProfileRows /\ \A p \in TableRows : p.id # New
<1>1. Given \in Nat
  BY GivenIs DEF ProfileTypes
<1>2. ASSUME NEW i \in DOMAIN table PROVE i \in Int /\ i # New /\ Row(i) \in ProfileRows /\ Row(i).id = i
  <2>1. i \in 1 .. Given /\ table[i] \in [name : ShellNames, default : BOOLEAN]
    BY DEF ProfileTypes
  <2>2. i \in Int /\ i # New
    BY <2>1, <1>1 DEF New
  <2> QED BY <2>1, <2>2 DEF Row, ProfileRows
<1> QED BY <1>2 DEF TableRows

\* The order in which the table is read leaves none out.
LEMMA OrderOfTable ==
    ASSUME ProfileTypes
    PROVE  /\ DOMAIN InOrder = 1 .. Len(InOrder) /\ Len(InOrder) \in Nat
           /\ {InOrder[k] : k \in DOMAIN InOrder} = DOMAIN table
<1> DEFINE all == [i \in 1 .. Given |-> i]
<1>1. Given \in Nat /\ DOMAIN table \subseteq 1 .. Given
  BY GivenIs DEF ProfileTypes
<1>2. all \in Seq(Nat) /\ Len(all) = Given
  BY <1>1
<1>3. ToSet(all) = 1 .. Given
  BY <1>1 DEF ToSet
<1>4. InOrder \in Seq(Nat) /\ ToSet(InOrder) = 1 .. Given \cap DOMAIN table
  <2> HIDE DEF all
  <2>1. Among(all, DOMAIN table) \in Seq(Nat) /\ ToSet(Among(all, DOMAIN table)) = ToSet(all) \cap DOMAIN table
    BY <1>2, AmongSet
  <2> QED BY <2>1, <1>3 DEF InOrder, all
<1>5. DOMAIN InOrder = 1 .. Len(InOrder) /\ Len(InOrder) \in Nat
  BY <1>4, LenProperties
<1> QED BY <1>1, <1>4, <1>5 DEF ToSet

\* The call under way, when there is one at a time, is the last.
LEMMA OneUnderWay ==
    ASSUME ShellInv, ~overlapped, NEW i \in DOMAIN asked, asked[i].at # "done"
    PROVE  i = Len(asked) /\ CallFits_(asked[i]) /\ ~undone
<1>1. DOMAIN asked = 1 .. Len(asked) /\ Len(asked) \in Nat
  BY LenProperties DEF ShellInv, ProfileTypes
<1>2. ~undone /\ CallFits_(asked[Len(asked)]) /\ \A j \in 1 .. Len(asked) - 1 : asked[j].at = "done"
  BY DEF ShellInv, PageFits
<1>3. i = Len(asked)
  BY <1>1, <1>2
<1> QED BY <1>2, <1>3

\* It is enough to look at the call that took the step.
LEMMA CallMoves ==
    ASSUME ShellInv, NEW i \in DOMAIN asked, asked[i].at # "done", NEW c \in ProfileCalls,
           asked' = [asked EXCEPT ![i] = c], c.kind = asked[i].kind, overlapped' = overlapped,
           ~overlapped => ~undone' /\ CallFits_(c)'
    PROVE  PageFits'
<1> SUFFICES ASSUME ~overlapped PROVE /\ ~undone' /\ \A j \in 1 .. Len(asked') - 1 : asked'[j].at = "done"
                                      /\ CallFits_(asked[Len(asked)])'
  BY DEF PageFits
<1>1. DOMAIN asked = 1 .. Len(asked) /\ Len(asked) \in Nat
  BY LenProperties DEF ShellInv, ProfileTypes
<1>2. i = Len(asked) /\ \A j \in 1 .. Len(asked) - 1 : asked[j].at = "done"
  BY OneUnderWay DEF ShellInv, PageFits
<1>3. Len(asked') = Len(asked) /\ asked'[i] = c /\ \A j \in DOMAIN asked \ {i} : asked'[j] = asked[j]
  BY CallChanges DEF ShellInv, ProfileTypes
<1>4. (asked[Len(asked)])' = c
  BY <1>2, <1>3
<1>5. CallFits_(asked[Len(asked)])'
  BY <1>4 DEF CallFits_, ListFits_, SaveFits, DefaultFits, DeleteFits, NothingChanged
<1>6. ASSUME NEW j \in 1 .. Len(asked') - 1 PROVE asked'[j].at = "done"
  BY <1>1, <1>2, <1>3
<1> QED BY <1>5, <1>6

LEMMA ListProfilesKeeps ==
    ASSUME ShellInv, NEW i \in DOMAIN asked, ListProfiles(i),
           UNCHANGED <<undone, listed, chosen, draft, shellActs, overlapped>>
    PROVE  ShellInv'
<1> DEFINE rows_ == [k \in DOMAIN InOrder |-> Row(InOrder[k])]
<1> USE DEF ShellInv
<1>1. asked[i] \in ProfileCalls /\ asked[i].kind = "list" /\ asked[i].at = "sent"
  BY ElementOfSeq, LenProperties DEF ProfileTypes, ListProfiles
<1>2. rows_ \in Seq(ProfileRows) /\ ToSet(rows_) = TableRows
  <2>1. DOMAIN rows_ = 1 .. Len(InOrder) /\ Len(InOrder) \in Nat /\ \A k \in DOMAIN rows_ : InOrder[k] \in DOMAIN table
    BY OrderOfTable
  <2>2. \A k \in DOMAIN rows_ : rows_[k] \in ProfileRows
    BY <2>1, TableIs
  <2>3. rows_ \in Seq(ProfileRows)
    BY <2>1, <2>2
  <2>4. ToSet(rows_) = TableRows
    BY OrderOfTable DEF ToSet, TableRows
  <2> QED BY <2>3, <2>4
<1>3. ~overlapped => rows_ # <<>>
  <2> SUFFICES ASSUME ~overlapped PROVE rows_ # <<>>
    OBVIOUS
  <2>1. PICK d \in DOMAIN table : TRUE
    BY OneUnderWay, <1>1 DEF OnlyDefault
  <2>2. Row(d) \in ToSet(rows_)
    BY <1>2 DEF TableRows
  <2>3. ToSet(<<>>) = {}
    BY DEF ToSet
  <2> HIDE DEF rows_
  <2> QED BY <2>2, <2>3
<1> HIDE DEF rows_
<1>4. PICK c \in ProfileCalls : c = [asked[i] EXCEPT !.at = "told", !.told = rows_]
  BY <1>1, <1>2 DEF ProfileCalls
<1>5. c.kind = "list" /\ c.at = "told" /\ c.told = rows_ /\ c.live = asked[i].live
  BY <1>1, <1>4 DEF ProfileCalls
<1>6. asked' = [asked EXCEPT ![i] = c] /\ UNCHANGED table
  <2>1. asked' = [asked EXCEPT ![i].at = "told", ![i].told = rows_] /\ UNCHANGED table
    BY DEF ListProfiles, Step, rows_
  <2> QED BY <2>1, <1>4
<1>7. ProfileTypes'
  <2>1. asked' \in Seq(ProfileCalls) /\ asked' # <<>> /\ Given' = Given
    BY <1>1, <1>5, <1>6, CallChanges DEF ProfileTypes
  <2> QED BY <2>1, <1>6 DEF ProfileTypes
<1>8. ~overlapped => ~undone' /\ CallFits_(c)'
  <2> SUFFICES ASSUME ~overlapped PROVE ~undone' /\ CallFits_(c)'
    OBVIOUS
  <2>1. CallFits_(asked[i]) /\ ~undone
    BY OneUnderWay, <1>1
  <2>2. asked[i].live
    BY <2>1, <1>1 DEF CallFits_, ListFits_, SaveFits, DefaultFits, DeleteFits, NothingChanged
  <2>3. TableRows' = TableRows
    BY <1>6 DEF TableRows, Row
  <2>4. ListFits_(c)'
    BY <2>2, <2>3, <1>2, <1>3, <1>5 DEF ListFits_
  <2> QED BY <2>1, <2>4 DEF CallFits_
<1>9. PageFits'
  BY <1>1, <1>5, <1>6, <1>8, CallMoves
<1> QED BY <1>6, <1>7, <1>9 DEF DraftFits, OnlyDefault

LEMMA CallIs ==
    ASSUME ProfileTypes, NEW i \in DOMAIN asked
    PROVE  /\ asked[i] \in ProfileCalls
           /\ asked[i].id \in Int /\ asked[i].name \in ShellNames
           /\ asked[i].told \in Seq(ProfileRows) /\ asked[i].before \in Seq(ProfileRows)
<1>1. asked[i] \in ProfileCalls
  BY ElementOfSeq, LenProperties DEF ProfileTypes
<1> QED BY <1>1 DEF ProfileCalls

\* Before a call is carried out the page shows the table, and so did it when it was made.
LEMMA SentFits ==
    ASSUME ShellInv, ~overlapped, NEW i \in DOMAIN asked, asked[i].at = "sent", asked[i].kind # "list"
    PROVE  Saved(listed) = TableRows /\ Saved(asked[i].before) = TableRows /\ ~undone
<1>1. CallFits_(asked[i]) /\ ~undone
  BY OneUnderWay
<1> QED BY <1>1 DEF CallFits_, ListFits_, SaveFits, DefaultFits, DeleteFits, NothingChanged

\* A call that fails changes nothing.
LEMMA FailKeeps ==
    ASSUME ShellInv, NEW i \in DOMAIN asked, asked[i].at = "sent", asked[i].kind \in {"update", "default", "delete"},
           Step(i, "told", <<>>),
           UNCHANGED <<table, undone, listed, chosen, draft, shellActs, overlapped>>
    PROVE  ShellInv'
<1> USE DEF ShellInv
<1>1. asked[i] \in ProfileCalls
  BY CallIs
<1>2. PICK c \in ProfileCalls : c = [asked[i] EXCEPT !.at = "told", !.told = <<>>]
  BY <1>1, EmptySeq DEF ProfileCalls
<1>3. c.kind = asked[i].kind /\ c.at = "told" /\ c.told = <<>>
  BY <1>1, <1>2 DEF ProfileCalls
<1>4. asked' = [asked EXCEPT ![i] = c]
  <2>1. asked' = [asked EXCEPT ![i].at = "told", ![i].told = <<>>]
    BY DEF Step
  <2> QED BY <2>1, <1>2
<1>5. ProfileTypes'
  <2>1. asked' \in Seq(ProfileCalls) /\ asked' # <<>> /\ Given' = Given
    BY <1>3, <1>4, CallChanges DEF ProfileTypes
  <2> QED BY <2>1 DEF ProfileTypes
<1>6. ~overlapped => ~undone' /\ CallFits_(c)'
  <2> SUFFICES ASSUME ~overlapped PROVE ~undone' /\ CallFits_(c)'
    OBVIOUS
  <2>1. Saved(listed) = TableRows /\ ~undone
    BY SentFits
  <2>2. TableRows' = TableRows /\ Saved(listed)' = Saved(listed)
    BY DEF TableRows, Row, Saved
  <2>3. NothingChanged(c)'
    BY <2>1, <2>2, <1>3 DEF NothingChanged
  <2> QED BY <2>1, <2>3 DEF CallFits_
<1>7. PageFits'
  BY <1>3, <1>4, <1>6, CallMoves
<1> QED BY <1>5, <1>7 DEF DraftFits, OnlyDefault

LEMMA AddKeeps ==
    ASSUME ShellInv, NEW i \in DOMAIN asked, Add(i),
           UNCHANGED <<undone, listed, chosen, draft, shellActs, overlapped>>
    PROVE  ShellInv'
<1> USE DEF ShellInv
<1>1. asked[i] \in ProfileCalls /\ asked[i].kind = "add" /\ asked[i].at = "sent"
  BY CallIs DEF Add
<1>2. Given \in Nat /\ Given >= 2
  BY GivenIs DEF ProfileTypes
<1>0. PICK id \in Int : id = Given + 1
  BY <1>2
<1>3. PICK c \in ProfileCalls : c = [asked[i] EXCEPT !.at = "half", !.id = id]
  BY <1>1 DEF ProfileCalls
<1>4. c.kind = "add" /\ c.at = "half" /\ c.id = id
  BY <1>1, <1>3 DEF ProfileCalls
<1>5. /\ asked' = [asked EXCEPT ![i] = c]
      /\ table' = [j \in DOMAIN table \cup {id} |->
                     IF j = id THEN [name |-> asked[i].name, default |-> FALSE] ELSE table[j]]
  <2>1. asked' = [asked EXCEPT ![i].at = "half", ![i].id = id]
    BY <1>0 DEF Add
  <2> QED BY <2>1, <1>3, <1>0 DEF Add
<1>6. id \notin DOMAIN table /\ id # New
  BY <1>0, <1>2 DEF ProfileTypes, New
<1>7. /\ DOMAIN table' = DOMAIN table \cup {id}
      /\ table'[id] = [name |-> asked[i].name, default |-> FALSE]
      /\ \A j \in DOMAIN table : table'[j] = table[j]
  BY <1>5, <1>6
<1>8. ProfileTypes'
  <2>1. asked' \in Seq(ProfileCalls) /\ asked' # <<>> /\ Given' = Given + 1
    BY <1>1, <1>4, <1>5, CallChanges DEF ProfileTypes
  <2>2. DOMAIN table' \subseteq 1 .. Given'
    BY <2>1, <1>0, <1>2, <1>7 DEF ProfileTypes
  <2>3. table' \in [DOMAIN table' -> [name : ShellNames, default : BOOLEAN]]
    BY <1>5, <1>7, CallIs DEF ProfileTypes
  <2> QED BY <2>1, <2>2, <2>3 DEF ProfileTypes
<1>9. OnlyDefault'
  BY <1>7, <1>6 DEF OnlyDefault
<1>10. ~overlapped => ~undone' /\ CallFits_(c)'
  <2> SUFFICES ASSUME ~overlapped PROVE ~undone' /\ CallFits_(c)'
    OBVIOUS
  <2>1. Saved(listed) = TableRows /\ ~undone
    BY SentFits, <1>1
  <2>2. TableRows' = TableRows \cup {Row(id)'} /\ Row(id)'.id = id
    <3>1. \A j \in DOMAIN table : Row(j)' = Row(j)
      BY <1>7 DEF Row
    <3>2. TableRows' = {Row(j)' : j \in DOMAIN table \cup {id}}
      BY <1>7 DEF TableRows
    <3>3. Row(id)'.id = id
      BY DEF Row
    <3> QED BY <3>1, <3>2, <3>3 DEF TableRows
  <2>3. \A p \in TableRows : p.id # id
    BY TableIs, <1>6 DEF TableRows
  <2>4. Besides(Saved(listed)', id) = Besides(TableRows', id)
    BY <2>1, <2>2, <2>3 DEF Besides, Saved
  <2>5. SaveFits(c)'
    BY <2>4, <1>4, <1>7 DEF SaveFits
  <2> QED BY <2>1, <2>5 DEF CallFits_
<1>11. PageFits'
  BY <1>1, <1>4, <1>5, <1>10, CallMoves
<1> QED BY <1>8, <1>9, <1>11 DEF DraftFits

LEMMA UpdateKeeps ==
    ASSUME ShellInv, NEW i \in DOMAIN asked, Update(i),
           UNCHANGED <<undone, listed, chosen, draft, shellActs, overlapped>>
    PROVE  ShellInv'
<1> DEFINE id == asked[i].id
<1> USE DEF ShellInv
<1>1. asked[i] \in ProfileCalls /\ asked[i].kind = "update" /\ asked[i].at = "sent"
  BY CallIs DEF Update
<1>2. CASE id \in DOMAIN table
  <2>1. PICK c \in ProfileCalls : c = [asked[i] EXCEPT !.at = "half", !.told = <<>>]
    BY <1>1, EmptySeq DEF ProfileCalls
  <2>2. c.kind = "update" /\ c.at = "half" /\ c.id = id
    BY <1>1, <2>1 DEF ProfileCalls
  <2>3. asked' = [asked EXCEPT ![i] = c] /\ table' = [table EXCEPT ![id].name = asked[i].name]
    <3>1. asked' = [asked EXCEPT ![i].at = "half", ![i].told = <<>>]
      BY <1>2 DEF Update, Step
    <3> QED BY <3>1, <2>1, <1>2 DEF Update
  <2> HIDE DEF id
  <2>4. /\ DOMAIN table' = DOMAIN table /\ \A j \in DOMAIN table \ {id} : table'[j] = table[j]
        /\ table' \in [DOMAIN table -> [name : ShellNames, default : BOOLEAN]]
        /\ \A j \in DOMAIN table : table'[j].default = table[j].default
    BY <2>3, CallIs DEF ProfileTypes
  <2>5. ProfileTypes'
    <3>1. asked' \in Seq(ProfileCalls) /\ asked' # <<>> /\ Given' = Given
      BY <1>1, <2>2, <2>3, CallChanges DEF ProfileTypes
    <3> QED BY <3>1, <2>4 DEF ProfileTypes
  <2>6. OnlyDefault'
    BY <2>4 DEF OnlyDefault
  <2>7. ~overlapped => ~undone' /\ CallFits_(c)'
    <3> SUFFICES ASSUME ~overlapped PROVE ~undone' /\ CallFits_(c)'
      OBVIOUS
    <3>1. Saved(listed) = TableRows /\ ~undone
      BY SentFits, <1>1
    <3>2. \A j \in DOMAIN table \ {id} : Row(j)' = Row(j)
      BY <2>4 DEF Row
    <3>3. \A j \in DOMAIN table : Row(j).id = j /\ Row(j)'.id = j
      BY DEF Row
    <3>4. Besides(TableRows', id) = Besides(TableRows, id)
      BY <3>2, <3>3, <2>4 DEF Besides, TableRows
    <3>5. SaveFits(c)'
      BY <3>1, <3>4, <2>2, <2>4, <1>2 DEF SaveFits, Saved, id
    <3> QED BY <3>1, <3>5 DEF CallFits_
  <2>8. PageFits'
    BY <1>1, <2>2, <2>3, <2>7, CallMoves
  <2> QED BY <2>5, <2>6, <2>8 DEF DraftFits
<1>3. CASE id \notin DOMAIN table
  BY <1>1, <1>3, FailKeeps DEF Update
<1> QED BY <1>2, <1>3

LEMMA SetDefaultKeeps ==
    ASSUME ShellInv, NEW i \in DOMAIN asked, SetDefault(i),
           UNCHANGED <<undone, listed, chosen, draft, shellActs, overlapped>>
    PROVE  ShellInv'
<1> PICK id \in Int : id = asked[i].id
  BY CallIs DEF ShellInv
<1> USE DEF ShellInv
<1>1. asked[i] \in ProfileCalls /\ asked[i].kind = "default" /\ asked[i].at = "sent"
  BY CallIs DEF SetDefault
<1>2. CASE id \in DOMAIN table
  <2>1. PICK c \in ProfileCalls : c = [asked[i] EXCEPT !.at = "half", !.told = <<>>]
    BY <1>1, EmptySeq DEF ProfileCalls
  <2>2. c.kind = "default" /\ c.at = "half" /\ c.id = id
    BY <1>1, <2>1 DEF ProfileCalls
  <2>3. asked' = [asked EXCEPT ![i] = c] /\ table' = [j \in DOMAIN table |-> [table[j] EXCEPT !.default = j = id]]
    <3>1. asked' = [asked EXCEPT ![i].at = "half", ![i].told = <<>>]
      BY <1>2 DEF SetDefault, Step
    <3> QED BY <3>1, <2>1, <1>2 DEF SetDefault
  <2>4. /\ DOMAIN table' = DOMAIN table
        /\ \A j \in DOMAIN table : /\ table'[j] \in [name : ShellNames, default : BOOLEAN]
                                   /\ table'[j].default <=> j = id
                                   /\ table'[j] = [table[j] EXCEPT !.default = j = id]
    BY <2>3 DEF ProfileTypes
  <2>5. ProfileTypes'
    <3>1. asked' \in Seq(ProfileCalls) /\ asked' # <<>> /\ Given' = Given
      BY <1>1, <2>2, <2>3, CallChanges DEF ProfileTypes
    <3>2. table' \in [DOMAIN table' -> [name : ShellNames, default : BOOLEAN]]
      BY <2>3, <2>4
    <3> QED BY <3>1, <3>2, <2>4 DEF ProfileTypes
  <2>6. OnlyDefault'
    BY <2>4, <1>2 DEF OnlyDefault
  <2>7. ~overlapped => ~undone' /\ CallFits_(c)'
    <3> SUFFICES ASSUME ~overlapped PROVE ~undone' /\ CallFits_(c)'
      OBVIOUS
    <3>1. Saved(listed) = TableRows /\ ~undone
      BY SentFits, <1>1
    <3>2. ASSUME NEW j \in DOMAIN table PROVE Row(j)' = [Row(j) EXCEPT !.default = Row(j).id = id]
      BY <2>4 DEF Row, ProfileTypes
    <3>3. TableRows' = {Row(j)' : j \in DOMAIN table}
      BY <2>4 DEF TableRows
    <3>4. TableRows' = Marked(TableRows, id)
      <4> DEFINE M(p) == [p EXCEPT !.default = p.id = id]
      <4>1. Marked(TableRows, id) = {M(p) : p \in TableRows} /\ TableRows = {Row(j) : j \in DOMAIN table}
        BY DEF Marked, TableRows
      <4>2. \A j \in DOMAIN table : Row(j)' = M(Row(j))
        BY <3>2
      <4> HIDE DEF M
      <4> QED BY <4>1, <4>2, <3>3
    <3>5. DefaultFits(c)'
      BY <3>1, <3>4, <2>2, <2>4, <1>2 DEF DefaultFits, Saved
    <3> QED BY <3>1, <3>5 DEF CallFits_
  <2>8. PageFits'
    BY <1>1, <2>2, <2>3, <2>7, CallMoves
  <2> QED BY <2>5, <2>6, <2>8 DEF DraftFits
<1>3. CASE id \notin DOMAIN table
  BY <1>1, <1>3, FailKeeps DEF SetDefault
<1> QED BY <1>2, <1>3

LEMMA ReadBackKeeps ==
    ASSUME ShellInv, NEW i \in DOMAIN asked, ReadBack(i),
           UNCHANGED <<undone, listed, chosen, draft, shellActs, overlapped>>
    PROVE  ShellInv'
<1> USE DEF ShellInv
<1> DEFINE read == IF asked[i].id \in DOMAIN table THEN <<Row(asked[i].id)>> ELSE <<>>
<1>1. asked[i] \in ProfileCalls /\ asked[i].kind \in {"add", "update", "default"} /\ asked[i].at = "half"
  BY CallIs DEF ReadBack
<1>2. read \in Seq(ProfileRows)
  <2>1. asked[i].id \in DOMAIN table => Row(asked[i].id) \in ProfileRows
    BY TableIs
  <2> QED BY <2>1, EmptySeq, SingleSeq_
<1> HIDE DEF read
<1>3. PICK c \in ProfileCalls : c = [asked[i] EXCEPT !.at = "told", !.told = read]
  BY <1>1, <1>2 DEF ProfileCalls
<1>4. c.kind = asked[i].kind /\ c.at = "told" /\ c.told = read /\ c.id = asked[i].id
  BY <1>1, <1>3 DEF ProfileCalls
<1>5. asked' = [asked EXCEPT ![i] = c] /\ UNCHANGED table
  <2>1. asked' = [asked EXCEPT ![i].at = "told", ![i].told = read] /\ UNCHANGED table
    BY DEF ReadBack, Step, read
  <2> QED BY <2>1, <1>3
<1>6. ProfileTypes'
  <2>1. asked' \in Seq(ProfileCalls) /\ asked' # <<>> /\ Given' = Given
    BY <1>1, <1>4, <1>5, CallChanges DEF ProfileTypes
  <2> QED BY <2>1, <1>5 DEF ProfileTypes
<1>7. ~overlapped => ~undone' /\ CallFits_(c)'
  <2> SUFFICES ASSUME ~overlapped PROVE ~undone' /\ CallFits_(c)'
    OBVIOUS
  <2>1. CallFits_(asked[i]) /\ ~undone
    BY OneUnderWay, <1>1
  <2>2. SaveFits(asked[i]) \/ DefaultFits(asked[i])
    BY <2>1, <1>1 DEF CallFits_, ListFits_, DeleteFits, NothingChanged
  <2>3. TableRows' = TableRows /\ Saved(listed)' = Saved(listed) /\ Row(c.id)' = Row(c.id)
    BY <1>5 DEF TableRows, Row, Saved
  <2>4. read = <<Row(c.id)>> /\ read # <<>>
    BY <2>2, <1>4 DEF read, SaveFits, DefaultFits
  <2>5. CASE SaveFits(asked[i])
    <3>1. SaveFits(c)'
      BY <2>3, <2>4, <2>5, <1>4, <1>5 DEF SaveFits
    <3> QED BY <3>1, <2>1 DEF CallFits_
  <2>6. CASE DefaultFits(asked[i])
    <3>1. DefaultFits(c)'
      BY <2>3, <2>4, <2>6, <1>4, <1>5 DEF DefaultFits
    <3> QED BY <3>1, <2>1 DEF CallFits_
  <2> QED BY <2>2, <2>5, <2>6
<1>8. PageFits'
  BY <1>1, <1>4, <1>5, <1>7, CallMoves
<1> QED BY <1>5, <1>6, <1>8 DEF DraftFits, OnlyDefault

LEMMA LookBeforeDeleteKeeps ==
    ASSUME ShellInv, NEW i \in DOMAIN asked, LookBeforeDelete(i),
           UNCHANGED <<listed, chosen, draft, shellActs, overlapped>>
    PROVE  ShellInv'
<1> USE DEF ShellInv
<1>1. /\ asked[i] \in ProfileCalls /\ asked[i].kind = "delete" /\ asked[i].at = "sent"
      /\ UNCHANGED <<table, undone>>
  BY CallIs DEF LookBeforeDelete
<1>2. CASE asked[i].id \in DOMAIN table /\ ~table[asked[i].id].default
  <2>1. PICK c \in ProfileCalls : c = [asked[i] EXCEPT !.at = "half", !.told = <<>>]
    BY <1>1, EmptySeq DEF ProfileCalls
  <2>2. c.kind = "delete" /\ c.at = "half" /\ c.id = asked[i].id /\ c.before = asked[i].before
    BY <1>1, <2>1 DEF ProfileCalls
  <2>3. asked' = [asked EXCEPT ![i] = c]
    <3>1. asked' = [asked EXCEPT ![i].at = "half", ![i].told = <<>>]
      BY <1>2 DEF LookBeforeDelete, Step
    <3> QED BY <3>1, <2>1
  <2>4. ProfileTypes'
    <3>1. asked' \in Seq(ProfileCalls) /\ asked' # <<>> /\ Given' = Given
      BY <1>1, <2>2, <2>3, CallChanges DEF ProfileTypes
    <3> QED BY <3>1, <1>1 DEF ProfileTypes
  <2>5. ~overlapped => ~undone' /\ CallFits_(c)'
    <3> SUFFICES ASSUME ~overlapped PROVE ~undone' /\ CallFits_(c)'
      OBVIOUS
    <3>1. Saved(asked[i].before) = TableRows /\ ~undone
      BY SentFits, <1>1
    <3>2. TableRows' = TableRows
      BY <1>1 DEF TableRows, Row
    <3>3. DeleteFits(c)'
      BY <3>1, <3>2, <2>2, <1>1, <1>2 DEF DeleteFits
    <3> QED BY <3>1, <3>3, <1>1 DEF CallFits_
  <2>6. PageFits'
    BY <1>1, <2>2, <2>3, <2>5, CallMoves
  <2> QED BY <2>4, <2>6, <1>1 DEF DraftFits, OnlyDefault
<1>3. CASE ~(asked[i].id \in DOMAIN table /\ ~table[asked[i].id].default)
  BY <1>1, <1>3, FailKeeps DEF LookBeforeDelete
<1> QED BY <1>2, <1>3

LEMMA DeleteKeeps_ ==
    ASSUME ShellInv, NEW i \in DOMAIN asked, Delete(i),
           UNCHANGED <<listed, chosen, draft, shellActs, overlapped>>
    PROVE  ShellInv'
<1> PICK id \in Int : id = asked[i].id
  BY CallIs DEF ShellInv
<1> USE DEF ShellInv
<1> DEFINE read == IF id \in DOMAIN table THEN <<Row(id)>> ELSE <<>>
<1>1. /\ asked[i] \in ProfileCalls /\ asked[i].kind = "delete" /\ asked[i].at = "half"
      /\ table' = [j \in DOMAIN table \ {id} |-> table[j]]
      /\ undone' = (undone \/ (id \in DOMAIN table /\ table[id].default))
  BY CallIs DEF Delete
<1>2. read \in Seq(ProfileRows)
  <2>1. id \in DOMAIN table => Row(id) \in ProfileRows
    BY TableIs
  <2> QED BY <2>1, EmptySeq, SingleSeq_
<1> HIDE DEF read
<1>3. PICK c \in ProfileCalls : c = [asked[i] EXCEPT !.at = "told", !.told = read]
  BY <1>1, <1>2 DEF ProfileCalls
<1>4. c.kind = "delete" /\ c.at = "told" /\ c.told = read /\ c.id = id /\ c.before = asked[i].before
  BY <1>1, <1>3 DEF ProfileCalls
<1>5. asked' = [asked EXCEPT ![i] = c]
  <2>1. asked' = [asked EXCEPT ![i].at = "told", ![i].told = read]
    BY DEF Delete, Step, read
  <2> QED BY <2>1, <1>3
<1>6. DOMAIN table' = DOMAIN table \ {id} /\ \A j \in DOMAIN table \ {id} : table'[j] = table[j]
  BY <1>1
<1>7. ProfileTypes'
  <2>1. asked' \in Seq(ProfileCalls) /\ asked' # <<>> /\ Given' = Given
    BY <1>1, <1>4, <1>5, CallChanges DEF ProfileTypes
  <2>2. table' \in [DOMAIN table' -> [name : ShellNames, default : BOOLEAN]]
    BY <1>1, <1>6 DEF ProfileTypes
  <2>3. undone' \in BOOLEAN
    BY <1>1
  <2> QED BY <2>1, <2>2, <2>3, <1>6 DEF ProfileTypes
<1>8. OnlyDefault'
  <2>1. ~undone' => ~undone /\ (id \in DOMAIN table => ~table[id].default)
    BY <1>1
  <2> QED BY <2>1, <1>6 DEF OnlyDefault
<1>9. ~overlapped => ~undone' /\ CallFits_(c)'
  <2> SUFFICES ASSUME ~overlapped PROVE ~undone' /\ CallFits_(c)'
    OBVIOUS
  <2>1. CallFits_(asked[i]) /\ ~undone
    BY OneUnderWay, <1>1
  <2>2. id \in DOMAIN table /\ ~table[id].default /\ Saved(c.before) = TableRows
    BY <2>1, <1>1, <1>4 DEF CallFits_, ListFits_, SaveFits, DefaultFits, DeleteFits, NothingChanged
  <2>3. \A j \in DOMAIN table : Row(j).id = j
    BY DEF Row
  <2>4. \A j \in DOMAIN table \ {id} : Row(j)' = Row(j)
    BY <1>6 DEF Row
  <2>5. TableRows' = Besides(TableRows, id)
    BY <2>3, <2>4, <1>6 DEF TableRows, Besides
  <2>6. read # <<>>
    BY <2>2 DEF read
  <2>7. DeleteFits(c)'
    BY <2>2, <2>5, <2>6, <1>4 DEF DeleteFits
  <2> QED BY <2>1, <2>2, <2>7, <1>1 DEF CallFits_
<1>10. PageFits'
  BY <1>1, <1>4, <1>5, <1>9, CallMoves
<1> QED BY <1>7, <1>8, <1>10 DEF DraftFits

LEMMA ServeKeeps ==
    ASSUME ShellInv, NEW i \in DOMAIN asked, Serve(i) PROVE ShellInv'
<1>1. /\ \/ (ListProfiles(i) \/ Add(i) \/ Update(i) \/ SetDefault(i) \/ ReadBack(i)) /\ UNCHANGED undone
         \/ LookBeforeDelete(i) \/ Delete(i)
      /\ UNCHANGED <<listed, chosen, draft, shellActs, overlapped>>
  BY DEF Serve
<1>2. CASE (ListProfiles(i) \/ Add(i) \/ Update(i) \/ SetDefault(i) \/ ReadBack(i)) /\ UNCHANGED undone
  <2>1. UNCHANGED <<undone, listed, chosen, draft, shellActs, overlapped>>
    BY <1>1, <1>2
  <2> QED BY <2>1, <1>2, ListProfilesKeeps, AddKeeps, UpdateKeeps, SetDefaultKeeps, ReadBackKeeps
<1> QED BY <1>1, <1>2, LookBeforeDeleteKeeps, DeleteKeeps_

LEMMA LegacyIs == Legacy \in ProfileRows /\ Legacy.id = Fallback /\ FirstName \in ShellNames /\ Fallback # New
<1>1. FirstName \in ShellNames
  BY ShellProfilesAssumption DEF FirstName
<1> QED BY <1>1 DEF Legacy, ProfileRows, Fallback, New

LEMMA DraftIs ==
    ASSUME NEW p \in ProfileRows
    PROVE  OfDraft(p) \in [of : Int, name : ShellNames] /\ OfDraft(p).of = p.id /\ p.id \in Int
BY DEF OfDraft, ProfileRows

\* An answer: it is enough to look at what the page shows then.
LEMMA HearsKeep ==
    ASSUME ShellInv, NEW i \in DOMAIN asked, NEW kinds, Heard(i, kinds),
           listed' \in Seq(ProfileRows), chosen' \in Int, draft' \in [of : Int, name : ShellNames],
           DraftFits', ~overlapped => Saved(listed)' = TableRows
    PROVE  ShellInv'
<1> USE DEF ShellInv
<1>1. asked[i] \in ProfileCalls /\ asked[i].at = "told" /\ UNCHANGED <<table, shellActs, overlapped, undone>>
  BY CallIs DEF Heard
<1>2. PICK c \in ProfileCalls : c = [asked[i] EXCEPT !.at = "done"]
  BY <1>1 DEF ProfileCalls
<1>3. c.kind = asked[i].kind /\ c.at = "done"
  BY <1>1, <1>2 DEF ProfileCalls
<1>4. asked' = [asked EXCEPT ![i] = c]
  BY <1>2 DEF Heard
<1>5. ProfileTypes'
  <2>1. asked' \in Seq(ProfileCalls) /\ asked' # <<>> /\ Given' = Given
    BY <1>1, <1>3, <1>4, CallChanges DEF ProfileTypes
  <2> QED BY <2>1, <1>1 DEF ProfileTypes
<1>6. ~overlapped => ~undone' /\ CallFits_(c)'
  <2> SUFFICES ASSUME ~overlapped PROVE ~undone' /\ CallFits_(c)'
    OBVIOUS
  <2>1. ~undone
    BY OneUnderWay, <1>1
  <2>2. TableRows' = TableRows
    BY <1>1 DEF TableRows, Row
  <2>3. NothingChanged(c)'
    BY <2>2, <1>3 DEF NothingChanged
  <2> QED BY <2>1, <2>3, <1>1 DEF CallFits_
<1>7. PageFits'
  BY <1>1, <1>3, <1>4, <1>6, CallMoves
<1> QED BY <1>1, <1>5, <1>7 DEF OnlyDefault

LEMMA HearListKeeps ==
    ASSUME ShellInv, NEW i \in DOMAIN asked, HearList(i) PROVE ShellInv'
<1> USE DEF ShellInv
<1> DEFINE next == IF asked[i].told = <<>> THEN <<Legacy>> ELSE asked[i].told
           defaults == {k \in DOMAIN next : next[k].default}
           first == IF defaults = {} THEN 1 ELSE CHOOSE k \in defaults : TRUE
           active == next[first]
<1>1. asked[i].told \in Seq(ProfileRows) /\ asked[i].kind = "list" /\ asked[i].at = "told"
  BY CallIs DEF HearList, Heard
<1>2. ~overlapped => asked[i].live /\ asked[i].told # <<>> /\ ToSet(asked[i].told) = TableRows
  <2>1. ~overlapped => CallFits_(asked[i])
    BY OneUnderWay, <1>1
  <2> QED BY <2>1, <1>1 DEF CallFits_, ListFits_, SaveFits, DefaultFits, DeleteFits, NothingChanged
<1>3. CASE ~asked[i].live
  <2>1. UNCHANGED <<listed, chosen, draft>> /\ Heard(i, {"list"})
    BY <1>3 DEF HearList
  <2>2. DraftFits'
    BY <2>1 DEF DraftFits
  <2>3. listed' \in Seq(ProfileRows) /\ chosen' \in Int /\ draft' \in [of : Int, name : ShellNames]
    BY <2>1 DEF ProfileTypes
  <2> QED BY <2>1, <2>2, <2>3, <1>2, <1>3, HearsKeep
<1>4. CASE asked[i].live
  <2>1. listed' = next /\ chosen' = active.id /\ draft' = OfDraft(active) /\ Heard(i, {"list"})
    BY <1>4 DEF HearList
  <2>2. next \in Seq(ProfileRows) /\ next # <<>>
    BY <1>1, LegacyIs, SingleSeq_
  <2>3. active \in ToSet(next)
    <3> HIDE DEF next
    <3>1. DOMAIN next = 1 .. Len(next) /\ Len(next) \in Nat /\ Len(next) # 0
      BY <2>2, LenProperties, EmptySeq
    <3>2. defaults # {} => first \in defaults
      OBVIOUS
    <3>3. first \in DOMAIN next
      BY <3>1, <3>2
    <3> HIDE DEF first
    <3> QED BY <3>3 DEF ToSet
  <2> HIDE DEF active
  <2>4. active \in ProfileRows /\ active.id \in IdsIn(next)
    <3> HIDE DEF next
    <3> QED BY <2>2, <2>3, RowsIn
  <2>5. ~overlapped => Saved(next) = TableRows
    BY <1>2, TableIs DEF Saved
  <2> HIDE DEF next
  <2>6. chosen' \in Int /\ draft' \in [of : Int, name : ShellNames] /\ draft'.of = chosen'
    BY <2>1, <2>4, DraftIs
  <2>7. DraftFits'
    BY <2>1, <2>4, <2>6 DEF DraftFits
  <2>8. Saved(listed)' = Saved(next)
    BY <2>1 DEF Saved
  <2> QED BY <2>1, <2>2, <2>5, <2>6, <2>7, <2>8, HearsKeep
<1> QED BY <1>3, <1>4

LEMMA HearSavedKeeps ==
    ASSUME ShellInv, NEW i \in DOMAIN asked, HearSaved(i) PROVE ShellInv'
<1> USE DEF ShellInv
<1>1. /\ asked[i].told \in Seq(ProfileRows) /\ asked[i].told # <<>>
      /\ asked[i].kind \in {"add", "update"} /\ asked[i].at = "told"
      /\ listed \in Seq(ProfileRows)
  BY CallIs DEF HearSaved, Heard, ProfileTypes
<1>2. PICK row \in ProfileRows : row = asked[i].told[1]
  BY <1>1, RowsIn
<1>3. /\ Heard(i, {"add", "update"})
      /\ listed' = IF row.id \in IdsIn(listed)
                   THEN [k \in DOMAIN listed |-> IF listed[k].id = row.id THEN row ELSE listed[k]]
                   ELSE Append(Others(listed, New), row)
      /\ chosen' = row.id /\ draft' = OfDraft(row)
  BY <1>2 DEF HearSaved
<1>4. listed' \in Seq(ProfileRows) /\ row \in ToSet(listed')
      /\ Besides(Saved(listed'), row.id) = Besides(Saved(listed), row.id)
      /\ \A p \in ToSet(listed') : p.id = row.id => p = row
  <2>1. CASE row.id \in IdsIn(listed)
    <3>1. listed' = [k \in DOMAIN listed |-> IF listed[k].id = row.id THEN row ELSE listed[k]]
      BY <1>3, <2>1
    <3>2. \A k \in DOMAIN listed : listed[k] \in ProfileRows
      BY <1>1, ElementOfSeq, LenProperties
    <3>3. listed' \in Seq(ProfileRows) /\ ToSet(listed') = {listed'[k] : k \in DOMAIN listed}
      <4>1. DOMAIN listed' = DOMAIN listed /\ \A k \in DOMAIN listed : listed'[k] \in ProfileRows
        BY <3>1, <3>2
      <4>2. listed' = [k \in DOMAIN listed' |-> listed'[k]]
        BY <3>1
      <4> QED BY <1>1, <4>1, <4>2, RowsChanged
    <3>4. ToSet(listed) = {listed[k] : k \in DOMAIN listed}
      BY DEF ToSet
    <3>5. \A k \in DOMAIN listed : listed'[k] = IF listed[k].id = row.id THEN row ELSE listed[k]
      BY <3>1
    <3>6. PICK k \in DOMAIN listed : listed[k].id = row.id
      BY <2>1, <1>1, LenProperties DEF IdsIn
    <3>7. row \in ToSet(listed')
      BY <3>3, <3>5, <3>6
    <3>8. ASSUME NEW p PROVE p \in ToSet(listed') /\ p.id # row.id <=> p \in ToSet(listed) /\ p.id # row.id
      BY <3>3, <3>4, <3>5
    <3>9. Besides(Saved(listed'), row.id) = Besides(Saved(listed), row.id)
      BY <3>8 DEF Besides, Saved
    <3>10. \A p \in ToSet(listed') : p.id = row.id => p = row
      BY <3>3, <3>5
    <3> QED BY <3>3, <3>7, <3>9, <3>10
  <2>2. CASE row.id \notin IdsIn(listed)
    <3>1. listed' = Append(Others(listed, New), row)
      BY <1>3, <2>2
    <3>2. /\ Others(listed, New) \in Seq(ProfileRows)
          /\ ToSet(Others(listed, New)) = {p \in ToSet(listed) : p.id # New}
      BY <1>1, OthersSet
    <3>3. listed' \in Seq(ProfileRows) /\ ToSet(listed') = {p \in ToSet(listed) : p.id # New} \cup {row}
      BY <3>1, <3>2, AppendSet
    <3>4. Besides(Saved(listed'), row.id) = Besides(Saved(listed), row.id)
      BY <3>3 DEF Besides, Saved
    <3>5. \A p \in ToSet(listed) : p.id # row.id
      BY <2>2, <1>1, RowsIn
    <3> QED BY <3>3, <3>4, <3>5
  <2> QED BY <2>1, <2>2
<1>5. ~overlapped => Saved(listed)' = TableRows
  <2> SUFFICES ASSUME ~overlapped PROVE Saved(listed)' = TableRows
    OBVIOUS
  <2>1. CallFits_(asked[i])
    BY OneUnderWay, <1>1
  <2>2. SaveFits(asked[i])
    BY <2>1, <1>1 DEF CallFits_, ListFits_, DefaultFits, DeleteFits, NothingChanged
  <2>3. row = Row(asked[i].id) /\ asked[i].id \in DOMAIN table
        /\ Besides(Saved(listed), asked[i].id) = Besides(TableRows, asked[i].id)
    BY <2>2, <1>1, <1>2 DEF SaveFits
  <2>4. row.id = asked[i].id /\ row.id # New /\ row \in TableRows /\ \A p \in TableRows : p.id = row.id => p = row
    BY <2>3, TableIs DEF TableRows
  <2>5. row \in Saved(listed')
    BY <2>4, <1>4 DEF Saved
  <2>6. ASSUME NEW p \in Saved(listed'), p.id = row.id PROVE p = row
    BY <2>6, <1>4 DEF Saved
  <2>7. Besides(Saved(listed'), row.id) = Besides(TableRows, row.id)
    BY <2>3, <2>4, <1>4
  <2>8. ASSUME NEW p PROVE p \in Saved(listed') <=> p \in TableRows
    BY <2>4, <2>5, <2>6, <2>7 DEF Besides
  <2>9. Saved(listed)' = Saved(listed')
    BY DEF Saved
  <2> QED BY <2>8, <2>9
<1>6. chosen' \in Int /\ draft' \in [of : Int, name : ShellNames] /\ draft'.of = chosen'
  BY <1>3, DraftIs
<1>7. row.id \in IdsIn(listed')
  BY <1>4, RowsIn
<1>8. DraftFits'
  BY <1>3, <1>6, <1>7 DEF DraftFits
<1> QED BY <1>3, <1>4, <1>5, <1>6, <1>8, HearsKeep

LEMMA HearDeletedKeeps ==
    ASSUME ShellInv, NEW i \in DOMAIN asked, HearDeleted(i) PROVE ShellInv'
<1> USE DEF ShellInv
<1> DEFINE next == Others(asked[i].before, asked[i].id)
           replacement == IF next = <<>> THEN Legacy ELSE next[1]
<1>1. /\ asked[i].before \in Seq(ProfileRows) /\ asked[i].told # <<>>
      /\ asked[i].kind = "delete" /\ asked[i].at = "told"
  BY CallIs DEF HearDeleted, Heard
<1>2. Heard(i, {"delete"}) /\ listed' = next /\ chosen' = replacement.id /\ draft' = OfDraft(replacement)
  BY DEF HearDeleted
<1>3. next \in Seq(ProfileRows) /\ ToSet(next) = {p \in ToSet(asked[i].before) : p.id # asked[i].id}
  BY <1>1, OthersSet
<1>4. ~overlapped => Saved(next) = TableRows
  <2> SUFFICES ASSUME ~overlapped PROVE Saved(next) = TableRows
    OBVIOUS
  <2>1. CallFits_(asked[i])
    BY OneUnderWay, <1>1
  <2>2. TableRows = Besides(Saved(asked[i].before), asked[i].id)
    BY <2>1, <1>1 DEF CallFits_, ListFits_, SaveFits, DefaultFits, DeleteFits, NothingChanged
  <2> HIDE DEF next
  <2> QED BY <2>2, <1>3 DEF Saved, Besides
<1> HIDE DEF next
<1>5. replacement \in ProfileRows /\ (next # <<>> => replacement.id \in IdsIn(next))
  BY <1>3, LegacyIs, RowsIn
<1> HIDE DEF replacement
<1>6. chosen' \in Int /\ draft' \in [of : Int, name : ShellNames] /\ draft'.of = chosen'
  BY <1>2, <1>5, DraftIs
<1>7. DraftFits'
  BY <1>2, <1>5, <1>6 DEF DraftFits
<1>8. Saved(listed)' = Saved(next)
  BY <1>2 DEF Saved
<1> QED BY <1>2, <1>3, <1>4, <1>6, <1>7, <1>8, HearsKeep

LEMMA HearDefaultKeeps ==
    ASSUME ShellInv, NEW i \in DOMAIN asked, HearDefault(i) PROVE ShellInv'
<1> USE DEF ShellInv
<1> PICK id \in Int : id = asked[i].id
  BY CallIs
<1>1. /\ asked[i].told # <<>> /\ asked[i].kind = "default" /\ asked[i].at = "told"
      /\ listed \in Seq(ProfileRows) /\ Heard(i, {"default"}) /\ UNCHANGED <<chosen, draft>>
      /\ listed' = [k \in DOMAIN listed |-> [listed[k] EXCEPT !.default = listed[k].id = id]]
  BY DEF HearDefault, Heard, ProfileTypes
<1> DEFINE M(p) == [p EXCEPT !.default = p.id = id]
<1>2. ASSUME NEW p \in ProfileRows PROVE M(p) \in ProfileRows /\ M(p).id = p.id
  BY DEF ProfileRows
<1>3. listed' = [k \in DOMAIN listed |-> M(listed[k])] /\ \A S : Marked(S, id) = {M(p) : p \in S}
  BY <1>1 DEF Marked
<1> HIDE DEF M
<1>4. \A k \in DOMAIN listed : listed[k] \in ProfileRows
  BY <1>1, ElementOfSeq, LenProperties
<1>5. /\ listed' \in Seq(ProfileRows) /\ ToSet(listed') = {M(p) : p \in ToSet(listed)}
      /\ listed # <<>> => listed' # <<>>
  <2>0. listed' = [k \in DOMAIN listed' |-> listed'[k]]
    BY <1>3
  <2>1. DOMAIN listed' = DOMAIN listed /\ \A k \in DOMAIN listed : listed'[k] = M(listed[k])
    BY <1>3
  <2>2. \A k \in DOMAIN listed : listed'[k] \in ProfileRows
    BY <2>1, <1>2, <1>4
  <2>3. listed' \in Seq(ProfileRows) /\ ToSet(listed') = {listed'[k] : k \in DOMAIN listed}
    <3>1. listed \in Seq(ProfileRows) /\ DOMAIN listed' = DOMAIN listed
      BY <1>1, <2>1
    <3> QED BY <3>1, <2>0, <2>2, RowsChanged
  <2>4. listed # <<>> => listed' # <<>>
    BY <1>1, <2>0, <2>1, <2>2, RowsChanged
  <2>5. ToSet(listed) = {listed[k] : k \in DOMAIN listed}
    BY DEF ToSet
  <2>6. ToSet(listed') = {M(p) : p \in ToSet(listed)}
    BY <2>1, <2>3, <2>5
  <2> QED BY <2>3, <2>4, <2>6
<1>6. ToSet(listed) \subseteq ProfileRows /\ IdsIn(listed) = {p.id : p \in ToSet(listed)}
      /\ IdsIn(listed') = {p.id : p \in ToSet(listed')}
  BY <1>1, <1>5, RowsIn
<1>7. IdsIn(listed') = IdsIn(listed)
  BY <1>2, <1>5, <1>6
<1>8. ~overlapped => Saved(listed)' = TableRows
  <2> SUFFICES ASSUME ~overlapped PROVE Saved(listed)' = TableRows
    OBVIOUS
  <2>1. CallFits_(asked[i])
    BY OneUnderWay, <1>1
  <2>2. TableRows = Marked(Saved(listed), id)
    BY <2>1, <1>1 DEF CallFits_, ListFits_, SaveFits, DefaultFits, DeleteFits, NothingChanged
  <2>3. Saved(listed') = {M(p) : p \in Saved(listed)}
    BY <1>2, <1>5, <1>6 DEF Saved
  <2> QED BY <2>2, <2>3, <1>3
<1>9. DraftFits'
  <2>1. listed = <<>> => listed' = <<>>
    <3>1. ASSUME listed = <<>> PROVE listed' = <<>>
      BY <3>1, <1>3
    <3> QED BY <3>1
  <2> QED BY <1>1, <1>7, <2>1 DEF DraftFits
<1> QED BY <1>1, <1>5, <1>8, <1>9, HearsKeep DEF ProfileTypes

LEMMA HearFailedKeeps ==
    ASSUME ShellInv, NEW i \in DOMAIN asked, HearFailed(i) PROVE ShellInv'
<1> USE DEF ShellInv
<1>1. /\ Heard(i, {"add", "update", "delete", "default"}) /\ UNCHANGED <<listed, chosen, draft>>
      /\ asked[i].told = <<>> /\ asked[i].kind # "list" /\ asked[i].at = "told"
  BY DEF HearFailed, Heard
<1>2. ~overlapped => Saved(listed)' = TableRows
  <2> SUFFICES ASSUME ~overlapped PROVE Saved(listed)' = TableRows
    OBVIOUS
  <2>1. CallFits_(asked[i])
    BY OneUnderWay, <1>1
  <2>2. <<Row(asked[i].id)>> # <<>>
    OBVIOUS
  <2>3. Saved(listed) = TableRows
    BY <2>1, <2>2, <1>1 DEF CallFits_, ListFits_, SaveFits, DefaultFits, DeleteFits, NothingChanged
  <2> QED BY <2>3, <1>1 DEF Saved
<1>3. DraftFits'
  BY <1>1 DEF DraftFits
<1> QED BY <1>1, <1>2, <1>3, HearsKeep DEF ProfileTypes

LEMMA LastCall ==
    ASSUME ProfileTypes
    PROVE  Len(asked) \in Nat /\ DOMAIN asked = 1 .. Len(asked) /\ Len(asked) \in DOMAIN asked
<1>1. Len(asked) \in Nat /\ DOMAIN asked = 1 .. Len(asked) /\ Len(asked) # 0
  BY LenProperties, EmptySeq DEF ProfileTypes
<1> QED BY <1>1

\* A call that is made when no other is under way finds the page as the table is.
LEMMA QuietPage ==
    ASSUME ShellInv, ~overlapped, \A i \in DOMAIN asked : asked[i].at = "done"
    PROVE  Saved(listed) = TableRows /\ ~undone
<1>1. CallFits_(asked[Len(asked)]) /\ asked[Len(asked)].at = "done" /\ ~undone
  BY LastCall DEF ShellInv, PageFits
<1> QED BY <1>1 DEF CallFits_, ListFits_, SaveFits, DefaultFits, DeleteFits, NothingChanged

\* A new call, after calls of which nothing but the wish to hear them has changed.
LEMMA AsksKeep_ ==
    ASSUME ShellInv, NEW old \in Seq(ProfileCalls), NEW c \in ProfileCalls, Len(old) = Len(asked),
           \A i \in DOMAIN asked : old[i].kind = asked[i].kind /\ old[i].at = asked[i].at,
           asked' = Append(old, c), c.at = "sent", c.before = listed, c.kind = "list" => c.live,
           overlapped' = (overlapped \/ \E i \in DOMAIN asked : asked[i].at # "done"),
           UNCHANGED <<table, listed, chosen, draft, undone>>
    PROVE  ShellInv'
<1> USE DEF ShellInv
<1>1. Len(asked) \in Nat /\ DOMAIN asked = 1 .. Len(asked) /\ DOMAIN old = 1 .. Len(asked)
  BY LastCall, LenProperties
<1>2. /\ asked' \in Seq(ProfileCalls) /\ Len(asked') = Len(asked) + 1 /\ asked'[Len(asked) + 1] = c
      /\ \A i \in 1 .. Len(asked) : asked'[i] = old[i]
  BY AppendProperties
<1>3. DOMAIN asked' = 1 .. Len(asked) + 1 /\ asked' # <<>>
  BY <1>1, <1>2, LenProperties, EmptySeq
<1>4. Given' = Given
  <2>1. {i \in DOMAIN asked' : asked'[i].kind = "add" /\ asked'[i].at # "sent"}
        = {i \in DOMAIN asked : asked[i].kind = "add" /\ asked[i].at # "sent"}
    BY <1>1, <1>2, <1>3
  <2> QED BY <2>1 DEF Given
<1>5. ~overlapped' => ~overlapped /\ \A i \in DOMAIN asked : asked[i].at = "done"
  OBVIOUS
<1>6. ProfileTypes'
  <2>1. overlapped' \in BOOLEAN
    OBVIOUS
  <2> QED BY <2>1, <1>2, <1>3, <1>4 DEF ProfileTypes
<1>7. PageFits'
  <2> SUFFICES ASSUME ~overlapped' PROVE PageFits'
    BY DEF PageFits
  <2>1. Saved(listed) = TableRows /\ ~undone /\ \A i \in DOMAIN asked : asked[i].at = "done"
    BY <1>5, QuietPage
  <2>2. TableRows' = TableRows /\ Saved(listed)' = Saved(listed)
    BY DEF TableRows, Row, Saved
  <2>3. CallFits_(c)'
    BY <2>1, <2>2 DEF CallFits_, ListFits_, NothingChanged, ProfileCalls, Saved
  <2>4. (asked[Len(asked)])' = c /\ Len(asked') - 1 = Len(asked)
    BY <1>1, <1>2
  <2>5. CallFits_(asked[Len(asked)])'
    BY <2>3, <2>4 DEF CallFits_, ListFits_, SaveFits, DefaultFits, DeleteFits, NothingChanged
  <2>6. \A j \in 1 .. Len(asked') - 1 : asked'[j].at = "done"
    BY <2>1, <2>4, <1>1, <1>2
  <2> QED BY <2>1, <2>5, <2>6 DEF PageFits
<1> QED BY <1>6, <1>7 DEF DraftFits, OnlyDefault

LEMMA CallMade ==
    ASSUME ProfileTypes, NEW kind \in {"list", "add", "update", "delete", "default"}, NEW id \in Int
    PROVE  /\ Call(kind, id) \in ProfileCalls /\ Call(kind, id).at = "sent" /\ Call(kind, id).kind = kind
           /\ Call(kind, id).before = listed /\ Call(kind, id).live
BY EmptySeq DEF Call, ProfileCalls, ProfileTypes

LEMMA AskForKeeps ==
    ASSUME ShellInv, NEW kind \in {"list", "add", "update", "delete", "default"}, NEW id \in Int,
           AskFor(Call(kind, id)), UNCHANGED <<table, listed, chosen, draft, shellActs, undone>>
    PROVE  ShellInv'
<1>1. PICK c \in ProfileCalls : c = Call(kind, id)
  BY CallMade DEF ShellInv
<1>2. c.at = "sent" /\ c.before = listed /\ c.live
  BY <1>1, CallMade DEF ShellInv
<1>3. /\ asked' = Append(asked, c)
      /\ overlapped' = (overlapped \/ \E i \in DOMAIN asked : asked[i].at # "done")
  BY <1>1 DEF AskFor
<1>4. PICK old \in Seq(ProfileCalls) : old = asked
  BY DEF ShellInv, ProfileTypes
<1>5. /\ Len(old) = Len(asked) /\ asked' = Append(old, c)
      /\ \A i \in DOMAIN asked : old[i].kind = asked[i].kind /\ old[i].at = asked[i].at
  BY <1>3, <1>4
<1> QED BY <1>2, <1>3, <1>5, AsksKeep_

LEMMA ReloadKeeps == ShellInv /\ Reload => ShellInv'
<1> SUFFICES ASSUME ShellInv, Reload PROVE ShellInv'
  OBVIOUS
<1> DEFINE later == [i \in DOMAIN asked |-> IF asked[i].kind = "list" THEN [asked[i] EXCEPT !.live = FALSE]
                                            ELSE asked[i]]
<1>1. asked \in Seq(ProfileCalls) /\ DOMAIN asked = 1 .. Len(asked) /\ Len(asked) \in Nat
  BY LenProperties DEF ShellInv, ProfileTypes
<1>2. ASSUME NEW i \in DOMAIN asked
      PROVE  later[i] \in ProfileCalls /\ later[i].kind = asked[i].kind /\ later[i].at = asked[i].at
  <2>1. PICK c \in ProfileCalls : c = asked[i]
    BY <1>1, ElementOfSeq
  <2>2. [c EXCEPT !.live = FALSE] \in ProfileCalls /\ [c EXCEPT !.live = FALSE].kind = c.kind
        /\ [c EXCEPT !.live = FALSE].at = c.at
    BY DEF ProfileCalls
  <2>3. later[i] = IF c.kind = "list" THEN [c EXCEPT !.live = FALSE] ELSE c
    BY <2>1
  <2> QED BY <2>1, <2>2, <2>3
<1>3. DOMAIN later = 1 .. Len(asked)
  BY <1>1
<1>4. asked' = Append(later, Call("list", New))
      /\ overlapped' = (overlapped \/ \E i \in DOMAIN asked : asked[i].at # "done")
      /\ UNCHANGED <<table, listed, chosen, draft, undone>>
  BY DEF Reload
<1>5. later \in Seq(ProfileCalls)
  BY <1>1, <1>2
<1> HIDE DEF later
<1>6. PICK old \in Seq(ProfileCalls) : old = later
  BY <1>5
<1>7. Len(old) = Len(asked)
  BY <1>1, <1>3, <1>6, LenProperties
<1>8. PICK c \in ProfileCalls : c = Call("list", New)
  BY CallMade DEF ShellInv, New
<1>9. c.at = "sent" /\ c.before = listed /\ c.live
  BY <1>8, CallMade DEF ShellInv, New
<1>10. asked' = Append(old, c) /\ \A i \in DOMAIN asked : old[i].kind = asked[i].kind /\ old[i].at = asked[i].at
  BY <1>2, <1>4, <1>6, <1>8
<1> QED BY <1>4, <1>7, <1>9, <1>10, AsksKeep_

LEMMA ActiveIs ==
    ASSUME ProfileTypes, listed # <<>>
    PROVE  Active \in ProfileRows /\ Active.id \in Int /\ (chosen \in IdsIn(listed) => Active.id = chosen)
<1>1. listed \in Seq(ProfileRows)
  BY DEF ProfileTypes
<1>2. Active \in ToSet(listed) /\ (chosen \in IdsIn(listed) => Active.id = chosen)
  BY <1>1, RowsIn DEF Active
<1>3. ToSet(listed) \subseteq ProfileRows
  BY <1>1, RowsIn
<1> QED BY <1>2, <1>3 DEF ProfileRows

LEMMA ButtonsKeep == ShellInv /\ (SaveProfile \/ DeleteProfile_ \/ MakeDefault) => ShellInv'
<1> SUFFICES ASSUME ShellInv, SaveProfile \/ DeleteProfile_ \/ MakeDefault PROVE ShellInv'
  OBVIOUS
<1>1. listed # <<>> /\ UNCHANGED <<table, listed, chosen, draft, shellActs, undone>>
  BY DEF SaveProfile, DeleteProfile_, MakeDefault
<1>2. PICK id \in Int : id = Active.id
  BY <1>1, ActiveIs DEF ShellInv
<1>3. \/ AskFor(Call("add", New)) \/ AskFor(Call("update", id))
      \/ AskFor(Call("delete", id)) \/ AskFor(Call("default", id))
  BY <1>2 DEF SaveProfile, DeleteProfile_, MakeDefault
<1>4. New \in Int
  BY DEF New
<1> QED BY <1>1, <1>3, <1>4, AskForKeeps

\* What the user does without a call changes nothing that is saved.
LEMMA ActsKeep ==
    ASSUME ShellInv, UserActs, listed' \in Seq(ProfileRows), chosen' \in Int,
           draft' \in [of : Int, name : ShellNames], DraftFits', Saved(listed') = Saved(listed)
    PROVE  ShellInv'
<1> USE DEF ShellInv
<1>1. UNCHANGED <<table, asked, overlapped, undone>>
  BY DEF UserActs
<1>2. Given' = Given
  BY <1>1 DEF Given
<1>3. ProfileTypes' /\ OnlyDefault'
  BY <1>1, <1>2 DEF ProfileTypes, OnlyDefault
<1>4. TableRows' = TableRows /\ Saved(listed)' = Saved(listed) /\ (\A i : Row(i)' = Row(i))
      /\ asked[Len(asked)]' = asked[Len(asked)]
  BY <1>1 DEF TableRows, Row, Saved
<1>5. CallFits_(asked[Len(asked)]) => CallFits_(asked[Len(asked)])'
  BY <1>1, <1>4 DEF CallFits_, ListFits_, SaveFits, DefaultFits, DeleteFits, NothingChanged, Saved
<1>6. PageFits'
  BY <1>1, <1>5 DEF PageFits
<1> QED BY <1>3, <1>6

LEMMA AddNewKeeps == ShellInv /\ AddNew => ShellInv'
<1> SUFFICES ASSUME ShellInv, AddNew PROVE ShellInv'
  OBVIOUS
<1>1. PICK new \in ProfileRows : new = [id |-> New, name |-> FirstName, default |-> FALSE]
  <2>1. New \in Int
    BY DEF New
  <2> QED BY <2>1, LegacyIs DEF ProfileRows
<1>2. UserActs /\ listed' = Append(Others(listed, New), new) /\ draft' = OfDraft(new) /\ chosen' = New
  BY <1>1 DEF AddNew
<1>3. /\ Others(listed, New) \in Seq(ProfileRows)
      /\ ToSet(Others(listed, New)) = {p \in ToSet(listed) : p.id # New}
  BY OthersSet DEF ShellInv, ProfileTypes
<1>4. listed' \in Seq(ProfileRows) /\ ToSet(listed') = {p \in ToSet(listed) : p.id # New} \cup {new}
  BY <1>2, <1>3, AppendSet
<1>5. Saved(listed') = Saved(listed) /\ new.id = New
  BY <1>1, <1>4 DEF Saved
<1>6. New \in IdsIn(listed')
  BY <1>4, <1>5, RowsIn
<1>7. chosen' \in Int /\ draft' \in [of : Int, name : ShellNames] /\ draft'.of = chosen'
  BY <1>2, <1>5, DraftIs DEF New
<1>8. DraftFits'
  BY <1>2, <1>6, <1>7 DEF DraftFits
<1> QED BY <1>2, <1>4, <1>5, <1>7, <1>8, ActsKeep

LEMMA ChooseProfileKeeps ==
    ASSUME ShellInv, NEW id \in IdsIn(listed), Choose(id) PROVE ShellInv'
<1>1. UserActs /\ UNCHANGED listed /\ chosen' = id /\ draft' = OfDraft(Find(listed, id))
  BY DEF Choose
<1>2. listed \in Seq(ProfileRows)
  BY DEF ShellInv, ProfileTypes
<1>3. Find(listed, id) \in ProfileRows /\ Find(listed, id).id = id
  BY <1>2, RowsIn
<1>4. chosen' \in Int /\ draft' \in [of : Int, name : ShellNames] /\ draft'.of = chosen'
  BY <1>1, <1>3, DraftIs
<1>5. DraftFits'
  BY <1>1, <1>4 DEF DraftFits
<1> QED BY <1>1, <1>2, <1>4, <1>5, ActsKeep

LEMMA TypeKeeps ==
    ASSUME ShellInv, NEW name \in ShellNames, Type(name) PROVE ShellInv'
<1>1. UserActs /\ UNCHANGED <<listed, chosen>> /\ draft' = [draft EXCEPT !.name = name]
  BY DEF Type
<1>2. listed \in Seq(ProfileRows) /\ chosen \in Int /\ draft \in [of : Int, name : ShellNames] /\ DraftFits
  BY DEF ShellInv, ProfileTypes
<1>3. draft' \in [of : Int, name : ShellNames] /\ draft'.of = draft.of
  BY <1>1, <1>2
<1>4. DraftFits'
  BY <1>1, <1>2, <1>3 DEF DraftFits
<1> QED BY <1>1, <1>2, <1>3, <1>4, ActsKeep

LEMMA ProfilesBegin == ShellProfilesInit => ShellInv
<1> SUFFICES ASSUME ShellProfilesInit PROVE ShellInv
  OBVIOUS
<1> DEFINE c == [kind |-> "list", id |-> New, name |-> FirstName, at |-> "sent",
                 told |-> <<>>, before |-> <<Legacy>>, live |-> TRUE]
<1>1. /\ table = [i \in 1 .. 2 |-> [name |-> FirstName, default |-> i = 1]]
      /\ listed = <<Legacy>> /\ chosen = Fallback /\ draft = OfDraft(Legacy)
      /\ asked = <<c>> /\ overlapped = FALSE /\ undone = FALSE
  BY DEF ShellProfilesInit
<1>2. listed \in Seq(ProfileRows) /\ listed # <<>> /\ Legacy \in ToSet(listed)
  <2>1. listed[1] \in ToSet(listed)
    BY <1>1, LegacyIs, SingleSeq_, RowsIn
  <2> QED BY <1>1, <2>1, LegacyIs, SingleSeq_
<1>3. c \in ProfileCalls
  BY <1>1, <1>2, LegacyIs, EmptySeq DEF ProfileCalls, New
<1>4. c.kind = "list" /\ c.live /\ c.at = "sent"
  OBVIOUS
<1> HIDE DEF c
<1>5. asked \in Seq(ProfileCalls) /\ asked # <<>> /\ Len(asked) = 1 /\ asked[1] = c
  BY <1>1, <1>3, SingleSeq_
<1>6. ProfileTypes
  <2>1. DOMAIN table = 1 .. 2 /\ DOMAIN table \subseteq 1 .. Given
    BY <1>1, <1>5, GivenIs
  <2>2. table \in [DOMAIN table -> [name : ShellNames, default : BOOLEAN]]
    BY <1>1, LegacyIs
  <2>3. chosen \in Int /\ draft \in [of : Int, name : ShellNames]
    BY <1>1, LegacyIs, DraftIs
  <2> QED BY <1>1, <1>2, <1>5, <2>1, <2>2, <2>3 DEF ProfileTypes
<1>7. DraftFits
  BY <1>1, <1>2, LegacyIs, DraftIs, RowsIn DEF DraftFits
<1>8. OnlyDefault
  <2>1. 1 \in DOMAIN table /\ DOMAIN table = {1, 2}
    BY <1>1
  <2>2. \A i \in 1 .. 2 : table[i] = [name |-> FirstName, default |-> i = 1]
    BY <1>1, Zenon
  <2>3. table[1].default /\ ~table[2].default
    <3>1. \A i \in 1 .. 2 : table[i].default <=> i = 1
      <4> TAKE i \in 1 .. 2
      <4>1. PICK b \in BOOLEAN : b = (i = 1)
        OBVIOUS
      <4>2. table[i] = [name |-> FirstName, default |-> b]
        BY <2>2, <4>1, Zenon
      <4>3. table[i].default = b
        BY <4>2
      <4> QED BY <4>1, <4>3, Zenon
    <3> QED BY <3>1
  <2> QED BY <2>1, <2>3 DEF OnlyDefault
<1>9. PageFits
  BY <1>1, <1>4, <1>5 DEF PageFits, CallFits_, ListFits_
<1> QED BY <1>6, <1>7, <1>8, <1>9 DEF ShellInv

LEMMA ProfilesStep == ShellInv /\ [ShellProfilesNext]_profileVars => ShellInv'
<1> SUFFICES ASSUME ShellInv, [ShellProfilesNext]_profileVars PROVE ShellInv'
  OBVIOUS
<1>1. CASE UNCHANGED profileVars
  <2>1. UNCHANGED <<table, listed, chosen, draft, asked, overlapped, undone>>
    BY <1>1 DEF profileVars
  <2> QED BY <2>1 DEF ShellInv, ProfileTypes, Given, DraftFits, OnlyDefault, PageFits, CallFits_, ListFits_,
                      SaveFits, DefaultFits, DeleteFits, NothingChanged, TableRows, Row, Saved
<1> QED BY <1>1, ServeKeeps, HearListKeeps, HearSavedKeeps, HearDeletedKeeps, HearDefaultKeeps, HearFailedKeeps,
        ReloadKeeps, ButtonsKeep, AddNewKeeps, ChooseProfileKeeps, TypeKeeps DEF ShellProfilesNext

LEMMA ProfilesAreTrue == ShellInv => ProfilesTrue
<1> SUFFICES ASSUME ShellInv PROVE ProfilesTrue
  OBVIOUS
<1>1. OneDefault
  <2> SUFFICES ASSUME ~undone PROVE Cardinality({i \in DOMAIN table : table[i].default}) = 1
    BY DEF OneDefault
  <2>1. PICK d \in DOMAIN table : \A i \in DOMAIN table : table[i].default <=> i = d
    BY DEF ShellInv, OnlyDefault
  <2>2. {i \in DOMAIN table : table[i].default} = {d}
    BY <2>1
  <2> QED BY <2>2, FS_Singleton
<1>2. DraftOfActive
  BY ActiveIs DEF ShellInv, DraftFits, DraftOfActive
<1>3. ListTrue
  <2> SUFFICES ASSUME ~overlapped, \A i \in DOMAIN asked : asked[i].at = "done"
               PROVE  {listed[k] : k \in {l \in DOMAIN listed : listed[l].id # New}} = {Row(i) : i \in DOMAIN table}
    BY DEF ListTrue
  <2>1. Saved(listed) = TableRows
    BY QuietPage
  <2> QED BY <2>1 DEF Saved, ToSet, TableRows
<1> QED BY <1>1, <1>2, <1>3 DEF ProfilesTrue

-----------------------------------------------------------------------------
(* The theorems.  Each part takes its steps, and no others, whatever part   *)
(* of the application is taken up.                                          *)

\* What is selected, dragged, cut, asked about and under way fits the rows and the folder, in
\* every state the panel reaches: the invariant both theorems below follow from.
THEOREM SelectionInvHolds == ToolsSpec => []SelectionInv
<1>1. Init => SelectionInv
  BY BeginsRight DEF Init
<1>2. SelectionInv /\ [Next]_<<searchVars, dockVars, selectionVars, storeVars, profileVars,
                                compareVars, previewVars, serviceVars, focus>> => SelectionInv'
  <2> SUFFICES ASSUME SelectionInv, Next \/ UNCHANGED selectionVars PROVE SelectionInv'
    OBVIOUS
  <2>1. SelectionNext \/ UNCHANGED selectionVars
    BY DEF Next
  <2> QED BY <2>1, StepsKeep
<1> QED BY <1>1, <1>2, PTL DEF ToolsSpec

\* The rows and the selection are of the folder; no name is collected, shown or selected twice
\* unless a row was renamed.
THEOREM SelectionIsTyped == ToolsSpec => []SelTypeOK
  BY SelectionInvHolds, InvIsTyped, PTL

\* For any folder, any number of acts and operations and any order of listings, answers and
\* events: at most one of the names an operation is about was not chosen by the user, and once
\* all is answered and heard of the rows are the folder.
THEOREM SelectionIsTrue == ToolsSpec => []SelectionTrue
  BY SelectionInvHolds, InvIsTrue, PTL

\* What is on disk is whole and what the program holds in memory is what is there, between any
\* two statements of a launch or of a command: the invariant both theorems below follow from.
THEOREM StoresInvHolds == ToolsSpec => []StoresInv
<1>1. Init => StoresInv
  BY StoresBegin DEF Init
<1>2. StoresInv /\ [Next]_<<searchVars, dockVars, selectionVars, storeVars, profileVars,
                             compareVars, previewVars, serviceVars, focus>> => StoresInv'
  <2> SUFFICES ASSUME StoresInv, Next \/ UNCHANGED storeVars PROVE StoresInv'
    OBVIOUS
  <2>1. StoresNext \/ UNCHANGED storeVars
    BY DEF Next
  <2> QED BY <2>1, StoresStep
<1> QED BY <1>1, <1>2, PTL DEF ToolsSpec

\* For any number of profiles, commands and stops at any statement: a launch gives up only
\* before the store of a later release or one of the two migrations that cannot be repeated;
\* one that succeeds leaves every store migrated and in memory what is on disk; a preference
\* stays what it was answered to be; and a profile that says its password is stored has one.
THEOREM StoresAreKept == ToolsSpec => []StoresTrue
  BY StoresInvHolds, StoresAreTrue, PTL

\* What the page of the profiles shows, the table and the calls under way fit each other: the
\* invariant the next theorem follows from.
THEOREM ShellInvHolds == ToolsSpec => []ShellInv
<1>1. Init => ShellInv
  BY ProfilesBegin DEF Init
<1>2. ShellInv /\ [Next]_<<searchVars, dockVars, selectionVars, storeVars, profileVars,
                            compareVars, previewVars, serviceVars, focus>> => ShellInv'
  <2> SUFFICES ASSUME ShellInv, Next \/ UNCHANGED profileVars PROVE ShellInv'
    OBVIOUS
  <2>1. ShellProfilesNext \/ UNCHANGED profileVars
    BY DEF Next
  <2> QED BY <2>1, ProfilesStep
<1> QED BY <1>1, <1>2, PTL DEF ToolsSpec

\* For any number of calls, in any order of their steps and answers: there is one default
\* profile, unless one was made the default while it was deleted; the fields on screen are those of
\* the profile that Save and Delete are about; and the page shows the table when every call was
\* answered and no two were under way at once.
THEOREM ProfilesHold == ToolsSpec => []ProfilesTrue
  BY ShellInvHolds, ProfilesAreTrue, PTL

\* Settings survive stops at any statement, and the profiles shown are those there are.
THEOREM SettingsAreTrue == ToolsSpec => []SettingsTrue
<1>1. StoresTrue /\ ProfilesTrue => SettingsTrue
  BY DEF SettingsTrue
<1> QED BY <1>1, StoresAreKept, ProfilesHold, PTL

=============================================================================
