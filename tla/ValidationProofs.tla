-------------------------- MODULE ValidationProofs --------------------------
(***************************************************************************)
(* Proofs about Validation, for names of any length, any bounds on them    *)
(* and any e-mail addresses.  What Cleaned computes along a name is        *)
(* compared with what a name is (NameOf) position by position: a least     *)
(* position where they differ cannot be (LeastElement).                    *)
(***************************************************************************)
EXTENDS Validation, SequenceTheorems, FiniteSetTheorems, WellFoundedInduction,
        TLAPS

Names == Seq(Characters)

\* A set of numbers that is not empty has a least element.
LEMMA LeastElement ==
    ASSUME NEW S \in SUBSET Nat, S # {}
    PROVE  \E m \in S : \A n \in S : m <= n
<1>1. IsWellFoundedOn(OpToRel(<, Nat), Nat)
    BY NatLessThanWellFounded
<1>2. PICK m \in S : \A n \in S : ~ (<<n, m>> \in OpToRel(<, Nat))
    BY <1>1, WFMin
<1>3. \A n \in S : ~ (n < m)
    BY <1>2 DEF OpToRel
<1> QED BY <1>3

\* Min of FiniteSetsExt is that element.
LEMMA MinIsLeast ==
    ASSUME NEW S \in SUBSET Nat, S # {}
    PROVE  Min(S) \in S /\ \A n \in S : Min(S) <= n
BY LeastElement DEF Min

\* What holds of 0, and of a number if it holds of the one before, holds of
\* all numbers up to a bound.
LEMMA CountingUp ==
    ASSUME NEW n \in Nat, NEW S, 0 \in S,
           \A i \in 0 .. n - 1 : i \in S => i + 1 \in S
    PROVE  n \in S
<1> DEFINE T == {i \in 0 .. n : i \notin S}
<1> SUFFICES ASSUME n \notin S
             PROVE  FALSE
    OBVIOUS
<1>1. T \in SUBSET Nat /\ T # {}
    OBVIOUS
<1>2. PICK m \in T : \A i \in T : m <= i
    <2> HIDE DEF T
    <2> QED BY <1>1, LeastElement
<1>3. m # 0 /\ m - 1 \in 0 .. n - 1 /\ m - 1 \notin T
    BY <1>2
<1> QED BY <1>3

-----------------------------------------------------------------------------
\* str.strip().

\* LeftStripped is the part from the first inked position on.
LEMMA LeftStrippedIs ==
    ASSUME NEW v \in Names
    PROVE  /\ LeftStripped(v) \in Names
           /\ Inked(v) = {} => LeftStripped(v) = << >>
           /\ Inked(v) # {} =>
                 \E a \in 1 .. Len(v) :
                    /\ v[a] # "space"
                    /\ \A i \in 1 .. a - 1 : v[i] = "space"
                    /\ LeftStripped(v) =
                          [i \in 1 .. Len(v) - a + 1 |-> v[a + i - 1]]
<1>1. CASE Inked(v) = {}
    BY <1>1 DEF LeftStripped, Names
<1>2. CASE Inked(v) # {}
    <2> DEFINE a == Min(Inked(v))
    <2>1. Inked(v) \in SUBSET Nat
        BY DEF Inked, Names
    <2>2. a \in Inked(v) /\ \A n \in Inked(v) : a <= n
        BY <1>2, <2>1, MinIsLeast
    <2> HIDE DEF a
    <2>3. /\ a \in 1 .. Len(v) /\ v[a] # "space"
          /\ \A i \in 1 .. a - 1 : v[i] = "space"
        BY <2>2 DEF Inked, Names
    <2>4. LeftStripped(v) = SubSeq(v, a, Len(v))
        BY <1>2 DEF LeftStripped, a
    <2>5. LeftStripped(v) = [i \in 1 .. Len(v) - a + 1 |-> v[a + i - 1]]
        BY <2>3, <2>4 DEF Names
    <2>6. LeftStripped(v) \in Names
        BY <2>3, <2>4, SubSeqProperties DEF Names
    <2> QED BY <1>2, <2>3, <2>5, <2>6
<1> QED BY <1>1, <1>2

\* A name's first and last inked positions are a and b.
InkedBetween(v, a, b) ==
    /\ a \in 1 .. Len(v) /\ b \in a .. Len(v)
    /\ v[a] # "space" /\ v[b] # "space"
    /\ \A i \in 1 .. a - 1 : v[i] = "space"
    /\ \A i \in b + 1 .. Len(v) : v[i] = "space"

LEMMA ReverseIs ==
    ASSUME NEW v \in Names
    PROVE  /\ Reverse(v) \in Names
           /\ Len(Reverse(v)) = Len(v)
           /\ \A i \in 1 .. Len(v) : Reverse(v)[i] = v[Len(v) - i + 1]
BY DEF Reverse, Names

\* Stripped is the part between the first and the last inked position.
LEMMA StrippedIs ==
    ASSUME NEW v \in Names
    PROVE  /\ Stripped(v) \in Names
           /\ Inked(v) = {} => Stripped(v) = << >>
           /\ Inked(v) # {} =>
                 \E a, b \in 1 .. Len(v) :
                    /\ InkedBetween(v, a, b)
                    /\ Stripped(v) = [i \in 1 .. b - a + 1 |-> v[a + i - 1]]
<1> DEFINE left == LeftStripped(v)
           turned == Reverse(left)
           right == LeftStripped(turned)
<1>1. left \in Names /\ turned \in Names /\ right \in Names
    BY LeftStrippedIs, ReverseIs
<1>2. Stripped(v) = Reverse(right) /\ Stripped(v) \in Names
    BY <1>1, ReverseIs DEF Stripped
<1>3. CASE Inked(v) = {}
    <2>1. left = << >>
        BY <1>3, LeftStrippedIs
    <2>2. turned = << >>
        BY <2>1 DEF Reverse
    <2>3. right = << >>
        BY <2>2, Inked(<< >>) = {} DEF LeftStripped, Inked
    <2>4. Len(Stripped(v)) = 0
        BY <1>1, <1>2, <2>3, ReverseIs
    <2>5. Stripped(v) = << >>
        BY <1>2, <2>4, EmptySeq DEF Names
    <2> QED BY <1>2, <1>3, <2>5
<1>4. CASE Inked(v) # {}
    <2>1. PICK a \in 1 .. Len(v) :
            /\ v[a] # "space"
            /\ \A i \in 1 .. a - 1 : v[i] = "space"
            /\ left = [i \in 1 .. Len(v) - a + 1 |-> v[a + i - 1]]
        BY <1>4, LeftStrippedIs
    <2> HIDE DEF left, turned, right
    <2>2. Len(v) \in Nat /\ Len(left) = Len(v) - a + 1
        BY <2>1 DEF Names
    <2>3. Len(turned) = Len(left)
          /\ \A i \in 1 .. Len(left) : turned[i] = left[Len(left) - i + 1]
        BY <1>1, ReverseIs DEF turned
    <2>4. \A i \in 1 .. Len(left) : turned[i] = v[Len(v) - i + 1]
        <3> SUFFICES ASSUME NEW i \in 1 .. Len(left)
                     PROVE  turned[i] = v[Len(v) - i + 1]
            OBVIOUS
        <3> DEFINE j == Len(left) - i + 1
        <3>1. j \in 1 .. Len(v) - a + 1 /\ a + j - 1 = Len(v) - i + 1
            BY <2>1, <2>2
        <3>2. turned[i] = left[j] /\ left[j] = v[a + j - 1]
            BY <2>1, <2>3, <3>1
        <3> QED BY <3>1, <3>2
    <2>5. turned[Len(left)] # "space"
        BY <2>1, <2>2, <2>4
    <2>6. Inked(turned) # {}
        BY <1>1, <2>1, <2>2, <2>3, <2>5 DEF Inked, Names
    <2>7. PICK c \in 1 .. Len(turned) :
            /\ turned[c] # "space"
            /\ \A i \in 1 .. c - 1 : turned[i] = "space"
            /\ right = [i \in 1 .. Len(turned) - c + 1 |-> turned[c + i - 1]]
        BY <1>1, <2>6, LeftStrippedIs DEF right
    <2> DEFINE b == Len(v) - c + 1
    <2>8. b \in a .. Len(v) /\ v[b] # "space"
        BY <2>1, <2>2, <2>3, <2>4, <2>7
    <2>9. \A i \in b + 1 .. Len(v) : v[i] = "space"
        <3> SUFFICES ASSUME NEW i \in b + 1 .. Len(v)
                     PROVE  v[i] = "space"
            OBVIOUS
        <3> DEFINE j == Len(v) - i + 1
        <3>1. j \in 1 .. c - 1 /\ j \in 1 .. Len(left) /\ Len(v) - j + 1 = i
            BY <2>1, <2>2, <2>3, <2>7
        <3> QED BY <2>4, <2>7, <3>1
    <2>10. InkedBetween(v, a, b)
        BY <2>1, <2>8, <2>9 DEF InkedBetween
    <2>11. Len(right) = b - a + 1
           /\ \A i \in 1 .. b - a + 1 : right[i] = turned[c + i - 1]
        BY <2>1, <2>2, <2>3, <2>7
    <2>12. Len(Reverse(right)) = Len(right)
           /\ \A i \in 1 .. Len(right) :
                 Reverse(right)[i] = right[Len(right) - i + 1]
        BY <1>1, ReverseIs
    <2>13. \A i \in 1 .. b - a + 1 : Reverse(right)[i] = v[a + i - 1]
        <3> SUFFICES ASSUME NEW i \in 1 .. b - a + 1
                     PROVE  Reverse(right)[i] = v[a + i - 1]
            OBVIOUS
        <3> DEFINE j == Len(right) - i + 1
        <3>1. /\ Len(v) \in Nat /\ a \in 1 .. Len(v) /\ b \in a .. Len(v)
              /\ c = Len(v) - b + 1 /\ Len(left) = Len(v) - a + 1
              /\ Len(right) = b - a + 1
            BY <2>1, <2>2, <2>3, <2>7, <2>8, <2>11
        <3> HIDE DEF b
        <3>2. j \in 1 .. Len(right) /\ c + j - 1 \in 1 .. Len(left)
              /\ Len(v) - (c + j - 1) + 1 = a + i - 1
            BY <3>1
        <3>3. Reverse(right)[i] = right[j]
            BY <2>12, <3>1
        <3>4. right[j] = turned[c + j - 1]
            BY <2>11, <3>1, <3>2
        <3>5. turned[c + j - 1] = v[a + i - 1]
            BY <2>4, <3>2
        <3> QED BY <3>3, <3>4, <3>5
    <2>14. Stripped(v) = [i \in 1 .. b - a + 1 |-> v[a + i - 1]]
        BY <1>2, <2>11, <2>12, <2>13 DEF Names
    <2>15. b \in 1 .. Len(v)
        BY <2>1, <2>2, <2>8
    <2> HIDE DEF b
    <2>16. \E x, y \in 1 .. Len(v) :
              /\ InkedBetween(v, x, y)
              /\ Stripped(v) = [i \in 1 .. y - x + 1 |-> v[x + i - 1]]
        BY <2>10, <2>14, <2>15
    <2> QED BY <1>2, <1>4, <2>16
<1> QED BY <1>3, <1>4

\* Nothing is stripped from a name that neither begins nor ends with a space.
LEMMA StrippedOfStripped ==
    ASSUME NEW v \in Names, v # << >>, v[1] # "space", v[Len(v)] # "space"
    PROVE  Stripped(v) = v
<1>1. Len(v) \in Nat /\ Len(v) >= 1 /\ DOMAIN v = 1 .. Len(v)
    BY EmptySeq DEF Names
<1>2. Inked(v) # {}
    BY <1>1 DEF Inked
<1>3. PICK a, b \in 1 .. Len(v) :
        /\ InkedBetween(v, a, b)
        /\ Stripped(v) = [i \in 1 .. b - a + 1 |-> v[a + i - 1]]
    BY <1>2, StrippedIs
<1>4. a = 1 /\ b = Len(v)
    <2>1. 1 \notin 1 .. a - 1 /\ Len(v) \notin b + 1 .. Len(v)
        BY <1>3 DEF InkedBetween
    <2>2. Len(v) \in Nat /\ a \in 1 .. Len(v) /\ b \in 1 .. Len(v)
        BY <1>1
    <2> QED BY <2>1, <2>2
<1>5. Stripped(v) = [i \in 1 .. Len(v) |-> v[i]]
    <2>1. Stripped(v) = [i \in 1 .. Len(v) - 1 + 1 |-> v[1 + i - 1]]
        BY <1>3, <1>4
    <2>2. Len(v) - 1 + 1 = Len(v) /\ \A i \in 1 .. Len(v) : 1 + i - 1 = i
        BY <1>1
    <2> QED BY <2>1, <2>2
<1> QED BY <1>1, <1>5 DEF Names

\* Stripping is done once: extract_sync_form_data changes nothing for
\* validate_name.
LEMMA StrippedTwice ==
    ASSUME NEW v \in Names
    PROVE  Stripped(Stripped(v)) = Stripped(v)
<1> DEFINE s == Stripped(v)
<1>1. s \in Names
    BY StrippedIs
<1>2. CASE Inked(v) = {}
    BY <1>2, StrippedIs, Inked(<< >>) = {}, << >> \in Names DEF Inked, Names
<1>3. CASE Inked(v) # {}
    <2>1. PICK a, b \in 1 .. Len(v) :
            /\ InkedBetween(v, a, b)
            /\ s = [i \in 1 .. b - a + 1 |-> v[a + i - 1]]
        BY <1>3, StrippedIs
    <2> HIDE DEF s
    <2>2. Len(s) = b - a + 1 /\ Len(s) \in Nat /\ Len(s) >= 1
        BY <1>1, <2>1 DEF InkedBetween, Names
    <2>3. s[1] # "space" /\ s[Len(s)] # "space"
        BY <2>1, <2>2 DEF InkedBetween
    <2>4. Stripped(s) = s
        BY <1>1, <2>2, <2>3, StrippedOfStripped
    <2> QED BY <2>4 DEF s
<1> QED BY <1>2, <1>3

-----------------------------------------------------------------------------
\* " ".join(value.strip().split()).

\* One character more: a space is dropped after a space.
WithNext(kept, c) ==
    IF c = "space" /\ Last(kept) = "space" THEN kept ELSE Append(kept, c)

\* f is that of the first m characters, for each number of them.
IsJoining(f, s, m) ==
    f = [n \in 0 .. m |->
            IF n = 0 THEN << >> ELSE WithNext(f[n - 1], s[n])]

\* The function by which Cleaned is defined exists.
LEMMA JoiningExists ==
    ASSUME NEW s \in Names
    PROVE  \E f : IsJoining(f, s, Len(s))
<1> DEFINE S == {m \in 0 .. Len(s) : \E f : IsJoining(f, s, m)}
<1>1. Len(s) \in Nat
    BY DEF Names
<1>2. 0 \in S
    <2>1. IsJoining([n \in 0 .. 0 |-> << >>], s, 0)
        BY DEF IsJoining
    <2> QED BY <1>1, <2>1
<1>3. ASSUME NEW m \in 0 .. Len(s) - 1, m \in S
      PROVE  m + 1 \in S
    <2>1. PICK f : IsJoining(f, s, m)
        BY <1>3
    <2> DEFINE g == [n \in 0 .. m + 1 |->
                        IF n = m + 1 THEN WithNext(f[m], s[m + 1]) ELSE f[n]]
    <2>2. ASSUME NEW n \in 0 .. m + 1
          PROVE  g[n] = IF n = 0 THEN << >> ELSE WithNext(g[n - 1], s[n])
        <3>1. CASE n = m + 1
            BY <1>1, <3>1
        <3>2. CASE n # m + 1
            <4>1. /\ n \in 0 .. m
                  /\ n # 0 => n - 1 \in 0 .. m /\ n - 1 # m + 1
                BY <1>1, <3>2
            <4>2. f[n] = IF n = 0 THEN << >> ELSE WithNext(f[n - 1], s[n])
                BY <2>1, <4>1 DEF IsJoining
            <4> QED BY <3>2, <4>1, <4>2
        <3> QED BY <3>1, <3>2
    <2>3. g = [n \in 0 .. m + 1 |-> g[n]]
        OBVIOUS
    <2> HIDE DEF g
    <2>4. IsJoining(g, s, m + 1)
        BY <2>2, <2>3 DEF IsJoining
    <2> QED BY <1>1, <2>4
<1> HIDE DEF S
<1>4. Len(s) \in S
    BY <1>1, <1>2, <1>3, CountingUp
<1> QED BY <1>4 DEF S

\* Cleaned is the value of that function at the end of the stripped name.
LEMMA CleanedByJoining ==
    ASSUME NEW v \in Names
    PROVE  \E f : /\ f[0] = << >>
                  /\ \A n \in 1 .. Len(Stripped(v)) :
                        f[n] = WithNext(f[n - 1], Stripped(v)[n])
                  /\ Cleaned(v) = f[Len(Stripped(v))]
<1> DEFINE s == Stripped(v)
           f == CHOOSE g : IsJoining(g, s, Len(s))
<1>1. s \in Names /\ Len(s) \in Nat
    BY StrippedIs DEF Names
<1>2. Cleaned(v) = f[Len(s)]
    BY Zenon DEF Cleaned, IsJoining, WithNext
<1> HIDE DEF s
<1>3. IsJoining(f, s, Len(s))
    BY <1>1, JoiningExists
<1> HIDE DEF f
<1>4. f[0] = << >> /\ \A n \in 1 .. Len(s) : f[n] = WithNext(f[n - 1], s[n])
    BY <1>1, <1>3 DEF IsJoining
<1> QED BY <1>2, <1>4 DEF s

-----------------------------------------------------------------------------
\* Counting the kept positions.

LEMMA KeptIsFinite ==
    ASSUME NEW v \in Names
    PROVE  /\ Kept(v) \subseteq 1 .. Len(v)
           /\ Kept(v) \subseteq Nat \ {0}
           /\ IsFiniteSet(Kept(v))
           /\ \A n : IsFiniteSet({i \in Kept(v) : i <= n})
<1>1. Kept(v) \subseteq 1 .. Len(v) /\ Len(v) \in Nat
    BY DEF Kept, Inked, Gaps, Names
<1>2. IsFiniteSet(Kept(v))
    <2>1. IsFiniteSet(1 .. Len(v))
        BY <1>1, FS_Interval
    <2>2. Kept(v) \in SUBSET (1 .. Len(v))
        BY <1>1
    <2> QED BY <2>1, <2>2, FS_Subset
<1>3. ASSUME NEW n
      PROVE  IsFiniteSet({i \in Kept(v) : i <= n})
    <2>1. {i \in Kept(v) : i <= n} \in SUBSET Kept(v)
        OBVIOUS
    <2> QED BY <1>2, <2>1, FS_Subset
<1>4. Kept(v) \subseteq Nat \ {0}
    BY <1>1
<1> QED BY <1>1, <1>2, <1>3, <1>4

\* One position more counts for one if it is kept.
LEMMA KeptOneByOne ==
    ASSUME NEW v \in Names, NEW n \in Nat
    PROVE  /\ KeptUpTo(v, n) \in Nat
           /\ n + 1 \in Kept(v) => KeptUpTo(v, n + 1) = KeptUpTo(v, n) + 1
           /\ n + 1 \notin Kept(v) => KeptUpTo(v, n + 1) = KeptUpTo(v, n)
<1> DEFINE Upto(m) == {i \in Kept(v) : i <= m}
<1>1. Kept(v) \subseteq Nat /\ IsFiniteSet(Upto(n))
    <2>1. Nat \ {0} \subseteq Nat
        OBVIOUS
    <2> QED BY <2>1, KeptIsFinite
<1>2. n + 1 \notin Upto(n)
    BY <1>1
<1>3. n + 1 \in Kept(v) => Upto(n + 1) = Upto(n) \cup {n + 1}
    BY <1>1
<1>4. n + 1 \notin Kept(v) => Upto(n + 1) = Upto(n)
    BY <1>1
<1>5. Cardinality(Upto(n)) \in Nat
    BY <1>1, FS_CardinalityType
<1>6. Cardinality(Upto(n) \cup {n + 1}) = Cardinality(Upto(n)) + 1
    BY <1>1, <1>2, FS_AddElement
<1> QED BY <1>3, <1>4, <1>5, <1>6 DEF KeptUpTo

LEMMA KeptGrows ==
    ASSUME NEW v \in Names, NEW m \in Nat, NEW n \in Nat, m <= n
    PROVE  KeptUpTo(v, m) <= KeptUpTo(v, n)
<1>1. Kept(v) \subseteq Int
    BY KeptIsFinite
<1>2. {i \in Kept(v) : i <= m} \in SUBSET {i \in Kept(v) : i <= n}
    BY <1>1
<1> QED BY <1>2, KeptIsFinite, FS_Subset DEF KeptUpTo

\* The kept positions are numbered from one on, in their order.
LEMMA KeptInOrder ==
    ASSUME NEW v \in Names, NEW j \in Kept(v)
    PROVE  /\ KeptUpTo(v, j) \in Nat \ {0}
           /\ \A i \in Kept(v) : i < j => KeptUpTo(v, i) < KeptUpTo(v, j)
           /\ \A i \in Kept(v) : KeptUpTo(v, i) = KeptUpTo(v, j) => i = j
<1>1. Kept(v) \subseteq Nat \ {0}
    BY KeptIsFinite
<1>2. ASSUME NEW y \in Kept(v)
      PROVE  /\ KeptUpTo(v, y) \in Nat \ {0}
             /\ \A x \in Kept(v) : x < y => KeptUpTo(v, x) < KeptUpTo(v, y)
    <2>1. y \in Nat /\ y - 1 \in Nat /\ y - 1 + 1 = y
        BY <1>1
    <2>2. KeptUpTo(v, y - 1) \in Nat /\ KeptUpTo(v, y) = KeptUpTo(v, y - 1) + 1
        BY <2>1, KeptOneByOne
    <2>3. ASSUME NEW x \in Kept(v), x < y
          PROVE  KeptUpTo(v, x) <= KeptUpTo(v, y - 1) /\ KeptUpTo(v, x) \in Nat
        <3>1. x \in Nat /\ x <= y - 1
            BY <1>1, <2>1, <2>3
        <3> QED BY <2>1, <3>1, KeptGrows, KeptOneByOne
    <2> QED BY <2>2, <2>3
<1>3. ASSUME NEW i \in Kept(v), KeptUpTo(v, i) = KeptUpTo(v, j)
      PROVE  i = j
    <2>1. ~ (i < j) /\ ~ (j < i)
        BY <1>2, <1>3
    <2> QED BY <1>1, <2>1
<1> QED BY <1>2, <1>3

-----------------------------------------------------------------------------
\* What validate_name returns.

\* name has the kept characters of v up to position p, in their order.
HasKept(name, v, p) ==
    /\ name \in Names
    /\ Len(name) = KeptUpTo(v, p)
    /\ \A i \in Kept(v) : i <= p => name[KeptUpTo(v, i)] = v[i]
    /\ \A k \in 1 .. Len(name) :
          \E i \in Kept(v) : i <= p /\ KeptUpTo(v, i) = k

\* The next position is not kept.
LEMMA KeptSkips ==
    ASSUME NEW v \in Names, NEW p \in Nat, NEW name, HasKept(name, v, p),
           p + 1 \notin Kept(v)
    PROVE  HasKept(name, v, p + 1)
<1>1. Kept(v) \subseteq Int
    BY KeptIsFinite
<1>2. \A i \in Kept(v) : i <= p + 1 <=> i <= p
    BY <1>1
<1>3. KeptUpTo(v, p + 1) = KeptUpTo(v, p)
    BY KeptOneByOne
<1> QED BY <1>2, <1>3 DEF HasKept

\* The next position is kept, and appended.
LEMMA KeptAppends ==
    ASSUME NEW v \in Names, NEW p \in Nat, NEW name, HasKept(name, v, p),
           p + 1 \in Kept(v)
    PROVE  HasKept(Append(name, v[p + 1]), v, p + 1)
<1> DEFINE more == Append(name, v[p + 1])
           q == p + 1
<1>1. Kept(v) \subseteq Nat /\ v[q] \in Characters
    <2>1. \A i \in 1 .. Len(v) : v[i] \in Characters
        BY DEF Names
    <2> QED BY <2>1, KeptIsFinite
<1>2. /\ name \in Seq(Characters) /\ Len(name) \in Nat
      /\ Len(name) = KeptUpTo(v, p)
    BY DEF HasKept, Names
<1>3. /\ more \in Names
      /\ Len(more) = Len(name) + 1
      /\ \A i \in 1 .. Len(name) : more[i] = name[i]
      /\ more[Len(name) + 1] = v[q]
    BY <1>1, <1>2, AppendProperties DEF Names
<1>4. KeptUpTo(v, q) = Len(name) + 1
    BY <1>2, KeptOneByOne
<1> HIDE DEF more
<1>5. ASSUME NEW i \in Kept(v), i <= q
      PROVE  more[KeptUpTo(v, i)] = v[i]
    <2>1. CASE i = q
        BY <1>3, <1>4, <2>1
    <2>2. CASE i # q
        <3>1. i \in Nat /\ i <= p
            BY <1>1, <1>5, <2>2
        <3>2. KeptUpTo(v, i) \in 1 .. Len(name)
            BY <1>2, <3>1, KeptGrows, KeptInOrder
        <3> QED BY <1>3, <3>1, <3>2 DEF HasKept
    <2> QED BY <2>1, <2>2
<1>6. ASSUME NEW k \in 1 .. Len(more)
      PROVE  \E i \in Kept(v) : i <= q /\ KeptUpTo(v, i) = k
    <2>1. CASE k = Len(name) + 1
        BY <1>4, <2>1
    <2>2. CASE k # Len(name) + 1
        <3>1. k \in 1 .. Len(name)
            BY <1>2, <1>3, <2>2
        <3>2. PICK i \in Kept(v) : i <= p /\ KeptUpTo(v, i) = k
            BY <3>1 DEF HasKept
        <3>3. i <= q
            BY <1>1, <3>2
        <3> QED BY <3>2, <3>3
    <2> QED BY <2>1, <2>2
<1> HIDE DEF q
<1>7. Len(more) = KeptUpTo(v, q)
    BY <1>3, <1>4
<1>8. HasKept(more, v, q)
    BY <1>3, <1>5, <1>6, <1>7 DEF HasKept
<1> QED BY <1>8 DEF more, q

\* A position between the first inked one and the last is kept exactly if it
\* is inked or follows one that is.
LEMMA KeptBetween ==
    ASSUME NEW v \in Names, NEW a, NEW b, InkedBetween(v, a, b)
    PROVE  /\ a \in Kept(v)
           /\ \A i \in Kept(v) : a <= i /\ i <= b
           /\ \A i \in a + 1 .. b :
                 i \in Kept(v) <=> v[i] # "space" \/ v[i - 1] # "space"
<1>1. /\ Len(v) \in Nat /\ DOMAIN v = 1 .. Len(v)
      /\ a \in 1 .. Len(v) /\ b \in a .. Len(v)
      /\ v[a] # "space" /\ v[b] # "space"
    BY DEF InkedBetween, Names
<1>2. \A i \in 1 .. Len(v) : v[i] # "space" => a <= i /\ i <= b
    <2> SUFFICES ASSUME NEW i \in 1 .. Len(v), v[i] # "space"
                 PROVE  a <= i /\ i <= b
        OBVIOUS
    <2>1. i \notin 1 .. a - 1 /\ i \notin b + 1 .. Len(v)
        BY DEF InkedBetween
    <2> QED BY <1>1, <2>1
<1>3. Inked(v) \subseteq a .. b /\ a \in Inked(v) /\ b \in Inked(v)
    BY <1>1, <1>2 DEF Inked
<1>4. ASSUME NEW i \in Gaps(v)
      PROVE  a <= i /\ i <= b
    <2>1. PICK j \in Inked(v) : i < j
        BY DEF Gaps
    <2>2. i \in 1 .. Len(v) /\ i - 1 \in Inked(v)
        BY <1>1 DEF Gaps
    <2> QED BY <1>1, <1>3, <2>1, <2>2
<1>5. ASSUME NEW i \in a + 1 .. b
      PROVE  i \in Kept(v) <=> v[i] # "space" \/ v[i - 1] # "space"
    <2>1. i \in 1 .. Len(v) /\ i - 1 \in 1 .. Len(v)
        BY <1>1
    <2>2. i \in Inked(v) <=> v[i] # "space"
        BY <1>1, <2>1 DEF Inked
    <2>3. i - 1 \in Inked(v) <=> v[i - 1] # "space"
        BY <1>1, <2>1 DEF Inked
    <2>4. v[i] = "space" => i < b
        BY <1>1
    <2>5. i \in Gaps(v) <=> v[i] = "space" /\ v[i - 1] # "space"
        BY <1>1, <1>3, <2>1, <2>3, <2>4 DEF Gaps
    <2> QED BY <2>2, <2>5 DEF Kept
<1> QED BY <1>1, <1>3, <1>4, <1>5 DEF Kept

\* Cleaned returns the kept characters of a name, in their order.
LEMMA CleanedHasKept ==
    ASSUME NEW v \in Names
    PROVE  HasKept(Cleaned(v), v, Len(v))
<1> DEFINE s == Stripped(v)
<1>1. PICK f : /\ f[0] = << >>
               /\ \A n \in 1 .. Len(s) : f[n] = WithNext(f[n - 1], s[n])
               /\ Cleaned(v) = f[Len(s)]
    BY CleanedByJoining
<1>2. Len(v) \in Nat
    BY DEF Names
<1>3. CASE Inked(v) = {}
    <2>1. s = << >> /\ Cleaned(v) = << >>
        BY <1>1, <1>3, StrippedIs
    <2>2. Kept(v) = {}
        BY <1>3 DEF Kept, Gaps
    <2>3. {i \in Kept(v) : i <= Len(v)} = {}
        BY <2>2
    <2>4. KeptUpTo(v, Len(v)) = 0
        BY <2>3, FS_EmptySet DEF KeptUpTo
    <2> QED BY <2>1, <2>2, <2>4 DEF HasKept, Names
<1>4. CASE Inked(v) # {}
    <2>1. PICK a, b \in 1 .. Len(v) :
            /\ InkedBetween(v, a, b)
            /\ s = [i \in 1 .. b - a + 1 |-> v[a + i - 1]]
        BY <1>4, StrippedIs
    <2> HIDE DEF s
    <2>2. a \in Nat \ {0} /\ b \in Nat \ {0} /\ a <= b /\ b <= Len(v)
        BY <1>2, <2>1 DEF InkedBetween
    <2>3. Len(s) = b - a + 1
        BY <2>1, <2>2
    <2>4. \A i \in 1 .. b - a + 1 : s[i] = v[a + i - 1]
        BY <2>1
    <2> DEFINE Done(n) == /\ HasKept(f[n], v, a + n - 1)
                          /\ n > 0 => Last(f[n]) = v[a + n - 1]
               S == {n \in 0 .. b - a + 1 : Done(n)}
    <2>5. 0 \in S
        <3>1. \A i \in Kept(v) : ~ (i <= a - 1)
            BY <2>1, <2>2, KeptBetween, KeptIsFinite
        <3>2. {i \in Kept(v) : i <= a - 1} = {}
            BY <3>1
        <3>3. KeptUpTo(v, a - 1) = 0
            BY <3>2, FS_EmptySet DEF KeptUpTo
        <3>4. HasKept(<< >>, v, a - 1)
            BY <3>1, <3>3 DEF HasKept, Names
        <3> QED BY <1>1, <2>2, <3>4
    <2>6. ASSUME NEW n \in 0 .. b - a, n \in S
          PROVE  n + 1 \in S
        <3> DEFINE p == a + n - 1
        <3>1. /\ p \in Nat /\ p + 1 = a + (n + 1) - 1
              /\ n + 1 \in 1 .. b - a + 1 /\ n + 1 - 1 = n
              /\ p + 1 \in a .. b
              /\ n = 0 => p + 1 = a
              /\ n # 0 => p + 1 \in a + 1 .. b /\ n > 0
            BY <2>2
        <3>2. HasKept(f[n], v, p) /\ (n > 0 => Last(f[n]) = v[p])
            BY <2>6
        <3>3. s[n + 1] = v[p + 1]
            <4>1. s[n + 1] = v[a + (n + 1) - 1]
                BY <2>4, <3>1
            <4> QED BY <3>1, <4>1
        <3>4. f[n + 1] = WithNext(f[n], v[p + 1])
            BY <1>1, <2>3, <3>1, <3>3
        <3>5. p + 1 \in Kept(v) <=>
                n = 0 \/ v[p + 1] # "space" \/ v[p] # "space"
            BY <2>1, <3>1, KeptBetween
        <3>6. n = 0 => v[p + 1] # "space"
            BY <2>1, <3>1 DEF InkedBetween
        <3> HIDE DEF p
        <3>7. f[n] \in Seq(Characters) /\ Len(f[n]) \in Nat
            BY <3>2 DEF HasKept, Names
        <3>8. CASE p + 1 \in Kept(v)
            <4>1. f[n + 1] = Append(f[n], v[p + 1])
                <5>1. v[p + 1] # "space" \/ (n > 0 /\ v[p] # "space")
                    BY <3>1, <3>5, <3>6, <3>8
                <5> QED BY <3>2, <3>4, <5>1 DEF WithNext
            <4>2. HasKept(f[n + 1], v, p + 1)
                BY <3>1, <3>2, <3>8, <4>1, KeptAppends
            <4>3. Last(f[n + 1]) = v[p + 1]
                <5>1. p + 1 \in 1 .. Len(v)
                    BY <3>8, KeptIsFinite
                <5>2. v[p + 1] \in Characters
                    BY <5>1 DEF Names
                <5> QED BY <3>7, <4>1, <5>2, AppendProperties DEF Last
            <4> QED BY <3>1, <4>2, <4>3
        <3>9. CASE p + 1 \notin Kept(v)
            <4>1. n > 0 /\ v[p + 1] = "space" /\ v[p] = "space"
                BY <3>1, <3>5, <3>9
            <4>2. f[n + 1] = f[n] /\ Last(f[n + 1]) = v[p + 1]
                BY <3>2, <3>4, <4>1 DEF WithNext
            <4>3. HasKept(f[n + 1], v, p + 1)
                BY <3>1, <3>2, <3>9, <4>2, KeptSkips
            <4> QED BY <3>1, <4>2, <4>3
        <3> QED BY <3>8, <3>9
    <2> HIDE DEF S
    <2>7. b - a + 1 \in S
        BY <2>2, <2>5, <2>6, CountingUp
    <2>8. HasKept(Cleaned(v), v, b)
        BY <1>1, <2>2, <2>3, <2>7 DEF S
    <2>9. /\ \A i \in Kept(v) : i <= b /\ i <= Len(v)
          /\ {i \in Kept(v) : i <= b} = {i \in Kept(v) : i <= Len(v)}
        BY <1>2, <2>1, <2>2, KeptBetween, KeptIsFinite
    <2> QED BY <2>8, <2>9 DEF HasKept, KeptUpTo
<1> QED BY <1>3, <1>4

\* The same, for the whole name: its characters are numbered by the kept
\* positions.
LEMMA CleanedIs ==
    ASSUME NEW v \in Names
    PROVE  /\ Cleaned(v) \in Names
           /\ Len(Cleaned(v)) = Cardinality(Kept(v))
           /\ \A i \in Kept(v) : /\ KeptUpTo(v, i) \in 1 .. Len(Cleaned(v))
                                 /\ Cleaned(v)[KeptUpTo(v, i)] = v[i]
           /\ \A k \in 1 .. Len(Cleaned(v)) :
                 \E i \in Kept(v) : KeptUpTo(v, i) = k
<1> DEFINE w == Cleaned(v)
<1>1. HasKept(w, v, Len(v)) /\ Len(v) \in Nat
    BY CleanedHasKept DEF Names
<1> HIDE DEF w
<1>2. \A i \in Kept(v) : i \in Nat /\ i <= Len(v)
    <2>1. \A i \in 1 .. Len(v) : i \in Nat /\ i <= Len(v)
        BY <1>1
    <2> QED BY <2>1, KeptIsFinite
<1>3. {i \in Kept(v) : i <= Len(v)} = Kept(v)
    BY <1>2
<1>4. Len(w) = Cardinality(Kept(v)) /\ Len(w) = KeptUpTo(v, Len(v))
    BY <1>1, <1>3 DEF HasKept, KeptUpTo
<1>5. ASSUME NEW i \in Kept(v)
      PROVE  KeptUpTo(v, i) \in 1 .. Len(w) /\ w[KeptUpTo(v, i)] = v[i]
    <2>1. KeptUpTo(v, i) <= Len(w)
        BY <1>1, <1>2, <1>4, KeptGrows
    <2>2. KeptUpTo(v, i) \in Nat \ {0} /\ Len(w) \in Nat
        BY <1>1, KeptInOrder DEF HasKept, Names
    <2> QED BY <1>1, <1>2, <2>1, <2>2 DEF HasKept
<1>6. \A k \in 1 .. Len(w) : \E i \in Kept(v) : KeptUpTo(v, i) = k
    BY <1>1 DEF HasKept
<1>7. w \in Names
    BY <1>1 DEF HasKept
<1> QED BY <1>4, <1>5, <1>6, <1>7 DEF w

\* Kept positions whose numbers follow each other have no kept one between.
LEMMA NothingBetween ==
    ASSUME NEW v \in Names, NEW i \in Kept(v), NEW j \in Kept(v),
           KeptUpTo(v, j) = KeptUpTo(v, i) + 1
    PROVE  /\ i < j
           /\ \A m \in Kept(v) : ~ (i < m /\ m < j)
<1>1. /\ \A x, y \in Kept(v) : x < y => KeptUpTo(v, x) < KeptUpTo(v, y)
      /\ \A x \in Kept(v) : KeptUpTo(v, x) \in Nat
    BY KeptInOrder
<1>2. i \in Int /\ j \in Int
    BY KeptIsFinite
<1>3. i < j
    <2>1. ~ (j < i) /\ i # j
        BY <1>1
    <2> QED BY <1>2, <2>1
<1>4. ASSUME NEW m \in Kept(v), i < m, m < j
      PROVE  FALSE
    BY <1>1, <1>4
<1> QED BY <1>3, <1>4

\* A gap is next to an inked position on its left, and an inked one follows.
LEMMA GapsAreInside ==
    ASSUME NEW v \in Names, NEW i \in Kept(v), v[i] = "space"
    PROVE  /\ i - 1 \in Kept(v) /\ v[i - 1] # "space"
           /\ \E j \in Kept(v) : i < j
BY DEF Kept, Gaps, Inked

\* validate_name returns single spaces only, and none at an end.
IsClean(w) ==
    /\ w \in Names
    /\ w # << >> => w[1] # "space" /\ w[Len(w)] # "space"
    /\ \A k \in 1 .. Len(w) - 1 : w[k] # "space" \/ w[k + 1] # "space"

LEMMA CleanedIsClean ==
    ASSUME NEW v \in Names
    PROVE  IsClean(Cleaned(v))
<1> DEFINE w == Cleaned(v)
<1>1. /\ w \in Names /\ Len(w) \in Nat
      /\ \A i \in Kept(v) : /\ KeptUpTo(v, i) \in 1 .. Len(w)
                            /\ w[KeptUpTo(v, i)] = v[i]
      /\ \A k \in 1 .. Len(w) : \E i \in Kept(v) : KeptUpTo(v, i) = k
    BY CleanedIs DEF Names
<1> HIDE DEF w
<1>2. Kept(v) \subseteq Int
    BY KeptIsFinite
<1>3. ASSUME w # << >>
      PROVE  w[1] # "space" /\ w[Len(w)] # "space"
    <2>1. 1 \in 1 .. Len(w) /\ Len(w) \in 1 .. Len(w)
        BY <1>1, <1>3, EmptySeq DEF Names
    <2>2. PICK i \in Kept(v) : KeptUpTo(v, i) = 1
        BY <1>1, <2>1
    <2>3. v[i] # "space"
        <3> SUFFICES ASSUME v[i] = "space"
                     PROVE  FALSE
            OBVIOUS
        <3>1. i - 1 \in Kept(v) /\ i - 1 < i
            BY <1>2, GapsAreInside
        <3>2. KeptUpTo(v, i - 1) < 1
            BY <2>2, <3>1, KeptInOrder
        <3> QED BY <1>1, <3>1, <3>2
    <2>4. PICK j \in Kept(v) : KeptUpTo(v, j) = Len(w)
        BY <1>1, <2>1
    <2>5. v[j] # "space"
        <3> SUFFICES ASSUME v[j] = "space"
                     PROVE  FALSE
            OBVIOUS
        <3>1. PICK m \in Kept(v) : j < m
            BY GapsAreInside
        <3>2. Len(w) < KeptUpTo(v, m)
            BY <2>4, <3>1, KeptInOrder
        <3> QED BY <1>1, <3>1, <3>2
    <2> QED BY <1>1, <2>2, <2>3, <2>4, <2>5
<1>4. ASSUME NEW k \in 1 .. Len(w) - 1, w[k] = "space", w[k + 1] = "space"
      PROVE  FALSE
    <2>1. k \in 1 .. Len(w) /\ k + 1 \in 1 .. Len(w)
        BY <1>1
    <2>2. PICK i \in Kept(v) : KeptUpTo(v, i) = k
        BY <1>1, <2>1
    <2>3. PICK j \in Kept(v) : KeptUpTo(v, j) = k + 1
        BY <1>1, <2>1
    <2>4. v[i] = "space" /\ v[j] = "space"
        BY <1>1, <1>4, <2>2, <2>3
    <2>5. i < j /\ \A m \in Kept(v) : ~ (i < m /\ m < j)
        BY <2>2, <2>3, NothingBetween
    <2>6. j - 1 \in Kept(v) /\ v[j - 1] # "space"
        BY <2>4, GapsAreInside
    <2> QED BY <1>2, <2>4, <2>5, <2>6
<1>5. IsClean(w)
    BY <1>1, <1>3, <1>4 DEF IsClean
<1> QED BY <1>5 DEF w

\* A clean name is kept as it is.
LEMMA CleanIsKept ==
    ASSUME NEW w, IsClean(w)
    PROVE  Cleaned(w) = w
<1>1. w \in Names /\ Len(w) \in Nat /\ DOMAIN w = 1 .. Len(w)
    BY DEF IsClean, Names
<1>2. ASSUME NEW i \in 1 .. Len(w)
      PROVE  i \in Kept(w)
    <2>1. CASE w[i] # "space"
        BY <1>1, <2>1 DEF Kept, Inked
    <2>2. CASE w[i] = "space"
        <3>1. w # << >>
            BY <1>1, EmptySeq DEF Names
        <3>2. i # 1 /\ i # Len(w) /\ w[Len(w)] # "space"
            BY <2>2, <3>1 DEF IsClean
        <3>3. /\ i - 1 \in 1 .. Len(w) - 1 /\ i - 1 + 1 = i
              /\ i - 1 \in 1 .. Len(w)
              /\ Len(w) \in 1 .. Len(w) /\ i < Len(w)
            <4>1. i # 1 /\ i # Len(w) /\ Len(w) \in Nat
                BY <1>1, <3>2
            <4> QED BY <4>1
        <3>4. w[i - 1] # "space"
            BY <2>2, <3>3 DEF IsClean
        <3>5. i - 1 \in Inked(w) /\ Len(w) \in Inked(w)
            BY <1>1, <3>2, <3>3, <3>4 DEF Inked
        <3> QED BY <1>1, <2>2, <3>3, <3>5 DEF Kept, Gaps
    <2> QED BY <2>1, <2>2
<1>3. Kept(w) = 1 .. Len(w)
    BY <1>1, <1>2, KeptIsFinite
<1>4. ASSUME NEW i \in 1 .. Len(w)
      PROVE  KeptUpTo(w, i) = i
    <2>1. {j \in Kept(w) : j <= i} = 1 .. i
        BY <1>1, <1>3
    <2>2. Cardinality(1 .. i) = i
        BY FS_Interval
    <2> QED BY <2>1, <2>2 DEF KeptUpTo
<1>5. Cardinality(Kept(w)) = Len(w)
    <2>1. Cardinality(1 .. Len(w)) = IF 1 > Len(w) THEN 0 ELSE Len(w) - 1 + 1
        BY <1>1, FS_Interval
    <2> QED BY <1>1, <1>3, <2>1
<1>6. /\ Cleaned(w) \in Names /\ Len(Cleaned(w)) = Len(w)
      /\ \A i \in 1 .. Len(w) : Cleaned(w)[i] = w[i]
    BY <1>3, <1>4, <1>5, <1>1, CleanedIs
<1> QED BY <1>1, <1>6, SeqEqual DEF Names

\* What validate_name returned, it returns when it is given that again.
LEMMA CleanedTwice ==
    ASSUME NEW v \in Names
    PROVE  Cleaned(Cleaned(v)) = Cleaned(v)
BY CleanedIsClean, CleanIsKept

\* What extract_sync_form_data strips makes no difference to validate_name.
LEMMA CleanedOfStripped ==
    ASSUME NEW v \in Names
    PROVE  Cleaned(Stripped(v)) = Cleaned(v)
BY StrippedTwice DEF Cleaned

\* What validate_name returns depends on the words alone.
LEMMA CleanedIsTheName ==
    ASSUME NEW v \in Names
    PROVE  Cleaned(v) = NameOf(v)
<1> DEFINE w == Cleaned(v)
<1>1. /\ w \in Names /\ Len(w) \in Nat /\ DOMAIN w = 1 .. Len(w)
      /\ Len(w) = Cardinality(Kept(v))
      /\ \A i \in Kept(v) : w[KeptUpTo(v, i)] = v[i]
      /\ \A k \in 1 .. Len(w) : \E i \in Kept(v) : KeptUpTo(v, i) = k
    BY CleanedIs DEF Names
<1> HIDE DEF w
<1>2. ASSUME NEW k \in 1 .. Len(w)
      PROVE  w[k] = v[CHOOSE i \in Kept(v) : KeptUpTo(v, i) = k]
    BY <1>1
<1>3. w = [k \in 1 .. Len(w) |-> w[k]]
    BY <1>1 DEF Names
<1> QED BY <1>1, <1>2, <1>3 DEF w, NameOf

-----------------------------------------------------------------------------
\* Which names validate_name accepts.

\* The first character of what it returns is the first inked one.
LEMMA FirstIsFirst ==
    ASSUME NEW v \in Names, Cleaned(v) # << >>
    PROVE  \E i \in Inked(v) :
              /\ \A j \in Inked(v) : i <= j
              /\ Head(Cleaned(v)) = v[i]
<1> DEFINE w == Cleaned(v)
<1>1. /\ w \in Names /\ Len(w) \in Nat
      /\ \A i \in Kept(v) : w[KeptUpTo(v, i)] = v[i]
      /\ \A k \in 1 .. Len(w) : \E i \in Kept(v) : KeptUpTo(v, i) = k
      /\ w[1] # "space" /\ Head(w) = w[1]
    BY CleanedIs, CleanedIsClean DEF Names, IsClean
<1>2. 1 \in 1 .. Len(w)
    BY <1>1, EmptySeq DEF Names
<1> HIDE DEF w
<1>3. PICK i \in Kept(v) : KeptUpTo(v, i) = 1
    BY <1>1, <1>2
<1>4. i \in Inked(v) /\ v[i] = w[1]
    BY <1>1, <1>3 DEF Kept, Gaps
<1>5. Inked(v) \subseteq Kept(v) /\ Kept(v) \subseteq Int
    <2>1. Inked(v) \subseteq Kept(v)
        BY DEF Kept
    <2> QED BY <2>1, KeptIsFinite
<1>6. ASSUME NEW j \in Inked(v)
      PROVE  i <= j
    <2>1. KeptUpTo(v, j) \in Nat \ {0} /\ (j < i => KeptUpTo(v, j) < 1)
        BY <1>3, <1>5, KeptInOrder
    <2>2. ~ (j < i)
        BY <2>1
    <2> QED BY <1>5, <2>2
<1> QED BY <1>1, <1>4, <1>6 DEF w

\* Neighbours in what it returns that are not spaces were neighbours.
LEMMA NeighboursAreNeighbours ==
    ASSUME NEW v \in Names
    PROVE  HasDoublePunctuation(Cleaned(v)) <=>
              \E i \in Inked(v) :
                 i + 1 \in Inked(v) /\ AreDouble(v[i], v[i + 1])
<1> DEFINE w == Cleaned(v)
<1>1. /\ w \in Names /\ Len(w) \in Nat
      /\ \A i \in Kept(v) : /\ KeptUpTo(v, i) \in 1 .. Len(w)
                            /\ w[KeptUpTo(v, i)] = v[i]
      /\ \A k \in 1 .. Len(w) : \E i \in Kept(v) : KeptUpTo(v, i) = k
    BY CleanedIs DEF Names
<1> HIDE DEF w
<1>2. /\ Inked(v) \subseteq Kept(v) /\ Kept(v) \subseteq 1 .. Len(v)
      /\ Len(v) \in Nat /\ DOMAIN v = 1 .. Len(v)
    <2>1. Inked(v) \subseteq Kept(v)
        BY DEF Kept
    <2> QED BY <2>1, KeptIsFinite DEF Names
<1>3. ASSUME HasDoublePunctuation(w)
      PROVE  \E i \in Inked(v) : i + 1 \in Inked(v) /\ AreDouble(v[i], v[i + 1])
    <2>1. PICK k \in 1 .. Len(w) - 1 : AreDouble(w[k], w[k + 1])
        BY <1>3 DEF HasDoublePunctuation
    <2>2. k \in 1 .. Len(w) /\ k + 1 \in 1 .. Len(w)
        BY <1>1
    <2>3. PICK i \in Kept(v) : KeptUpTo(v, i) = k
        BY <1>1, <2>2
    <2>4. PICK j \in Kept(v) : KeptUpTo(v, j) = k + 1
        BY <1>1, <2>2
    <2>5. AreDouble(v[i], v[j])
        BY <1>1, <2>1, <2>3, <2>4
    <2>6. i \in Inked(v) /\ j \in Inked(v)
        BY <2>5 DEF AreDouble, Kept, Gaps
    <2>7. i < j /\ \A m \in Kept(v) : ~ (i < m /\ m < j)
        BY <2>3, <2>4, NothingBetween
    <2>8. j = i + 1
        <3> SUFFICES ASSUME j # i + 1
                     PROVE  FALSE
            OBVIOUS
        <3>1. /\ i \in 1 .. Len(v) /\ j \in 1 .. Len(v)
              /\ i + 1 < j /\ i < i + 1
            BY <1>2, <2>7
        <3>2. i + 1 \in DOMAIN v /\ i + 1 - 1 = i
            BY <1>2, <3>1
        <3>3. i + 1 \in Kept(v)
            BY <2>6, <3>1, <3>2 DEF Kept, Gaps, Inked
        <3> QED BY <2>7, <3>1, <3>3
    <2> QED BY <2>5, <2>6, <2>8
<1>4. ASSUME NEW i \in Inked(v), i + 1 \in Inked(v), AreDouble(v[i], v[i + 1])
      PROVE  HasDoublePunctuation(w)
    <2>1. i \in Kept(v) /\ i + 1 \in Kept(v) /\ i \in Nat
        BY <1>2, <1>4
    <2>2. KeptUpTo(v, i + 1) = KeptUpTo(v, i) + 1
        BY <2>1, KeptOneByOne
    <2> DEFINE k == KeptUpTo(v, i)
    <2>3. k \in 1 .. Len(w) /\ k + 1 \in 1 .. Len(w)
          /\ w[k] = v[i] /\ w[k + 1] = v[i + 1]
        BY <1>1, <2>1, <2>2
    <2> HIDE DEF k
    <2>4. k \in 1 .. Len(w) - 1
        BY <1>1, <2>3
    <2>5. AreDouble(w[k], w[k + 1])
        BY <1>4, <2>3
    <2> QED BY <2>4, <2>5 DEF HasDoublePunctuation
<1> QED BY <1>3, <1>4 DEF w

\* validate_name accepts exactly the names that meet the description.
LEMMA ValidNamesAreNames ==
    ASSUME NEW v \in Names
    PROVE  ValidName(v) <=> IsName(v)
<1> DEFINE w == Cleaned(v)
<1>1. /\ w \in Names /\ Len(w) \in Nat /\ DOMAIN w = 1 .. Len(w)
      /\ Len(w) = Cardinality(Kept(v))
      /\ \A i \in Kept(v) : /\ KeptUpTo(v, i) \in 1 .. Len(w)
                            /\ w[KeptUpTo(v, i)] = v[i]
      /\ \A k \in 1 .. Len(w) : \E i \in Kept(v) : KeptUpTo(v, i) = k
    BY CleanedIs DEF Names
<1>2. HasDoublePunctuation(w) <=>
        \E i \in Inked(v) : i + 1 \in Inked(v) /\ AreDouble(v[i], v[i + 1])
    BY NeighboursAreNeighbours
<1>3. w # << >> =>
        \E i \in Inked(v) : /\ \A j \in Inked(v) : i <= j
                            /\ Head(w) = v[i]
    BY FirstIsFirst
<1> HIDE DEF w
<1>4. Inked(v) \subseteq Int
    BY DEF Inked, Names
<1>5. (\A k \in DOMAIN w : w[k] # "other") <=>
        \A i \in Inked(v) : v[i] # "other"
    BY <1>1 DEF Kept, Gaps
<1>6. ASSUME w # << >>
      PROVE  Head(w) = "letter" <=>
                \A i \in Inked(v) :
                    (\A j \in Inked(v) : i <= j) => v[i] = "letter"
    <2>1. PICK a \in Inked(v) : /\ \A j \in Inked(v) : a <= j
                                /\ Head(w) = v[a]
        BY <1>3, <1>6
    <2>2. ASSUME NEW i \in Inked(v), \A j \in Inked(v) : i <= j
          PROVE  i = a
        <3>1. i <= a /\ a <= i
            BY <2>1, <2>2
        <3> QED BY <1>4, <3>1
    <2> QED BY <2>1, <2>2
<1>7. Len(w) \in MIN_NAME_LENGTH .. MAX_NAME_LENGTH <=>
        /\ w # << >>
        /\ Len(w) >= MIN_NAME_LENGTH
        /\ Len(w) <= MAX_NAME_LENGTH
    BY <1>1, ValidationAssumption
<1>8. ValidName(v) <=>
        /\ Len(w) \in MIN_NAME_LENGTH .. MAX_NAME_LENGTH
        /\ MatchesPattern(w)
        /\ ~HasDoublePunctuation(w)
    BY <1>7 DEF ValidName, w
<1>9. Len(w) \in MIN_NAME_LENGTH .. MAX_NAME_LENGTH => w # << >>
    BY <1>7
<1> QED BY <1>1, <1>2, <1>5, <1>6, <1>8, <1>9 DEF IsName, MatchesPattern

-----------------------------------------------------------------------------
\* The two validations of a form.

Fields == [honeypot : BOOLEAN, first_name : Names, last_name : Names,
           email : Emails \cup DOMAIN Canonical]

LEMMA FormsHaveNames ==
    ASSUME NEW form \in Forms
    PROVE  form \in Fields
BY ValidationAssumption DEF Forms, Fields, Names

\* The values that validate_submission_payload returns, it accepts and
\* returns again.
LEMMA NormalizedIsValid ==
    ASSUME NEW form \in Fields, ValidForm(form)
    PROVE  /\ Normalized(form) \in Fields
           /\ ValidForm(Normalized(form))
           /\ Normalized(Normalized(form)) = Normalized(form)
<1> DEFINE normal == Normalized(form)
           first == form.first_name
           second == form.last_name
           e == form.email
<1>1. first \in Names /\ second \in Names /\ ValidEmail(e)
      /\ ValidName(first) /\ ValidName(second)
    BY DEF Fields, ValidForm
<1>2. /\ normal.honeypot = FALSE
      /\ normal.first_name = Cleaned(first)
      /\ normal.last_name = Cleaned(second)
      /\ normal.email = Canonical[e]
    BY DEF Normalized
<1>3. ASSUME NEW v \in Names, ValidName(v)
      PROVE  /\ Cleaned(v) \in Names
             /\ Cleaned(Cleaned(v)) = Cleaned(v)
             /\ ValidName(Cleaned(v))
    BY <1>3, CleanedIs, CleanedTwice DEF ValidName
<1>4. /\ Canonical[e] \in DOMAIN Canonical
      /\ Canonical[Canonical[e]] = Canonical[e]
      /\ ValidEmail(Canonical[e])
    BY <1>1, ValidationAssumption DEF ValidEmail
<1>5. normal \in Fields
    BY <1>1, <1>3, <1>4 DEF Fields, Normalized
<1>6. Normalized(normal) = normal
    BY <1>1, <1>3, <1>4 DEF Normalized
<1> HIDE DEF normal
<1>7. ValidForm(normal)
    BY <1>1, <1>2, <1>3, <1>4 DEF ValidForm
<1> QED BY <1>5, <1>6, <1>7 DEF normal

\* It treats a form that extract_sync_form_data stripped like the form itself.
LEMMA ExtractedIsTheSame ==
    ASSUME NEW form \in Fields
    PROVE  /\ Normalized(ExtractedByFlask(form)) = Normalized(form)
           /\ ValidForm(ExtractedByFlask(form)) <=> ValidForm(form)
<1> DEFINE other == ExtractedByFlask(form)
<1>1. form.first_name \in Names /\ form.last_name \in Names
    BY DEF Fields
<1>2. /\ other.honeypot = form.honeypot
      /\ other.first_name = Stripped(form.first_name)
      /\ other.last_name = Stripped(form.last_name)
      /\ other.email = form.email
    BY DEF ExtractedByFlask, Fields
<1> HIDE DEF other
<1>3. \A v \in Names : /\ Cleaned(Stripped(v)) = Cleaned(v)
                       /\ ValidName(Stripped(v)) <=> ValidName(v)
    BY CleanedOfStripped DEF ValidName
<1>4. Normalized(other) = Normalized(form)
    BY <1>1, <1>2, <1>3 DEF Normalized
<1>5. ValidForm(other) <=> ValidForm(form)
    BY <1>1, <1>2, <1>3 DEF ValidForm
<1> QED BY <1>4, <1>5 DEF other

\* Whatever was accepted or refused was so for the fields as they were typed,
\* and the worker's validation changes nothing.
ValidationInv ==
    /\ typed \in Forms
    /\ stage \in {"posted", "refused", "enqueued", "saved"}
    /\ stage = "posted" => payload \in {typed, ExtractedByFlask(typed)}
    /\ stage \in {"posted", "refused"} => enqueued = << >>
    /\ stage = "refused" => ~ValidForm(typed)
    /\ stage \in {"enqueued", "saved"} =>
          /\ ValidForm(typed)
          /\ payload = Normalized(typed)
          /\ enqueued = Normalized(typed)

\* The inductive invariant of the two validations.
THEOREM Invariant == Spec => []ValidationInv
<1>1. Init => ValidationInv
    BY DEF Init, ValidationInv
<1>2. ValidationInv /\ [Next]_vars => ValidationInv'
    <2> SUFFICES ASSUME ValidationInv, [Next]_vars
                 PROVE  ValidationInv'
        OBVIOUS
    <2>1. typed \in Fields
        BY FormsHaveNames DEF ValidationInv
    <2>2. CASE Request
        <3>1. /\ ValidForm(payload) <=> ValidForm(typed)
              /\ Normalized(payload) = Normalized(typed)
              /\ enqueued = << >>
            BY <2>1, <2>2, ExtractedIsTheSame DEF ValidationInv, Request
        <3> QED BY <2>2, <3>1 DEF ValidationInv, Request
    <2>3. CASE Worker
        <3>1. /\ payload = Normalized(typed) /\ ValidForm(typed)
              /\ enqueued = Normalized(typed)
            BY <2>3 DEF ValidationInv, Worker
        <3>2. ValidForm(payload) /\ Normalized(payload) = payload
            BY <2>1, <3>1, NormalizedIsValid
        <3>3. stage' = "saved" /\ payload' = payload
              /\ UNCHANGED <<typed, enqueued>>
            BY <2>3, <3>2 DEF Worker
        <3> QED BY <3>1, <3>3 DEF ValidationInv
    <2>4. CASE UNCHANGED vars
        BY <2>4 DEF ValidationInv, vars
    <2> QED BY <2>2, <2>3, <2>4 DEF Next, Finished
<1> QED BY <1>1, <1>2, PTL DEF Spec

\* A form is refused exactly if a field does not meet the description of what
\* a name or an address is, for names of any length.
THEOREM VerdictsAreRight == Spec => []VerdictIsRight
<1>1. ValidationInv => VerdictIsRight
    <2> SUFFICES ASSUME ValidationInv, stage # "posted"
                 PROVE  stage # "refused" <=>
                            /\ ~typed.honeypot
                            /\ IsName(typed.first_name)
                            /\ IsName(typed.last_name)
                            /\ typed.email \in DOMAIN Canonical
                            /\ typed.email \notin {BlankEmail} \cup LongEmails
                                                       \cup DisposableEmails
        BY DEF VerdictIsRight
    <2>1. stage # "refused" <=> ValidForm(typed)
        BY DEF ValidationInv
    <2>2. typed.first_name \in Names /\ typed.last_name \in Names
        BY FormsHaveNames DEF ValidationInv, Fields
    <2>3. /\ ValidName(typed.first_name) <=> IsName(typed.first_name)
          /\ ValidName(typed.last_name) <=> IsName(typed.last_name)
        BY <2>2, ValidNamesAreNames
    <2> QED BY <2>1, <2>3 DEF ValidForm, ValidEmail
<1> QED BY <1>1, Invariant, PTL

\* The names that are fingerprinted depend on the words alone: one form with
\* its white space arranged otherwise is one request.
THEOREM SpacingHasNoEffect == Spec => []SpacingIsForgotten
<1>1. ValidationInv => SpacingIsForgotten
    <2> SUFFICES ASSUME ValidationInv, enqueued # << >>
                 PROVE  /\ enqueued.first_name = NameOf(typed.first_name)
                        /\ enqueued.last_name = NameOf(typed.last_name)
        BY DEF SpacingIsForgotten
    <2>1. enqueued = Normalized(typed)
        BY DEF ValidationInv
    <2>2. typed.first_name \in Names /\ typed.last_name \in Names
        BY FormsHaveNames DEF ValidationInv, Fields
    <2> QED BY <2>1, <2>2, CleanedIsTheName DEF Normalized
<1> QED BY <1>1, Invariant, PTL

\* No accepted submission fails in the worker's validation, and the values it
\* saves are those that were fingerprinted.
THEOREM WorkersAgree == Spec => []WorkerAgrees
<1>1. ValidationInv => WorkerAgrees
    BY DEF ValidationInv, WorkerAgrees
<1> QED BY <1>1, Invariant, PTL

=============================================================================
