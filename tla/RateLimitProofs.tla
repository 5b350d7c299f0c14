-------------------------- MODULE RateLimitProofs --------------------------
(***************************************************************************)
(* Proofs about RateLimit, for any number of processes, any limit and any  *)
(* window.  What a step does to the watched store's window and to the      *)
(* requests that passed it is said once, of values (a window and ages);    *)
(* the invariant follows store by store.                                   *)
(***************************************************************************)
EXTENDS RateLimit, SequenceTheorems, WellFoundedInduction, TLAPS

Ages == Seq(0 .. Window - 1)

Windows == [count : Counts, left : 0 .. Window \cup {NoExpiry}]

Sorted(ages) == \A i, j \in DOMAIN ages : i < j => ages[j] <= ages[i]

\* A set of numbers that is not empty has a least element.
LEMMA LeastElement ==
    ASSUME NEW S \in SUBSET Nat, S # {}
    PROVE  \E m \in S : \A n \in S : m <= n
<1>1. IsWellFoundedOn(OpToRel(<, Nat), Nat)
    BY NatLessThanWellFounded
<1>2. PICK m \in S : \A n \in S : ~ (<<n, m>> \in OpToRel(<, Nat))
    BY <1>1, WFMin
<1>3. \A n \in S : ~ (n < m)
    BY <1>2 DEF OpToRel
<1> QED BY <1>3

\* A second later the d oldest requests are out of the window.
LEMMA AgesGrow ==
    ASSUME NEW ages \in Ages, Sorted(ages)
    PROVE  /\ Older(ages) \in Ages
           /\ Sorted(Older(ages))
           /\ \E d \in 0 .. Len(ages) :
                 /\ Len(Older(ages)) = Len(ages) - d
                 /\ \A i \in 1 .. Len(ages) - d :
                       Older(ages)[i] = ages[d + i] + 1
                 /\ \A i \in 1 .. d : ages[i] + 1 >= Window
<1> DEFINE young == {i \in DOMAIN ages : ages[i] + 1 < Window}
           first == CHOOSE i \in young : \A j \in young : i <= j
<1>1. /\ Window \in Nat \ {0}
      /\ Len(ages) \in Nat
      /\ DOMAIN ages = 1 .. Len(ages)
      /\ \A i \in 1 .. Len(ages) : ages[i] \in 0 .. Window - 1
    BY RateLimitAssumption DEF Ages
<1>2. CASE young = {}
    <2>1. Older(ages) = << >>
        BY <1>2 DEF Older
    <2>2. /\ << >> \in Ages
          /\ Sorted(<< >>)
          /\ Len(<< >>) = Len(ages) - Len(ages)
        BY <1>1 DEF Ages, Sorted
    <2>3. \A i \in 1 .. Len(ages) : ages[i] + 1 >= Window
        BY <1>1, <1>2
    <2>4. Len(ages) \in 0 .. Len(ages) /\ 1 .. Len(ages) - Len(ages) = {}
        BY <1>1
    <2> QED BY <2>1, <2>2, <2>3, <2>4
<1>3. CASE young # {}
    <2>1. first \in young /\ \A j \in young : first <= j
        <3> HIDE DEF young
        <3>1. young \in SUBSET Nat
            BY <1>1 DEF young
        <3>2. \E i \in young : \A j \in young : i <= j
            BY <1>3, <3>1, LeastElement
        <3> QED BY <3>2
    <2>2. first \in 1 .. Len(ages) /\ ages[first] + 1 < Window
        BY <1>1, <2>1
    <2>3. Older(ages) = [i \in 1 .. Len(ages) - first + 1 |->
                           ages[first + i - 1] + 1]
        BY <1>3 DEF Older
    <2> HIDE DEF young, first
    <2>4. \A i \in 1 .. first - 1 : ages[i] + 1 >= Window
        BY <1>1, <2>1, <2>2 DEF young
    <2>5. \A i \in first .. Len(ages) : ages[i] + 1 < Window
        <3> SUFFICES ASSUME NEW i \in first .. Len(ages)
                     PROVE  ages[i] + 1 < Window
            OBVIOUS
        <3>1. i \in 1 .. Len(ages) /\ (i = first \/ first < i)
            BY <1>1, <2>2
        <3>2. ages[i] <= ages[first]
            BY <1>1, <2>2, <3>1 DEF Sorted
        <3>3. ages[i] \in Int /\ ages[first] \in Int
            BY <1>1, <2>2, <3>1
        <3> QED BY <1>1, <2>2, <3>2, <3>3
    <2> DEFINE d == first - 1
               older == [i \in 1 .. Len(ages) - d |-> ages[d + i] + 1]
    <2>6. Older(ages) = older /\ d \in 0 .. Len(ages)
        <3>1. Len(ages) - first + 1 = Len(ages) - d
            BY <1>1, <2>2
        <3>2. \A i \in 1 .. Len(ages) - d : first + i - 1 = d + i
            BY <1>1, <2>2
        <3> QED BY <1>1, <2>2, <2>3, <3>1, <3>2
    <2>7. \A i \in 1 .. Len(ages) - d : older[i] \in 0 .. Window - 1
        <3> SUFFICES ASSUME NEW i \in 1 .. Len(ages) - d
                     PROVE  ages[d + i] + 1 \in 0 .. Window - 1
            OBVIOUS
        <3>1. d + i \in 1 .. Len(ages) /\ d + i \in first .. Len(ages)
            BY <1>1, <2>2
        <3>2. ages[d + i] \in 0 .. Window - 1 /\ ages[d + i] + 1 < Window
            BY <1>1, <2>5, <3>1
        <3> QED BY <1>1, <3>2
    <2>8. older \in Seq(0 .. Window - 1) /\ Len(older) = Len(ages) - d
        <3>1. Len(ages) - d \in Nat
            BY <1>1, <2>6
        <3>2. older \in [1 .. Len(ages) - d -> 0 .. Window - 1]
            BY <2>7
        <3>3. older \in Seq(0 .. Window - 1)
            BY ZenonT(40), <3>1, <3>2, SeqDef
        <3> QED BY <3>1, <3>2, <3>3, LenProperties
    <2>9. Sorted(older)
        <3> SUFFICES ASSUME NEW i \in 1 .. Len(ages) - d,
                            NEW j \in 1 .. Len(ages) - d,
                            i < j
                     PROVE  ages[d + j] + 1 <= ages[d + i] + 1
            BY DEF Sorted
        <3>1. /\ d + i \in 1 .. Len(ages)
              /\ d + j \in 1 .. Len(ages)
              /\ d + i < d + j
            BY <1>1, <2>6
        <3>2. ages[d + j] <= ages[d + i]
            BY <1>1, <3>1 DEF Sorted
        <3> QED BY <1>1, <3>1, <3>2
    <2>10. \A i \in 1 .. d : ages[i] + 1 >= Window
        BY <1>1, <2>2, <2>4
    <2> QED BY <2>6, <2>8, <2>9, <2>10 DEF Ages
<1> QED BY <1>2, <1>3

-----------------------------------------------------------------------------
\* One window and the requests that passed it.

LEMMA Numbers ==
    /\ Limit \in Nat \ {0}
    /\ Window \in Nat \ {0}
    /\ NoExpiry = -1
    /\ \A n \in Counts : /\ OneMore(n) \in Counts
                         /\ OneMore(n) > 0
                         /\ Within(n) \in 0 .. Limit
                         /\ n > 0 => Within(n) > 0
                         /\ Within(OneMore(n)) = IF OneMore(n) <= Limit
                                                 THEN Within(n) + 1
                                                 ELSE Within(n)
    /\ 1 \in Counts /\ Within(1) = 1 /\ OneMore(0) = 1
    BY RateLimitAssumption DEF NoExpiry, Counts, OneMore, Within

\* A request passes.
LEMMA RequestPasses ==
    ASSUME NEW ages \in Ages, Sorted(ages)
    PROVE  /\ Append(ages, 0) \in Ages
           /\ Sorted(Append(ages, 0))
           /\ Len(Append(ages, 0)) = Len(ages) + 1
           /\ \A i \in 1 .. Len(ages) : Append(ages, 0)[i] = ages[i]
           /\ Append(ages, 0)[Len(ages) + 1] = 0
<1>1. 0 \in 0 .. Window - 1
    BY Numbers
<1>2. /\ Append(ages, 0) \in Ages
      /\ Len(Append(ages, 0)) = Len(ages) + 1
      /\ \A i \in 1 .. Len(ages) : Append(ages, 0)[i] = ages[i]
      /\ Append(ages, 0)[Len(ages) + 1] = 0
    BY <1>1, AppendProperties DEF Ages
<1>3. Sorted(Append(ages, 0))
    <2>1. /\ Len(ages) \in Nat
          /\ DOMAIN ages = 1 .. Len(ages)
          /\ DOMAIN Append(ages, 0) = 1 .. Len(ages) + 1
          /\ \A i \in 1 .. Len(ages) : ages[i] \in 0 .. Window - 1
        BY <1>2, LenProperties DEF Ages
    <2> QED BY <1>2, <2>1, Numbers DEF Sorted
<1> QED BY <1>2, <1>3

\* The first request of a window: the ones before it were fewer than the limit.
LEMMA WindowStarts ==
    ASSUME NEW ages \in Ages, Sorted(ages), NEW w, ~IsOpen(w),
           FewPassed(w, ages), NEW left \in {NoExpiry, Window}
    PROVE  LET start == [count |-> 1, left |-> left]
           IN  /\ FewPassed(start, Append(ages, 0))
               /\ FewPassed(start, ages)
               /\ AllPassed(start, Append(ages, 0))
<1> DEFINE start == [count |-> 1, left |-> left]
           longer == Append(ages, 0)
<1>1. /\ Len(ages) \in Nat
      /\ Len(ages) < Limit
      /\ \A i \in 1 .. Len(ages) : ages[i] \in 0 .. Window - 1
    BY LenProperties DEF Ages, FewPassed
<1>2. /\ Len(longer) = Len(ages) + 1
      /\ \A i \in 1 .. Len(longer) : longer[i] \in 0 .. Window - 1
      /\ longer[Len(longer)] = 0
    BY RequestPasses, LenProperties DEF Ages
<1>3. start.left # 0 /\ start.left \in {NoExpiry, Window} /\ Within(start.count) = 1
    BY Numbers
<1> HIDE DEF start, longer
<1>4. FewPassed(start, ages)
    <2>1. Len(ages) \in 0 .. Len(ages) /\ Len(ages) - Len(ages) < 1
        BY <1>1
    <2>2. start.left # NoExpiry =>
             \A i \in 1 .. Len(ages) : ages[i] + start.left >= Window
        BY <1>1, <1>3, Numbers
    <2> QED BY <1>1, <1>3, <2>1, <2>2, Numbers DEF FewPassed, IsOpen
<1>5. FewPassed(start, longer)
    <2>1. Len(longer) \in 0 .. Len(longer) /\ Len(longer) - Len(longer) < 1
        BY <1>1, <1>2
    <2>2. start.left # NoExpiry =>
             \A i \in 1 .. Len(longer) : longer[i] + start.left >= Window
        BY <1>2, <1>3, Numbers
    <2>3. Len(longer) < Limit + 1
        BY <1>1, <1>2, Numbers
    <2> QED BY <1>3, <2>1, <2>2, <2>3 DEF FewPassed, IsOpen
<1>6. AllPassed(start, longer)
    <2>1. /\ Len(ages) \in 0 .. Len(longer)
          /\ Len(longer) - Len(ages) >= 1
          /\ \A i \in Len(ages) + 1 .. Len(longer) : i = Len(longer)
        BY <1>1, <1>2
    <2>2. \A i \in Len(ages) + 1 .. Len(longer) :
             longer[i] + start.left <= Window
        BY <1>2, <1>3, <2>1, Numbers
    <2> QED BY <1>3, <2>1, <2>2 DEF AllPassed
<1> QED BY <1>4, <1>5, <1>6 DEF start, longer

\* A later one: it passes if its number is within the limit.
LEMMA WindowCounts ==
    ASSUME NEW ages \in Ages, Sorted(ages), NEW w \in Windows, IsOpen(w),
           FewPassed(w, ages)
    PROVE  LET counted == [w EXCEPT !.count = OneMore(@)]
               longer == IF counted.count <= Limit THEN Append(ages, 0) ELSE ages
           IN  /\ FewPassed(counted, longer)
               /\ FewPassed(counted, ages)
               /\ AllPassed(w, ages) => AllPassed(counted, longer)
<1> DEFINE counted == [w EXCEPT !.count = OneMore(@)]
           longer == IF counted.count <= Limit THEN Append(ages, 0) ELSE ages
           n == Within(w.count)
<1>1. /\ w.count \in Counts
      /\ w.left \in 0 .. Window \cup {NoExpiry}
      /\ counted.count = OneMore(w.count)
      /\ counted.left = w.left
      /\ w.left # 0
    BY DEF Windows, IsOpen
<1>2. /\ Len(ages) \in Nat
      /\ n \in 0 .. Limit
      /\ Within(counted.count) = IF counted.count <= Limit THEN n + 1 ELSE n
    BY <1>1, Numbers, LenProperties DEF Ages
<1>3. /\ Len(ages) < Limit + n
      /\ \E k \in 0 .. Len(ages) :
            /\ Len(ages) - k < n
            /\ w.left # NoExpiry =>
                  \A i \in 1 .. k : ages[i] + w.left >= Window
    BY <1>1 DEF FewPassed, IsOpen
<1>4. /\ Len(longer) = IF counted.count <= Limit THEN Len(ages) + 1
                                                 ELSE Len(ages)
      /\ \A i \in 1 .. Len(ages) : longer[i] = ages[i]
      /\ counted.count <= Limit => longer[Len(ages) + 1] = 0
    BY RequestPasses
<1> HIDE DEF counted, longer, n
<1>5. PICK k \in 0 .. Len(ages) :
         /\ Len(ages) - k < n
         /\ w.left # NoExpiry => \A i \in 1 .. k : ages[i] + w.left >= Window
    BY <1>3
<1>6. FewPassed(counted, ages)
    <2>1. /\ Len(ages) < Limit + Within(counted.count)
          /\ Len(ages) - k < Within(counted.count)
        BY <1>2, <1>3, <1>5, Numbers
    <2> QED BY <1>1, <1>5, <2>1 DEF FewPassed, IsOpen
<1>7. FewPassed(counted, longer)
    <2>1. /\ Len(longer) < Limit + Within(counted.count)
          /\ k \in 0 .. Len(longer)
          /\ Len(longer) - k < Within(counted.count)
        BY <1>2, <1>3, <1>4, <1>5, Numbers
    <2>2. w.left # NoExpiry => \A i \in 1 .. k : longer[i] + w.left >= Window
        BY SMTT(30), <1>2, <1>4, <1>5
    <2> QED BY <1>1, <2>1, <2>2 DEF FewPassed, IsOpen
<1>8. ASSUME AllPassed(w, ages)
      PROVE  AllPassed(counted, longer)
    <2>1. PICK m \in 0 .. Len(ages) :
             /\ Len(ages) - m >= n
             /\ \A i \in m + 1 .. Len(ages) : ages[i] + w.left <= Window
        BY <1>8 DEF AllPassed, n
    <2>2. /\ m \in 0 .. Len(longer)
          /\ Len(longer) - m >= Within(counted.count)
        BY <1>2, <1>4, <2>1
    <2>3. ASSUME NEW i \in m + 1 .. Len(longer)
          PROVE  longer[i] + counted.left <= Window
        <3>1. CASE i \in 1 .. Len(ages)
            BY <1>1, <1>2, <1>4, <2>1, <3>1
        <3>2. CASE i \notin 1 .. Len(ages)
            <4>1. i = Len(ages) + 1 /\ counted.count <= Limit
                BY <1>2, <1>4, <2>1, <3>2
            <4> QED BY <1>1, <1>4, <4>1, Numbers
        <3> QED BY <3>1, <3>2
    <2> QED BY <2>2, <2>3 DEF AllPassed
<1> QED BY <1>6, <1>7, <1>8 DEF counted, longer

\* The window's end is set to a window from now.
LEMMA WindowExpires ==
    ASSUME NEW ages \in Ages, NEW w \in Windows, IsOpen(w), FewPassed(w, ages)
    PROVE  FewPassed([w EXCEPT !.left = Window], ages)
<1> DEFINE expiring == [w EXCEPT !.left = Window]
<1>1. expiring.count = w.count /\ expiring.left = Window
    BY DEF Windows
<1>2. /\ Len(ages) \in Nat
      /\ \A i \in 1 .. Len(ages) : ages[i] \in 0 .. Window - 1
    BY LenProperties DEF Ages
<1>3. \A i \in 1 .. Len(ages) : ages[i] + Window >= Window
    BY <1>2, Numbers
<1> QED BY <1>1, <1>2, <1>3, Numbers DEF FewPassed, IsOpen

\* A second passes in an open window: at its last second, all that is left of
\* what passed is what the window counted after its first request.
LEMMA WindowShrinks ==
    ASSUME NEW ages \in Ages, Sorted(ages), NEW w \in Windows, NEW later,
           later.left = CountDown(w.left),
           later.left # 0 => later.count = w.count,
           FewPassed(w, ages)
    PROVE  /\ FewPassed(later, Older(ages))
           /\ w.left # NoExpiry /\ AllPassed(w, ages) =>
                 AllPassed(later, Older(ages))
<1> DEFINE older == Older(ages)
<1>1. PICK d \in 0 .. Len(ages) :
         /\ Len(older) = Len(ages) - d
         /\ \A i \in 1 .. Len(ages) - d : older[i] = ages[d + i] + 1
         /\ \A i \in 1 .. d : ages[i] + 1 >= Window
    BY AgesGrow
<1>0. older \in Ages
    BY AgesGrow
<1> HIDE DEF older
<1>2. /\ Len(ages) \in Nat
      /\ Len(older) \in Nat
      /\ \A i \in 1 .. Len(ages) : ages[i] \in 0 .. Window - 1
    BY <1>0, LenProperties DEF Ages
<1>3. /\ w.left \in 0 .. Window \cup {NoExpiry}
      /\ w.count \in Counts
      /\ later.left = IF w.left > 0 THEN w.left - 1 ELSE w.left
      /\ Within(w.count) \in 0 .. Limit
    BY Numbers DEF Windows, CountDown
<1>4. FewPassed(later, older)
    <2>1. CASE ~IsOpen(w)
        <3>1. Len(ages) < Limit /\ ~IsOpen(later)
            BY <1>3, <2>1 DEF FewPassed, IsOpen
        <3> QED BY <1>1, <1>2, <3>1, Numbers DEF FewPassed
    <2>2. CASE IsOpen(w)
        <3>1. PICK k \in 0 .. Len(ages) :
                 /\ Len(ages) - k < Within(w.count)
                 /\ w.left # NoExpiry =>
                       \A i \in 1 .. k : ages[i] + w.left >= Window
            BY <2>2 DEF FewPassed
        <3>2. Len(ages) < Limit + Within(w.count)
            BY <2>2 DEF FewPassed
        <3>3. CASE ~IsOpen(later)
            <4>1. w.left = 1
                BY <1>3, <2>2, <3>3, Numbers DEF IsOpen
            <4>2. \A i \in 1 .. k : ages[i] + 1 >= Window
                BY <3>1, <4>1, Numbers
            <4>3. d >= k
                <5>1. SUFFICES ASSUME d < k
                               PROVE  FALSE
                    BY <1>1, <3>1
                <5>2. /\ d + 1 \in 1 .. k
                      /\ d + 1 \in 1 .. Len(ages)
                      /\ 1 \in 1 .. Len(ages) - d
                    BY <1>1, <1>2, <3>1, <5>1
                <5>3. older[1] = ages[d + 1] + 1 /\ ages[d + 1] + 1 >= Window
                    BY <1>1, <4>2, <5>2
                <5>4. older[1] \in 0 .. Window - 1
                    <6>1. older \in Seq(0 .. Window - 1) /\ 1 \in 1 .. Len(older)
                        BY <1>0, <1>1, <5>2 DEF Ages
                    <6> QED BY <6>1, ElementOfSeq
                <5> QED BY <5>3, <5>4, Numbers
            <4>4. Len(older) < Limit
                BY <1>1, <1>2, <1>3, <3>1, <4>3, Numbers
            <4> QED BY <3>3, <4>4 DEF FewPassed
        <3>4. CASE IsOpen(later)
            <4>1. /\ later.count = w.count
                  /\ later.left = NoExpiry <=> w.left = NoExpiry
                  /\ w.left # NoExpiry => later.left = w.left - 1
                BY <1>3, <2>2, <3>4, Numbers DEF IsOpen
            <4> DEFINE m == IF k > d THEN k - d ELSE 0
            <4>2. /\ m \in 0 .. Len(older)
                  /\ Len(older) - m < Within(later.count)
                  /\ Len(older) < Limit + Within(later.count)
                BY <1>1, <1>2, <1>3, <3>1, <3>2, <4>1, Numbers
            <4>3. ASSUME w.left # NoExpiry, NEW i \in 1 .. m
                  PROVE  older[i] + later.left >= Window
                <5>1. /\ d + i \in 1 .. k
                      /\ d + i \in 1 .. Len(ages)
                      /\ i \in 1 .. Len(ages) - d
                    BY <1>1, <1>2, <3>1, <4>3
                <5>2. older[i] = ages[d + i] + 1 /\ ages[d + i] + w.left >= Window
                    BY <1>1, <3>1, <4>3, <5>1
                <5>3. ages[d + i] \in Int /\ w.left \in Int
                    BY <1>2, <1>3, <5>1, Numbers
                <5> QED BY <4>1, <4>3, <5>2, <5>3, Numbers
            <4> HIDE DEF m
            <4> QED BY <3>4, <4>1, <4>2, <4>3 DEF FewPassed
        <3> QED BY <3>3, <3>4
    <2> QED BY <2>1, <2>2
<1>5. ASSUME w.left # NoExpiry, AllPassed(w, ages)
      PROVE  AllPassed(later, older)
    <2> SUFFICES ASSUME IsOpen(later)
                 PROVE  \E m \in 0 .. Len(older) :
                           /\ Len(older) - m >= Within(later.count)
                           /\ \A i \in m + 1 .. Len(older) :
                                 older[i] + later.left <= Window
        BY DEF AllPassed
    <2>1. /\ IsOpen(w)
          /\ later.count = w.count
          /\ later.left = w.left - 1
          /\ w.left \in 2 .. Window
        BY <1>3, <1>5, Numbers DEF IsOpen
    <2>2. PICK k \in 0 .. Len(ages) :
             /\ Len(ages) - k >= Within(w.count)
             /\ \A i \in k + 1 .. Len(ages) : ages[i] + w.left <= Window
        BY <1>5, <2>1 DEF AllPassed
    <2>3. d <= k
        <3>1. SUFFICES ASSUME d > k
                       PROVE  FALSE
            BY <1>1, <2>2
        <3>2. d \in 1 .. d /\ d \in k + 1 .. Len(ages) /\ d \in 1 .. Len(ages)
            BY <1>1, <1>2, <2>2, <3>1
        <3>3. /\ ages[d] + 1 >= Window
              /\ ages[d] + w.left <= Window
              /\ ages[d] \in Int
            BY <1>1, <1>2, <2>2, <3>2, Numbers
        <3> QED BY <2>1, <3>3, Numbers
    <2>4. /\ k - d \in 0 .. Len(older)
          /\ Len(older) - (k - d) >= Within(later.count)
        BY <1>1, <1>2, <1>3, <2>1, <2>2, <2>3
    <2>5. ASSUME NEW i \in (k - d) + 1 .. Len(older)
          PROVE  older[i] + later.left <= Window
        <3>1. /\ d + i \in k + 1 .. Len(ages)
              /\ d + i \in 1 .. Len(ages)
              /\ i \in 1 .. Len(ages) - d
            BY <1>1, <1>2, <2>2, <2>3
        <3>2. /\ older[i] = ages[d + i] + 1
              /\ ages[d + i] + w.left <= Window
              /\ ages[d + i] \in Int
            BY <1>1, <1>2, <2>2, <3>1, Numbers
        <3>3. later.left = w.left - 1 /\ w.left \in Int
            BY <2>1, Numbers
        <3> QED BY SMTT(30), <3>2, <3>3, Numbers
    <2> QED BY <2>4, <2>5
<1> QED BY <1>4, <1>5 DEF older

-----------------------------------------------------------------------------
\* The watched store's window and what passed it, through every step.

\* What TypeOK says of the parts that the lemmas speak of.
LEMMA WellFormed ==
    ASSUME RateInv
    PROVE  /\ counter \in Windows
           /\ passed \in Ages
           /\ Sorted(passed)
           /\ \A p \in Processes :
                 /\ bucket[p] \in Windows
                 /\ bucket[p].count \in Counts
                 /\ bucket[p].left \in 0 .. Window
                 /\ WindowOf(p) = bucket[p]
                 /\ p # Redis
           /\ WindowOf(Redis) = counter
           /\ watched \in Processes \/ watched = Redis
    BY RateLimitAssumption
    DEF RateInv, TypeOK, OldestFirst, Sorted, Windows, Ages, WindowOf, Stores

\* Requests and windows stand while a process does something else.
LEMMA WindowsStand ==
    ASSUME RateInv, TypeOK',
           counter' = counter, passed' = passed, watched' = watched,
           bucket' = bucket
    PROVE  RateInv'
    BY DEF RateInv, OldestFirst, RedisKeyIsSound, WindowOf

LEMMA ArriveKeeps ==
    ASSUME RateInv, NEW p \in Processes, Arrive(p), watched' = watched
    PROVE  RateInv'
<1> DEFINE Clients == [connected : BOOLEAN, wait : 0 .. BackOff]
<1>1. client[p] \in Clients /\ client \in [Processes -> Clients]
    BY DEF RateInv, TypeOK
<1>2. /\ [client[p] EXCEPT !.connected = TRUE] \in Clients
      /\ [client[p] EXCEPT !.wait = BackOff] \in Clients
    <2>1. BackOff \in 0 .. BackOff /\ TRUE \in BOOLEAN
        BY DEF BackOff
    <2>2. \A c \in Clients, b \in BOOLEAN, wait \in 0 .. BackOff :
             /\ [c EXCEPT !.connected = b] \in Clients
             /\ [c EXCEPT !.wait = wait] \in Clients
        OBVIOUS
    <2> QED BY <1>1, <2>1, <2>2
<1>3. \E c \in Clients : client' = [client EXCEPT ![p] = c]
    BY <1>1, <1>2 DEF Arrive
<1>4. client' \in [Processes -> Clients]
    BY <1>1, <1>3
<1>5. TypeOK'
    BY <1>4 DEF RateInv, TypeOK, Arrive, Proceed, Steps
<1> QED BY <1>5, WindowsStand DEF Arrive

LEMMA AnswerKeeps ==
    ASSUME RateInv, NEW p \in Processes, Ttl(p) \/ TtlFails(p),
           watched' = watched
    PROVE  RateInv'
<1>1. TypeOK'
    BY DEF RateInv, TypeOK, Ttl, TtlFails, Finish, Proceed, Steps
<1> QED BY <1>1, WindowsStand DEF Ttl, TtlFails

\* INCR, whether it is answered (the request passes if its number is within
\* the limit) or not (nobody counts it as passed).
LEMMA IncrementedIsSound ==
    ASSUME RateInv
    PROVE  LET n == Incremented.count
               longer == IF n <= Limit THEN Append(passed, 0) ELSE passed
           IN  /\ Incremented \in Windows
               /\ Incremented.count # 0 /\ Incremented.left # 0
               /\ watched = Redis => /\ FewPassed(Incremented, longer)
                                     /\ FewPassed(Incremented, passed)
<1>1. /\ counter \in Windows /\ passed \in Ages /\ Sorted(passed)
      /\ counter.count = 0 <=> counter.left = 0
      /\ watched = Redis => FewPassed(counter, passed)
    BY WellFormed DEF RateInv, RedisKeyIsSound
<1>2. CASE counter.count = 0
    <2>1. Incremented = [count |-> 1, left |-> NoExpiry]
        BY <1>2 DEF Incremented
    <2>2. ~IsOpen(counter) /\ 1 <= Limit
        BY <1>1, <1>2, Numbers DEF IsOpen
    <2>3. Incremented \in Windows
        BY <2>1, Numbers DEF Windows
    <2>4. watched = Redis => /\ FewPassed(Incremented, Append(passed, 0))
                             /\ FewPassed(Incremented, passed)
        BY <1>1, <2>1, <2>2, WindowStarts
    <2> QED BY <2>1, <2>2, <2>3, <2>4, Numbers
<1>3. CASE counter.count # 0
    <2>1. Incremented = [counter EXCEPT !.count = OneMore(@)]
        BY <1>3 DEF Incremented
    <2>2. IsOpen(counter) /\ counter.count \in Counts
        BY <1>1, <1>3 DEF IsOpen, Windows
    <2>3. /\ Incremented \in Windows
          /\ Incremented.count # 0
          /\ Incremented.left = counter.left
        BY <1>1, <2>1, <2>2, Numbers DEF Windows
    <2>4. watched = Redis =>
             /\ FewPassed(Incremented, IF Incremented.count <= Limit
                                       THEN Append(passed, 0) ELSE passed)
             /\ FewPassed(Incremented, passed)
        BY <1>1, <2>1, <2>2, WindowCounts
    <2> QED BY <2>2, <2>3, <2>4 DEF IsOpen
<1> QED BY <1>2, <1>3

\* What is left to show of a step that leaves the buckets alone.
LEMMA CounterMoves ==
    ASSUME RateInv, bucket' = bucket, watched' = watched,
           orphaned' \in BOOLEAN,
           client' = client,
           check' \in [Processes -> Steps],
           counter' \in Windows,
           counter'.count = 0 <=> counter'.left = 0,
           watched = Redis => FewPassed(counter', passed'),
           watched # Redis => passed' = passed,
           passed' \in Ages, Sorted(passed')
    PROVE  RateInv'
<1>1. TypeOK'
    BY DEF RateInv, TypeOK, Windows, Ages
<1>2. OldestFirst' /\ RedisKeyIsSound'
    BY DEF OldestFirst, Sorted, RedisKeyIsSound
<1>3. FewPassed(WindowOf(watched), passed)'
    BY DEF RateInv, WindowOf
<1>4. (watched \in Processes => AllPassed(bucket[watched], passed))'
    BY RateLimitAssumption DEF RateInv
<1> QED BY <1>1, <1>2, <1>3, <1>4 DEF RateInv

LEMMA IncrKeeps ==
    ASSUME RateInv, NEW p \in Processes, Incr(p) \/ IncrFails(p),
           watched' = watched
    PROVE  RateInv'
<1>1. /\ counter \in Windows /\ passed \in Ages /\ Sorted(passed)
      /\ RedisKeyIsSound
      /\ watched = Redis => FewPassed(counter, passed)
    BY WellFormed DEF RateInv
<1>2. check' \in [Processes -> Steps] /\ orphaned' \in BOOLEAN
    BY DEF Incr, IncrFails, Proceed, RateInv, TypeOK, Steps
<1>3. Append(passed, 0) \in Ages /\ Sorted(Append(passed, 0))
    BY <1>1, RequestPasses
<1>4. bucket' = bucket /\ client' = client
    BY DEF Incr, IncrFails
<1>5. CASE Incr(p)
    <2>1. /\ counter' = Incremented
          /\ passed' = IF Redis = watched /\ Incremented.count <= Limit
                       THEN Append(passed, 0) ELSE passed
        BY <1>5 DEF Incr, Counted
    <2>2. passed' \in Ages /\ Sorted(passed')
        BY <1>1, <1>3, <2>1
    <2> QED BY <1>2, <1>4, <2>1, <2>2, IncrementedIsSound, CounterMoves
<1>6. CASE IncrFails(p)
    <2>1. passed' = passed /\ counter' \in {counter, Incremented}
        BY <1>6 DEF IncrFails
    <2> QED BY <1>1, <1>2, <1>4, <2>1, IncrementedIsSound, CounterMoves
               DEF RedisKeyIsSound
<1> QED BY <1>5, <1>6

LEMMA ExpireKeeps ==
    ASSUME RateInv, NEW p \in Processes, Expire(p) \/ ExpireFails(p),
           watched' = watched
    PROVE  RateInv'
<1>1. /\ counter \in Windows /\ passed \in Ages /\ Sorted(passed)
      /\ RedisKeyIsSound
      /\ watched = Redis => FewPassed(counter, passed)
    BY WellFormed DEF RateInv
<1>2. check' \in [Processes -> Steps] /\ orphaned' \in BOOLEAN
    BY DEF Expire, ExpireFails, Proceed, RateInv, TypeOK, Steps
<1>3. bucket' = bucket /\ client' = client /\ passed' = passed
    BY DEF Expire, ExpireFails
<1>4. CASE counter' = counter
    BY <1>1, <1>2, <1>3, <1>4, CounterMoves DEF RedisKeyIsSound
<1>5. CASE counter.count # 0 /\ counter' = [counter EXCEPT !.left = Window]
    <2>1. IsOpen(counter)
        BY <1>1, <1>5 DEF IsOpen, RedisKeyIsSound
    <2>2. /\ counter' \in Windows
          /\ counter'.count # 0 /\ counter'.left # 0
        BY <1>1, <1>5, Numbers DEF Windows
    <2>3. watched = Redis => FewPassed(counter', passed')
        BY <1>1, <1>3, <1>5, <2>1, WindowExpires
    <2> QED BY <1>1, <1>2, <1>3, <2>2, <2>3, CounterMoves
<1>6. counter' = counter \/ (counter.count # 0
                             /\ counter' = [counter EXCEPT !.left = Window])
    BY DEF Expire, ExpireFails, Expiring
<1> QED BY <1>4, <1>5, <1>6

\* What is left to show of a step that leaves the Redis key alone.
LEMMA BucketMoves ==
    ASSUME RateInv, NEW p \in Processes, counter' = counter, watched' = watched,
           orphaned' \in BOOLEAN,
           client' \in [Processes -> [connected : BOOLEAN, wait : 0 .. BackOff]],
           check' \in [Processes -> Steps],
           NEW b \in [count : Counts, left : 0 .. Window],
           bucket' = [bucket EXCEPT ![p] = b],
           passed' \in Ages, Sorted(passed'),
           watched # p => passed' = passed,
           watched = p => FewPassed(b, passed') /\ AllPassed(b, passed')
    PROVE  RateInv'
<1>1. /\ bucket'[p] = b
      /\ \A q \in Processes \ {p} : bucket'[q] = bucket[q]
      /\ bucket' \in [Processes -> [count : Counts, left : 0 .. Window]]
    BY DEF RateInv, TypeOK
<1>2. TypeOK'
    BY <1>1 DEF RateInv, TypeOK, Ages
<1>3. OldestFirst' /\ RedisKeyIsSound'
    BY DEF RateInv, OldestFirst, Sorted, RedisKeyIsSound
<1>4. p # Redis
    BY RateLimitAssumption
<1>5. FewPassed(WindowOf(watched), passed)'
    <2>1. CASE watched = p
        BY <1>1, <1>4, <2>1 DEF WindowOf
    <2>2. CASE watched # p
        BY <1>1, <2>2, WellFormed DEF RateInv, WindowOf
    <2> QED BY <2>1, <2>2
<1>6. (watched \in Processes => AllPassed(bucket[watched], passed))'
    BY <1>1 DEF RateInv
<1> QED BY <1>2, <1>3, <1>5, <1>6 DEF RateInv

LEMMA CountInMemoryKeeps ==
    ASSUME RateInv, NEW p \in Processes, CountInMemory(p), watched' = watched
    PROVE  RateInv'
<1> DEFINE w == bucket[p]
           b == [FreshBucket(p) EXCEPT !.count = OneMore(@)]
           longer == IF b.count <= Limit THEN Append(passed, 0) ELSE passed
<1>1. /\ w \in [count : Counts, left : 0 .. Window] /\ w \in Windows
      /\ passed \in Ages /\ Sorted(passed)
      /\ watched = p => FewPassed(w, passed) /\ AllPassed(w, passed)
    BY WellFormed DEF RateInv, TypeOK
<1>2. /\ bucket' = [bucket EXCEPT ![p] = b]
      /\ passed' = IF p = watched /\ b.count <= Limit
                   THEN Append(passed, 0) ELSE passed
    <2>1. bucket' = [bucket EXCEPT ![p] = b] /\ bucket'[p] = b
        BY DEF CountInMemory, RateInv, TypeOK
    <2> QED BY <2>1 DEF CountInMemory, Counted
<1>3. Append(passed, 0) \in Ages /\ Sorted(Append(passed, 0))
    BY <1>1, RequestPasses
<1>4. /\ b \in [count : Counts, left : 0 .. Window]
      /\ watched = p => FewPassed(b, longer) /\ AllPassed(b, longer)
    <2>1. CASE w.left = 0
        <3>1. b = [count |-> 1, left |-> Window]
            BY <2>1, Numbers DEF FreshBucket
        <3>2. ~IsOpen(w) /\ 1 <= Limit
            BY <2>1, Numbers DEF IsOpen
        <3>3. b \in [count : Counts, left : 0 .. Window]
            BY <3>1, Numbers
        <3>4. watched = p => /\ FewPassed(b, Append(passed, 0))
                             /\ AllPassed(b, Append(passed, 0))
            BY <1>1, <3>1, <3>2, WindowStarts
        <3> QED BY <3>1, <3>2, <3>3, <3>4
    <2>2. CASE w.left # 0
        <3>1. b = [w EXCEPT !.count = OneMore(@)]
            BY <2>2 DEF FreshBucket
        <3>2. IsOpen(w)
            BY <2>2 DEF IsOpen
        <3>3. b \in [count : Counts, left : 0 .. Window]
            BY <1>1, <3>1, Numbers
        <3> HIDE DEF w, b
        <3>4. watched = p => FewPassed(b, longer) /\ AllPassed(b, longer)
            BY <1>1, <3>1, <3>2, WindowCounts
        <3> QED BY <3>3, <3>4
    <2> QED BY <2>1, <2>2
<1>5. /\ counter' = counter /\ orphaned' \in BOOLEAN
      /\ client' \in [Processes -> [connected : BOOLEAN, wait : 0 .. BackOff]]
      /\ check' \in [Processes -> Steps]
    BY DEF CountInMemory, Finish, Proceed, RateInv, TypeOK, Steps
<1> HIDE DEF b
<1>6. passed' \in Ages /\ Sorted(passed')
    BY <1>1, <1>2, <1>3
<1> QED BY <1>2, <1>4, <1>5, <1>6, BucketMoves

\* A new process has counted nothing, and nothing that passed the old one.
LEMMA ProcessDiesKeeps ==
    ASSUME RateInv, NEW p \in Processes, ProcessDies(p), watched' = watched
    PROVE  RateInv'
<1>1. passed \in Ages /\ Sorted(passed)
    BY WellFormed
<1>2. << >> \in Ages /\ Sorted(<< >>) /\ Len(<< >>) = 0
    BY DEF Ages, Sorted
<1>3. /\ passed' = IF p = watched THEN << >> ELSE passed
      /\ bucket' = [bucket EXCEPT ![p] = NoBucket]
      /\ counter' = counter
    BY DEF ProcessDies
<1>4. /\ orphaned' \in BOOLEAN
      /\ client' \in [Processes -> [connected : BOOLEAN, wait : 0 .. BackOff]]
      /\ check' \in [Processes -> Steps]
    BY DEF ProcessDies, Finish, Proceed, RateInv, TypeOK, Steps, NotConnected,
           BackOff, CheckAt
<1>5. NoBucket \in [count : Counts, left : 0 .. Window] /\ NoBucket.left = 0
    BY Numbers DEF NoBucket, Counts
<1>6. FewPassed(NoBucket, << >>) /\ AllPassed(NoBucket, << >>)
    BY <1>2, <1>5, Numbers DEF FewPassed, AllPassed, IsOpen
<1>7. passed' \in Ages /\ Sorted(passed')
    BY <1>1, <1>2, <1>3
<1> QED BY <1>3, <1>4, <1>5, <1>6, <1>7, BucketMoves

LEMMA TickKeeps ==
    ASSUME RateInv, Tick, watched' = watched
    PROVE  RateInv'
<1>1. /\ counter \in Windows /\ passed \in Ages /\ Sorted(passed)
      /\ RedisKeyIsSound
      /\ FewPassed(WindowOf(watched), passed)
    BY WellFormed DEF RateInv
<1>2. /\ passed' = Older(passed)
      /\ Older(passed) \in Ages /\ Sorted(Older(passed))
    BY <1>1, AgesGrow DEF Tick
<1>3. /\ counter' \in Windows
      /\ counter'.left = CountDown(counter.left)
      /\ counter'.left # 0 => counter'.count = counter.count
      /\ counter'.count = 0 <=> counter'.left = 0
    <2>1. CASE counter.left = 1
        BY <2>1, Numbers DEF Tick, NoCounter, CountDown, Windows, Counts
    <2>2. CASE counter.left # 1
        <3>1. counter' = [counter EXCEPT !.left = CountDown(@)]
            BY <2>2 DEF Tick
        <3>2. /\ CountDown(counter.left) \in 0 .. Window \cup {NoExpiry}
              /\ CountDown(counter.left) = 0 <=> counter.left = 0
            BY <1>1, <2>2, Numbers DEF CountDown, Windows
        <3> QED BY <1>1, <3>1, <3>2 DEF Windows, RedisKeyIsSound
    <2> QED BY <2>1, <2>2
<1>4. ASSUME NEW p \in Processes
      PROVE  /\ bucket'[p] \in [count : Counts, left : 0 .. Window]
             /\ bucket'[p].left = CountDown(bucket[p].left)
             /\ bucket'[p].count = bucket[p].count
    <2>1. bucket'[p] = [bucket[p] EXCEPT !.left = CountDown(@)]
        BY DEF Tick
    <2>2. bucket[p] \in [count : Counts, left : 0 .. Window]
        BY DEF RateInv, TypeOK
    <2>3. CountDown(bucket[p].left) \in 0 .. Window
        BY <2>2, Numbers DEF CountDown
    <2> QED BY <2>1, <2>2, <2>3
<1>5. bucket' \in [Processes -> [count : Counts, left : 0 .. Window]]
    BY <1>4 DEF Tick
<1>6. client' \in [Processes -> [connected : BOOLEAN, wait : 0 .. BackOff]]
    <2> SUFFICES ASSUME NEW p \in Processes
                 PROVE  [client[p] EXCEPT !.wait = CountDown(@)]
                           \in [connected : BOOLEAN, wait : 0 .. BackOff]
        BY DEF Tick
    <2>1. client[p] \in [connected : BOOLEAN, wait : 0 .. BackOff]
        BY DEF RateInv, TypeOK
    <2>2. CountDown(client[p].wait) \in 0 .. BackOff
        BY <2>1 DEF CountDown, BackOff
    <2> QED BY <2>1, <2>2
<1>7. TypeOK'
    BY <1>2, <1>3, <1>5, <1>6 DEF RateInv, TypeOK, Tick, Windows, Ages
<1>8. OldestFirst' /\ RedisKeyIsSound'
    BY <1>2, <1>3 DEF OldestFirst, Sorted, RedisKeyIsSound
<1>9. CASE watched = Redis
    <2>1. FewPassed(counter, passed) /\ watched' \notin Processes
        BY <1>1, <1>9, RateLimitAssumption DEF WindowOf
    <2>2. FewPassed(counter', Older(passed))
        BY <1>1, <1>3, <2>1, WindowShrinks
    <2> QED BY <1>2, <1>7, <1>8, <1>9, <2>1, <2>2 DEF RateInv, WindowOf
<1>10. CASE watched \in Processes
    <2>1. /\ bucket[watched] \in Windows
          /\ bucket[watched].left # NoExpiry
          /\ watched # Redis
        BY <1>10, WellFormed, Numbers
    <2>2. /\ FewPassed(bucket[watched], passed)
          /\ AllPassed(bucket[watched], passed)
        BY <1>1, <1>10, <2>1 DEF RateInv, WindowOf
    <2>3. /\ bucket'[watched].left = CountDown(bucket[watched].left)
          /\ bucket'[watched].count = bucket[watched].count
        BY <1>4, <1>10
    <2>4. /\ FewPassed(bucket'[watched], Older(passed))
          /\ AllPassed(bucket'[watched], Older(passed))
        BY <1>1, <2>1, <2>2, <2>3, WindowShrinks
    <2> QED BY <1>2, <1>7, <1>8, <2>1, <2>4 DEF RateInv, WindowOf
<1> QED BY <1>9, <1>10, WellFormed

\* While a store's window is closed, fewer requests than the limit passed it in
\* the last window; while it is open, fewer than the limit and its count together,
\* and all but fewer than the count are as old as the window.  In a process's
\* memory those that were counted are all still there.
THEOREM Invariant == Spec => []RateInv
<1>1. Init => RateInv
    <2> SUFFICES ASSUME Init PROVE RateInv
        OBVIOUS
    <2>1. TypeOK
        <3>1. << >> \in Seq(0 .. Window - 1)
            OBVIOUS
        <3>2. /\ NoCounter \in [count : Counts, left : 0 .. Window \cup {NoExpiry}]
              /\ NoBucket \in [count : Counts, left : 0 .. Window]
              /\ NotConnected \in [connected : BOOLEAN, wait : 0 .. BackOff]
            BY Numbers DEF NoCounter, NoBucket, NotConnected, Counts, BackOff
        <3> QED BY <3>1, <3>2 DEF Init, TypeOK, Steps
    <2>2. OldestFirst /\ RedisKeyIsSound
        BY DEF Init, OldestFirst, RedisKeyIsSound, NoCounter
    <2>3. ~IsOpen(WindowOf(watched)) /\ Len(passed) = 0
        BY RateLimitAssumption
        DEF Init, IsOpen, WindowOf, NoCounter, NoBucket, Stores
    <2>4. watched \in Processes => ~IsOpen(bucket[watched])
        BY DEF Init, IsOpen, NoBucket
    <2> QED BY <2>1, <2>2, <2>3, <2>4, Numbers DEF RateInv, FewPassed, AllPassed
<1>2. RateInv /\ [Next]_vars => RateInv'
    <2> SUFFICES ASSUME RateInv, [Next]_vars PROVE RateInv'
        OBVIOUS
    <2>1. ASSUME NEW p \in Processes, watched' = watched,
                 Arrive(p) \/ Check(p) \/ ProcessDies(p)
          PROVE  RateInv'
        BY <2>1, ArriveKeeps, IncrKeeps, ExpireKeeps, AnswerKeeps,
           CountInMemoryKeeps, ProcessDiesKeeps DEF Check
    <2>2. CASE Tick /\ watched' = watched
        BY <2>2, TickKeeps
    <2>3. CASE UNCHANGED vars
        <3>1. TypeOK'
            BY <2>3 DEF RateInv, TypeOK, vars
        <3> QED BY <2>3, <3>1, WindowsStand DEF vars
    <2> QED BY <2>1, <2>2, <2>3 DEF Next
<1> QED BY <1>1, <1>2, PTL DEF Spec

\* Counters, buckets, clients and calls stay well formed.
THEOREM TypeCorrect == Spec => []TypeOK
<1>1. RateInv => TypeOK
    BY DEF RateInv
<1> QED BY <1>1, Invariant, PTL

\* The fixed window lets less than twice the limit pass in any stretch of a
\* window, at Redis and at every process, whatever commands fail or come late.
THEOREM FixedWindowBound == Spec => []NeverTwiceTheLimit
<1>1. RateInv => NeverTwiceTheLimit
    <2> SUFFICES ASSUME RateInv PROVE Len(passed) < 2 * Limit
        BY DEF NeverTwiceTheLimit
    <2>1. /\ FewPassed(WindowOf(watched), passed)
          /\ Len(passed) \in Nat
          /\ WindowOf(watched).count \in Counts
        BY WellFormed, LenProperties DEF RateInv, Ages, Windows
    <2>2. Within(WindowOf(watched).count) \in 0 .. Limit
        BY <2>1, Numbers
    <2>3. \/ Len(passed) < Limit
          \/ Len(passed) < Limit + Within(WindowOf(watched).count)
        BY <2>1 DEF FewPassed
    <2> QED BY <2>1, <2>2, <2>3, Numbers
<1> QED BY <1>1, Invariant, PTL

\* A process's memory refuses a client only if the limit's requests have
\* passed it within the last window.
THEOREM RefusalsAreEarned == Spec => []RefusalIsEarned
<1>1. RateInv => RefusalIsEarned
    <2> SUFFICES ASSUME RateInv, watched \in Processes,
                        FreshBucket(watched).count >= Limit
                 PROVE  Len(passed) >= Limit
        BY DEF RefusalIsEarned
    <2>1. /\ AllPassed(bucket[watched], passed)
          /\ Len(passed) \in Nat
          /\ bucket[watched].count \in Counts
        BY WellFormed, LenProperties DEF RateInv, Ages
    <2>2. IsOpen(bucket[watched]) /\ bucket[watched].count >= Limit
        BY Numbers DEF FreshBucket, IsOpen
    <2>3. Within(bucket[watched].count) = Limit
        BY <2>1, <2>2, Numbers DEF Within, Counts
    <2>4. \E k \in 0 .. Len(passed) : Len(passed) - k >= Limit
        BY <2>1, <2>2, <2>3 DEF AllPassed
    <2> QED BY <2>1, <2>4, Numbers
<1> QED BY <1>1, Invariant, PTL

=============================================================================
