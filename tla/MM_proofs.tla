------------------------------ MODULE MM_proofs ------------------------------
(***************************************************************************)
(* Proofs about module MM, for every size of the segment, of heads, of     *)
(* buckets and of requests.                                                *)
(***************************************************************************)
EXTENDS MM, SequenceTheorems, FiniteSetTheorems, WellFoundedInduction, TLAPS

-----------------------------------------------------------------------------
(* What taking one element out of a sequence does to the others.           *)
LEMMA CutOut ==
  ASSUME NEW S, NEW s \in Seq(S), NEW i \in 1 .. Len(s), NEW t,
         t = SubSeq(s, 1, i - 1) \o SubSeq(s, i + 1, Len(s))
  PROVE  /\ t \in Seq(S)
         /\ Len(t) = Len(s) - 1
         /\ \A j \in 1 .. Len(s) - 1 : t[j] = IF j < i THEN s[j] ELSE s[j + 1]
<1>1. PICK n \in Nat : n = Len(s)
  BY LenProperties
<1>2. i \in 1 .. n
  BY <1>1
<1>3. PICK l : l = SubSeq(s, 1, i - 1)
  OBVIOUS
<1>4. PICK r : r = SubSeq(s, i + 1, n)
  OBVIOUS
<1>5. l \in Seq(S) /\ Len(l) = i - 1
  BY <1>1, <1>2, <1>3, SubSeqProperties
<1>6. r \in Seq(S) /\ Len(r) = n - i
  BY <1>1, <1>2, <1>4, SubSeqProperties
<1>7. \A j \in 1 .. i - 1 : l[j] = s[j]
  BY <1>1, <1>2, <1>3, SubSeqProperties
<1>8. \A j \in 1 .. n - i : r[j] = s[i + j]
  BY <1>1, <1>2, <1>4, SubSeqProperties
<1>9. t = l \o r
  BY <1>1, <1>3, <1>4
<1>10. t \in Seq(S) /\ Len(t) = Len(l) + Len(r)
  BY <1>5, <1>6, <1>9, ConcatProperties
<1>11. Len(t) = n - 1
  <2>1. Len(l) + Len(r) = n - 1
    BY <1>1, <1>2, <1>5, <1>6
  <2> QED  BY <1>10, <2>1, Zenon
<1>12. \A j \in 1 .. n - 1 : t[j] = IF j <= i - 1 THEN l[j] ELSE r[j - (i - 1)]
  <2>1. \A j \in 1 .. Len(l) + Len(r) :
          (l \o r)[j] = IF j <= Len(l) THEN l[j] ELSE r[j - Len(l)]
    BY <1>5, <1>6, ConcatProperties
  <2>2. Len(l) + Len(r) = n - 1
    BY <1>1, <1>2, <1>5, <1>6
  <2> QED  BY <1>5, <1>9, <2>1, <2>2, Zenon
<1>13. ASSUME NEW j \in 1 .. n - 1
       PROVE  t[j] = IF j < i THEN s[j] ELSE s[j + 1]
  <2>1. CASE j < i
    <3>1. j <= i - 1 /\ j \in 1 .. i - 1
      BY <1>2, <2>1
    <3> QED  BY <1>7, <1>12, <2>1, <3>1
  <2>2. CASE ~ (j < i)
    <3>1. ~ (j <= i - 1) /\ j - (i - 1) \in 1 .. n - i /\ i + (j - (i - 1)) = j + 1
      BY <1>2, <2>2
    <3>2. t[j] = r[j - (i - 1)]
      BY <1>12, <3>1
    <3> QED  BY <1>8, <2>2, <3>1, <3>2
  <2> QED  BY <2>1, <2>2
<1> QED
  BY <1>1, <1>10, <1>11, <1>13

(* What putting x in the place of the elements m + 1 .. k - 1 does.        *)
Spliced(S, t, s, x, m, k) ==
  /\ t \in Seq(S)
  /\ Len(t) = Len(s) + m + 2 - k
  /\ \A j \in 1 .. Len(s) + m + 2 - k :
       t[j] = IF j <= m THEN s[j] ELSE IF j = m + 1 THEN x ELSE s[j - (m + 2) + k]

LEMMA Splice ==
  ASSUME NEW S, NEW s \in Seq(S), NEW x \in S,
         NEW m \in 0 .. Len(s), NEW k \in m + 1 .. Len(s) + 1, NEW t,
         t = SubSeq(s, 1, m) \o << x >> \o SubSeq(s, k, Len(s))
  PROVE  Spliced(S, t, s, x, m, k)
<1>1. PICK n \in Nat : n = Len(s)
  BY LenProperties
<1>2. m \in 0 .. n /\ k \in m + 1 .. n + 1 /\ m \in Nat /\ k \in Nat
  BY <1>1
<1>3. PICK l : l = SubSeq(s, 1, m)
  OBVIOUS
<1>4. PICK r : r = SubSeq(s, k, n)
  OBVIOUS
<1>5. PICK h : h = l \o << x >>
  OBVIOUS
<1>6. l \in Seq(S) /\ Len(l) = m
  BY <1>1, <1>2, <1>3, SubSeqProperties
<1>7. \A j \in 1 .. m : l[j] = s[j]
  BY <1>1, <1>2, <1>3, SubSeqProperties
<1>8. r \in Seq(S) /\ Len(r) = n - k + 1
  BY <1>1, <1>2, <1>4, SubSeqProperties
<1>9. \A j \in 1 .. n - k + 1 : r[j] = s[k + j - 1]
  BY <1>1, <1>2, <1>4, SubSeqProperties
<1>10. << x >> \in Seq(S) /\ Len(<< x >>) = 1 /\ << x >>[1] = x
  OBVIOUS
<1>11. h \in Seq(S) /\ Len(h) = m + 1
  BY <1>5, <1>6, <1>10, ConcatProperties
<1>12. \A j \in 1 .. m + 1 : h[j] = IF j <= m THEN l[j] ELSE << x >>[j - m]
  <2>1. \A j \in 1 .. Len(l) + Len(<< x >>) :
          (l \o << x >>)[j] = IF j <= Len(l) THEN l[j] ELSE << x >>[j - Len(l)]
    BY <1>6, <1>10, ConcatProperties
  <2> QED  BY <1>5, <1>6, <1>10, <2>1, Zenon
<1>13. t = h \o r
  BY <1>1, <1>3, <1>4, <1>5
<1>14. t \in Seq(S) /\ Len(t) = Len(h) + Len(r)
  BY <1>8, <1>11, <1>13, ConcatProperties
<1>15. Len(t) = n + m + 2 - k
  <2>1. Len(h) + Len(r) = n + m + 2 - k
    BY <1>1, <1>2, <1>8, <1>11
  <2> QED  BY <1>14, <2>1, Zenon
<1>16. \A j \in 1 .. n + m + 2 - k : t[j] = IF j <= m + 1 THEN h[j] ELSE r[j - (m + 1)]
  <2>1. \A j \in 1 .. Len(h) + Len(r) :
          (h \o r)[j] = IF j <= Len(h) THEN h[j] ELSE r[j - Len(h)]
    BY <1>8, <1>11, ConcatProperties
  <2>2. Len(h) + Len(r) = n + m + 2 - k
    BY <1>1, <1>2, <1>8, <1>11
  <2> QED  BY <1>11, <1>13, <2>1, <2>2, Zenon
<1>17. ASSUME NEW j \in 1 .. n + m + 2 - k
       PROVE  t[j] = IF j <= m THEN s[j] ELSE IF j = m + 1 THEN x ELSE s[j - (m + 2) + k]
  <2>1. CASE j <= m
    <3>1. j <= m + 1 /\ j \in 1 .. m + 1 /\ j \in 1 .. m
      BY <1>2, <2>1
    <3>2. t[j] = h[j] /\ h[j] = l[j] /\ l[j] = s[j]
      BY <1>7, <1>12, <1>16, <3>1
    <3> QED  BY <2>1, <3>2
  <2>2. CASE j = m + 1
    <3>1. j <= m + 1 /\ j \in 1 .. m + 1 /\ ~ (j <= m) /\ j - m = 1
      BY <1>2, <2>2
    <3>2. t[j] = h[j] /\ h[j] = << x >>[1]
      BY <1>12, <1>16, <3>1
    <3> QED  BY <1>10, <2>2, <3>1, <3>2
  <2>3. CASE j > m + 1
    <3>1. /\ ~ (j <= m + 1) /\ ~ (j <= m) /\ j # m + 1
          /\ j - (m + 1) \in 1 .. n - k + 1 /\ k + (j - (m + 1)) - 1 = j - (m + 2) + k
      BY <1>2, <2>3
    <3>2. t[j] = r[j - (m + 1)]
      BY <1>16, <3>1
    <3>3. r[j - (m + 1)] = s[j - (m + 2) + k]
      BY <1>9, <3>1
    <3> QED  BY <3>1, <3>2, <3>3
  <2>4. j <= m \/ j = m + 1 \/ j > m + 1
    BY <1>2
  <2> QED  BY <2>1, <2>2, <2>3, <2>4
<1> QED
  BY <1>1, <1>14, <1>15, <1>17 DEF Spliced
-----------------------------------------------------------------------------
(* The inductive invariant.  Coalesced, RoomForBucket and AvailableExact   *)
(* are not inductive by themselves: what a freed block may touch, and how  *)
(* much memory it brings, follows from the blocks lying apart from each    *)
(* other and from the buckets.                                             *)
BlocksFit ==
  \A a \in DOMAIN blocks : a + blocks[a] <= HeapUnits

BlocksApart ==
  \A a, b \in DOMAIN blocks : a < b => a + blocks[a] <= b

BlocksOutside ==
  \A a \in DOMAIN blocks, i \in DOMAIN free_list :
    a + blocks[a] <= free_list[i].addr \/ End(free_list[i]) <= a

Inv ==
  /\ TypeOK /\ Coalesced /\ RoomForBucket
  /\ BlocksFit /\ BlocksApart /\ BlocksOutside
  /\ NothingLost /\ AvailableExact

(* The typing of the state, unfolded.                                      *)
LEMMA Elements ==
  ASSUME TypeOK
  PROVE  /\ Len(free_list) \in Nat
         /\ DOMAIN free_list = 1 .. Len(free_list)
         /\ \A j \in 1 .. Len(free_list) :
              /\ free_list[j] \in Bucket
              /\ free_list[j].addr \in Nat /\ free_list[j].size \in Nat
         /\ \A a \in DOMAIN blocks : a \in Nat /\ blocks[a] \in Nat
<1>1. free_list \in Seq(Bucket)
  BY DEF TypeOK
<1>2. /\ Len(free_list) \in Nat /\ DOMAIN free_list = 1 .. Len(free_list)
      /\ free_list \in [1 .. Len(free_list) -> Bucket]
  BY <1>1, LenProperties
<1>3. \A j \in 1 .. Len(free_list) : free_list[j] \in Bucket
  BY <1>2
<1>4. \A a \in DOMAIN blocks : a \in Nat /\ blocks[a] \in Nat
  BY DEF TypeOK
<1> QED
  BY <1>2, <1>3, <1>4 DEF Bucket

FreeUnits == {u \in Arena : \E i \in DOMAIN free_list : u \in BucketOf(i)}

(* Taking a range of free units away, or adding one, changes their number  *)
(* by its length.                                                          *)
LEMMA TakeUnits ==
  ASSUME NEW a \in Nat, NEW s \in Nat, NEW F, NEW G, F \subseteq Arena,
         Units(a, s) \subseteq F, G = F \ Units(a, s)
  PROVE  Cardinality(G) = Cardinality(F) - s
<1>1. IsFiniteSet(Arena)
  BY FS_Interval, SizesAssumption DEF Arena, Units
<1>2. IsFiniteSet(F)
  BY <1>1, FS_Subset
<1>3. Cardinality(Units(a, s)) = s
  BY FS_Interval DEF Units
<1>4. F \cap Units(a, s) = Units(a, s)
  OBVIOUS
<1>5. Cardinality(F \ Units(a, s)) = Cardinality(F) - Cardinality(F \cap Units(a, s))
  BY <1>2, FS_Difference
<1> QED
  BY <1>3, <1>4, <1>5, Zenon

LEMMA GiveUnits ==
  ASSUME NEW a \in Nat, NEW s \in Nat, NEW F, NEW G, F \subseteq Arena,
         Units(a, s) \cap F = {}, G = F \cup Units(a, s)
  PROVE  Cardinality(G) = Cardinality(F) + s
<1>1. IsFiniteSet(Arena)
  BY FS_Interval, SizesAssumption DEF Arena, Units
<1>2. IsFiniteSet(F) /\ Cardinality(F) \in Nat
  BY <1>1, FS_Subset, FS_CardinalityType
<1>3. Cardinality(Units(a, s)) = s /\ IsFiniteSet(Units(a, s))
  BY FS_Interval DEF Units
<1>4. F \cap Units(a, s) = {}
  OBVIOUS
<1>5. Cardinality({}) = 0
  BY FS_EmptySet
<1>6. Cardinality(F \cup Units(a, s))
         = Cardinality(F) + Cardinality(Units(a, s)) - Cardinality(F \cap Units(a, s))
  BY <1>2, <1>3, FS_Union
<1>7. Cardinality(G) = Cardinality(F) + s - 0
  BY <1>3, <1>4, <1>5, <1>6, Zenon
<1> QED
  BY <1>2, <1>7
-----------------------------------------------------------------------------
(* The block mm_malloc_nolock takes from the front of bucket i.            *)
LEMMA NewBlock ==
  ASSUME Inv, NEW i \in DOMAIN free_list, NEW s \in Nat,
         BucketUnits <= s, s <= free_list[i].size,
         HandOut(free_list[i].addr, s)
  PROVE  /\ free_list[i].addr \notin DOMAIN blocks
         /\ DOMAIN blocks' = DOMAIN blocks \cup {free_list[i].addr}
         /\ \A b \in DOMAIN blocks : blocks'[b] = blocks[b]
         /\ blocks'[free_list[i].addr] = s
         /\ blocks' \in [DOMAIN blocks' -> Nat] /\ DOMAIN blocks' \subseteq Nat
         /\ ret' \in Nat
         /\ \A b \in DOMAIN blocks' : blocks'[b] >= BucketUnits
         /\ BlocksFit' /\ BlocksApart'
<1> DEFINE a == free_list[i].addr
<1>1. /\ a \in Nat /\ free_list[i].size \in Nat
      /\ \A b \in DOMAIN blocks : b \in Nat /\ blocks[b] \in Nat
  BY Elements DEF Inv
<1>2. /\ BucketUnits \in Nat /\ BucketUnits > 0 /\ HeadUnits \in Nat
      /\ HeapUnits \in Nat
  BY SizesAssumption
<1>3. \A b \in DOMAIN blocks : /\ blocks[b] >= BucketUnits
                               /\ b + blocks[b] <= HeapUnits
                               /\ b + blocks[b] <= a \/ a + free_list[i].size <= b
  BY DEF Inv, RoomForBucket, BlocksFit, BlocksOutside, End
<1>4. a + free_list[i].size <= HeapUnits
  BY DEF Inv, Coalesced, End
<1>5. a \notin DOMAIN blocks
  BY <1>1, <1>2, <1>3
<1>6. /\ DOMAIN blocks' = DOMAIN blocks \cup {a}
      /\ blocks'[a] = s
      /\ \A b \in DOMAIN blocks : blocks'[b] = blocks[b]
      /\ ret' = a + HeadUnits
  BY <1>5 DEF HandOut
<1>7. blocks' = [b \in DOMAIN blocks' |-> blocks'[b]]
  BY DEF HandOut
<1>8. \A b \in DOMAIN blocks' : b \in Nat /\ blocks'[b] \in Nat
  BY <1>1, <1>6
<1>9. blocks' \in [DOMAIN blocks' -> Nat] /\ DOMAIN blocks' \subseteq Nat
  BY <1>7, <1>8
<1>10. BlocksFit'
  BY <1>1, <1>2, <1>3, <1>4, <1>6 DEF BlocksFit
<1>11. BlocksApart'
  <2> SUFFICES ASSUME NEW b \in DOMAIN blocks', NEW c \in DOMAIN blocks', b < c
               PROVE  b + blocks'[b] <= c
    BY DEF BlocksApart
  <2>1. CASE b # a /\ c # a
    BY <1>6, <2>1 DEF Inv, BlocksApart
  <2>2. CASE b = a /\ c # a
    BY <1>1, <1>2, <1>3, <1>6, <2>2
  <2>3. CASE b # a /\ c = a
    BY <1>1, <1>2, <1>3, <1>6, <2>3
  <2> QED  BY <1>1, <2>1, <2>2, <2>3
<1>12. ret' \in Nat
  BY <1>1, <1>2, <1>6
<1>13. \A b \in DOMAIN blocks' : blocks'[b] >= BucketUnits
  BY <1>3, <1>6
<1> QED
  BY <1>5, <1>6, <1>9, <1>10, <1>11, <1>12, <1>13

(* Handing out a whole bucket.                                             *)
LEMMA UnlinkInv ==
  ASSUME Inv, NEW i \in DOMAIN free_list, Unlink(i)
  PROVE  Inv'
<1> DEFINE s == free_list
           t == free_list'
           a == free_list[i].addr
<1>1. PICK n \in Nat : n = Len(s)
  BY Elements DEF Inv
<1>2. /\ DOMAIN s = 1 .. n /\ i \in 1 .. n
      /\ \A j \in 1 .. n : s[j] \in Bucket /\ s[j].addr \in Nat /\ s[j].size \in Nat
      /\ \A b \in DOMAIN blocks : b \in Nat /\ blocks[b] \in Nat
  BY <1>1, Elements DEF Inv
<1>3. /\ BucketUnits \in Nat /\ BucketUnits > 0 /\ HeapUnits \in Nat
  BY SizesAssumption
<1>4. /\ t \in Seq(Bucket) /\ Len(t) = n - 1
      /\ \A j \in 1 .. n - 1 : t[j] = IF j < i THEN s[j] ELSE s[j + 1]
  <2>1. s \in Seq(Bucket) /\ i \in 1 .. Len(s)
    BY <1>1, <1>2 DEF Inv, TypeOK
  <2>2. t = SubSeq(s, 1, i - 1) \o SubSeq(s, i + 1, Len(s))
    BY DEF Unlink
  <2> HIDE DEF s, t
  <2> QED
    BY <1>1, <2>1, <2>2, CutOut
<1>5. DOMAIN t = 1 .. n - 1
  BY <1>4, LenProperties
(* Where each bucket of the new list was, and where each old one is.       *)
<1>6. \A j \in DOMAIN t : \E k \in DOMAIN s : /\ k # i /\ t[j] = s[k]
                                              /\ k = IF j < i THEN j ELSE j + 1
  BY <1>1, <1>2, <1>4, <1>5
<1>7. \A k \in DOMAIN s : k # i => \E j \in DOMAIN t : t[j] = s[k]
  <2> SUFFICES ASSUME NEW k \in DOMAIN s, k # i
               PROVE  \E j \in DOMAIN t : t[j] = s[k]
    OBVIOUS
  <2>1. CASE k < i
    <3>1. k \in DOMAIN t /\ t[k] = s[k]
      BY <1>1, <1>2, <1>4, <1>5, <2>1
    <3> QED  BY <3>1
  <2>2. CASE k > i
    <3>1. k - 1 \in DOMAIN t /\ t[k - 1] = s[k]
      BY <1>1, <1>2, <1>4, <1>5, <2>2
    <3> QED  BY <3>1
  <2> QED  BY <1>2, <2>1, <2>2
<1>8. /\ BucketUnits <= s[i].size /\ s[i].size <= s[i].size
      /\ a \in Nat /\ s[i].size \in Nat
      /\ HandOut(a, s[i].size)
  BY <1>2, <1>3 DEF Inv, RoomForBucket, Unlink
<1>9. /\ a \notin DOMAIN blocks /\ DOMAIN blocks' = DOMAIN blocks \cup {a}
      /\ \A b \in DOMAIN blocks : blocks'[b] = blocks[b]
      /\ blocks'[a] = s[i].size
      /\ blocks' \in [DOMAIN blocks' -> Nat] /\ DOMAIN blocks' \subseteq Nat
      /\ ret' \in Nat
      /\ \A b \in DOMAIN blocks' : blocks'[b] >= BucketUnits
      /\ BlocksFit' /\ BlocksApart'
  BY <1>8, NewBlock, Zenon
<1>10. TypeOK'
  BY <1>2, <1>4, <1>8, <1>9 DEF TypeOK, Inv, HandOut
<1>11. Coalesced'
  <2>1. \A j \in DOMAIN t : End(t[j]) <= HeapUnits
    BY <1>6 DEF Inv, Coalesced
  <2>2. ASSUME NEW j \in DOMAIN t, NEW l \in DOMAIN t, j < l
        PROVE  End(t[j]) < t[l].addr
    <3>1. PICK k \in DOMAIN s : t[j] = s[k] /\ k = IF j < i THEN j ELSE j + 1
      BY <1>6
    <3>2. PICK m \in DOMAIN s : t[l] = s[m] /\ m = IF l < i THEN l ELSE l + 1
      BY <1>6
    <3>3. k < m
      BY <1>2, <1>5, <2>2, <3>1, <3>2
    <3> QED  BY <3>1, <3>2, <3>3 DEF Inv, Coalesced
  <2> QED  BY <2>1, <2>2 DEF Coalesced
<1>12. RoomForBucket'
  BY <1>6, <1>9 DEF Inv, RoomForBucket
<1>13. BlocksOutside'
  <2> SUFFICES ASSUME NEW b \in DOMAIN blocks', NEW j \in DOMAIN t
               PROVE  b + blocks'[b] <= t[j].addr \/ End(t[j]) <= b
    BY DEF BlocksOutside
  <2>1. PICK k \in DOMAIN s : k # i /\ t[j] = s[k]
    BY <1>6
  <2>2. CASE b = a
    <3>1. k < i \/ i < k
      BY <1>2, <2>1
    <3>2. End(s[k]) < s[i].addr \/ End(s[i]) < s[k].addr
      BY <3>1 DEF Inv, Coalesced
    <3> QED  BY <1>2, <1>9, <2>1, <2>2, <3>2 DEF End
  <2>3. CASE b # a
    BY <1>9, <2>1, <2>3 DEF Inv, BlocksOutside
  <2> QED  BY <2>2, <2>3
<1>14. NothingLost'
  <2> SUFFICES ASSUME NEW u \in Arena
               PROVE  \/ \E b \in DOMAIN blocks' : u \in b .. b + blocks'[b] - 1
                      \/ \E j \in DOMAIN t : u \in t[j].addr .. t[j].addr + t[j].size - 1
    BY DEF NothingLost, BlockOf, BucketOf, Units, Arena
  <2>1. CASE \E b \in DOMAIN blocks : u \in BlockOf(b)
    BY <1>9, <2>1 DEF BlockOf, Units
  <2>2. CASE \E k \in DOMAIN s : u \in BucketOf(k)
    <3>1. PICK k \in DOMAIN s : u \in s[k].addr .. s[k].addr + s[k].size - 1
      BY <2>2 DEF BucketOf, Units
    <3>2. CASE k = i
      BY <1>9, <3>1, <3>2
    <3>3. CASE k # i
      BY <1>7, <3>1, <3>3
    <3> QED  BY <3>2, <3>3
  <2> QED  BY <2>1, <2>2 DEF Inv, NothingLost
<1>15. AvailableExact'
  <2>1. FreeUnits' = FreeUnits \ Units(a, s[i].size)
    <3>1. ASSUME NEW u \in FreeUnits'  PROVE u \in FreeUnits \ Units(a, s[i].size)
      <4>1. PICK j \in DOMAIN t : u \in t[j].addr .. t[j].addr + t[j].size - 1
        BY <3>1 DEF FreeUnits, BucketOf, Units
      <4>2. PICK k \in DOMAIN s : k # i /\ t[j] = s[k]
        BY <1>6
      <4>3. k < i \/ i < k
        BY <1>2, <4>2
      <4>4. End(s[k]) < s[i].addr \/ End(s[i]) < s[k].addr
        BY <4>3 DEF Inv, Coalesced
      <4>5. u \notin Units(a, s[i].size)
        <5>1. /\ u \in s[k].addr .. s[k].addr + s[k].size - 1
              /\ s[k].addr \in Nat /\ s[k].size \in Nat
          BY <1>2, <4>1, <4>2
        <5> QED  BY <1>8, <4>4, <5>1 DEF End, Units
      <4>6. u \in BucketOf(k) /\ u \in Arena
        BY <3>1, <4>1, <4>2 DEF BucketOf, Units, FreeUnits, Arena
      <4> QED  BY <4>5, <4>6 DEF FreeUnits
    <3>2. ASSUME NEW u \in FreeUnits \ Units(a, s[i].size)  PROVE u \in FreeUnits'
      <4>1. PICK k \in DOMAIN s : u \in BucketOf(k)
        BY DEF FreeUnits
      <4>2. k # i
        BY <3>2, <4>1 DEF BucketOf
      <4>3. PICK j \in DOMAIN t : t[j] = s[k]
        BY <1>7, <4>2
      <4> QED  BY <4>1, <4>3 DEF FreeUnits, BucketOf, Units, Arena
    <3> QED  BY <3>1, <3>2
  <2>2. Units(a, s[i].size) \subseteq FreeUnits
    <3>1. Units(a, s[i].size) \subseteq Arena
      BY <1>2, <1>3 DEF Inv, Coalesced, End, Units, Arena
    <3> QED  BY <3>1 DEF FreeUnits, BucketOf
  <2>3. FreeUnits \subseteq Arena
    BY DEF FreeUnits
  <2>4. Cardinality(FreeUnits') = Cardinality(FreeUnits) - s[i].size
    <3>1. PICK f, g, l : f = FreeUnits /\ g = FreeUnits' /\ l = s[i].size
      OBVIOUS
    <3>2. Cardinality(g) = Cardinality(f) - l
      BY <1>8, <2>1, <2>2, <2>3, <3>1, TakeUnits
    <3> QED  BY <3>1, <3>2
  <2>5. available = Cardinality(FreeUnits) /\ available' = available - s[i].size
    BY <1>8 DEF Inv, AvailableExact, FreeUnits, HandOut
  <2>6. available' = Cardinality(FreeUnits')
    BY <2>4, <2>5, Zenon
  <2> QED  BY <2>6 DEF AvailableExact, FreeUnits
<1> QED
  BY <1>9, <1>10, <1>11, <1>12, <1>13, <1>14, <1>15 DEF Inv

(* Handing out the front of a bucket.                                      *)
LEMMA SplitInv ==
  ASSUME Inv, NEW i \in DOMAIN free_list, NEW r \in Nat, BucketUnits <= r,
         free_list[i].size - r >= BucketUnits, Split(i, r)
  PROVE  Inv'
<1> DEFINE s == free_list
           t == free_list'
           a == free_list[i].addr
<1>1. PICK n \in Nat : n = Len(s)
  BY Elements DEF Inv
<1>2. /\ DOMAIN s = 1 .. n /\ i \in 1 .. n
      /\ \A j \in 1 .. n : s[j] \in Bucket /\ s[j].addr \in Nat /\ s[j].size \in Nat
      /\ \A b \in DOMAIN blocks : b \in Nat /\ blocks[b] \in Nat
  BY <1>1, Elements DEF Inv
<1>3. /\ BucketUnits \in Nat /\ BucketUnits > 0 /\ HeapUnits \in Nat
  BY SizesAssumption
<1>4. /\ a \in Nat /\ s[i].size \in Nat /\ r <= s[i].size
      /\ HandOut(a, r)
  BY <1>2, <1>3 DEF Split
<1>5. PICK x : x = [addr |-> a + r, size |-> s[i].size - r]
  OBVIOUS
<1>6. /\ x \in Bucket /\ x.addr = a + r /\ x.size = s[i].size - r
      /\ x.addr \in Nat /\ x.size \in Nat /\ x.size >= BucketUnits
      /\ End(x) = End(s[i])
  BY <1>4, <1>5 DEF Bucket, End
<1>7. /\ t \in Seq(Bucket) /\ Len(t) = n
      /\ \A j \in 1 .. n : t[j] = IF j = i THEN x ELSE s[j]
  <2>1. s \in Seq(Bucket) /\ i \in 1 .. Len(s)
    BY <1>1, <1>2 DEF Inv, TypeOK
  <2>2. t = [s EXCEPT ![i] = x]
    BY <1>5 DEF Split
  <2> QED  BY <1>1, <1>6, <2>1, <2>2, ExceptSeq
<1>8. DOMAIN t = 1 .. n
  BY <1>7, LenProperties
<1>9. /\ a \notin DOMAIN blocks /\ DOMAIN blocks' = DOMAIN blocks \cup {a}
      /\ \A b \in DOMAIN blocks : blocks'[b] = blocks[b]
      /\ blocks'[a] = r
      /\ blocks' \in [DOMAIN blocks' -> Nat] /\ DOMAIN blocks' \subseteq Nat
      /\ ret' \in Nat
      /\ \A b \in DOMAIN blocks' : blocks'[b] >= BucketUnits
      /\ BlocksFit' /\ BlocksApart'
  BY <1>4, NewBlock, Zenon
<1>10. TypeOK'
  BY <1>4, <1>7, <1>9 DEF TypeOK, Inv, HandOut
<1>11. Coalesced'
  <2>1. \A j \in DOMAIN t : End(t[j]) = End(s[j])
    BY <1>2, <1>6, <1>7, <1>8
  <2>2. \A j \in DOMAIN t : t[j].addr >= s[j].addr /\ t[j].addr \in Nat
    BY <1>2, <1>4, <1>6, <1>7, <1>8
  <2>3. \A j \in DOMAIN t : End(t[j]) <= HeapUnits
    BY <1>2, <1>8, <2>1 DEF Inv, Coalesced
  <2>4. ASSUME NEW j \in DOMAIN t, NEW l \in DOMAIN t, j < l
        PROVE  End(t[j]) < t[l].addr
    <3>1. End(s[j]) < s[l].addr
      BY <1>2, <1>8, <2>4 DEF Inv, Coalesced
    <3>2. End(s[j]) \in Nat /\ s[l].addr \in Nat
      BY <1>2, <1>8 DEF End
    <3> QED  BY <2>1, <2>2, <3>1, <3>2
  <2> QED  BY <2>3, <2>4 DEF Coalesced
<1>12. RoomForBucket'
  BY <1>2, <1>6, <1>7, <1>8, <1>9 DEF Inv, RoomForBucket
<1>13. BlocksOutside'
  <2> SUFFICES ASSUME NEW b \in DOMAIN blocks', NEW j \in DOMAIN t
               PROVE  b + blocks'[b] <= t[j].addr \/ End(t[j]) <= b
    BY DEF BlocksOutside
  <2>1. j \in DOMAIN s /\ s[j].addr \in Nat /\ s[j].size \in Nat
    BY <1>2, <1>8
  <2>2. CASE b = a /\ j = i
    BY <1>2, <1>4, <1>6, <1>7, <1>9, <2>2
  <2>3. CASE b = a /\ j # i
    <3>1. j < i \/ i < j
      BY <1>2, <2>1, <2>3
    <3>2. End(s[j]) < s[i].addr \/ End(s[i]) < s[j].addr
      BY <2>1, <3>1 DEF Inv, Coalesced
    <3>3. t[j] = s[j]
      BY <1>7, <1>8, <2>3
    <3> QED  BY <1>4, <1>9, <2>1, <2>3, <3>2, <3>3 DEF End
  <2>4. CASE b # a
    <3>1. b \in Nat /\ blocks[b] \in Nat /\ blocks'[b] = blocks[b]
      BY <1>2, <1>9, <2>4
    <3>2. b + blocks[b] <= s[j].addr \/ End(s[j]) <= b
      BY <1>9, <2>1, <2>4 DEF Inv, BlocksOutside
    <3>3. CASE j # i
      BY <1>7, <1>8, <3>1, <3>2, <3>3
    <3>4. CASE j = i
      <4>1. t[j] = x
        BY <1>2, <1>7, <3>4
      <4> QED  BY <1>4, <1>6, <3>1, <3>2, <3>4, <4>1 DEF End
    <3> QED  BY <3>3, <3>4
  <2> QED  BY <2>2, <2>3, <2>4
<1>14. NothingLost'
  <2> SUFFICES ASSUME NEW u \in Arena
               PROVE  \/ \E b \in DOMAIN blocks' : u \in b .. b + blocks'[b] - 1
                      \/ \E j \in DOMAIN t : u \in t[j].addr .. t[j].addr + t[j].size - 1
    BY DEF NothingLost, BlockOf, BucketOf, Units, Arena
  <2>1. CASE \E b \in DOMAIN blocks : u \in BlockOf(b)
    BY <1>9, <2>1 DEF BlockOf, Units
  <2>2. CASE \E k \in DOMAIN s : u \in BucketOf(k)
    <3>1. PICK k \in DOMAIN s : u \in s[k].addr .. s[k].addr + s[k].size - 1
      BY <2>2 DEF BucketOf, Units
    <3>2. CASE k = i /\ u < a + r
      <4>1. u \in a .. a + blocks'[a] - 1
        BY <1>4, <1>9, <3>1, <3>2
      <4> QED  BY <1>9, <4>1
    <3>3. CASE k = i /\ ~ (u < a + r)
      <4>1. u \in x.addr .. x.addr + x.size - 1
        BY <1>4, <1>6, <3>1, <3>3
      <4> QED  BY <1>2, <1>7, <1>8, <4>1
    <3>4. CASE k # i
      BY <1>2, <1>7, <1>8, <3>1, <3>4
    <3> QED  BY <3>2, <3>3, <3>4
  <2> QED  BY <2>1, <2>2 DEF Inv, NothingLost
<1>15. AvailableExact'
  <2>1. FreeUnits' = FreeUnits \ Units(a, r)
    <3>1. ASSUME NEW u \in FreeUnits'  PROVE u \in FreeUnits \ Units(a, r)
      <4>1. PICK j \in DOMAIN t : u \in t[j].addr .. t[j].addr + t[j].size - 1
        BY <3>1 DEF FreeUnits, BucketOf, Units
      <4>2. u \in Arena
        BY <3>1 DEF FreeUnits, Arena
      <4>3. CASE j = i
        <5>1. u \in x.addr .. x.addr + x.size - 1
          BY <1>2, <1>7, <4>1, <4>3
        <5>2. u \in BucketOf(i) /\ u \notin Units(a, r)
          BY <1>4, <1>6, <5>1 DEF BucketOf, Units
        <5> QED  BY <4>2, <5>2 DEF FreeUnits
      <4>4. CASE j # i
        <5>1. /\ j \in DOMAIN s /\ u \in s[j].addr .. s[j].addr + s[j].size - 1
              /\ s[j].addr \in Nat /\ s[j].size \in Nat
          BY <1>2, <1>7, <1>8, <4>1, <4>4
        <5>2. j < i \/ i < j
          BY <1>2, <4>4, <5>1
        <5>3. End(s[j]) < s[i].addr \/ End(s[i]) < s[j].addr
          BY <5>1, <5>2 DEF Inv, Coalesced
        <5>4. u \in BucketOf(j) /\ u \notin Units(a, r)
          BY <1>4, <5>1, <5>3 DEF End, BucketOf, Units
        <5> QED  BY <4>2, <5>1, <5>4 DEF FreeUnits
      <4> QED  BY <4>3, <4>4
    <3>2. ASSUME NEW u \in FreeUnits \ Units(a, r)  PROVE u \in FreeUnits'
      <4>1. PICK k \in DOMAIN s : u \in s[k].addr .. s[k].addr + s[k].size - 1
        BY DEF FreeUnits, BucketOf, Units
      <4>2. u \in Arena /\ ~ (u \in a .. a + r - 1)
        BY <3>2 DEF FreeUnits, Units
      <4>3. k \in DOMAIN t /\ u \in t[k].addr .. t[k].addr + t[k].size - 1
        <5>1. CASE k = i
          <6>1. u \in x.addr .. x.addr + x.size - 1
            BY <1>4, <1>6, <4>1, <4>2, <5>1
          <6> QED  BY <1>2, <1>7, <1>8, <5>1, <6>1
        <5>2. CASE k # i
          BY <1>2, <1>7, <1>8, <4>1, <5>2
        <5> QED  BY <5>1, <5>2
      <4> QED  BY <4>2, <4>3 DEF FreeUnits, BucketOf, Units, Arena
    <3> QED  BY <3>1, <3>2
  <2>2. Units(a, r) \subseteq FreeUnits
    <3>1. Units(a, r) \subseteq BucketOf(i)
      BY <1>4 DEF BucketOf, Units
    <3>2. Units(a, r) \subseteq Arena
      BY <1>3, <1>4 DEF Inv, Coalesced, End, Units, Arena
    <3> QED  BY <3>1, <3>2 DEF FreeUnits
  <2>3. FreeUnits \subseteq Arena
    BY DEF FreeUnits
  <2>4. Cardinality(FreeUnits') = Cardinality(FreeUnits) - r
    <3>1. PICK f, g : f = FreeUnits /\ g = FreeUnits'
      OBVIOUS
    <3>2. Cardinality(g) = Cardinality(f) - r
      BY <1>4, <2>1, <2>2, <2>3, <3>1, TakeUnits
    <3> QED  BY <3>1, <3>2
  <2>5. available = Cardinality(FreeUnits) /\ available' = available - r
    BY <1>4 DEF Inv, AvailableExact, FreeUnits, HandOut
  <2>6. available' = Cardinality(FreeUnits')
    BY <2>4, <2>5, Zenon
  <2> QED  BY <2>6 DEF AvailableExact, FreeUnits
<1> QED
  BY <1>9, <1>10, <1>11, <1>12, <1>13, <1>14, <1>15 DEF Inv

(* Taking a block back.  With p the bucket below it, x is the bucket it    *)
(* ends up in and takes the place of the elements m + 1 .. k - 1.          *)
LEMMA FreeInv ==
  ASSUME Inv, NEW a \in DOMAIN blocks, FreeBlock(a)
  PROVE  Inv'
<1> DEFINE s == free_list
           t == free_list'
           e == a + blocks[a]
<1>1. PICK n \in Nat : n = Len(s)
  BY Elements DEF Inv
<1>2. /\ DOMAIN s = 1 .. n
      /\ \A j \in 1 .. n : /\ s[j] \in Bucket /\ s[j].addr \in Nat /\ s[j].size \in Nat
                           /\ End(s[j]) = s[j].addr + s[j].size /\ End(s[j]) \in Nat
                           /\ s[j].size >= BucketUnits /\ End(s[j]) <= HeapUnits
      /\ \A b \in DOMAIN blocks : /\ b \in Nat /\ blocks[b] \in Nat
                                  /\ blocks[b] >= BucketUnits
  BY <1>1, Elements DEF Inv, End, RoomForBucket, Coalesced
<1>3. /\ BucketUnits \in Nat /\ BucketUnits > 0 /\ HeapUnits \in Nat
  BY SizesAssumption
<1>4. /\ a \in Nat /\ blocks[a] \in Nat /\ e \in Nat /\ e > a /\ e <= HeapUnits
      /\ e >= a + BucketUnits
  BY <1>2, <1>3 DEF Inv, BlocksFit
<1>5. PICK p \in 0 .. n :
        /\ Position(a, p)
        /\ t = SubSeq(s, 1, Below(a, p)) \o << Merged(a, p) >> \o SubSeq(s, Above(a, p), n)
        /\ available' = available + blocks[a]
        /\ blocks' = [b \in DOMAIN blocks \ {a} |-> blocks[b]]
        /\ ret' = ret
  BY <1>1 DEF FreeBlock
(* The neighbours of the block.                                            *)
<1>6. p > 0 => p \in 1 .. n /\ End(s[p]) <= a
  <2> SUFFICES ASSUME p > 0  PROVE p \in 1 .. n /\ End(s[p]) <= a
    OBVIOUS
  <2>1. p \in 1 .. n /\ s[p].addr <= a
    BY <1>5 DEF Position
  <2>2. e <= s[p].addr \/ End(s[p]) <= a
    BY <1>2, <2>1 DEF Inv, BlocksOutside
  <2> QED  BY <1>2, <1>4, <2>1, <2>2
<1>7. p < n => p + 1 \in 1 .. n /\ e <= s[p + 1].addr
  <2> SUFFICES ASSUME p < n  PROVE p + 1 \in 1 .. n /\ e <= s[p + 1].addr
    OBVIOUS
  <2>1. p + 1 \in 1 .. n /\ a < s[p + 1].addr
    BY <1>1, <1>5 DEF Position
  <2>2. e <= s[p + 1].addr \/ End(s[p + 1]) <= a
    BY <1>2, <2>1 DEF Inv, BlocksOutside
  <2>3. s[p + 1].addr \in Nat /\ End(s[p + 1]) = s[p + 1].addr + s[p + 1].size
          /\ s[p + 1].size \in Nat
    BY <1>2, <2>1
  <2> QED  BY <1>4, <2>1, <2>2, <2>3
<1>7b. ASSUME p + 1 \in 1 .. n
       PROVE  /\ s[p + 1].addr \in Nat /\ s[p + 1].size \in Nat
              /\ End(s[p + 1]) = s[p + 1].addr + s[p + 1].size /\ End(s[p + 1]) \in Nat
              /\ s[p + 1].size >= BucketUnits /\ End(s[p + 1]) <= HeapUnits
  <2>1. PICK q \in 1 .. n : q = p + 1
    BY <1>7b
  <2> QED  BY <1>2, <2>1
<1>8. PICK x, m, k : x = Merged(a, p) /\ m = Below(a, p) /\ k = Above(a, p)
  OBVIOUS
<1>9. \/ /\ p \in 1 .. n /\ m = p - 1 /\ x.addr = s[p].addr /\ End(s[p]) = a
      \/ /\ m = p /\ x.addr = a
         /\ p \in 1 .. n => End(s[p]) < a
  <2>1. CASE MergesPrev(a, p)
    BY <1>6, <1>8, <2>1 DEF MergesPrev, Below, Merged
  <2>2. CASE ~ MergesPrev(a, p)
    <3>1. m = p /\ x.addr = a
      BY <1>8, <2>2 DEF Below, Merged
    <3>2. ASSUME p \in 1 .. n  PROVE End(s[p]) < a
      BY <1>2, <1>4, <1>6, <2>2, <3>2 DEF MergesPrev
    <3> QED  BY <3>1, <3>2
  <2> QED  BY <2>1, <2>2
<1>10. x = [addr |-> x.addr, size |-> x.size]
  BY <1>8 DEF Merged
<1>11. \/ /\ p + 1 \in 1 .. n /\ k = p + 2 /\ x.size = End(s[p + 1]) - x.addr
          /\ e = s[p + 1].addr
       \/ /\ k = p + 1 /\ x.size = e - x.addr
          /\ p + 1 \in 1 .. n => e < s[p + 1].addr
  <2>1. CASE MergesNext(a, p)
    BY <1>1, <1>7, <1>8, <2>1 DEF MergesNext, Above, Merged
  <2>2. CASE ~ MergesNext(a, p)
    <3>1. k = p + 1 /\ x.size = e - x.addr
      BY <1>8, <2>2 DEF Above, Merged
    <3>2. ASSUME p + 1 \in 1 .. n  PROVE e < s[p + 1].addr
      BY <1>1, <1>2, <1>4, <1>7, <2>2, <3>2 DEF MergesNext
    <3> QED  BY <3>1, <3>2
  <2> QED  BY <2>1, <2>2
<1>12. /\ n \in Nat /\ p \in Nat /\ p <= n
       /\ m \in Nat /\ k \in Nat /\ m <= p /\ p <= m + 1 /\ p + 1 <= k /\ k <= p + 2
       /\ m \in 0 .. n /\ k \in m + 1 .. n + 1
  <2>1. n \in Nat /\ p \in Nat /\ p <= n
    BY <1>1, <1>5
  <2>2. m \in Nat /\ m <= p /\ p <= m + 1
    BY <1>9, <2>1
  <2>3. k \in Nat /\ p + 1 <= k /\ k <= p + 2 /\ k <= n + 1
    BY <1>11, <2>1
  <2> QED  BY <2>1, <2>2, <2>3
(* The new bucket.                                                         *)
<1>13. /\ x.addr \in Nat /\ x.size \in Nat /\ x \in Bucket
       /\ x.addr <= a /\ e <= End(x) /\ End(x) <= HeapUnits
       /\ End(x) = x.addr + x.size /\ x.size >= BucketUnits
  <2>1. x.addr \in Nat /\ x.addr <= a
    <3>1. CASE x.addr = a
      BY <1>4, <3>1
    <3>2. CASE p \in 1 .. n /\ x.addr = s[p].addr /\ End(s[p]) = a
      BY <1>2, <1>4, <3>2
    <3> QED  BY <1>9, <3>1, <3>2
  <2>2. x.size \in Nat /\ e <= x.addr + x.size /\ x.addr + x.size <= HeapUnits
    <3>1. CASE x.size = e - x.addr
      BY <1>4, <2>1, <3>1
    <3>2. CASE p + 1 \in 1 .. n /\ x.size = End(s[p + 1]) - x.addr /\ e = s[p + 1].addr
      BY <1>4, <1>7b, <2>1, <3>2
    <3> QED  BY <1>11, <3>1, <3>2
  <2>3. x \in Bucket
    BY <1>10, <2>1, <2>2 DEF Bucket
  <2>4. x.size >= BucketUnits
    BY <1>3, <1>4, <2>1, <2>2
  <2> QED  BY <2>1, <2>2, <2>3, <2>4 DEF End
(* The buckets that stay lie below it or above it, and do not touch it.    *)
<1>14. ASSUME NEW j \in DOMAIN s
       PROVE  /\ j <= m => End(s[j]) < x.addr
              /\ j >= k => End(x) < s[j].addr
  <2>1. j \in Nat /\ j \in 1 .. n
    BY <1>2
  <2>2. ASSUME j <= m  PROVE End(s[j]) < x.addr
    <3>1. CASE p \in 1 .. n /\ m = p - 1 /\ x.addr = s[p].addr
      <4>1. j < p /\ p \in DOMAIN s
        BY <1>2, <2>1, <2>2, <3>1
      <4> QED  BY <3>1, <4>1 DEF Inv, Coalesced
    <3>2. CASE m = p /\ x.addr = a /\ (p \in 1 .. n => End(s[p]) < a)
      <4>1. p \in 1 .. n /\ p \in DOMAIN s
        BY <1>2, <1>12, <2>1, <2>2, <3>2
      <4>2. CASE j = p
        BY <3>2, <4>1, <4>2
      <4>3. CASE j < p
        <5>1. End(s[j]) < s[p].addr
          BY <4>1, <4>3 DEF Inv, Coalesced
        <5> QED  BY <1>2, <1>4, <2>1, <3>2, <4>1, <5>1
      <4> QED  BY <1>12, <2>1, <2>2, <3>2, <4>2, <4>3
    <3> QED  BY <1>9, <3>1, <3>2
  <2>3. ASSUME j >= k  PROVE End(x) < s[j].addr
    <3>1. CASE p + 1 \in 1 .. n /\ k = p + 2 /\ x.size = End(s[p + 1]) - x.addr
      <4>1. p + 1 < j /\ p + 1 \in DOMAIN s
        BY <1>2, <1>12, <2>1, <2>3, <3>1
      <4>2. End(s[p + 1]) < s[j].addr
        BY <4>1 DEF Inv, Coalesced
      <4>3. End(x) = End(s[p + 1])
        BY <1>2, <1>13, <3>1
      <4> QED  BY <4>2, <4>3
    <3>2. CASE k = p + 1 /\ x.size = e - x.addr /\ (p + 1 \in 1 .. n => e < s[p + 1].addr)
      <4>1. p + 1 \in 1 .. n /\ p + 1 \in DOMAIN s
        BY <1>2, <1>12, <2>1, <2>3, <3>2
      <4>2. End(x) = e
        BY <1>4, <1>13, <3>2
      <4>3. CASE j = p + 1
        BY <3>2, <4>1, <4>2, <4>3
      <4>4. CASE j > p + 1
        <5>1. End(s[p + 1]) < s[j].addr
          BY <1>12, <4>1, <4>4 DEF Inv, Coalesced
        <5>2. s[p + 1].addr <= End(s[p + 1]) /\ s[p + 1].addr \in Nat
          BY <1>7b, <4>1
        <5> QED  BY <1>2, <1>4, <2>1, <3>2, <4>1, <4>2, <5>1, <5>2
      <4> QED  BY <1>12, <2>1, <2>3, <3>2, <4>3, <4>4
    <3> QED  BY <1>11, <3>1, <3>2
  <2> QED  BY <2>2, <2>3
(* The new bucket is the block and the buckets it merged with.             *)
<1>15. ASSUME NEW u \in Nat
       PROVE  u \in x.addr .. x.addr + x.size - 1
                <=> \/ u \in a .. e - 1
                    \/ \E j \in DOMAIN s : /\ m < j /\ j < k
                                           /\ u \in s[j].addr .. s[j].addr + s[j].size - 1
  <2>1. ASSUME u \in x.addr .. x.addr + x.size - 1, ~ (u \in a .. e - 1)
        PROVE  \E j \in DOMAIN s : /\ m < j /\ j < k
                                   /\ u \in s[j].addr .. s[j].addr + s[j].size - 1
    <3>1. CASE u < a
      <4>1. p \in 1 .. n /\ m = p - 1 /\ x.addr = s[p].addr /\ End(s[p]) = a
        BY <1>4, <1>9, <2>1, <3>1
      <4>2. u \in s[p].addr .. s[p].addr + s[p].size - 1
        BY <1>2, <1>4, <1>13, <2>1, <3>1, <4>1
      <4>3. m < p /\ p < k /\ p \in DOMAIN s
        BY <1>2, <1>12, <4>1
      <4> QED  BY <4>2, <4>3
    <3>2. CASE u >= e
      <4>1. /\ p + 1 \in 1 .. n /\ k = p + 2 /\ x.size = End(s[p + 1]) - x.addr
            /\ e = s[p + 1].addr
        BY <1>4, <1>11, <1>13, <2>1, <3>2
      <4>2. u \in s[p + 1].addr .. s[p + 1].addr + s[p + 1].size - 1
        BY <1>4, <1>7b, <1>13, <2>1, <3>2, <4>1
      <4>3. m < p + 1 /\ p + 1 < k /\ p + 1 \in DOMAIN s
        BY <1>2, <1>12, <4>1
      <4> QED  BY <4>2, <4>3
    <3> QED  BY <1>4, <2>1, <3>1, <3>2
  <2>2. ASSUME u \in a .. e - 1  PROVE u \in x.addr .. x.addr + x.size - 1
    BY <1>4, <1>13, <2>2
  <2>3. ASSUME NEW j \in DOMAIN s, m < j, j < k,
               u \in s[j].addr .. s[j].addr + s[j].size - 1
        PROVE  u \in x.addr .. x.addr + x.size - 1
    <3>0. j \in 1 .. n /\ j \in Nat /\ s[j].addr \in Nat /\ s[j].size \in Nat
      BY <1>2
    <3>1. CASE j <= p
      <4>1. j = p /\ p \in 1 .. n /\ m = p - 1 /\ x.addr = s[p].addr /\ End(s[p]) = a
        BY <1>9, <1>12, <2>3, <3>0, <3>1
      <4> QED  BY <1>4, <1>13, <2>3, <3>0, <4>1 DEF End
    <3>2. CASE j > p
      <4>1. /\ j = p + 1 /\ p + 1 \in 1 .. n /\ x.size = End(s[p + 1]) - x.addr
            /\ e = s[p + 1].addr
        BY <1>11, <1>12, <2>3, <3>0, <3>2
      <4> QED  BY <1>4, <1>13, <2>3, <3>0, <4>1 DEF End
    <3> QED  BY <1>12, <3>0, <3>1, <3>2
  <2> QED  BY <2>1, <2>2, <2>3
(* Where each bucket of the new list was, and where each old one is.       *)
<1>16. /\ t \in Seq(Bucket) /\ Len(t) = n + m + 2 - k
       /\ \A j \in 1 .. n + m + 2 - k :
            t[j] = IF j <= m THEN s[j] ELSE IF j = m + 1 THEN x ELSE s[j - (m + 2) + k]
  <2>1. s \in Seq(Bucket)
    BY DEF Inv, TypeOK
  <2>2. t = SubSeq(s, 1, m) \o << x >> \o SubSeq(s, k, Len(s))
    BY <1>1, <1>5, <1>8
  <2>3. m \in 0 .. Len(s) /\ k \in m + 1 .. Len(s) + 1
    BY <1>1, <1>12
  <2>4. x \in Bucket
    BY <1>13
  <2>5. Spliced(Bucket, t, s, x, m, k)
    BY <2>1, <2>2, <2>3, <2>4, Splice
  <2> QED  BY <1>1, <2>5 DEF Spliced
<1>17. DOMAIN t = 1 .. n + m + 2 - k
  BY <1>16, LenProperties
<1>18. m + 1 \in DOMAIN t /\ t[m + 1] = x
  <2>1. m + 1 \in 1 .. n + m + 2 - k /\ ~ (m + 1 <= m)
    BY <1>12
  <2> QED  BY <1>16, <1>17, <2>1
<1>19. ASSUME NEW j \in DOMAIN t
       PROVE  \/ j = m + 1
              \/ j <= m /\ j \in DOMAIN s /\ t[j] = s[j]
              \/ /\ j > m + 1 /\ j - (m + 2) + k \in DOMAIN s
                 /\ t[j] = s[j - (m + 2) + k] /\ j - (m + 2) + k >= k
  <2>1. j \in 1 .. n + m + 2 - k /\ j \in Nat
    BY <1>12, <1>17
  <2>2. CASE j <= m
    <3>1. j \in DOMAIN s
      BY <1>2, <1>12, <2>1, <2>2
    <3> QED  BY <1>16, <2>1, <2>2, <3>1
  <2>3. CASE j > m + 1
    <3>1. /\ ~ (j <= m) /\ j # m + 1
          /\ j - (m + 2) + k \in 1 .. n /\ j - (m + 2) + k >= k
      BY <1>12, <2>1, <2>3
    <3> QED  BY <1>2, <1>16, <2>1, <2>3, <3>1
  <2> QED  BY <1>12, <2>1, <2>2, <2>3
<1>20. ASSUME NEW q \in DOMAIN s, q <= m \/ q >= k
       PROVE  \E j \in DOMAIN t : t[j] = s[q]
  <2>0. q \in 1 .. n /\ q \in Nat
    BY <1>2
  <2>1. CASE q <= m
    <3>1. q \in 1 .. n + m + 2 - k
      BY <1>12, <2>0, <2>1
    <3> QED  BY <1>16, <1>17, <2>1, <3>1
  <2>2. CASE q >= k
    <3>1. PICK j : j = q + (m + 2) - k
      OBVIOUS
    <3>2. /\ j \in 1 .. n + m + 2 - k /\ ~ (j <= m) /\ j # m + 1
          /\ j - (m + 2) + k = q
      BY <1>12, <2>0, <2>2, <3>1
    <3> QED  BY <1>16, <1>17, <3>2
  <2> QED  BY <1>20, <2>1, <2>2
<1>21. \A j \in DOMAIN t : t[j].addr \in Nat /\ t[j].size \in Nat
  <2>1. Len(t) = n + m + 2 - k /\ t \in Seq(Bucket)
    BY <1>16
  <2>2. \A j \in DOMAIN t : t[j] \in Bucket
    BY <1>17, <2>1
  <2> QED  BY <2>2 DEF Bucket
(* The blocks that stay.                                                   *)
<1>22. /\ DOMAIN blocks' = DOMAIN blocks \ {a}
       /\ \A b \in DOMAIN blocks' : b \in DOMAIN blocks /\ blocks'[b] = blocks[b]
  BY <1>5
<1>23. TypeOK'
  <2>1. available' \in Int
    BY <1>4, <1>5 DEF Inv, TypeOK
  <2>2. blocks' \in [DOMAIN blocks' -> Nat] /\ DOMAIN blocks' \subseteq Nat
    BY <1>2, <1>5
  <2>3. ret' \in Nat
    BY <1>5 DEF Inv, TypeOK
  <2> QED  BY <1>16, <2>1, <2>2, <2>3 DEF TypeOK
<1>24. Coalesced'
  <2>1. ASSUME NEW j \in DOMAIN t  PROVE End(t[j]) <= HeapUnits
    BY <1>2, <1>13, <1>18, <1>19
  <2>2. ASSUME NEW j \in DOMAIN t, NEW l \in DOMAIN t, j < l
        PROVE  End(t[j]) < t[l].addr
    <3>0. j \in Nat /\ l \in Nat
      BY <1>12, <1>17
    <3>1. CASE j = m + 1
      <4>1. l > m + 1 /\ ~ (l <= m) /\ l # m + 1
        BY <1>12, <2>2, <3>0, <3>1
      <4>2. PICK q \in DOMAIN s : q >= k /\ t[l] = s[q]
        BY <1>19, <4>1
      <4> QED  BY <1>14, <1>18, <3>1, <4>2
    <3>2. CASE l = m + 1
      <4>1. j <= m /\ ~ (j > m + 1) /\ j # m + 1
        BY <1>12, <2>2, <3>0, <3>2
      <4>2. j \in DOMAIN s /\ t[j] = s[j]
        BY <1>19, <4>1
      <4> QED  BY <1>14, <1>18, <3>2, <4>1, <4>2
    <3>3. CASE j # m + 1 /\ l # m + 1
      <4>1. PICK q \in DOMAIN s : /\ t[j] = s[q]
                                  /\ \/ j <= m /\ q = j
                                     \/ j > m + 1 /\ q = j - (m + 2) + k /\ q >= k
        BY <1>19, <3>3
      <4>2. PICK r \in DOMAIN s : /\ t[l] = s[r]
                                  /\ \/ l <= m /\ r = l
                                     \/ l > m + 1 /\ r = l - (m + 2) + k /\ r >= k
        BY <1>19, <3>3
      <4>3. q < r
        BY <1>12, <2>2, <3>0, <4>1, <4>2
      <4> QED  BY <4>1, <4>2, <4>3 DEF Inv, Coalesced
    <3> QED  BY <3>1, <3>2, <3>3
  <2> QED  BY <2>1, <2>2 DEF Coalesced
<1>25. RoomForBucket'
  <2>1. ASSUME NEW j \in DOMAIN t  PROVE t[j].size >= BucketUnits
    BY <1>2, <1>13, <1>18, <1>19
  <2> QED  BY <1>2, <1>22, <2>1 DEF RoomForBucket
<1>26. BlocksFit' /\ BlocksApart'
  BY <1>22 DEF Inv, BlocksFit, BlocksApart
<1>27. BlocksOutside'
  <2> SUFFICES ASSUME NEW b \in DOMAIN blocks', NEW j \in DOMAIN t
               PROVE  b + blocks'[b] <= t[j].addr \/ End(t[j]) <= b
    BY DEF BlocksOutside
  <2>1. /\ b \in DOMAIN blocks /\ b # a /\ blocks'[b] = blocks[b]
        /\ b \in Nat /\ blocks[b] \in Nat /\ blocks[b] >= BucketUnits
    BY <1>2, <1>22
  <2>2. CASE j # m + 1
    <3>1. PICK q \in DOMAIN s : t[j] = s[q]
      BY <1>19, <2>2
    <3> QED  BY <2>1, <3>1 DEF Inv, BlocksOutside
  <2>3. CASE j = m + 1
    <3>1. CASE b < a
      <4>1. b + blocks[b] <= a
        BY <2>1, <3>1 DEF Inv, BlocksApart
      <4>2. CASE x.addr = a
        BY <1>18, <2>1, <2>3, <4>1, <4>2
      <4>3. CASE p \in 1 .. n /\ x.addr = s[p].addr /\ End(s[p]) = a
        <5>1. b + blocks[b] <= s[p].addr \/ a <= b
          BY <1>2, <2>1, <4>3 DEF Inv, BlocksOutside
        <5> QED  BY <1>4, <1>18, <2>1, <2>3, <3>1, <4>3, <5>1
      <4> QED  BY <1>9, <4>2, <4>3
    <3>2. CASE a < b
      <4>1. e <= b
        BY <2>1, <3>2 DEF Inv, BlocksApart
      <4>2. CASE x.size = e - x.addr
        <5>1. End(x) = e
          BY <1>4, <1>13, <4>2
        <5> QED  BY <1>18, <2>3, <4>1, <5>1
      <4>3. CASE p + 1 \in 1 .. n /\ x.size = End(s[p + 1]) - x.addr /\ e = s[p + 1].addr
        <5>1. b + blocks[b] <= e \/ End(s[p + 1]) <= b
          BY <1>2, <2>1, <4>3 DEF Inv, BlocksOutside
        <5>2. End(x) = End(s[p + 1])
          BY <1>7b, <1>13, <4>3
        <5>3. End(s[p + 1]) <= b
          BY <1>3, <1>4, <2>1, <4>1, <5>1
        <5> QED  BY <1>18, <2>3, <5>2, <5>3
      <4> QED  BY <1>11, <4>2, <4>3
    <3> QED  BY <1>4, <2>1, <3>1, <3>2
  <2> QED  BY <2>2, <2>3
(* A unit is free afterwards if it was free or belonged to the block.      *)
<1>28. ASSUME NEW u \in Nat
       PROVE  (\E j \in DOMAIN t : u \in t[j].addr .. t[j].addr + t[j].size - 1)
                <=> \/ u \in a .. e - 1
                    \/ \E q \in DOMAIN s : u \in s[q].addr .. s[q].addr + s[q].size - 1
  <2>1. ASSUME NEW j \in DOMAIN t, u \in t[j].addr .. t[j].addr + t[j].size - 1
        PROVE  \/ u \in a .. e - 1
               \/ \E q \in DOMAIN s : u \in s[q].addr .. s[q].addr + s[q].size - 1
    <3>1. CASE j = m + 1
      BY <1>15, <1>18, <2>1, <3>1
    <3>2. CASE j # m + 1
      <4>1. PICK q \in DOMAIN s : t[j] = s[q]
        BY <1>19, <3>2
      <4> QED  BY <2>1, <4>1
    <3> QED  BY <3>1, <3>2
  <2>2. ASSUME u \in a .. e - 1
        PROVE  \E j \in DOMAIN t : u \in t[j].addr .. t[j].addr + t[j].size - 1
    BY <1>15, <1>18, <2>2
  <2>3. ASSUME NEW q \in DOMAIN s, u \in s[q].addr .. s[q].addr + s[q].size - 1
        PROVE  \E j \in DOMAIN t : u \in t[j].addr .. t[j].addr + t[j].size - 1
    <3>1. CASE m < q /\ q < k
      BY <1>15, <1>18, <2>3, <3>1
    <3>2. CASE q <= m \/ q >= k
      BY <1>20, <2>3, <3>2
    <3>3. q \in Nat
      BY <1>2
    <3> QED  BY <1>12, <3>1, <3>2, <3>3
  <2> QED  BY <2>1, <2>2, <2>3
<1>29. NothingLost'
  <2> SUFFICES ASSUME NEW u \in Arena
               PROVE  \/ \E b \in DOMAIN blocks' : u \in b .. b + blocks'[b] - 1
                      \/ \E j \in DOMAIN t : u \in t[j].addr .. t[j].addr + t[j].size - 1
    BY DEF NothingLost, BlockOf, BucketOf, Units, Arena
  <2>0. u \in Nat
    BY <1>3 DEF Arena, Units
  <2>1. CASE \E q \in DOMAIN s : u \in BucketOf(q)
    BY <1>28, <2>0, <2>1 DEF BucketOf, Units
  <2>2. CASE \E b \in DOMAIN blocks : u \in BlockOf(b)
    <3>1. PICK b \in DOMAIN blocks : u \in b .. b + blocks[b] - 1
      BY <2>2 DEF BlockOf, Units
    <3>2. CASE b = a
      <4>1. u \in a .. e - 1
        BY <1>4, <3>1, <3>2
      <4> QED  BY <1>28, <2>0, <4>1
    <3>3. CASE b # a
      BY <1>22, <3>1, <3>3
    <3> QED  BY <3>2, <3>3
  <2> QED  BY <2>1, <2>2 DEF Inv, NothingLost
<1>30. AvailableExact'
  <2>1. Units(a, blocks[a]) = a .. e - 1
    BY <1>4 DEF Units
  <2>2. FreeUnits' = FreeUnits \cup Units(a, blocks[a])
    <3>1. \A u : u \in FreeUnits'
                   <=> u \in Arena /\ \E j \in DOMAIN t : u \in t[j].addr .. t[j].addr + t[j].size - 1
      BY DEF FreeUnits, BucketOf, Units, Arena
    <3>2. \A u : u \in FreeUnits
                   <=> u \in Arena /\ \E q \in DOMAIN s : u \in s[q].addr .. s[q].addr + s[q].size - 1
      BY DEF FreeUnits, BucketOf, Units
    <3>3. Arena \subseteq Nat /\ a .. e - 1 \subseteq Arena
      BY <1>3, <1>4 DEF Arena, Units
    <3>4. \A u : u \in FreeUnits' <=> u \in FreeUnits \/ u \in a .. e - 1
      BY <1>28, <3>1, <3>2, <3>3
    <3> QED  BY <2>1, <3>4
  <2>3. Units(a, blocks[a]) \cap FreeUnits = {}
    <3> SUFFICES ASSUME NEW u \in a .. e - 1, NEW q \in DOMAIN s,
                        u \in s[q].addr .. s[q].addr + s[q].size - 1
                 PROVE  FALSE
      BY <2>1 DEF FreeUnits, BucketOf, Units
    <3>1. e <= s[q].addr \/ End(s[q]) <= a
      BY DEF Inv, BlocksOutside
    <3>2. s[q].addr \in Nat /\ s[q].size \in Nat /\ End(s[q]) = s[q].addr + s[q].size
      BY <1>2
    <3> QED  BY <1>4, <3>1, <3>2
  <2>4. FreeUnits \subseteq Arena
    BY DEF FreeUnits
  <2>5. Cardinality(FreeUnits') = Cardinality(FreeUnits) + blocks[a]
    <3>1. PICK f, g, c : f = FreeUnits /\ g = FreeUnits' /\ c = blocks[a]
      OBVIOUS
    <3>2. Cardinality(g) = Cardinality(f) + c
      BY <1>4, <2>2, <2>3, <2>4, <3>1, GiveUnits
    <3> QED  BY <3>1, <3>2
  <2>6. available = Cardinality(FreeUnits) /\ available' = available + blocks[a]
    BY <1>5 DEF Inv, AvailableExact, FreeUnits
  <2>7. available' = Cardinality(FreeUnits')
    BY <2>5, <2>6, Zenon
  <2> QED  BY <2>7 DEF AvailableExact, FreeUnits
<1> QED
  BY <1>23, <1>24, <1>25, <1>26, <1>27, <1>29, <1>30 DEF Inv
-----------------------------------------------------------------------------
LEMMA InitInv == Init => Inv
<1> SUFFICES ASSUME Init  PROVE Inv
  OBVIOUS
<1>1. /\ BucketUnits \in Nat \ {0} /\ HeapUnits \in Nat /\ BucketUnits <= HeapUnits
  BY SizesAssumption
<1>2. PICK q : q = [addr |-> 0, size |-> HeapUnits]
  OBVIOUS
<1>3. q \in Bucket /\ q.addr = 0 /\ q.size = HeapUnits /\ End(q) = HeapUnits
  BY <1>1, <1>2 DEF Bucket, End
<1>4. /\ free_list = << q >> /\ free_list \in Seq(Bucket) /\ DOMAIN free_list = {1}
      /\ free_list[1] = q
  BY <1>2, <1>3 DEF Init
<1>5. DOMAIN blocks = {} /\ available = HeapUnits /\ ret = 0
  BY DEF Init, NULL
<1>6. TypeOK
  BY <1>1, <1>4, <1>5 DEF TypeOK, Init
<1>7. Coalesced
  BY <1>1, <1>3, <1>4 DEF Coalesced
<1>8. RoomForBucket
  BY <1>1, <1>3, <1>4, <1>5 DEF RoomForBucket
<1>9. BlocksFit /\ BlocksApart /\ BlocksOutside
  BY <1>5 DEF BlocksFit, BlocksApart, BlocksOutside
<1>10. BucketOf(1) = Arena
  BY <1>3, <1>4 DEF BucketOf, Arena
<1>11. NothingLost
  BY <1>4, <1>10 DEF NothingLost
<1>12. AvailableExact
  <2>1. FreeUnits = Arena
    BY <1>4, <1>10 DEF FreeUnits
  <2>2. Cardinality(Arena) = HeapUnits
    BY <1>1, FS_Interval DEF Arena, Units
  <2> QED  BY <1>5, <2>1, <2>2 DEF AvailableExact, FreeUnits
<1> QED
  BY <1>6, <1>7, <1>8, <1>9, <1>11, <1>12 DEF Inv

LEMMA NextInv == Inv /\ [Next]_vars => Inv'
<1> SUFFICES ASSUME Inv, [Next]_vars  PROVE Inv'
  OBVIOUS
<1>1. CASE UNCHANGED vars
  BY <1>1 DEF vars, Inv, TypeOK, Coalesced, RoomForBucket, BlocksFit, BlocksApart,
     BlocksOutside, NothingLost, AvailableExact, BucketOf, BlockOf, Units, Arena, End
<1>2. ASSUME NEW n \in Requests, MallocExact(n)  PROVE Inv'
  BY <1>2, UnlinkInv DEF MallocExact
<1>3. ASSUME NEW n \in Requests, MallocWhole(n)  PROVE Inv'
  BY <1>3, UnlinkInv DEF MallocWhole
<1>4. ASSUME NEW n \in Requests, MallocSplit(n)  PROVE Inv'
  <2>1. RealSize(n) \in Nat /\ BucketUnits <= RealSize(n)
    BY SizesAssumption DEF RealSize
  <2> QED  BY <1>4, <2>1, SplitInv DEF MallocSplit
<1>5. ASSUME NEW n \in Requests, MallocFails(n)  PROVE Inv'
  BY <1>5 DEF MallocFails, NULL, Inv, TypeOK, Coalesced, RoomForBucket, BlocksFit,
     BlocksApart, BlocksOutside, NothingLost, AvailableExact, BucketOf, BlockOf, Units,
     Arena, End
<1>6. ASSUME NEW a \in DOMAIN blocks, FreeBlock(a)  PROVE Inv'
  BY <1>6, FreeInv
<1> QED
  BY <1>1, <1>2, <1>3, <1>4, <1>5, <1>6 DEF Next

LEMMA Invariant == Spec => []Inv
  BY InitInv, NextInv, PTL DEF Spec

(* Blocks handed out lie in the segment and share memory with nothing.     *)
LEMMA InvNoOverlap == Inv => NoOverlap
<1> SUFFICES ASSUME Inv  PROVE NoOverlap
  OBVIOUS
<1>1. /\ \A b \in DOMAIN blocks : b \in Nat /\ blocks[b] \in Nat
      /\ \A j \in DOMAIN free_list : free_list[j].addr \in Nat /\ free_list[j].size \in Nat
  BY Elements DEF Inv
<1>2. ASSUME NEW a \in DOMAIN blocks  PROVE BlockOf(a) \subseteq Arena
  <2>1. a + blocks[a] <= HeapUnits /\ a \in Nat /\ blocks[a] \in Nat /\ HeapUnits \in Nat
    BY <1>1, SizesAssumption DEF Inv, BlocksFit
  <2> QED  BY <2>1 DEF BlockOf, Units, Arena
<1>3. ASSUME NEW a \in DOMAIN blocks, NEW b \in DOMAIN blocks, a # b
      PROVE  BlockOf(a) \cap BlockOf(b) = {}
  <2>1. a + blocks[a] <= b \/ b + blocks[b] <= a
    BY <1>1, <1>3 DEF Inv, BlocksApart
  <2>2. a \in Nat /\ blocks[a] \in Nat /\ b \in Nat /\ blocks[b] \in Nat
    BY <1>1
  <2> QED  BY <2>1, <2>2 DEF BlockOf, Units
<1>4. ASSUME NEW a \in DOMAIN blocks, NEW i \in DOMAIN free_list
      PROVE  BlockOf(a) \cap BucketOf(i) = {}
  <2>1. /\ a \in Nat /\ blocks[a] \in Nat
        /\ free_list[i].addr \in Nat /\ free_list[i].size \in Nat
    BY <1>1
  <2>2. a + blocks[a] <= free_list[i].addr \/ free_list[i].addr + free_list[i].size <= a
    BY DEF Inv, BlocksOutside, End
  <2> QED  BY <2>1, <2>2 DEF BlockOf, BucketOf, Units
<1> QED
  BY <1>2, <1>3, <1>4 DEF NoOverlap

(* Type correctness of the allocator.                                      *)
THEOREM TypeCorrect == Spec => []TypeOK
  BY Invariant, PTL DEF Inv

(* mm_free_nolock's merging keeps the list in order and free of adjacent   *)
(* buckets, whatever is allocated and freed in whatever order.             *)
THEOREM AlwaysCoalesced == Spec => []Coalesced
  BY Invariant, PTL DEF Inv

(* Handing out the whole bucket when the remainder is too small is what    *)
(* makes every later mm_free_nolock stay within its block.                 *)
THEOREM AlwaysRoomForBucket == Spec => []RoomForBucket
  BY Invariant, PTL DEF Inv

(* No two blocks, and no block and bucket, ever overlap.                   *)
THEOREM NeverOverlap == Spec => []NoOverlap
  BY Invariant, InvNoOverlap, PTL

(* No memory is lost between splits and merges.                            *)
THEOREM NothingEverLost == Spec => []NothingLost
  BY Invariant, PTL DEF Inv

(* mm->available is always the memory on the free list.                    *)
THEOREM AvailableAlwaysExact == Spec => []AvailableExact
  BY Invariant, PTL DEF Inv
-----------------------------------------------------------------------------
(* The free list implements module Heap.  A bucket of the list is unused   *)
(* memory, and an unused run of memory lies in one bucket, because buckets *)
(* do not touch: so the walk of the list finds room whenever there is any. *)
LEMMA HandOutGrants ==
  ASSUME Inv, NEW n \in Requests, NEW i \in DOMAIN free_list, NEW s \in Nat,
         RealSize(n) <= s, s < RealSize(n) + BucketUnits, s <= free_list[i].size,
         HandOut(free_list[i].addr, s)
  PROVE  H!Grant(n)
<1> DEFINE a == free_list[i].addr
<1>1. /\ a \in Nat /\ free_list[i].size \in Nat
      /\ \A b \in DOMAIN blocks : b \in Nat /\ blocks[b] \in Nat
  BY Elements DEF Inv
<1>2. /\ HeadUnits \in Nat /\ n \in Nat /\ n > 0 /\ BucketUnits \in Nat /\ HeapUnits \in Nat
  BY SizesAssumption
<1>3. a + free_list[i].size <= HeapUnits
  BY DEF Inv, Coalesced, End
<1>4. a \in H!Arena /\ H!Units(a, s) \subseteq H!Arena
  BY <1>1, <1>2, <1>3 DEF H!Arena, H!Units, RealSize
<1>5. s \in HeadUnits + n .. HeadUnits + n + BucketUnits - 1
  BY <1>2 DEF RealSize
<1>6. H!Free(H!Units(a, s))
  <2> SUFFICES ASSUME NEW b \in DOMAIN blocks
               PROVE  (b .. b + blocks[b] - 1) \cap (a .. a + s - 1) = {}
    BY <1>1, <1>2 DEF H!Free, H!Units
  <2>1. b + blocks[b] <= a \/ a + free_list[i].size <= b
    BY DEF Inv, BlocksOutside, End
  <2> QED  BY <1>1, <2>1
<1>7. /\ blocks' = [b \in DOMAIN blocks \cup {a} |-> IF b = a THEN s ELSE blocks[b]]
      /\ ret' = a + HeadUnits
  BY DEF HandOut
<1> QED
  BY <1>4, <1>5, <1>6, <1>7 DEF H!Grant

(* A run of unused memory lies in one bucket, since the buckets hold all   *)
(* of it and no two of them touch.                                         *)
LEMMA RunInBucket ==
  ASSUME Inv, NEW r \in Nat, r > 0, NEW u, u \in Arena, Units(u, r) \subseteq Arena,
         \A b \in DOMAIN blocks : Units(u, r) \cap BlockOf(b) = {}
  PROVE  \E i \in DOMAIN free_list : r <= free_list[i].size
<1>1. HeapUnits \in Nat
  BY SizesAssumption
<1>2. /\ DOMAIN free_list = 1 .. Len(free_list) /\ Len(free_list) \in Nat
      /\ \A j \in DOMAIN free_list : free_list[j].addr \in Nat /\ free_list[j].size \in Nat
  BY Elements DEF Inv
<1>3. u \in Nat /\ u + r <= HeapUnits
  <2>1. u \in Nat /\ u + r - 1 \in Units(u, r)
    BY <1>1 DEF Arena, Units
  <2> QED  BY <1>1, <2>1 DEF Arena, Units
<1>4. ASSUME NEW v \in u .. u + r - 1
      PROVE  \E j \in DOMAIN free_list : v \in BucketOf(j)
  <2>1. v \in Arena
    BY <1>1, <1>3 DEF Arena, Units
  <2>2. \A b \in DOMAIN blocks : v \notin BlockOf(b)
    BY <1>1, <1>3 DEF BlockOf, Units
  <2> QED  BY <2>1, <2>2 DEF Inv, NothingLost
<1>5. PICK i \in DOMAIN free_list : u \in BucketOf(i)
  BY <1>1, <1>3, <1>4
<1>6. /\ free_list[i].addr \in Nat /\ free_list[i].size \in Nat
      /\ free_list[i].addr <= u /\ u < End(free_list[i])
      /\ End(free_list[i]) = free_list[i].addr + free_list[i].size
  BY <1>2, <1>3, <1>5 DEF BucketOf, Units, End
<1>7. u + r <= End(free_list[i])
  <2> SUFFICES ASSUME End(free_list[i]) < u + r  PROVE FALSE
    BY <1>1, <1>3, <1>6
  <2> DEFINE v == End(free_list[i])
  <2>1. v \in u .. u + r - 1
    BY <1>1, <1>3, <1>6
  <2>2. PICK j \in DOMAIN free_list : v \in BucketOf(j)
    BY <1>4, <2>1
  <2>3. /\ free_list[j].addr \in Nat /\ free_list[j].size \in Nat
        /\ free_list[j].addr <= v /\ v < End(free_list[j])
        /\ End(free_list[j]) = free_list[j].addr + free_list[j].size
    BY <1>2, <1>6, <2>2 DEF BucketOf, Units, End
  <2>4. j # i
    BY <1>6, <2>3
  <2>5. CASE i < j
    <3>1. End(free_list[i]) < free_list[j].addr
      BY <2>5 DEF Inv, Coalesced
    <3> QED  BY <1>6, <2>3, <3>1
  <2>6. CASE j < i
    <3>1. End(free_list[j]) < free_list[i].addr
      BY <2>6 DEF Inv, Coalesced
    <3> QED  BY <1>6, <2>3, <3>1
  <2> QED  BY <1>2, <2>4, <2>5, <2>6
<1>8. r <= free_list[i].size
  BY <1>1, <1>3, <1>6, <1>7
<1> QED
  BY <1>8

LEMMA FailsRefuses ==
  ASSUME Inv, NEW n \in Requests, MallocFails(n)
  PROVE  H!Refuse(n)
<1> DEFINE r == RealSize(n)
<1>1. /\ HeadUnits \in Nat /\ n \in Nat /\ r \in Nat /\ r > 0 /\ HeapUnits \in Nat
      /\ r = HeadUnits + n
  BY SizesAssumption DEF RealSize
<1>2. /\ DOMAIN free_list = 1 .. Len(free_list) /\ Len(free_list) \in Nat
      /\ \A j \in DOMAIN free_list : free_list[j].addr \in Nat /\ free_list[j].size \in Nat
  BY Elements DEF Inv
<1>3. ASSUME NEW u \in H!Arena, H!Units(u, HeadUnits + n) \subseteq H!Arena,
             H!Free(H!Units(u, HeadUnits + n))
      PROVE  FALSE
  <2>1. PICK i \in DOMAIN free_list : r <= free_list[i].size
    <3>1. /\ u \in Arena /\ Units(u, r) \subseteq Arena
          /\ \A b \in DOMAIN blocks : Units(u, r) \cap BlockOf(b) = {}
      BY <1>1, <1>3 DEF H!Arena, H!Units, H!Free, Arena, Units, BlockOf
    <3> QED  BY <1>1, <3>1, RunInBucket
  <2>2. /\ free_list[i].addr \in Nat /\ free_list[i].size \in Nat
        /\ End(free_list[i]) = free_list[i].addr + free_list[i].size
    BY <1>2 DEF End
  <2>3. free_list[i].size <= available
    <3>1. End(free_list[i]) <= HeapUnits
      BY DEF Inv, Coalesced
    <3>2. BucketOf(i) \subseteq FreeUnits
      BY <1>1, <2>2, <3>1 DEF BucketOf, FreeUnits, Arena, Units
    <3>3. IsFiniteSet(FreeUnits)
      <4>1. IsFiniteSet(Arena)
        BY <1>1, FS_Interval DEF Arena, Units
      <4> QED  BY <4>1, FS_Subset DEF FreeUnits
    <3>4. Cardinality(BucketOf(i)) <= Cardinality(FreeUnits)
      BY <3>2, <3>3, FS_Subset
    <3>5. Cardinality(BucketOf(i)) = free_list[i].size
      <4>1. PICK f \in Nat, z \in Nat : f = free_list[i].addr /\ z = free_list[i].size
        BY <2>2
      <4>2. PICK g \in Int : g = f + z - 1
        OBVIOUS
      <4>3. Cardinality(f .. g) = IF f > g THEN 0 ELSE g - f + 1
        BY FS_Interval
      <4>4. Cardinality(f .. g) = z
        BY <4>2, <4>3
      <4> QED  BY <4>1, <4>2, <4>4 DEF BucketOf, Units
    <3>6. available = Cardinality(FreeUnits)
      BY DEF Inv, AvailableExact, FreeUnits
    <3> QED  BY <3>4, <3>5, <3>6
  <2>4. available \in Int
    BY DEF Inv, TypeOK
  <2> QED  BY <1>1, <2>1, <2>2, <2>3, <2>4 DEF MallocFails
<1>4. ret' = H!NULL /\ UNCHANGED blocks
  BY DEF MallocFails, NULL, H!NULL
<1> QED
  BY <1>3, <1>4 DEF H!Refuse

LEMMA InitHeap == Init => H!HeapInit
  BY DEF Init, H!HeapInit, NULL, H!NULL

LEMMA NextHeap == Inv /\ [Next]_vars => [H!HeapNext]_<<blocks, ret>>
<1> SUFFICES ASSUME Inv, [Next]_vars  PROVE [H!HeapNext]_<<blocks, ret>>
  OBVIOUS
<1>0. \A i \in DOMAIN free_list : free_list[i].size \in Nat
  BY Elements DEF Inv
<1>1. CASE UNCHANGED vars
  BY <1>1 DEF vars
<1>2. ASSUME NEW n \in Requests, MallocExact(n) \/ MallocWhole(n) \/ MallocSplit(n)
      PROVE  H!Grant(n)
  <2>0. RealSize(n) \in Nat /\ BucketUnits \in Nat /\ BucketUnits > 0
    BY SizesAssumption DEF RealSize
  <2>1. CASE MallocExact(n)
    <3>1. PICK i \in DOMAIN free_list : ExactFit(i, RealSize(n)) /\ Unlink(i)
      BY <2>1 DEF MallocExact
    <3>2. /\ free_list[i].size \in Nat
          /\ RealSize(n) <= free_list[i].size
          /\ free_list[i].size < RealSize(n) + BucketUnits
          /\ free_list[i].size <= free_list[i].size
          /\ HandOut(free_list[i].addr, free_list[i].size)
      BY <1>0, <2>0, <3>1 DEF ExactFit, Unlink
    <3> QED  BY <3>2, HandOutGrants
  <2>2. CASE MallocWhole(n)
    <3>1. PICK i \in DOMAIN free_list :
            /\ BestFit(i, RealSize(n)) /\ Unlink(i)
            /\ free_list[i].size - RealSize(n) < BucketUnits
      BY <2>2 DEF MallocWhole
    <3>2. /\ free_list[i].size \in Nat
          /\ RealSize(n) <= free_list[i].size
          /\ free_list[i].size < RealSize(n) + BucketUnits
          /\ free_list[i].size <= free_list[i].size
          /\ HandOut(free_list[i].addr, free_list[i].size)
      <4>1. /\ free_list[i].size \in Nat
            /\ free_list[i].size > RealSize(n)
            /\ free_list[i].size - RealSize(n) < BucketUnits
        BY <1>0, <3>1, Zenon DEF BestFit
      <4>2. HandOut(free_list[i].addr, free_list[i].size)
        BY <3>1 DEF Unlink
      <4> QED  BY <2>0, <4>1, <4>2
    <3> QED  BY <3>2, HandOutGrants
  <2>3. CASE MallocSplit(n)
    <3>1. PICK i \in DOMAIN free_list :
            BestFit(i, RealSize(n)) /\ Split(i, RealSize(n))
      BY <2>3 DEF MallocSplit
    <3>2. /\ RealSize(n) <= RealSize(n)
          /\ RealSize(n) < RealSize(n) + BucketUnits
          /\ RealSize(n) <= free_list[i].size
          /\ HandOut(free_list[i].addr, RealSize(n))
      BY <1>0, <2>0, <3>1 DEF BestFit, Split
    <3> QED  BY <2>0, <3>2, HandOutGrants
  <2> QED  BY <1>2, <2>1, <2>2, <2>3
<1>3. ASSUME NEW n \in Requests, MallocFails(n)  PROVE H!Refuse(n)
  BY <1>3, FailsRefuses
<1>4. ASSUME NEW a \in DOMAIN blocks, FreeBlock(a)  PROVE H!Return(a)
  BY <1>4 DEF FreeBlock, H!Return
<1> QED
  BY <1>1, <1>2, <1>3, <1>4 DEF Next, H!HeapNext

(* Every behaviour of the linked list is one of the abstract heap: what is *)
(* granted was unused and large enough, and a request is refused only when *)
(* no run of unused memory could hold it.                                  *)
THEOREM HeapImplemented == Spec => ImplementsHeap
<1>1. Init /\ [][Next]_vars /\ []Inv => H!HeapInit /\ [][H!HeapNext]_<<blocks, ret>>
  BY InitHeap, NextHeap, PTL
<1> QED
  BY <1>1, Invariant, PTL DEF Spec, ImplementsHeap, H!HeapSpec
-----------------------------------------------------------------------------
(* A set of numbers that is not empty has a largest member if it is        *)
(* finite: of the sets of members above a member, a smallest one is empty. *)
LEMMA Largest ==
  ASSUME NEW S \in SUBSET Int, IsFiniteSet(S), S # {}
  PROVE  \E x \in S : \A y \in S : y <= x
<1> DEFINE Over(x) == {y \in S : y > x}
           F == {Over(x) : x \in S}
           R == StrictSubsetOrdering(S)
<1>1. IsWellFoundedOn(R, FiniteSubsetsOf(S))
  BY FS_StrictSubsetOrderingWellFounded
<1>2. F \subseteq FiniteSubsetsOf(S) /\ F # {}
  <2>1. \A T \in SUBSET S : IsFiniteSet(T)
    BY FS_Subset
  <2> QED  BY <2>1 DEF FiniteSubsetsOf
<1>3. PICK T \in F : \A U \in F : ~ (<<U, T>> \in R)
  <2> HIDE DEF F, R
  <2> QED  BY <1>1, <1>2, WFMin
<1>4. PICK x \in S : T = Over(x)
  OBVIOUS
<1>5. ASSUME NEW z \in S, z > x  PROVE FALSE
  <2>1. Over(z) \in F
    OBVIOUS
  <2>2. Over(z) \subseteq T /\ z \in T /\ z \notin Over(z)
    <3> HIDE DEF F, R
    <3>1. z \in Int /\ x \in Int /\ S \subseteq Int
      OBVIOUS
    <3>2. \A y \in S : y > z => y > x
      BY <1>5, <3>1
    <3>3. \A y : (y \in Over(z) <=> y \in S /\ y > z) /\ (y \in T <=> y \in S /\ y > x)
      BY <1>4
    <3>4. ~ (z > z)
      BY <3>1
    <3> HIDE DEF Over
    <3> QED  BY <1>5, <3>2, <3>3, <3>4
  <2>3. Over(z) # T
    BY <2>2
  <2>4. Over(z) \in SUBSET S /\ T \in SUBSET S
    BY <1>4
  <2> HIDE DEF F, Over
  <2>5. <<Over(z), T>> \in R
    BY <2>2, <2>3, <2>4 DEF StrictSubsetOrdering
  <2> QED  BY <1>3, <2>1, <2>5
<1> QED
  BY <1>5

(* A bucket of the size of a request is a run of unused memory.            *)
LEMMA BucketIsRun ==
  ASSUME Inv, NEW r \in Nat, r > 0, NEW i \in DOMAIN free_list, r <= free_list[i].size
  PROVE  /\ free_list[i].addr \in Arena
         /\ Units(free_list[i].addr, r) \subseteq Arena
         /\ \A b \in DOMAIN blocks : Units(free_list[i].addr, r) \cap BlockOf(b) = {}
<1>1. /\ HeapUnits \in Nat
      /\ free_list[i].addr \in Nat /\ free_list[i].size \in Nat
      /\ free_list[i].addr + free_list[i].size <= HeapUnits
  BY SizesAssumption, Elements DEF Inv, Coalesced, End
<1>2. ASSUME NEW b \in DOMAIN blocks
      PROVE  Units(free_list[i].addr, r) \cap BlockOf(b) = {}
  <2>1. /\ b \in Nat /\ blocks[b] \in Nat
        /\ \/ b + blocks[b] <= free_list[i].addr
           \/ free_list[i].addr + free_list[i].size <= b
    BY Elements DEF Inv, BlocksOutside, End
  <2> QED  BY <1>1, <2>1 DEF BlockOf, Units
<1> QED
  BY <1>1, <1>2 DEF Arena, Units

LEMMA InvMaxSize == Inv => MaxSizeExact
<1> SUFFICES ASSUME Inv, NEW n \in Requests
             PROVE  n <= MaxSize <=>
                      \E u \in Arena :
                        /\ Units(u, RealSize(n)) \subseteq Arena
                        /\ \A a \in DOMAIN blocks :
                             Units(u, RealSize(n)) \cap BlockOf(a) = {}
  BY DEF MaxSizeExact
<1> DEFINE sizes == {HeadUnits} \cup {free_list[i].size : i \in DOMAIN free_list}
           m == CHOOSE s \in sizes : \A t \in sizes : t <= s
           r == RealSize(n)
<1>1. /\ HeadUnits \in Nat /\ n \in Nat /\ r \in Nat /\ r > HeadUnits /\ r > 0
      /\ r = HeadUnits + n /\ HeapUnits \in Nat
  BY SizesAssumption DEF RealSize
<1>2. \A i \in DOMAIN free_list :
        /\ free_list[i].addr \in Nat /\ free_list[i].size \in Nat
        /\ free_list[i].size <= HeapUnits
  BY <1>1, Elements DEF Inv, Coalesced, End
<1>3. /\ m \in sizes /\ \A t \in sizes : t <= m
  <2>1. sizes \in SUBSET (0 .. HeapUnits + HeadUnits)
    BY <1>1, <1>2
  <2>2. IsFiniteSet(sizes)
    <3> HIDE DEF sizes
    <3>1. IsFiniteSet(0 .. HeapUnits + HeadUnits)
      BY <1>1, FS_Interval
    <3> QED  BY <2>1, <3>1, FS_Subset
  <2>3. sizes # {} /\ sizes \in SUBSET Int
    BY <2>1
  <2> HIDE DEF sizes
  <2>4. \E s \in sizes : \A t \in sizes : t <= s
    BY <2>2, <2>3, Largest
  <2> QED  BY <2>4
<1>4. MaxSize = m - HeadUnits
  BY DEF MaxSize
<1> HIDE DEF m, r
<1>5. m \in Nat /\ (n <= MaxSize <=> r <= m)
  BY <1>1, <1>2, <1>3, <1>4
<1>6. r <= m <=> \E i \in DOMAIN free_list : r <= free_list[i].size
  <2>1. ASSUME r <= m  PROVE \E i \in DOMAIN free_list : r <= free_list[i].size
    BY <1>1, <1>3, <2>1
  <2>2. ASSUME NEW i \in DOMAIN free_list, r <= free_list[i].size  PROVE r <= m
    <3>1. free_list[i].size <= m
      BY <1>3
    <3> QED  BY <1>1, <1>2, <1>5, <2>2, <3>1
  <2> QED  BY <2>1, <2>2
<1>7. (\E i \in DOMAIN free_list : r <= free_list[i].size) <=>
        \E u \in Arena :
          /\ Units(u, r) \subseteq Arena
          /\ \A a \in DOMAIN blocks : Units(u, r) \cap BlockOf(a) = {}
  BY <1>1, BucketIsRun, RunInBucket
<1> QED
  BY <1>5, <1>6, <1>7 DEF r

(* What mm_maxsize answers is exact: the caller gets a block of that size  *)
(* and none larger.                                                        *)
THEOREM MaxSizeAlwaysExact == Spec => []MaxSizeExact
  BY Invariant, InvMaxSize, PTL
=============================================================================
