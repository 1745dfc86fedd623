---------------------------- MODULE PositionsProofs ----------------------------
(***************************************************************************)
(* Facts about the places of a short list kept in a table, for lists of    *)
(* every length: what a read ranks and what an order states count from 0   *)
(* with no gap, and so does a list that grows at its end.                  *)
(***************************************************************************)
EXTENDS Positions, Sorting, FiniteSetTheorems, SequenceTheorems, NaturalsInduction,
        WellFoundedInduction, TLAPS

(* A place of its own for every row of S, from 0 with no gap.              *)
Numbers(pos, S) == DOMAIN pos = S /\ Distinct(pos) /\ Gapless(pos)

(* Places that differ and stay below the number of rows leave no gap.      *)
LEMMA FullRange ==
  ASSUME NEW S, IsFiniteSet(S), NEW pos, DOMAIN pos = S, Distinct(pos),
         NEW n \in Nat, Cardinality(S) = n, \A i \in S : pos[i] \in 0..n - 1
  PROVE  Range(pos) = 0..n - 1
<1> DEFINE f == [i \in S |-> pos[i]]
<1>1. f \in Injection(S, 0..n - 1)
  BY DEF Injection, Distinct, IsInjective
<1>2. IsFiniteSet(0..n - 1) /\ Cardinality(0..n - 1) = n
  BY FS_Interval
<1>3. f \in Surjection(S, 0..n - 1)
  BY <1>1, <1>2, FS_Injection
<1>4. \A m \in 0..n - 1 : \E i \in S : pos[i] = m
  BY <1>3 DEF Surjection
<1> QED BY <1>4 DEF Range

(* A rank is a number below the number of rows.                            *)
LEMMA RanksAreNumbers ==
  ASSUME NEW S, IsFiniteSet(S), NEW pos, DOMAIN pos = S,
         \A i \in S : pos[i] \in Nat
  PROVE  /\ DOMAIN Ranks(pos) = S
         /\ \A i \in S : Ranks(pos)[i] \in 0..Cardinality(S) - 1
<1>1. DOMAIN Ranks(pos) = S
  BY DEF Ranks
<1>2. ASSUME NEW i \in S PROVE Ranks(pos)[i] \in 0..Cardinality(S) - 1
  <2> DEFINE below == {j \in S : pos[j] < pos[i]}
  <2>1. Ranks(pos)[i] = Cardinality(below)
    BY DEF Ranks
  <2>2. below \subseteq S \ {i}
    BY DEF Ranks
  <2>3. IsFiniteSet(S \ {i}) /\ Cardinality(S \ {i}) = Cardinality(S) - 1
    BY FS_RemoveElement
  <2>4. IsFiniteSet(below) /\ Cardinality(below) <= Cardinality(S) - 1
    BY <2>2, <2>3, FS_Subset
  <2>5. Cardinality(below) \in Nat /\ Cardinality(S) \in Nat
    BY <2>4, FS_CardinalityType
  <2> QED BY <2>1, <2>4, <2>5
<1> QED BY <1>1, <1>2

(* The ranks of rows that share no place number them.                      *)
LEMMA RanksNumber ==
  ASSUME NEW S, IsFiniteSet(S), NEW pos, DOMAIN pos = S, Distinct(pos),
         \A i \in S : pos[i] \in Nat
  PROVE  Numbers(Ranks(pos), S)
<1>1. /\ DOMAIN Ranks(pos) = S
      /\ \A i \in S : Ranks(pos)[i] \in 0..Cardinality(S) - 1
  BY RanksAreNumbers
<1>2. ASSUME NEW i \in S, NEW j \in S, pos[i] < pos[j]
      PROVE  Ranks(pos)[i] < Ranks(pos)[j]
  <2> DEFINE below(k) == {m \in S : pos[m] < pos[k]}
  <2>1. Ranks(pos)[i] = Cardinality(below(i)) /\ Ranks(pos)[j] = Cardinality(below(j))
    BY DEF Ranks
  <2>2. below(i) \subseteq below(j) \ {i} /\ i \in below(j)
    BY <1>2
  <2>3. IsFiniteSet(below(j))
    BY FS_Subset
  <2>4. IsFiniteSet(below(j) \ {i}) /\ Cardinality(below(j) \ {i}) = Cardinality(below(j)) - 1
    BY <2>2, <2>3, FS_RemoveElement
  <2>5. IsFiniteSet(below(i)) /\ Cardinality(below(i)) <= Cardinality(below(j)) - 1
    BY <2>2, <2>4, FS_Subset
  <2>6. Cardinality(below(i)) \in Nat /\ Cardinality(below(j)) \in Nat
    BY <2>3, <2>5, FS_CardinalityType
  <2> QED BY <2>1, <2>5, <2>6
<1>3. Distinct(Ranks(pos))
  <2> SUFFICES ASSUME NEW i \in S, NEW j \in S, i # j
               PROVE  Ranks(pos)[i] # Ranks(pos)[j]
    BY <1>1 DEF Distinct, IsInjective
  <2>1. pos[i] # pos[j] /\ pos[i] \in Nat /\ pos[j] \in Nat
    BY DEF Distinct, IsInjective
  <2>2. Ranks(pos)[i] \in Int /\ Ranks(pos)[j] \in Int
    BY <1>1
  <2>3. pos[i] < pos[j] \/ pos[j] < pos[i]
    BY <2>1
  <2> QED BY <1>2, <2>2, <2>3
<1>4. Cardinality(S) \in Nat
  BY FS_CardinalityType
<1>5. Range(Ranks(pos)) = 0..Cardinality(S) - 1
  BY <1>1, <1>3, <1>4, FullRange
<1> QED BY <1>1, <1>3, <1>5 DEF Numbers, Gapless

(* A place an order states is a number.                                    *)
LEMMA PlacesAreNumbers ==
  ASSUME NEW X, NEW n \in Nat, NEW ordered \in [1..n -> X]
  PROVE  /\ DOMAIN Positioned(ordered) = {ordered[m] : m \in 1..n}
         /\ \A i \in DOMAIN Positioned(ordered) :
              /\ Positioned(ordered)[i] \in 0..n - 1
              /\ ordered[Positioned(ordered)[i] + 1] = i
<1>1. DOMAIN Positioned(ordered) = {ordered[m] : m \in 1..n}
  BY DEF Positioned, Range
<1>2. ASSUME NEW i \in DOMAIN Positioned(ordered)
      PROVE  /\ Positioned(ordered)[i] \in 0..n - 1
             /\ ordered[Positioned(ordered)[i] + 1] = i
  <2> DEFINE place == CHOOSE m \in 1..n : ordered[m] = i
  <2>1. \E m \in 1..n : ordered[m] = i
    BY <1>1
  <2>2. place \in 1..n /\ ordered[place] = i
    BY <2>1
  <2>3. Positioned(ordered)[i] = place - 1
    BY <1>1 DEF Positioned, Range
  <2> HIDE DEF place
  <2> QED BY <2>2, <2>3
<1> QED BY <1>1, <1>2

(* An order that names every row once numbers them.                        *)
LEMMA OrderNumbers ==
  ASSUME NEW S, IsFiniteSet(S), NEW X, NEW n \in Nat, NEW ordered \in [1..n -> X],
         Rearranges(S, ordered)
  PROVE  Numbers(Positioned(ordered), S)
<1> DEFINE pos == Positioned(ordered)
<1>1. ordered \in Seq(X) /\ Len(ordered) = n /\ DOMAIN ordered = 1..n
  OBVIOUS
<1>2. Cardinality(S) = n /\ \A m \in 1..n : ordered[m] \in S
  BY <1>1 DEF Rearranges
<1>3. \A m \in 1..n : \A k \in 1..m - 1 : ordered[k] # ordered[m]
  BY <1>1 DEF Rearranges
<1>4. \A m, k \in 1..n : ordered[m] = ordered[k] => m = k
  <2> SUFFICES ASSUME NEW m \in 1..n, NEW k \in 1..n, m # k
               PROVE  ordered[m] # ordered[k]
    OBVIOUS
  <2>1. m \in 1..k - 1 \/ k \in 1..m - 1
    OBVIOUS
  <2> QED BY <1>3, <2>1
<1>5. ordered \in Injection(1..n, S)
  BY <1>2, <1>4 DEF Injection, IsInjective
<1>6. Cardinality(1..n) = n
  BY FS_Interval
<1>7. \A i \in S : \E m \in 1..n : ordered[m] = i
  BY <1>2, <1>5, <1>6, FS_Injection DEF Surjection
<1>8. /\ DOMAIN pos = S
      /\ \A i \in S : pos[i] \in 0..n - 1 /\ ordered[pos[i] + 1] = i
  <2>1. {ordered[m] : m \in 1..n} = S
    BY <1>2, <1>7
  <2>2. /\ DOMAIN Positioned(ordered) = {ordered[m] : m \in 1..n}
        /\ \A i \in DOMAIN Positioned(ordered) :
             /\ Positioned(ordered)[i] \in 0..n - 1
             /\ ordered[Positioned(ordered)[i] + 1] = i
    BY ZenonT(60), PlacesAreNumbers
  <2> QED BY <2>1, <2>2
<1> HIDE DEF pos
<1>9. Distinct(pos)
  BY <1>8 DEF Distinct, IsInjective
<1>10. Range(pos) = 0..n - 1
  BY <1>2, <1>8, <1>9, FullRange
<1> QED BY <1>2, <1>8, <1>9, <1>10 DEF Numbers, Gapless, pos

(* A row that takes the number of rows for its place is one more at the    *)
(* end.                                                                    *)
LEMMA GrowsAtTheEnd ==
  ASSUME NEW S, IsFiniteSet(S), NEW pos, Numbers(pos, S), NEW i, i \notin S,
         NEW longer, DOMAIN longer = S \cup {i}, longer[i] = Cardinality(S),
         \A j \in S : longer[j] = pos[j]
  PROVE  Numbers(longer, S \cup {i})
<1> DEFINE n == Cardinality(S)
<1>1. n \in Nat
  BY FS_CardinalityType
<1>2. IsFiniteSet(S \cup {i}) /\ Cardinality(S \cup {i}) = n + 1
  BY FS_AddElement
<1>3. \A j \in S : pos[j] \in 0..n - 1
  BY DEF Numbers, Gapless, Range
<1>4. \A j \in S \cup {i} : longer[j] \in 0..(n + 1) - 1
  BY <1>1, <1>3
<1>5. Distinct(longer)
  <2>1. \A j \in S : longer[j] # longer[i]
    BY <1>1, <1>3
  <2> QED BY <2>1 DEF Numbers, Distinct, IsInjective
<1>6. Range(longer) = 0..(n + 1) - 1
  BY <1>1, <1>2, <1>4, <1>5, FullRange
<1> QED BY <1>2, <1>5, <1>6 DEF Numbers, Gapless

(* Rows that are numbered have a first one.                                *)
LEMMA FirstPlace ==
  ASSUME NEW S, IsFiniteSet(S), S # {}, NEW pos, Numbers(pos, S)
  PROVE  \E i \in S : pos[i] = 0
<1>1. Cardinality(S) \in Nat /\ Cardinality(S) # 0
  BY FS_CardinalityType, FS_EmptySet
<1>2. 0 \in Range(pos)
  BY <1>1 DEF Numbers, Gapless
<1> QED BY <1>2 DEF Range, Numbers

-----------------------------------------------------------------------------
(* The read of a list whose rows are numbered.                             *)

(* A number is its own rank: as many places lie before it as it says.      *)
LEMMA NumbersAreRanks ==
  ASSUME NEW S, IsFiniteSet(S), NEW pos, Numbers(pos, S), NEW i \in S
  PROVE  Ranks(pos)[i] = pos[i] /\ pos[i] \in 0..Cardinality(S) - 1
<1> DEFINE below == {j \in S : pos[j] < pos[i]}
           f == [j \in below |-> pos[j]]
<1>1. Cardinality(S) \in Nat
  BY FS_CardinalityType
<1>2. \A j \in S : pos[j] \in 0..Cardinality(S) - 1
  BY DEF Numbers, Gapless, Range
<1>3. \A m \in 0..Cardinality(S) - 1 : \E j \in S : pos[j] = m
  BY DEF Numbers, Gapless, Range
<1>4. f \in Surjection(below, 0..pos[i] - 1)
  <2>1. f \in [below -> 0..pos[i] - 1]
    BY <1>1, <1>2
  <2>2. ASSUME NEW m \in 0..pos[i] - 1 PROVE \E j \in below : f[j] = m
    <3>1. m \in 0..Cardinality(S) - 1 /\ m < pos[i]
      BY <1>1, <1>2
    <3> QED BY <1>3, <3>1
  <2> HIDE DEF f, below
  <2> QED BY <2>1, <2>2 DEF Surjection
<1>5. f \in Injection(below, 0..pos[i] - 1)
  <2>1. f \in [below -> 0..pos[i] - 1]
    BY <1>1, <1>2
  <2>2. \A j, k \in below : f[j] = f[k] => j = k
    BY DEF Numbers, Distinct, IsInjective
  <2> HIDE DEF f, below
  <2> QED BY <2>1, <2>2 DEF Injection, IsInjective
<1>6. IsFiniteSet(below)
  BY FS_Subset
<1> HIDE DEF f
<1>7. Cardinality(0..pos[i] - 1) = Cardinality(below)
  BY <1>4, <1>5, <1>6, FS_Surjection
<1>8. Cardinality(0..pos[i] - 1) = pos[i]
  <2>1. PICK place : place = pos[i] /\ place \in Nat
    BY <1>1, <1>2
  <2>2. Cardinality(0..place - 1) = place
    <3>1. 0 \in Int /\ place - 1 \in Int
      BY <2>1
    <3>2. Cardinality(0..place - 1) = IF 0 > place - 1 THEN 0 ELSE (place - 1) - 0 + 1
      BY <3>1, FS_Interval
    <3> QED BY <2>1, <3>2
  <2> QED BY <2>1, <2>2
<1>9. Ranks(pos)[i] = Cardinality(below)
  BY DEF Ranks, Numbers
<1> QED BY <1>2, <1>7, <1>8, <1>9

(* The read lists every row once, each at its place.                       *)
LEMMA ReadsInOrder ==
  ASSUME NEW S, IsFiniteSet(S), NEW pos, Numbers(pos, S),
         NEW n, n = Cardinality(S)
  PROVE  /\ n \in Nat
         /\ InOrder(pos) \in [1..n -> S]
         /\ \A i \in S : pos[i] + 1 \in 1..n /\ InOrder(pos)[pos[i] + 1] = i
         /\ \A m \in 1..n : pos[InOrder(pos)[m]] = m - 1
<1>1. n \in Nat
  BY FS_CardinalityType
<1>2. \A i \in S : Ranks(pos)[i] = pos[i] /\ pos[i] \in 0..n - 1
  BY NumbersAreRanks
<1>3. \A i, j \in S : pos[i] = pos[j] => i = j
  BY DEF Numbers, Distinct, IsInjective
<1>4. DOMAIN pos = S
  BY DEF Numbers
<1>5. InOrder(pos) = [m \in 1..n |-> CHOOSE i \in S : Ranks(pos)[i] = m - 1]
  BY <1>4 DEF InOrder
<1>6. ASSUME NEW m \in 1..n
      PROVE  InOrder(pos)[m] \in S /\ pos[InOrder(pos)[m]] = m - 1
  <2>1. m - 1 \in 0..n - 1
    BY <1>1
  <2>2. \E i \in S : pos[i] = m - 1
    BY <2>1 DEF Numbers, Gapless, Range
  <2>3. \E i \in S : Ranks(pos)[i] = m - 1
    BY <1>2, <2>2
  <2>4. InOrder(pos)[m] = CHOOSE i \in S : Ranks(pos)[i] = m - 1
    BY <1>5
  <2>5. InOrder(pos)[m] \in S /\ Ranks(pos)[InOrder(pos)[m]] = m - 1
    BY <2>3, <2>4
  <2> QED BY <1>2, <2>5
<1>7. InOrder(pos) \in [1..n -> S]
  BY <1>5, <1>6
<1>8. ASSUME NEW i \in S
      PROVE  pos[i] + 1 \in 1..n /\ InOrder(pos)[pos[i] + 1] = i
  <2>1. pos[i] + 1 \in 1..n /\ (pos[i] + 1) - 1 = pos[i]
    BY <1>1, <1>2
  <2>2. InOrder(pos)[pos[i] + 1] \in S /\ pos[InOrder(pos)[pos[i] + 1]] = pos[i]
    BY <1>6, <2>1
  <2> QED BY <1>3, <2>1, <2>2
<1> QED BY <1>1, <1>6, <1>7, <1>8

(* A list that has each row at its place.                                  *)
HasPlaces(list, pos) == \A i \in DOMAIN pos : list[pos[i] + 1] = i

(* Every list with each row at its place is the read.                      *)
LEMMA IsTheRead ==
  ASSUME NEW S, IsFiniteSet(S), NEW pos, Numbers(pos, S),
         NEW list, HasPlaces(list, pos)
  PROVE  InOrder(pos) = [m \in 1..Cardinality(S) |-> list[m]]
<1> DEFINE n == Cardinality(S)
<1>1. /\ InOrder(pos) \in [1..n -> S]
      /\ \A m \in 1..n : pos[InOrder(pos)[m]] = m - 1
      /\ n \in Nat
  BY ReadsInOrder
<1>2. ASSUME NEW m \in 1..n PROVE list[m] = InOrder(pos)[m]
  <2>1. InOrder(pos)[m] \in S /\ pos[InOrder(pos)[m]] + 1 = m
    BY <1>1
  <2>2. InOrder(pos)[m] \in DOMAIN pos
    BY <2>1 DEF Numbers
  <2> QED BY <2>1, <2>2 DEF HasPlaces
<1> QED BY <1>1, <1>2

(* The places with a row more, which takes the number of rows for its own. *)
Grown(pos, i) ==
  [j \in DOMAIN pos \cup {i} |-> IF j = i THEN Cardinality(DOMAIN pos) ELSE pos[j]]

(* A row that takes the number of rows for its place is read last.         *)
LEMMA ReadsTheNewLast ==
  ASSUME NEW S, IsFiniteSet(S), NEW pos, Numbers(pos, S), NEW i, i \notin S
  PROVE  InOrder(Grown(pos, i)) = Append(InOrder(pos), i)
<1>8. PICK longer : longer = Grown(pos, i)
  OBVIOUS
<1>9. /\ DOMAIN longer = S \cup {i} /\ longer[i] = Cardinality(S)
      /\ \A j \in S : longer[j] = pos[j]
  BY <1>8 DEF Grown, Numbers
<1>0. Numbers(longer, S \cup {i})
  BY <1>9, GrowsAtTheEnd
<1> USE <1>0, <1>9
<1> DEFINE n == Cardinality(S)
           list == [m \in 1..n + 1 |-> IF m = n + 1 THEN i ELSE InOrder(pos)[m]]
<1>1. /\ n \in Nat /\ InOrder(pos) \in [1..n -> S]
      /\ \A j \in S : pos[j] + 1 \in 1..n /\ InOrder(pos)[pos[j] + 1] = j
  BY ReadsInOrder
<1>2. IsFiniteSet(S \cup {i}) /\ Cardinality(S \cup {i}) = n + 1
  BY FS_AddElement
<1>3. \A j \in S \cup {i} : list[longer[j] + 1] = j
  <2>1. ASSUME NEW j \in S PROVE list[longer[j] + 1] = j
    <3>1. longer[j] + 1 = pos[j] + 1 /\ pos[j] + 1 \in 1..n + 1 /\ pos[j] + 1 # n + 1
      BY <1>1
    <3> QED BY <1>1, <3>1
  <2>2. list[longer[i] + 1] = i
    BY <1>1
  <2> QED BY <2>1, <2>2
<1>4. list = [m \in 1..n + 1 |-> list[m]]
  OBVIOUS
<1> HIDE DEF list
<1>5. InOrder(longer) = list
  <2>1. PICK all : all = S \cup {i}
    OBVIOUS
  <2>2. HasPlaces(list, longer)
    BY <1>3 DEF HasPlaces, Numbers
  <2>3. IsFiniteSet(all) /\ Numbers(longer, all) /\ Cardinality(all) = n + 1
    BY <1>2, <2>1
  <2>4. InOrder(longer) = [m \in 1..Cardinality(all) |-> list[m]]
    BY <2>2, <2>3, IsTheRead
  <2> QED BY <1>4, <2>3, <2>4
<1>6. Append(InOrder(pos), i) = list
  <2>1. PICK read : read = InOrder(pos) /\ read \in [1..n -> S] /\ read \in Seq(S)
    BY <1>1
  <2>2. Len(read) = n
    BY <1>1, <2>1
  <2>3. Append(read, i) = [m \in 1..n + 1 |-> IF m = n + 1 THEN i ELSE read[m]]
    <3>1. PICK all : all = S \cup {i} /\ read \in Seq(all) /\ i \in all
      <4>1. PICK all : all = S \cup {i}
        OBVIOUS
      <4>2. read \in [1..n -> all]
        BY <2>1, <4>1
      <4>3. read \in Seq(all)
        BY <1>1, <4>2
      <4> QED BY <4>1, <4>3
    <3>2. PICK grown : grown = Append(read, i)
      OBVIOUS
    <3>3. /\ grown \in Seq(all) /\ Len(grown) = n + 1
          /\ \A m \in 1..n : grown[m] = read[m]
          /\ grown[n + 1] = i
      BY <2>2, <3>1, <3>2, AppendProperties
    <3>4. grown \in [1..n + 1 -> all]
      BY <3>3, LenProperties
    <3>5. \A m \in 1..n + 1 : grown[m] = IF m = n + 1 THEN i ELSE read[m]
      BY <1>1, <3>3
    <3>6. grown = [m \in 1..n + 1 |-> grown[m]]
      BY <3>4
    <3>7. grown = [m \in 1..n + 1 |-> IF m = n + 1 THEN i ELSE read[m]]
      BY <3>5, <3>6
    <3> QED BY <3>2, <3>7
  <2> QED BY <2>1, <2>3 DEF list
<1> QED BY <1>5, <1>6, <1>8

(* The places of the rows that stay, as they were.                         *)
Without(pos, i) == [j \in DOMAIN pos \ {i} |-> pos[j]]

(* A row that leaves, and the ranks of those that stay: the read closes up *)
(* behind it.                                                              *)
LEMMA ReadsWithout ==
  ASSUME NEW S, IsFiniteSet(S), NEW pos, Numbers(pos, S), NEW i \in S
  PROVE  InOrder(Ranks(Without(pos, i))) =
           [m \in 1..Cardinality(S) - 1 |-> InOrder(pos)[IF m <= pos[i] THEN m ELSE m + 1]]
<1> DEFINE n == Cardinality(S)
           rest == S \ {i}
           list == [m \in 1..n - 1 |-> InOrder(pos)[IF m <= pos[i] THEN m ELSE m + 1]]
<1>9. PICK left : left = Without(pos, i)
  OBVIOUS
<1>0. DOMAIN left = S \ {i} /\ \A j \in S \ {i} : left[j] = pos[j]
  BY <1>9 DEF Without, Numbers
<1> USE <1>0
<1>1. /\ n \in Nat /\ InOrder(pos) \in [1..n -> S]
      /\ \A j \in S : pos[j] + 1 \in 1..n /\ InOrder(pos)[pos[j] + 1] = j
  BY ReadsInOrder
<1>2. \A j \in S : pos[j] \in 0..n - 1 /\ Ranks(pos)[j] = pos[j]
  BY NumbersAreRanks
<1>3. /\ IsFiniteSet(rest) /\ Cardinality(rest) = n - 1
      /\ \A j \in rest : left[j] \in Nat
      /\ Distinct(left)
  <2>1. \A j, k \in S : pos[j] = pos[k] => j = k
    BY DEF Numbers, Distinct, IsInjective
  <2>2. Distinct(left)
    BY <2>1 DEF Distinct, IsInjective
  <2> QED BY <1>2, <2>2, FS_RemoveElement
<1>4. ASSUME NEW j \in rest
      PROVE  /\ pos[i] < pos[j] => Ranks(left)[j] = pos[j] - 1
             /\ pos[j] < pos[i] => Ranks(left)[j] = pos[j]
  <2> DEFINE below == {k \in S : pos[k] < pos[j]}
  <2>1. IsFiniteSet(below) /\ Cardinality(below) = pos[j]
    <3>1. Cardinality(below) = Ranks(pos)[j]
      BY DEF Ranks, Numbers
    <3> QED BY <1>2, <3>1, FS_Subset
  <2>2. Ranks(left)[j] = Cardinality({k \in rest : left[k] < left[j]})
    BY DEF Ranks
  <2>3. {k \in rest : left[k] < left[j]} = below \ {i}
    OBVIOUS
  <2>4. pos[i] # pos[j] /\ pos[i] \in Nat /\ pos[j] \in Nat
    BY <1>2 DEF Numbers, Distinct, IsInjective
  <2>5. i \in below <=> pos[i] < pos[j]
    OBVIOUS
  <2> HIDE DEF below
  <2>6. ASSUME pos[i] < pos[j] PROVE Ranks(left)[j] = pos[j] - 1
    <3>1. Cardinality(below \ {i}) = pos[j] - 1
      BY <2>1, <2>5, <2>6, FS_RemoveElement
    <3> QED BY <2>2, <2>3, <3>1
  <2>7. ASSUME pos[j] < pos[i] PROVE Ranks(left)[j] = pos[j]
    <3>1. ~(pos[i] < pos[j])
      BY <2>4, <2>7
    <3>2. below \ {i} = below
      BY <2>5, <3>1
    <3> QED BY <2>1, <2>2, <2>3, <3>2
  <2> QED BY <2>6, <2>7
<1>5. Numbers(Ranks(left), rest)
  BY <1>3, RanksNumber
<1>6. ASSUME NEW j \in rest PROVE list[Ranks(left)[j] + 1] = j
  <2>1. pos[i] # pos[j] /\ pos[i] \in 0..n - 1 /\ pos[j] \in 0..n - 1
    BY <1>2 DEF Numbers, Distinct, IsInjective
  <2>2. CASE pos[j] < pos[i]
    <3>1. Ranks(left)[j] + 1 = pos[j] + 1
      BY <1>4, <2>2
    <3>2. pos[j] + 1 \in 1..n - 1 /\ pos[j] + 1 <= pos[i]
      BY <1>1, <2>1, <2>2
    <3>3. list[pos[j] + 1] = InOrder(pos)[pos[j] + 1]
      BY <3>2
    <3> QED BY <1>1, <3>1, <3>3
  <2>3. CASE pos[i] < pos[j]
    <3>1. Ranks(left)[j] + 1 = pos[j]
      <4>1. Ranks(left)[j] = pos[j] - 1
        BY <1>4, <2>3
      <4> QED BY <1>1, <2>1, <4>1
    <3>2. pos[j] \in 1..n - 1 /\ ~(pos[j] <= pos[i])
      BY <1>1, <2>1, <2>3
    <3>3. list[pos[j]] = InOrder(pos)[pos[j] + 1]
      BY <3>2
    <3> QED BY <1>1, <3>1, <3>3
  <2> QED BY <1>1, <2>1, <2>2, <2>3
<1>7. list = [m \in 1..n - 1 |-> list[m]]
  OBVIOUS
<1> HIDE DEF list, rest
<1>8. InOrder(Ranks(left)) = list
  <2>2. PICK closed : closed = Ranks(left)
    OBVIOUS
  <2>3. list = [m \in 1..Cardinality(rest) |-> list[m]]
    BY <1>3, <1>7
  <2>4. Numbers(closed, rest) /\ HasPlaces(list, closed)
    BY <1>5, <1>6, <2>2 DEF HasPlaces, Numbers
  <2>5. InOrder(closed) = [m \in 1..Cardinality(rest) |-> list[m]]
    BY <1>3, <2>4, IsTheRead
  <2> QED BY <2>2, <2>3, <2>5
<1> QED BY <1>8, <1>9 DEF list

(* The ranks of the rows that stay number them.                            *)
LEMMA RanksWithout ==
  ASSUME NEW S, IsFiniteSet(S), NEW pos, Numbers(pos, S), NEW i \in S
  PROVE  Numbers(Ranks(Without(pos, i)), S \ {i})
<1>1. PICK left, rest : left = Without(pos, i) /\ rest = S \ {i}
  OBVIOUS
<1>2. DOMAIN left = rest /\ \A j \in rest : j \in S /\ left[j] = pos[j]
  BY <1>1 DEF Without, Numbers
<1>3. Cardinality(S) \in Nat /\ \A j \in S : pos[j] \in 0..Cardinality(S) - 1
  BY FS_CardinalityType, NumbersAreRanks
<1>4. \A j \in rest : left[j] \in Nat
  BY <1>2, <1>3
<1>5. Distinct(left)
  BY <1>2 DEF Numbers, Distinct, IsInjective
<1>6. IsFiniteSet(rest)
  BY <1>1, FS_Subset
<1>7. Numbers(Ranks(left), rest)
  BY <1>2, <1>4, <1>5, <1>6, RanksNumber
<1> QED BY <1>1, <1>7

(* The sequence the read is, as the operators on sequences see it.         *)
LEMMA ReadIsASequence ==
  ASSUME NEW S, IsFiniteSet(S), NEW pos, Numbers(pos, S),
         NEW n, n = Cardinality(S)
  PROVE  /\ n \in Nat /\ InOrder(pos) \in Seq(S) /\ Len(InOrder(pos)) = n
         /\ DOMAIN InOrder(pos) = 1..n
         /\ {InOrder(pos)[m] : m \in DOMAIN InOrder(pos)} = S
<1>1. /\ n \in Nat
      /\ InOrder(pos) \in [1..n -> S]
      /\ \A i \in S : pos[i] + 1 \in 1..n /\ InOrder(pos)[pos[i] + 1] = i
  BY ReadsInOrder
<1>2. PICK read : read = InOrder(pos)
  OBVIOUS
<1>3. read \in [1..n -> S] /\ read \in Seq(S) /\ DOMAIN read = 1..n
  BY <1>1, <1>2
<1>4. Len(read) = n
  BY <1>1, <1>3
<1>5. {read[m] : m \in DOMAIN read} = S
  BY <1>1, <1>2, <1>3
<1> QED BY <1>1, <1>2, <1>3, <1>4, <1>5

(* The row that leaves is cut out of the read.                             *)
LEMMA CutsOut ==
  ASSUME NEW S, IsFiniteSet(S), NEW pos, Numbers(pos, S), NEW i \in S
  PROVE  /\ pos[i] + 1 \in DOMAIN InOrder(pos)
         /\ InOrder(Ranks(Without(pos, i))) =
              SubSeq(InOrder(pos), 1, (pos[i] + 1) - 1)
                \o SubSeq(InOrder(pos), (pos[i] + 1) + 1, Len(InOrder(pos)))
<1>1. PICK n : n = Cardinality(S)
  OBVIOUS
<1>2. PICK read : read = InOrder(pos)
  OBVIOUS
<1>3. n \in Nat /\ read \in Seq(S) /\ Len(read) = n /\ DOMAIN read = 1..n
  BY <1>1, <1>2, ReadIsASequence
<1>4. PICK p : p = pos[i] /\ p \in 0..n - 1
  BY <1>1, NumbersAreRanks
<1>5. \A m \in 1..n : read[m] \in S
  BY <1>3, ElementOfSeq
<1>6. PICK head, tail : head = SubSeq(read, 1, p) /\ tail = SubSeq(read, p + 2, n)
  OBVIOUS
<1>7. /\ head \in Seq(S) /\ Len(head) = p
      /\ \A m \in 1..p : head[m] = read[m]
  <2>1. 1 \in Int /\ p \in Int /\ \A m \in 1..p : read[m] \in S
    BY <1>3, <1>4, <1>5
  <2>2. /\ SubSeq(read, 1, p) \in Seq(S)
        /\ Len(SubSeq(read, 1, p)) = IF 1 <= p THEN p - 1 + 1 ELSE 0
        /\ \A m \in 1..p - 1 + 1 : SubSeq(read, 1, p)[m] = read[1 + m - 1]
    BY <2>1, SubSeqProperties
  <2>3. \A m \in 1..p : m \in 1..p - 1 + 1 /\ 1 + m - 1 = m
    BY <1>4
  <2> QED BY <1>3, <1>4, <1>6, <2>2, <2>3
<1>8. /\ tail \in Seq(S) /\ Len(tail) = n - 1 - p
      /\ \A m \in 1..n - 1 - p : tail[m] = read[p + m + 1]
  <2>1. p + 2 \in Int /\ n \in Int /\ \A m \in p + 2..n : read[m] \in S
    BY <1>3, <1>4, <1>5
  <2>2. /\ SubSeq(read, p + 2, n) \in Seq(S)
        /\ Len(SubSeq(read, p + 2, n)) = IF p + 2 <= n THEN n - (p + 2) + 1 ELSE 0
        /\ \A m \in 1..n - (p + 2) + 1 : SubSeq(read, p + 2, n)[m] = read[p + 2 + m - 1]
    BY <2>1, SubSeqProperties
  <2>3. \A m \in 1..n - 1 - p : m \in 1..n - (p + 2) + 1 /\ p + 2 + m - 1 = p + m + 1
    BY <1>3, <1>4
  <2>4. (IF p + 2 <= n THEN n - (p + 2) + 1 ELSE 0) = n - 1 - p
    BY <1>3, <1>4
  <2> QED BY <1>6, <2>2, <2>3, <2>4
<1>9. PICK cut : cut = head \o tail
  OBVIOUS
<1>10. /\ cut \in Seq(S) /\ Len(cut) = n - 1
       /\ \A m \in 1..n - 1 : cut[m] = IF m <= p THEN head[m] ELSE tail[m - p]
  <2>1. /\ cut \in Seq(S) /\ Len(cut) = Len(head) + Len(tail)
        /\ \A m \in 1..Len(head) + Len(tail) :
             cut[m] = IF m <= Len(head) THEN head[m] ELSE tail[m - Len(head)]
    BY <1>7, <1>8, <1>9, ConcatProperties
  <2>2. Len(head) + Len(tail) = n - 1
    BY <1>3, <1>4, <1>7, <1>8
  <2> QED BY <1>7, <2>1, <2>2
<1>11. ASSUME NEW m \in 1..n - 1 PROVE cut[m] = read[IF m <= p THEN m ELSE m + 1]
  <2>1. CASE m <= p
    BY <1>3, <1>4, <1>7, <1>10, <2>1
  <2>2. CASE ~(m <= p)
    <3>1. m - p \in 1..n - 1 - p /\ p + (m - p) + 1 = m + 1
      BY <1>3, <1>4, <2>2
    <3>2. tail[m - p] = read[m + 1]
      BY <1>8, <3>1
    <3> QED BY <1>10, <2>2, <3>2
  <2> QED BY <2>1, <2>2
<1>12. cut = [m \in 1..n - 1 |-> cut[m]]
  <2>1. cut \in [1..n - 1 -> S]
    BY <1>10, LenProperties
  <2> QED BY <2>1
<1>13. cut = [m \in 1..n - 1 |-> read[IF m <= p THEN m ELSE m + 1]]
  BY <1>11, <1>12
<1>14. InOrder(Ranks(Without(pos, i))) =
         [m \in 1..Cardinality(S) - 1 |-> InOrder(pos)[IF m <= pos[i] THEN m ELSE m + 1]]
  BY ReadsWithout
<1>15. InOrder(Ranks(Without(pos, i))) = cut
  BY <1>1, <1>2, <1>4, <1>13, <1>14
<1>16. (p + 1) - 1 = p /\ (p + 1) + 1 = p + 2 /\ p + 1 \in 1..n
  BY <1>3, <1>4
<1> QED BY <1>2, <1>3, <1>4, <1>6, <1>9, <1>15, <1>16

(* Two orders of the same rows: each read lists them all once.             *)
LEMMA ReadsAnother ==
  ASSUME NEW S, IsFiniteSet(S), NEW pos, Numbers(pos, S), NEW n, n = Cardinality(S)
  PROVE  /\ InOrder(pos) \in [1..n -> S]
         /\ \A a, b \in 1..n : a # b => InOrder(pos)[a] # InOrder(pos)[b]
<1>1. /\ n \in Nat /\ InOrder(pos) \in [1..n -> S]
      /\ \A m \in 1..n : pos[InOrder(pos)[m]] = m - 1
  BY ReadsInOrder
<1>2. \A a, b \in 1..n : a # b => InOrder(pos)[a] # InOrder(pos)[b]
  <2>1. ASSUME NEW a \in 1..n, NEW b \in 1..n, InOrder(pos)[a] = InOrder(pos)[b] PROVE a = b
    <3>1. a - 1 = b - 1
      BY <1>1, <2>1
    <3> QED BY <1>1, <3>1
  <2> QED BY <2>1
<1> QED BY <1>1, <1>2

-----------------------------------------------------------------------------
(* A set read in an order.                                                 *)

(* An order that decides any two rows and runs in no circle.               *)
Orders(before, S) ==
  /\ \A x \in S : <<x, x>> \notin before
  /\ \A x, y \in S : x # y => <<x, y>> \in before \/ <<y, x>> \in before
  /\ \A x, y, z \in S : <<x, y>> \in before /\ <<y, z>> \in before => <<x, z>> \in before

(* Of two rows the one that stands before the other has fewer before it.   *)
LEMMA FewerPrecede ==
  ASSUME NEW S, IsFiniteSet(S), NEW before, Orders(before, S),
         NEW x \in S, NEW y \in S, <<x, y>> \in before
  PROVE  Preceding(S, before, x) < Preceding(S, before, y)
<1> DEFINE front(k) == {z \in S : <<z, k>> \in before}
<1>1. Preceding(S, before, x) = Cardinality(front(x)) /\ Preceding(S, before, y) = Cardinality(front(y))
  BY DEF Preceding
<1>2. front(x) \subseteq front(y) \ {x} /\ x \in front(y)
  BY DEF Orders
<1>3. IsFiniteSet(front(y))
  BY FS_Subset
<1> HIDE DEF front
<1>4. IsFiniteSet(front(y) \ {x}) /\ Cardinality(front(y) \ {x}) = Cardinality(front(y)) - 1
  BY <1>2, <1>3, FS_RemoveElement
<1>5. IsFiniteSet(front(x)) /\ Cardinality(front(x)) <= Cardinality(front(y)) - 1
  BY <1>2, <1>4, FS_Subset
<1>6. Cardinality(front(x)) \in Nat /\ Cardinality(front(y)) \in Nat
  BY <1>3, <1>5, FS_CardinalityType
<1> QED BY <1>1, <1>5, <1>6

(* Each row has a number of rows before it that is its own.                *)
LEMMA PrecedingNumbers ==
  ASSUME NEW S, IsFiniteSet(S), NEW before, Orders(before, S),
         NEW n, n = Cardinality(S)
  PROVE  /\ n \in Nat
         /\ \A x \in S : Preceding(S, before, x) \in 0..n - 1
         /\ \A x, y \in S : Preceding(S, before, x) = Preceding(S, before, y) => x = y
         /\ \A m \in 0..n - 1 : \E x \in S : Preceding(S, before, x) = m
<1> DEFINE pos == [x \in S |-> Preceding(S, before, x)]
<1>1. n \in Nat
  BY FS_CardinalityType
<1>2. ASSUME NEW x \in S PROVE Preceding(S, before, x) \in 0..n - 1
  <2> DEFINE front == {z \in S : <<z, x>> \in before}
  <2>1. front \subseteq S \ {x}
    BY DEF Orders
  <2>2. IsFiniteSet(S \ {x}) /\ Cardinality(S \ {x}) = n - 1
    BY FS_RemoveElement
  <2> HIDE DEF front
  <2>3. IsFiniteSet(front) /\ Cardinality(front) <= n - 1
    BY <2>1, <2>2, FS_Subset
  <2>4. Cardinality(front) \in Nat
    BY <2>3, FS_CardinalityType
  <2>5. Preceding(S, before, x) = Cardinality(front)
    BY DEF Preceding, front
  <2> QED BY <1>1, <2>3, <2>4, <2>5
<1>3. ASSUME NEW x \in S, NEW y \in S, x # y
      PROVE  Preceding(S, before, x) # Preceding(S, before, y)
  <2>1. Preceding(S, before, x) < Preceding(S, before, y) \/ Preceding(S, before, y) < Preceding(S, before, x)
    BY <1>3, FewerPrecede DEF Orders
  <2> QED BY <1>1, <1>2, <2>1
<1>4. DOMAIN pos = S /\ Distinct(pos) /\ \A x \in S : pos[x] \in 0..n - 1
  BY <1>2, <1>3 DEF Distinct, IsInjective
<1>5. \A x \in S : pos[x] = Preceding(S, before, x)
  OBVIOUS
<1> HIDE DEF pos
<1>6. Range(pos) = 0..n - 1
  BY <1>1, <1>4, FullRange
<1>7. \A m \in 0..n - 1 : \E x \in S : Preceding(S, before, x) = m
  BY <1>4, <1>5, <1>6 DEF Range
<1> QED BY <1>1, <1>2, <1>3, <1>7

(* The list of a finite set holds every row once, in the order.            *)
LEMMA ListsInOrder ==
  ASSUME NEW S, IsFiniteSet(S), NEW before, Orders(before, S),
         NEW n, n = Cardinality(S), NEW list, list = SortedBy(S, before)
  PROVE  /\ n \in Nat
         /\ list \in [1..n -> S]
         /\ \A x \in S : \E i \in 1..n : list[i] = x
         /\ \A i, j \in 1..n : i < j => <<list[i], list[j]>> \in before
<1>1. /\ n \in Nat
      /\ \A x \in S : Preceding(S, before, x) \in 0..n - 1
      /\ \A x, y \in S : Preceding(S, before, x) = Preceding(S, before, y) => x = y
      /\ \A m \in 0..n - 1 : \E x \in S : Preceding(S, before, x) = m
  BY PrecedingNumbers
<1>2. list = [i \in 1..n |-> CHOOSE x \in S : Preceding(S, before, x) = i - 1]
  BY DEF SortedBy
<1>3. ASSUME NEW i \in 1..n
      PROVE  list[i] \in S /\ Preceding(S, before, list[i]) = i - 1
  <2>1. i - 1 \in 0..n - 1
    BY <1>1
  <2>2. \E x \in S : Preceding(S, before, x) = i - 1
    BY <1>1, <2>1
  <2>3. list[i] = CHOOSE x \in S : Preceding(S, before, x) = i - 1
    BY <1>2
  <2> QED BY <2>2, <2>3
<1>4. list \in [1..n -> S]
  BY <1>2, <1>3
<1>5. ASSUME NEW x \in S PROVE \E i \in 1..n : list[i] = x
  <2> DEFINE i == Preceding(S, before, x) + 1
  <2>1. i \in 1..n /\ i - 1 = Preceding(S, before, x)
    BY <1>1
  <2>2. list[i] \in S /\ Preceding(S, before, list[i]) = i - 1
    BY <1>3, <2>1
  <2>3. list[i] = x
    BY <1>1, <2>1, <2>2
  <2> QED BY <2>1, <2>3
<1>6. ASSUME NEW i \in 1..n, NEW j \in 1..n, i < j
      PROVE  <<list[i], list[j]>> \in before
  <2>1. Preceding(S, before, list[i]) < Preceding(S, before, list[j]) /\ list[i] \in S /\ list[j] \in S
    BY <1>1, <1>3, <1>6
  <2>2. list[i] # list[j]
    BY <1>1, <2>1
  <2>3. CASE <<list[j], list[i]>> \in before
    BY <1>1, <2>1, <2>3, FewerPrecede
  <2> QED BY <2>1, <2>2, <2>3 DEF Orders
<1> QED BY <1>1, <1>4, <1>5, <1>6
-----------------------------------------------------------------------------
(* Counting up to a limit.                                                 *)

(* A set of numbers has a least one.                                       *)
LEMMA LeastOf ==
  ASSUME NEW T \in SUBSET Nat, T # {}
  PROVE  \E least \in T : \A n \in T : least <= n
<1>1. PICK least \in T : \A n \in T : <<n, least>> \notin OpToRel(<, Nat)
  BY NatLessThanWellFounded, WFMin, Zenon
<1>2. ASSUME NEW n \in Nat, n < least PROVE <<n, least>> \in OpToRel(<, Nat)
  BY <1>2, Zenon DEF OpToRel
<1>3. ASSUME NEW n \in T PROVE ~(n < least)
  BY <1>1, <1>2
<1> QED BY <1>3

(* What holds of nought, and of the next of every number it holds of up to *)
(* a limit, holds of every number up to the limit.                         *)
LEMMA UpTo ==
  ASSUME NEW limit \in Nat, NEW S,
         0 \in S, \A n \in 0..(limit - 1) : n \in S => n + 1 \in S
  PROVE  0..limit \subseteq S
<1> DEFINE T == (0..limit) \ S
<1> SUFFICES ASSUME T # {} PROVE FALSE
  OBVIOUS
<1>1. T \in SUBSET Nat
  OBVIOUS
<1> HIDE DEF T
<1>2. PICK n \in T : \A m \in T : n <= m
  BY <1>1, LeastOf
<1>3. n \in 0..limit /\ n \notin S /\ n # 0
  BY DEF T
<1>4. n - 1 \in 0..(limit - 1)
  BY <1>3
<1>5. n - 1 \notin T
  BY <1>2, <1>3
<1>6. n - 1 \in S
  BY <1>4, <1>5 DEF T
<1>7. (n - 1) + 1 \in S
  BY <1>4, <1>6
<1> QED BY <1>3, <1>7
=============================================================================
