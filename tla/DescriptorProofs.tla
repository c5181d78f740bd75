-------------------------- MODULE DescriptorProofs --------------------------
(***************************************************************************)
(* The walk of parse_format_descriptor finds what the layout of the        *)
(* descriptors says, whatever the bytes are: the loop of FormatDescriptor  *)
(* and the recursive reference beside it agree on every input.             *)
(***************************************************************************)
EXTENDS FormatDescriptor, SequenceTheorems, WellFoundedInduction, TLAPS

(* Induction, over sets of naturals. *)

\* A nonempty set of naturals has a least element.
LEMMA Least ==
    ASSUME NEW S \in SUBSET Nat, S # {}
    PROVE  \E m \in S : \A n \in S : m <= n
  <1>1. \E m \in S : \A n \in S : ~(<<n, m>> \in OpToRel(<, Nat))
    BY NatLessThanWellFounded, WFMin
  <1>2. \A m, n \in Nat : n < m => <<n, m>> \in OpToRel(<, Nat)
    BY DEF OpToRel
  <1>3. PICK m \in S : \A n \in S : ~(<<n, m>> \in OpToRel(<, Nat))
    BY <1>1
  <1>4. ASSUME NEW n \in S
        PROVE  m <= n
    <2>1. ~(n < m)
      BY <1>2, <1>3
    <2> QED BY <2>1
  <1> QED BY <1>4

\* A set of naturals with 0 that is closed under the successor is all of them.
LEMMA SetInduction ==
    ASSUME NEW S \in SUBSET Nat, 0 \in S, \A n \in S : n + 1 \in S
    PROVE  S = Nat
  <1> DEFINE T == Nat \ S
  <1>1. SUFFICES ASSUME T # {} PROVE FALSE
    OBVIOUS
  <1>2. PICK m \in T : \A n \in T : m <= n
    <2> HIDE DEF T
    <2>1. T \in SUBSET Nat
      BY DEF T
    <2> QED BY <1>1, <2>1, Least
  <1>3. m \in Nat /\ m # 0
    BY <1>2
  <1>4. m - 1 \in Nat /\ ~(m <= m - 1)
    BY <1>3
  <1>5. m - 1 \in S
    BY <1>2, <1>4
  <1>6. (m - 1) + 1 \in S /\ (m - 1) + 1 = m
    BY <1>3, <1>5
  <1> QED BY <1>2, <1>6
-----------------------------------------------------------------------------
(* The reference meets its equation. *)

\* Where the next descriptor begins is a place in the bytes.
LEMMA FollowingType ==
    ASSUME NEW e \in Seq(Byte), NEW p \in 0..Len(e)
    PROVE  Following(e, p) \in 0..Len(e)
  <1>1. Len(e) \in Nat
    BY LenProperties
  <1>2. p + 3 <= Len(e) => e[p + 1] \in Byte
    <2>1. p + 3 <= Len(e) => p + 1 \in 1..Len(e)
      BY <1>1
    <2> QED BY <2>1, ElementOfSeq
  <1>3. CASE p + 3 <= Len(e) /\ e[p + 1] # 0 /\ p + e[p + 1] <= Len(e)
    <2>1. Following(e, p) = p + e[p + 1]
      BY <1>3 DEF Following
    <2>2. e[p + 1] \in Nat
      <3>1. Byte \subseteq Nat
        BY DEF Byte
      <3> QED BY <1>2, <1>3, <3>1
    <2> QED BY <1>1, <1>3, <2>1, <2>2
  <1>4. CASE ~(p + 3 <= Len(e) /\ e[p + 1] # 0 /\ p + e[p + 1] <= Len(e))
    BY <1>1, <1>4 DEF Following
  <1> QED BY <1>3, <1>4

\* A function that begins at 0 and goes on by Following up to n.
Walks(e, f, n) ==
    /\ f \in [0..n -> 0..Len(e)]
    /\ f[0] = 0
    /\ \A i \in 1..n : f[i] = Following(e, f[i - 1])

\* A function that goes from descriptor to descriptor exists for any number of them.
LEMMA WalkExists ==
    ASSUME NEW e \in Seq(Byte), NEW n \in Nat
    PROVE  \E f : Walks(e, f, n)
  <1> DEFINE S == {m \in Nat : \E f : Walks(e, f, m)}
  <1>1. 0 \in S
    <2> DEFINE f == [i \in 0..0 |-> 0]
    <2>1. Walks(e, f, 0)
      BY LenProperties DEF Walks
    <2> QED BY <2>1
  <1>2. ASSUME NEW m \in S
        PROVE  m + 1 \in S
    <2>1. m \in Nat
      OBVIOUS
    <2>2. PICK f : Walks(e, f, m)
      OBVIOUS
    <2> DEFINE g == [i \in 0..(m + 1) |-> IF i = m + 1 THEN Following(e, f[m]) ELSE f[i]]
    <2>3. f[m] \in 0..Len(e)
      BY <2>1, <2>2 DEF Walks
    <2>4. Following(e, f[m]) \in 0..Len(e)
      BY <2>3, FollowingType
    <2>5. g \in [0..(m + 1) -> 0..Len(e)]
      BY <2>1, <2>2, <2>4 DEF Walks
    <2>6. g[0] = 0
      BY <2>1, <2>2 DEF Walks
    <2>7. ASSUME NEW i \in 1..(m + 1)
          PROVE  g[i] = Following(e, g[i - 1])
      <3>1. CASE i = m + 1
        BY <2>1, <3>1
      <3>2. CASE i # m + 1
        <4>1. i \in 1..m /\ i - 1 \in 0..(m + 1) /\ i - 1 # m + 1 /\ i \in 0..(m + 1)
          BY <2>1, <3>2
        <4>2. g[i] = f[i] /\ g[i - 1] = f[i - 1]
          BY <4>1
        <4> QED BY <2>2, <4>1, <4>2 DEF Walks
      <3> QED BY <3>1, <3>2
    <2>8. Walks(e, g, m + 1)
      <3> HIDE DEF g
      <3> QED BY <2>5, <2>6, <2>7 DEF Walks
    <2> HIDE DEF g
    <2> QED BY <2>1, <2>8
  <1>3. S = Nat
    <2> HIDE DEF S
    <2>1. S \in SUBSET Nat
      BY DEF S
    <2> QED BY <1>1, <1>2, <2>1, SetInduction
  <1> QED BY <1>3

\* Two such functions agree as far as both go.
LEMMA WalkUnique ==
    ASSUME NEW e, NEW f, NEW g, NEW n \in Nat, NEW m \in Nat,
           Walks(e, f, n), Walks(e, g, m), NEW i \in Nat, i <= n, i <= m
    PROVE  f[i] = g[i]
  <1> DEFINE S == {j \in Nat : j <= n /\ j <= m => f[j] = g[j]}
  <1>1. 0 \in S
    BY DEF Walks
  <1>2. ASSUME NEW j \in S
        PROVE  j + 1 \in S
    <2>1. SUFFICES ASSUME j + 1 <= n, j + 1 <= m
                   PROVE  f[j + 1] = g[j + 1]
      OBVIOUS
    <2>2. f[j] = g[j] /\ j + 1 \in 1..n /\ j + 1 \in 1..m /\ (j + 1) - 1 = j
      BY <2>1
    <2> QED BY <2>2 DEF Walks
  <1>3. S = Nat
    <2> HIDE DEF S
    <2>1. S \in SUBSET Nat
      BY DEF S
    <2> QED BY <1>1, <1>2, <2>1, SetInduction
  <1> QED BY <1>3

\* Begins is the function its recursive definition describes.
LEMMA BeginsEquation ==
    ASSUME NEW e \in Seq(Byte)
    PROVE  /\ Begins(e) \in [Nat -> 0..Len(e)]
           /\ Begins(e)[0] = 0
           /\ \A n \in Nat : Begins(e)[n + 1] = Following(e, Begins(e)[n])
  <1> DEFINE Walk(n) == CHOOSE f : Walks(e, f, n)
             F == [n \in Nat |-> Walk(n)[n]]
  <1>1. \A n \in Nat : Walks(e, Walk(n), n)
    BY WalkExists
  <1> HIDE DEF Walk
  <1>2. ASSUME NEW n \in Nat
        PROVE  F[n] = IF n = 0 THEN 0 ELSE Following(e, F[n - 1])
    <2>1. CASE n = 0
      BY <1>1, <2>1 DEF Walks
    <2>2. CASE n # 0
      <3>1. n - 1 \in Nat /\ n \in 1..n
        BY <2>2
      <3>2. Walk(n)[n] = Following(e, Walk(n)[n - 1])
        BY <1>1, <3>1 DEF Walks
      <3>3. Walk(n)[n - 1] = Walk(n - 1)[n - 1]
        <4>1. n - 1 <= n /\ n - 1 <= n - 1
          BY <3>1
        <4>2. Walks(e, Walk(n), n) /\ Walks(e, Walk(n - 1), n - 1)
          BY <1>1, <3>1
        <4> QED BY <3>1, <4>1, <4>2, WalkUnique
      <3> QED BY <2>2, <3>1, <3>2, <3>3
    <2> QED BY <2>1, <2>2
  <1>3. F = [n \in Nat |-> IF n = 0 THEN 0 ELSE Following(e, F[n - 1])]
    <2>1. F = [n \in Nat |-> F[n]]
      OBVIOUS
    <2> HIDE DEF F
    <2> QED BY <1>2, <2>1
  <1> HIDE DEF F
  <1>4. Begins(e) = [n \in Nat |-> IF n = 0 THEN 0 ELSE Following(e, Begins(e)[n - 1])]
    BY <1>3 DEF Begins
  <1> DEFINE B == Begins(e)
             S == {n \in Nat : B[n] \in 0..Len(e)}
  <1>5. /\ B = [n \in Nat |-> IF n = 0 THEN 0 ELSE Following(e, B[n - 1])]
        /\ B[0] = 0
        /\ \A n \in Nat : B[n + 1] = Following(e, B[n])
    <2> HIDE DEF B
    <2>1. B = [n \in Nat |-> IF n = 0 THEN 0 ELSE Following(e, B[n - 1])]
      BY <1>4 DEF B
    <2>2. \A n \in Nat : B[n] = IF n = 0 THEN 0 ELSE Following(e, B[n - 1])
      BY <2>1
    <2>3. ASSUME NEW n \in Nat
          PROVE  B[n + 1] = Following(e, B[n])
      <3>1. n + 1 \in Nat /\ n + 1 # 0 /\ (n + 1) - 1 = n
        OBVIOUS
      <3> QED BY <2>2, <3>1
    <2> QED BY <2>1, <2>2, <2>3
  <1>6. S = Nat
    <2>1. 0 \in S
      BY <1>5, LenProperties
    <2>2. ASSUME NEW n \in S
          PROVE  n + 1 \in S
      BY <1>5, FollowingType
    <2>3. S \in SUBSET Nat
      OBVIOUS
    <2> HIDE DEF S
    <2> QED BY <2>1, <2>2, <2>3, SetInduction
  <1>7. B \in [Nat -> 0..Len(e)]
    <2>1. \A n \in Nat : B[n] \in 0..Len(e)
      BY <1>6
    <2> HIDE DEF B
    <2> QED BY <1>5, <2>1
  <1> QED BY <1>5, <1>7
-----------------------------------------------------------------------------
(* The descriptors, one after the other. *)

\* The nth descriptor is the bytes between two places where one begins.
LEMMA DescriptorIs ==
    ASSUME NEW e \in Seq(Byte), NEW n \in 1..Len(e)
    PROVE  Descriptors(e)[n] = SubSeq(e, Begins(e)[n - 1] + 1, Begins(e)[n])
  BY DEF Descriptors

\* The first format type descriptor, when the one at n is one and none before is.
LEMMA FirstFormatFound ==
    ASSUME NEW e \in Seq(Byte), NEW n \in 1..Len(e),
           IsFormatType(Descriptors(e)[n]),
           \A m \in 1..(n - 1) : ~IsFormatType(Descriptors(e)[m])
    PROVE  FirstAt(e) = n /\ FirstFormat(e) = Descriptors(e)[n]
  <1> DEFINE formats == FormatTypes(e)
  <1>1. Len(e) \in Nat
    BY LenProperties
  <1>2. n \in formats /\ \A k \in formats : n <= k
    BY <1>1 DEF FormatTypes
  <1>3. \A m \in formats : (\A k \in formats : m <= k) => m = n
    <2>1. formats \subseteq Nat
      BY <1>1 DEF FormatTypes
    <2> HIDE DEF formats
    <2> QED BY <1>2, <2>1
  <1>4. FirstAt(e) = n
    <2> HIDE DEF formats
    <2>1. FirstAt(e) = CHOOSE m \in formats : \A k \in formats : m <= k
      BY DEF FirstAt, formats
    <2> QED BY <1>2, <1>3, <2>1
  <1> QED BY <1>2, <1>4 DEF FirstFormat

\* And when none is.
LEMMA NoFormatFound ==
    ASSUME NEW e \in Seq(Byte),
           \A m \in 1..Len(e) : ~IsFormatType(Descriptors(e)[m])
    PROVE  FirstFormat(e) = <<>>
  BY DEF FirstFormat, FormatTypes

\* The bytes of the descriptor the walk is at.
LEMMA HereBytes ==
    ASSUME ParserTypeOK, DescriptorHere
    PROVE  /\ pos \in Nat /\ Len(extra) \in Nat /\ extra \in Seq(Byte)
           /\ Length \in Nat \ {0} /\ Length \in Byte
           /\ End = pos + Length /\ End <= Len(extra)
           /\ Here \in Seq(Byte) /\ Len(Here) = Length
           /\ \A i \in 1..Length : Here[i] = extra[pos + i] /\ Here[i] \in Byte
           /\ End = Following(extra, pos)
  <1>1. pos \in Nat /\ Len(extra) \in Nat /\ extra \in Seq(Byte)
    BY LenProperties DEF ParserTypeOK
  <1>2. pos + 3 <= Len(extra) /\ Length # 0 /\ End <= Len(extra) /\ End = pos + Length
    BY DEF DescriptorHere, End
  <1>3. Length \in Byte
    <2>1. pos + 1 \in 1..Len(extra)
      BY <1>1, <1>2
    <2> QED BY <1>1, <2>1, ElementOfSeq DEF Length, At
  <1>4. Length \in Nat \ {0}
    BY <1>2, <1>3 DEF Byte
  <1>5. \A i \in (pos + 1)..End : extra[i] \in Byte
    <2>1. \A i \in (pos + 1)..End : i \in 1..Len(extra)
      BY <1>1, <1>2, <1>4
    <2> QED BY <1>1, <2>1, ElementOfSeq
  <1>6. /\ Here \in Seq(Byte)
        /\ Len(Here) = IF pos + 1 <= End THEN End - (pos + 1) + 1 ELSE 0
        /\ \A i \in 1..(End - (pos + 1) + 1) : Here[i] = extra[(pos + 1) + i - 1]
    <2>1. pos + 1 \in Int /\ End \in Int
      BY <1>1, <1>2, <1>4
    <2> HIDE DEF Byte
    <2> QED BY <1>5, <2>1, SubSeqProperties DEF Here
  <1>7. pos + 1 <= End /\ End - (pos + 1) + 1 = Length
    BY <1>1, <1>2, <1>4
  <1>8. \A i \in 1..Length : Here[i] = extra[pos + i]
    <2>1. \A i \in 1..Length : (pos + 1) + i - 1 = pos + i
      BY <1>1, <1>4
    <2> QED BY <1>6, <1>7, <2>1
  <1>9. \A i \in 1..Length : Here[i] \in Byte
    <2>1. Len(Here) = Length
      BY <1>6, <1>7
    <2> QED BY <1>6, <2>1, ElementOfSeq
  <1>10. End = Following(extra, pos)
    BY <1>2 DEF Following, Length, At
  <1> QED BY <1>1, <1>2, <1>3, <1>4, <1>6, <1>7, <1>8, <1>9, <1>10

\* The code's test of a descriptor and the reference's are the same.
LEMMA FormatTests ==
    ASSUME ParserTypeOK, DescriptorHere
    PROVE  IsFormat <=> IsFormatType(Here)
  <1>1. /\ pos \in Nat /\ Length \in Nat /\ Len(Here) = Length
        /\ \A i \in 1..Length : Here[i] = extra[pos + i]
    BY HereBytes
  <1>2. CASE Length >= 6
    <2>1. Here[1] = extra[pos + 1] /\ Here[2] = extra[pos + 2] /\ Here[3] = extra[pos + 3]
      BY <1>1, <1>2
    <2>2. extra[pos + 1] = Length /\ At(pos + 1) = extra[pos + 2] /\ At(pos + 2) = extra[pos + 3]
      BY <1>1 DEF Length, At
    <2> QED BY <1>1, <1>2, <2>1, <2>2 DEF IsFormat, IsFormatType
  <1>3. CASE ~(Length >= 6)
    BY <1>1, <1>3 DEF IsFormat, IsFormatType
  <1> QED BY <1>2, <1>3

\* Where the walk stands is where the reference's next descriptor begins.
LEMMA HereIsNext ==
    ASSUME ParserTypeOK, DescriptorHere, NEW n \in 0..pos, Begins(extra)[n] = pos
    PROVE  /\ n + 1 \in 1..Len(extra) /\ n + 1 <= End
           /\ Begins(extra)[n + 1] = End
           /\ Descriptors(extra)[n + 1] = Here
  <1>1. /\ pos \in Nat /\ Len(extra) \in Nat /\ extra \in Seq(Byte)
        /\ Length \in Nat \ {0} /\ End = pos + Length /\ End <= Len(extra)
        /\ End = Following(extra, pos)
    BY HereBytes
  <1>2. n \in Nat /\ n + 1 \in 1..Len(extra) /\ n + 1 <= End /\ (n + 1) - 1 = n
    BY <1>1
  <1>3. Begins(extra)[n + 1] = End
    BY <1>1, <1>2, BeginsEquation
  <1>4. Descriptors(extra)[n + 1] = SubSeq(extra, Begins(extra)[(n + 1) - 1] + 1,
                                           Begins(extra)[n + 1])
    BY <1>1, <1>2, DescriptorIs
  <1> QED BY <1>2, <1>3, <1>4 DEF Here

\* Once the bytes at the walk are no descriptor, the reference has none left.
LEMMA NothingFollows ==
    ASSUME ParserTypeOK, ~DescriptorHere, NEW n \in 0..pos, Begins(extra)[n] = pos,
           NEW m \in (n + 1)..Len(extra)
    PROVE  ~IsFormatType(Descriptors(extra)[m])
  <1> DEFINE L == Len(extra)
             B == Begins(extra)
             S == {d \in Nat : B[n + 1 + d] = L}
  <1>1. /\ pos \in 0..L /\ L \in Nat /\ extra \in Seq(Byte) /\ n \in Nat
        /\ m \in 1..L /\ m \in Nat
    BY LenProperties DEF ParserTypeOK
  <1>2. /\ B[0] = 0 /\ \A k \in Nat : B[k + 1] = Following(extra, B[k])
    BY <1>1, BeginsEquation
  <1>3. B[n + 1] = L
    <2>1. Following(extra, pos) = L
      BY DEF Following, DescriptorHere, End, Length, At
    <2> QED BY <1>1, <1>2, <2>1
  <1>4. Following(extra, L) = L
    <2>1. ~(L + 3 <= L)
      BY <1>1
    <2> QED BY <2>1 DEF Following
  <1>5. S = Nat
    <2>1. 0 \in S
      BY <1>1, <1>3
    <2>2. ASSUME NEW d \in S
          PROVE  d + 1 \in S
      <3>1. n + 1 + d \in Nat /\ n + 1 + (d + 1) = (n + 1 + d) + 1
        BY <1>1
      <3>2. B[(n + 1 + d) + 1] = Following(extra, B[n + 1 + d])
        BY <1>2, <3>1
      <3> QED BY <1>4, <3>1, <3>2
    <2>3. S \in SUBSET Nat
      OBVIOUS
    <2> HIDE DEF S
    <2> QED BY <2>1, <2>2, <2>3, SetInduction
  <1>6. B[m] = L
    <2>1. m - (n + 1) \in Nat /\ n + 1 + (m - (n + 1)) = m
      BY <1>1
    <2>2. m - (n + 1) \in S
      BY <1>5, <2>1
    <2> QED BY <2>1, <2>2
  <1>7. Descriptors(extra)[m] = SubSeq(extra, B[m - 1] + 1, L)
    BY <1>1, <1>6, DescriptorIs
  <1>8. CASE m = n + 1
    <2>1. Descriptors(extra)[m] = SubSeq(extra, pos + 1, L)
      <3>1. m - 1 = n
        BY <1>1, <1>8
      <3> QED BY <1>7, <3>1
    <2> DEFINE d == SubSeq(extra, pos + 1, L)
    <2>2. /\ Len(d) = IF pos + 1 <= L THEN L - (pos + 1) + 1 ELSE 0
          /\ \A i \in 1..(L - (pos + 1) + 1) : d[i] = extra[(pos + 1) + i - 1]
      <3>1. \A i \in (pos + 1)..L : extra[i] \in Byte
        <4>1. \A i \in (pos + 1)..L : i \in 1..L
          BY <1>1
        <4> QED BY <1>1, <4>1, ElementOfSeq
      <3>2. pos + 1 \in Int /\ L \in Int
        BY <1>1
      <3> HIDE DEF Byte
      <3> QED BY <3>1, <3>2, SubSeqProperties
    <2> HIDE DEF d
    <2>3. SUFFICES ASSUME IsFormatType(d) PROVE FALSE
      BY <2>1 DEF d
    <2>4. Len(d) >= 6 /\ d[1] = Len(d)
      BY <2>3 DEF IsFormatType
    <2>5. Len(d) = L - pos /\ pos + 6 <= L
      BY <1>1, <2>2, <2>4
    <2>6. d[1] = extra[pos + 1]
      <3>1. 1 \in 1..(L - (pos + 1) + 1) /\ (pos + 1) + 1 - 1 = pos + 1
        BY <1>1, <2>5
      <3> QED BY <2>2, <3>1
    <2>7. extra[pos + 1] = L - pos
      BY <2>4, <2>5, <2>6
    <2>8. DescriptorHere
      BY <1>1, <2>5, <2>7 DEF DescriptorHere, End, Length, At
    <2> QED BY <2>8
  <1>9. CASE m # n + 1
    <2>1. m - 1 - (n + 1) \in Nat /\ n + 1 + (m - 1 - (n + 1)) = m - 1
      BY <1>1, <1>9
    <2>2. m - 1 - (n + 1) \in S
      BY <1>5, <2>1
    <2>3. B[m - 1] = L
      BY <2>1, <2>2
    <2>4. SubSeq(extra, L + 1, L) = <<>>
      <3>1. L + 1 \in Int /\ L \in Int /\ L < L + 1
        BY <1>1
      <3> QED BY <3>1, SubSeqEmpty
    <2>5. Descriptors(extra)[m] = <<>>
      BY <1>7, <2>3, <2>4
    <2> QED BY <2>5 DEF IsFormatType
  <1> QED BY <1>8, <1>9
-----------------------------------------------------------------------------
(* The steps of the parse. *)

\* A parse begins at the reference's first descriptor.
LEMMA ParseLaidOut ==
    ASSUME NEW bytes \in Seq(Byte), NEW pc \in {"idle", "walking"},
           ParserReset(pc, bytes)
    PROVE  LaidOutInv'
  <1>1. extra' = bytes /\ pos' = 0 /\ p_pc' = pc /\ fmt' = DefaultFormat
    BY DEF ParserReset
  <1>2. Begins(bytes)[0] = 0
    BY BeginsEquation
  <1>3. WalkInv'
    <2>1. 0 \in 0..0 /\ \A m \in 1..0 : ~IsFormatType(Descriptors(bytes)[m])
      OBVIOUS
    <2> QED BY <1>1, <1>2, <2>1 DEF WalkInv
  <1> QED BY <1>1, <1>3 DEF LaidOutInv, RatesInv, ResultInv

\* A walk that ends without a format has passed every descriptor there is.
LEMMA EndWalkLaidOut ==
    ASSUME ParserTypeOK, LaidOutInv, EndWalk
    PROVE  LaidOutInv'
  <1>1. /\ p_pc = "walking" /\ p_pc' = "done" /\ ~DescriptorHere
        /\ UNCHANGED <<extra, pos, fmt>>
    BY DEF EndWalk
  <1>2. fmt = DefaultFormat
    BY <1>1 DEF LaidOutInv, WalkInv
  <1>3. PICK n \in 0..pos :
           /\ Begins(extra)[n] = pos
           /\ \A m \in 1..n : ~IsFormatType(Descriptors(extra)[m])
    BY <1>1 DEF LaidOutInv, WalkInv
  <1>4. extra \in Seq(Byte) /\ Len(extra) \in Nat /\ pos \in Nat /\ n \in Nat
    BY LenProperties DEF ParserTypeOK
  <1>5. ASSUME NEW m \in 1..Len(extra)
        PROVE  ~IsFormatType(Descriptors(extra)[m])
    <2>1. CASE m \in 1..n
      BY <1>3, <2>1
    <2>2. CASE m \notin 1..n
      <3>1. m \in (n + 1)..Len(extra)
        BY <1>4, <2>2
      <3> QED BY <1>1, <1>3, <3>1, NothingFollows
    <2> QED BY <2>1, <2>2
  <1>6. FirstFormat(extra) = <<>>
    BY <1>4, <1>5, NoFormatFound
  <1>7. fmt' = FormatIn(extra')
    BY <1>1, <1>2, <1>6 DEF FormatIn
  <1>8. ~Panics(extra')
    <2>1. Len(FirstFormat(extra')) = 0
      BY <1>1, <1>6
    <2> QED BY <2>1 DEF Panics, Overruns, Overflows
  <1> QED BY <1>1, <1>7, <1>8 DEF LaidOutInv, WalkInv, RatesInv, ResultInv, Taken

\* A descriptor that is passed is one more before pos that is no format.
LEMMA PassLaidOut ==
    ASSUME ParserTypeOK, LaidOutInv, PassDescriptor
    PROVE  LaidOutInv'
  <1>1. /\ p_pc = "walking" /\ p_pc' = "walking" /\ DescriptorHere /\ ~IsFormat
        /\ pos' = End /\ UNCHANGED <<extra, fmt>>
    BY DEF PassDescriptor
  <1>2. PICK n \in 0..pos :
           /\ Begins(extra)[n] = pos
           /\ \A m \in 1..n : ~IsFormatType(Descriptors(extra)[m])
    BY <1>1 DEF LaidOutInv, WalkInv
  <1>3. /\ n + 1 \in 1..Len(extra) /\ n + 1 <= End
        /\ Begins(extra)[n + 1] = End /\ Descriptors(extra)[n + 1] = Here
    BY <1>1, <1>2, HereIsNext
  <1>4. ~IsFormatType(Descriptors(extra)[n + 1])
    BY <1>1, <1>3, FormatTests
  <1>5. n \in Nat /\ End \in Nat
    <2>1. pos \in Nat /\ Length \in Nat \ {0} /\ End = pos + Length
      BY <1>1, HereBytes
    <2> QED BY <2>1
  <1>6. n + 1 \in 0..End /\ \A m \in 1..(n + 1) : ~IsFormatType(Descriptors(extra)[m])
    <2>1. \A m \in 1..(n + 1) : m \in 1..n \/ m = n + 1
      BY <1>5
    <2> QED BY <1>2, <1>3, <1>4, <1>5, <2>1
  <1>7. WalkInv'
    BY <1>1, <1>3, <1>6 DEF LaidOutInv, WalkInv
  <1> QED BY <1>1, <1>7 DEF LaidOutInv, RatesInv, ResultInv

\* The fields the code reads are those of the reference.
LEMMA FieldsRead ==
    ASSUME ParserTypeOK, DescriptorHere, Length >= 6
    PROVE  /\ FormatOf(Here).channels = At(pos + 4)
           /\ FormatOf(Here).subslot_size = Subslot
           /\ Overflows(Here) <=> SubslotOverflows
           /\ ~SubslotOverflows => FormatOf(Here).bit_resolution = BitResolution
           /\ Length >= 8 => Here[8] = At(pos + 7)
  <1>1. /\ pos \in Nat /\ Length \in Nat /\ Len(Here) = Length
        /\ \A i \in 1..Length : Here[i] = extra[pos + i]
    BY HereBytes
  <1>2. \A i \in 1..Length : i - 1 \in Nat /\ At(pos + (i - 1)) = Here[i]
    <2>1. \A i \in 1..Length : pos + (i - 1) + 1 = pos + i
      BY <1>1
    <2> QED BY <1>1, <2>1 DEF At
  <1>3. /\ At(pos + 4) = Here[5]
        /\ Length >= 7 => At(pos + 5) = Here[6]
        /\ Length >= 8 => At(pos + 6) = Here[7] /\ At(pos + 7) = Here[8]
    <2>1. 5 \in 1..Length /\ 5 - 1 = 4
      BY <1>1
    <2>2. Length >= 7 => 6 \in 1..Length /\ 6 - 1 = 5
      BY <1>1
    <2>3. Length >= 8 => 7 \in 1..Length /\ 7 - 1 = 6 /\ 8 \in 1..Length /\ 8 - 1 = 7
      BY <1>1
    <2> QED BY <1>2, <2>1, <2>2, <2>3
  <1>4. Length = 6 \/ Length = 7 \/ Length >= 8
    BY <1>1
  <1>5. Length >= 7 => Here[6] \in 0..255
    <2>1. Length >= 7 => 6 \in 1..Length
      BY <1>1
    <2> QED BY <2>1, HereBytes DEF Byte
  <1>6. Overflows(Here) <=> SubslotOverflows
    <2>1. CASE Length = 7
      <3>1. Subslot = Here[6] /\ Here[6] \in 0..255
        BY <1>3, <1>5, <2>1 DEF Subslot
      <3>2. Subslot * 8 \in Byte <=> ~(Here[6] > 31)
        <4>1. \A k \in 0..255 : k * 8 \in 0..255 <=> ~(k > 31)
          OBVIOUS
        <4> QED BY <3>1, <4>1 DEF Byte
      <3> QED BY <1>1, <2>1, <3>2 DEF Overflows, SubslotOverflows
    <2>2. CASE Length # 7
      BY <1>1, <1>4, <2>2 DEF Overflows, SubslotOverflows, Subslot, Byte
    <2> QED BY <2>1, <2>2
  <1>7. ASSUME ~SubslotOverflows, Length < 8
        PROVE  BitResolution = Subslot * 8
    <2> DEFINE bits == Subslot * 8
    <2>1. bits \in 0..255
      BY <1>7 DEF SubslotOverflows, Byte
    <2>2. BitResolution = bits % 256
      BY <1>1, <1>7 DEF BitResolution
    <2> HIDE DEF bits
    <2>3. bits % 256 = bits
      BY <2>1
    <2> QED BY <2>2, <2>3 DEF bits
  <1>8. ~SubslotOverflows => FormatOf(Here).bit_resolution = BitResolution
    <2>1. CASE Length >= 8
      BY <1>1, <1>3, <2>1 DEF FormatOf, BitResolution
    <2>2. CASE Length < 8
      <3>1. FormatOf(Here).bit_resolution = Subslot * 8
        BY <1>1, <1>3, <1>4, <2>2 DEF FormatOf, Subslot
      <3> QED BY <1>7, <2>2, <3>1
    <2> QED BY <1>4, <2>1, <2>2
  <1> QED BY <1>1, <1>3, <1>4, <1>6, <1>8 DEF FormatOf, Subslot

\* The rates the code reads are those of the reference.
LEMMA RateRead ==
    ASSUME ParserTypeOK, DescriptorHere, NEW k \in Nat, 12 + 4 * k <= Length
    PROVE  Rate(pos + 8 + 4 * k) = RateWord(Here, k + 1)
  <1>1. /\ pos \in Nat /\ Length \in Nat /\ Len(Here) = Length
        /\ \A i \in 1..Length : Here[i] = extra[pos + i] /\ Here[i] \in Byte
    BY HereBytes
  <1> DEFINE from == 5 + 4 * (k + 1)
             to == 8 + 4 * (k + 1)
             w == SubSeq(Here, from, to)
  <1>2. from = 9 + 4 * k /\ to = 12 + 4 * k /\ from \in Int /\ to \in Int
    OBVIOUS
  <1>3. \A i \in from..to : i \in 1..Length
    BY <1>1, <1>2
  <1>4. /\ w \in Seq(Byte)
        /\ Len(w) = IF from <= to THEN to - from + 1 ELSE 0
        /\ \A i \in 1..(to - from + 1) : w[i] = Here[from + i - 1]
    <2>1. \A i \in from..to : Here[i] \in Byte
      BY <1>1, <1>3
    <2> HIDE DEF Byte, from, to
    <2> QED BY <1>2, <2>1, SubSeqProperties
  <1>5. Len(w) = 4 /\ to - from + 1 = 4
    BY <1>2, <1>4
  <1>6. \A i \in 1..4 : w[i] = extra[pos + 8 + 4 * k + i]
    <2>1. ASSUME NEW i \in 1..4
          PROVE  w[i] = extra[pos + 8 + 4 * k + i]
      <3>1. from + i - 1 = 8 + 4 * k + i /\ 8 + 4 * k + i \in 1..Length
        BY <1>1, <1>2
      <3>2. Here[8 + 4 * k + i] = extra[pos + (8 + 4 * k + i)]
        BY <1>1, <3>1
      <3>3. pos + (8 + 4 * k + i) = pos + 8 + 4 * k + i
        BY <1>1
      <3>4. w[i] = Here[from + i - 1]
        BY <1>4, <1>5
      <3> HIDE DEF w
      <3> QED BY <3>1, <3>2, <3>3, <3>4
    <2> QED BY <2>1
  <1> DEFINE at == pos + 8 + 4 * k
  <1>7. /\ at \in Nat /\ at + 1 + 1 = at + 2 /\ at + 2 + 1 = at + 3 /\ at + 3 + 1 = at + 4
        /\ Rate(at) = <<extra[at + 1], extra[at + 1 + 1], extra[at + 2 + 1], extra[at + 3 + 1]>>
    BY <1>1 DEF Rate, At
  <1>8. Rate(at) = <<w[1], w[2], w[3], w[4]>>
    <2>1. w[1] = extra[at + 1] /\ w[2] = extra[at + 2] /\ w[3] = extra[at + 3] /\ w[4] = extra[at + 4]
      BY <1>6
    <2> HIDE DEF at, w
    <2> QED BY <1>7, <2>1
  <1>9. w = <<w[1], w[2], w[3], w[4]>>
    <2>1. w \in [1..4 -> Byte]
      BY <1>4, <1>5, LenProperties
    <2> HIDE DEF w
    <2> QED BY <2>1
  <1> QED BY <1>8, <1>9 DEF RateWord

\* A format type descriptor at the walk is the first.
LEMMA HereIsFirst ==
    ASSUME ParserTypeOK, LaidOutInv, p_pc = "walking", DescriptorHere, IsFormat
    PROVE  /\ FirstFormat(extra) = Here
           /\ Begins(extra)[FirstAt(extra)] = End
           /\ Length \in Nat /\ Len(Here) = Length /\ Length >= 6
  <1>1. PICK n \in 0..pos :
           /\ Begins(extra)[n] = pos
           /\ \A m \in 1..n : ~IsFormatType(Descriptors(extra)[m])
    BY DEF LaidOutInv, WalkInv
  <1>2. /\ n + 1 \in 1..Len(extra) /\ Descriptors(extra)[n + 1] = Here /\ (n + 1) - 1 = n
        /\ Begins(extra)[n + 1] = End
    BY <1>1, HereIsNext
  <1>3. IsFormatType(Descriptors(extra)[n + 1])
    BY <1>2, FormatTests
  <1>4. extra \in Seq(Byte)
    BY DEF ParserTypeOK
  <1>5. FirstAt(extra) = n + 1 /\ FirstFormat(extra) = Descriptors(extra)[n + 1]
    BY <1>1, <1>2, <1>3, <1>4, FirstFormatFound
  <1>6. Length \in Nat /\ Len(Here) = Length /\ Length >= 6
    BY HereBytes DEF IsFormat
  <1> QED BY <1>2, <1>5, <1>6

\* An overflow that panics is one of the first format type descriptor.
LEMMA OverflowLaidOut ==
    ASSUME ParserTypeOK, LaidOutInv, OverflowPanics
    PROVE  LaidOutInv'
  <1>1. /\ p_pc = "walking" /\ DescriptorHere /\ IsFormat /\ UNCHANGED extra
        /\ OverflowChecks /\ SubslotOverflows /\ p_pc' = "panicked"
    BY DEF OverflowPanics
  <1>2. FirstFormat(extra) = Here /\ Length >= 6
    BY <1>1, HereIsFirst
  <1>3. Overflows(Here)
    BY <1>1, <1>2, FieldsRead
  <1>4. Panics(extra')
    BY <1>1, <1>2, <1>3 DEF Panics
  <1> QED BY <1>1, <1>4 DEF LaidOutInv, WalkInv, RatesInv, ResultInv

\* The format that is taken is read from the first format type descriptor.
LEMMA TakeFormatLaidOut ==
    ASSUME ParserTypeOK, LaidOutInv, TakeFormat
    PROVE  LaidOutInv'
  <1>1. /\ p_pc = "walking" /\ DescriptorHere /\ IsFormat /\ UNCHANGED <<extra, pos>>
        /\ ~(OverflowChecks /\ SubslotOverflows)
    BY DEF TakeFormat
  <1>2. FirstFormat(extra) = Here /\ Begins(extra)[FirstAt(extra)] = End
    BY <1>1, HereIsFirst
  <1>3. Length \in Nat /\ Len(Here) = Length /\ Length >= 6
    BY <1>1, HereIsFirst
  <1>4. /\ Here' = Here /\ Length' = Length /\ End' = End
    BY <1>1 DEF Here, End, Length, At
  <1>5. /\ fmt'.channels = FormatOf(Here).channels
        /\ fmt'.subslot_size = FormatOf(Here).subslot_size
        /\ ~Overflows(Here) => fmt'.bit_resolution = FormatOf(Here).bit_resolution
        /\ Overflows(Here) <=> SubslotOverflows
        /\ fmt' = [sample_rates |-> fmt'.sample_rates, channels |-> fmt'.channels,
                   bit_resolution |-> fmt'.bit_resolution,
                   subslot_size |-> fmt'.subslot_size]
        /\ fmt'.sample_rates = IF Length >= 8 THEN <<>> ELSE <<Hz48000>>
    BY <1>1, <1>3, FieldsRead DEF TakeFormat
  <1>6. CASE Length >= 8
    <2>1. p_pc' = "rates" /\ num_rates' = Here[8] /\ Here[8] \in Byte
      <3>1. 8 \in 1..Length
        BY <1>3, <1>6
      <3> QED BY <1>1, <1>3, <1>6, <3>1, FieldsRead, HereBytes DEF TakeFormat
    <2>2. fmt'.sample_rates = <<>> /\ Len(fmt'.sample_rates) = 0
      BY <1>5, <1>6
    <2>3. [k \in 1..0 |-> RateWord(Here, k)] = <<>>
      OBVIOUS
    <2>4. fmt' = [FormatOf(Here) EXCEPT !.sample_rates =
                      [k \in 1..Len(fmt'.sample_rates) |-> RateWord(Here, k)]]
      <3> DEFINE of == FormatOf(Here)
      <3>1. of = [sample_rates |-> RatesOf(Here), channels |-> of.channels,
                  bit_resolution |-> of.bit_resolution, subslot_size |-> of.subslot_size]
        BY DEF FormatOf
      <3>2. [of EXCEPT !.sample_rates = <<>>] =
               [sample_rates |-> <<>>, channels |-> of.channels,
                bit_resolution |-> of.bit_resolution, subslot_size |-> of.subslot_size]
        <4> HIDE DEF of
        <4> QED BY <3>1
      <3>3. [k \in 1..Len(fmt'.sample_rates) |-> RateWord(Here, k)] = <<>>
        BY <2>2, <2>3
      <3>5. ~Overflows(Here)
        BY <1>3, <1>6 DEF Overflows
      <3> HIDE DEF of
      <3>4. fmt' = [of EXCEPT !.sample_rates = <<>>]
        BY <1>5, <2>2, <3>2, <3>5 DEF of
      <3> QED BY <3>3, <3>4 DEF of
    <2>5. num_rates' + Len(fmt'.sample_rates) = Here[8]
      <3>1. Here[8] \in Nat
        BY <2>1 DEF Byte
      <3> QED BY <2>1, <2>2, <3>1
    <2>6. RatesInv'
      BY <1>1, <1>2, <1>4, <2>4, <2>5 DEF RatesInv
    <2> QED BY <2>1, <2>6 DEF LaidOutInv, WalkInv, ResultInv
  <1>7. CASE ~(Length >= 8)
    <2>1. p_pc' = "done" /\ fmt'.sample_rates = <<Hz48000>>
      BY <1>5, <1>7 DEF TakeFormat
    <2>2. RatesOf(Here) = <<Hz48000>>
      <3>1. Len(Here) < 12
        BY <1>3, <1>7
      <3> QED BY <1>3, <3>1 DEF RatesOf, WholeRates
    <2>3. ~Overflows(Here) => fmt' = FormatOf(Here)
      BY <1>5, <2>1, <2>2 DEF FormatOf
    <2>4. FirstFormat(extra) # <<>>
      BY <1>2, <1>3
    <2>5. Taken(extra', fmt')
      BY <1>1, <1>2, <2>3, <2>4 DEF FormatIn, Taken
    <2>6. ~Overruns(Here)
      BY <1>3, <1>7 DEF Overruns
    <2>7. ~(Overflows(Here) /\ OverflowChecks)
      BY <1>1, <1>5
    <2>8. ~Panics(extra')
      BY <1>1, <1>2, <2>6, <2>7 DEF Panics
    <2> QED BY <2>1, <2>5, <2>8 DEF LaidOutInv, WalkInv, RatesInv, ResultInv
  <1> QED BY <1>6, <1>7

\* The parse among the rates: what has been taken and what is left of the list.
RatesTaken(n) ==
    /\ n \in Nat /\ Len(fmt.sample_rates) = n
    /\ fmt.sample_rates = [k \in 1..n |-> RateWord(Here, k)]
    /\ \A r : [fmt EXCEPT !.sample_rates = r] = [FormatOf(Here) EXCEPT !.sample_rates = r]
    /\ num_rates \in Nat /\ Here[8] = num_rates + n
    /\ Length \in Nat /\ Len(Here) = Length /\ Length >= 8 /\ 8 + 4 * n <= Length
    /\ data_pos = pos + 8 + 4 * n /\ pos \in Nat /\ End = pos + Length

\* What is known while the rates are taken, with the types it needs.
LEMMA AmongRates ==
    ASSUME ParserTypeOK, ParserInv, LaidOutInv, p_pc = "rates"
    PROVE  /\ RatesTaken(Len(fmt.sample_rates)) /\ DescriptorHere /\ IsFormat
           /\ FirstFormat(extra) = Here /\ FirstFormat(extra) # <<>>
           /\ Begins(extra)[FirstAt(extra)] = End /\ ~Overflows(Here)
           /\ fmt.sample_rates \in Seq([1..4 -> Byte])
  <1> DEFINE n == Len(fmt.sample_rates)
             of == FormatOf(Here)
             taken == [k \in 1..n |-> RateWord(Here, k)]
  <1>1. fmt.sample_rates \in Seq([1..4 -> Byte]) /\ n \in Nat /\ num_rates \in Nat
    <2>1. fmt.sample_rates \in Seq([1..4 -> Byte]) /\ num_rates \in Byte
      BY DEF ParserTypeOK
    <2>2. num_rates \in Nat
      BY <2>1 DEF Byte
    <2> QED BY <2>1, <2>2, LenProperties
  <1>2. /\ DescriptorHere /\ IsFormat /\ Length >= 8
        /\ data_pos = pos + 8 + 4 * n /\ data_pos <= End
    BY DEF ParserInv
  <1>3. /\ pos \in Nat /\ Length \in Nat /\ End = pos + Length /\ Len(Here) = Length
    BY <1>2, HereBytes
  <1>4. /\ FirstFormat(extra) = Here
        /\ Begins(extra)[FirstAt(extra)] = End
        /\ fmt = [of EXCEPT !.sample_rates = taken]
        /\ num_rates + n = Here[8]
    BY DEF LaidOutInv, RatesInv
  <1>5. of = [sample_rates |-> of.sample_rates, channels |-> of.channels,
              bit_resolution |-> of.bit_resolution, subslot_size |-> of.subslot_size]
    BY DEF FormatOf
  <1>6. /\ fmt.sample_rates = taken
        /\ \A r : [fmt EXCEPT !.sample_rates = r] = [of EXCEPT !.sample_rates = r]
    <2> HIDE DEF of, taken
    <2> QED BY <1>4, <1>5
  <1>7. 8 + 4 * n <= Length
    <2> HIDE DEF n
    <2> QED BY <1>1, <1>2, <1>3
  <1>8. Here # <<>>
    BY <1>2, <1>3
  <1>9. Here[8] = num_rates + n
    BY <1>4
  <1>10. ~Overflows(Here)
    BY <1>2, <1>3 DEF Overflows
  <1> QED BY <1>1, <1>2, <1>3, <1>4, <1>6, <1>7, <1>8, <1>9, <1>10 DEF RatesTaken

\* When no more rates fit, the reference has as many as were taken.
LEMMA RatesCounted ==
    ASSUME NEW n, RatesTaken(n), ~RateFits
    PROVE  WholeRates(Here) = n
  <1>1. /\ n \in Nat /\ num_rates \in Nat /\ Here[8] = num_rates + n
        /\ Length \in Nat /\ Len(Here) = Length /\ Length >= 8 /\ 8 + 4 * n <= Length
        /\ num_rates = 0 \/ 8 + 4 * n + 4 > Length
    BY DEF RatesTaken, RateFits
  <1>2. CASE Length < 12
    <2>1. n = 0
      BY <1>1, <1>2
    <2> QED BY <1>1, <1>2, <2>1 DEF WholeRates
  <1>3. CASE Length >= 12
    <2> DEFINE room == (Length - 8) \div 4
    <2>1. room \in Nat /\ 4 * room <= Length - 8 /\ Length - 8 < 4 * room + 4
      BY <1>1, <1>3
    <2> HIDE DEF room
    <2>2. WholeRates(Here) = IF Here[8] < room THEN Here[8] ELSE room
      BY <1>1, <1>3 DEF WholeRates, room
    <2>3. n <= room /\ (num_rates = 0 \/ room = n)
      BY <1>1, <2>1
    <2>4. CASE num_rates = 0
      BY <1>1, <2>1, <2>2, <2>3, <2>4
    <2>5. CASE num_rates # 0
      BY <1>1, <2>1, <2>2, <2>3, <2>5
    <2> QED BY <2>4, <2>5
  <1> QED BY <1>1, <1>2, <1>3

\* Once the rates are those of the reference, so is the format.
LEMMA FormatComplete ==
    ASSUME ParserTypeOK, ParserInv, LaidOutInv, p_pc = "rates",
           fmt' = [fmt EXCEPT !.sample_rates = RatesOf(Here)],
           UNCHANGED <<extra, pos>>
    PROVE  fmt' = FormatIn(extra')
  <1> DEFINE of == FormatOf(Here)
  <1>1. /\ \A r : [fmt EXCEPT !.sample_rates = r] = [of EXCEPT !.sample_rates = r]
        /\ FirstFormat(extra) = Here /\ FirstFormat(extra) # <<>>
    BY AmongRates DEF RatesTaken
  <1>2. /\ of = [sample_rates |-> of.sample_rates, channels |-> of.channels,
                 bit_resolution |-> of.bit_resolution, subslot_size |-> of.subslot_size]
        /\ of.sample_rates = RatesOf(Here)
    BY DEF FormatOf
  <1>3. [of EXCEPT !.sample_rates = RatesOf(Here)] = of
    <2> HIDE DEF of
    <2> QED BY <1>2
  <1> HIDE DEF of
  <1>4. fmt' = of
    BY <1>1, <1>3
  <1> QED BY <1>1, <1>4 DEF FormatIn, of

\* A rate that is taken is the next word of the descriptor.
LEMMA TakeRateLaidOut ==
    ASSUME ParserTypeOK, ParserInv, LaidOutInv, TakeRate
    PROVE  LaidOutInv'
  <1> DEFINE sr == fmt.sample_rates
             n == Len(sr)
             rate == RateWord(Here, n + 1)
  <1>1. /\ p_pc = "rates" /\ p_pc' = "rates" /\ UNCHANGED <<extra, pos>>
        /\ fmt' = [fmt EXCEPT !.sample_rates = Append(sr, Rate(data_pos))]
        /\ num_rates' = num_rates - 1 /\ num_rates > 0 /\ data_pos + 4 <= End
    BY DEF TakeRate, WithRate, RateFits
  <1>2. /\ RatesTaken(n) /\ DescriptorHere /\ FirstFormat(extra) = Here
        /\ Begins(extra)[FirstAt(extra)] = End
        /\ sr \in Seq([1..4 -> Byte])
    BY <1>1, AmongRates
  <1>3. /\ n \in Nat /\ num_rates \in Nat /\ pos \in Nat /\ Length \in Nat
        /\ data_pos = pos + 8 + 4 * n /\ End = pos + Length /\ Here[8] = num_rates + n
    BY <1>2 DEF RatesTaken
  <1>4. Rate(data_pos) = rate
    <2>1. 12 + 4 * n <= Length
      <3> HIDE DEF n
      <3> QED BY <1>1, <1>3
    <2> HIDE DEF n
    <2> QED BY <1>2, <1>3, <2>1, RateRead DEF n
  <1>5. Append(sr, rate) = [k \in 1..(n + 1) |-> RateWord(Here, k)] /\ Len(Append(sr, rate)) = n + 1
    <2>1. rate \in [1..4 -> Byte] \cup {rate}
      OBVIOUS
    <2> DEFINE T == [1..4 -> Byte] \cup {rate}
    <2>2. sr \in Seq(T) /\ rate \in T
      <3>1. [1..4 -> Byte] \subseteq T
        OBVIOUS
      <3> HIDE DEF T, rate, sr
      <3> QED BY <1>2, <2>1, <3>1, SeqMonotonic DEF T
    <2> HIDE DEF T, rate
    <2>3. /\ Append(sr, rate) \in Seq(T) /\ Len(Append(sr, rate)) = n + 1
          /\ \A i \in 1..n : Append(sr, rate)[i] = sr[i]
          /\ Append(sr, rate)[n + 1] = rate
      BY <2>2, AppendProperties
    <2>4. Append(sr, rate) \in [1..(n + 1) -> T]
      BY <2>3, LenProperties
    <2>5. sr = [k \in 1..n |-> RateWord(Here, k)]
      BY <1>2 DEF RatesTaken
    <2>6. \A k \in 1..(n + 1) : Append(sr, rate)[k] = RateWord(Here, k)
      <3>1. \A k \in 1..(n + 1) : k \in 1..n \/ k = n + 1
        BY <1>3
      <3>2. \A k \in 1..n : sr[k] = RateWord(Here, k)
        <4> HIDE DEF sr
        <4> QED BY <2>5
      <3> QED BY <2>3, <3>1, <3>2 DEF rate
    <2> DEFINE a == Append(sr, rate)
               m == n + 1
    <2>7. a \in [1..m -> T] /\ \A k \in 1..m : a[k] = RateWord(Here, k)
      BY <2>4, <2>6
    <2>8. a = [k \in 1..m |-> RateWord(Here, k)]
      <3> HIDE DEF a, m
      <3> QED BY <2>7
    <2> QED BY <2>3, <2>8
  <1>6. Here' = Here /\ End' = End
    BY <1>1 DEF Here, End, Length, At
  <1> DEFINE taken == [k \in 1..(n + 1) |-> RateWord(Here, k)]
  <1>7. fmt' = [FormatOf(Here) EXCEPT !.sample_rates = taken]
    <2> HIDE DEF taken, rate
    <2> QED BY <1>1, <1>2, <1>4, <1>5 DEF RatesTaken, taken
  <1>8. fmt'.sample_rates = Append(sr, rate)
    BY <1>1, <1>4 DEF ParserTypeOK
  <1>9. Len(fmt'.sample_rates) = n + 1
    <2> HIDE DEF n, rate
    <2> QED BY <1>5, <1>8
  <1>10. num_rates' + (n + 1) = Here[8]
    <2> HIDE DEF n
    <2> QED BY <1>1, <1>3
  <1>11. RatesInv'
    <2>1. fmt' = [FormatOf(Here) EXCEPT !.sample_rates =
                     [k \in 1..Len(fmt'.sample_rates) |-> RateWord(Here, k)]]
      BY <1>7, <1>9
    <2>2. num_rates' + Len(fmt'.sample_rates) = Here[8]
      BY <1>9, <1>10
    <2> QED BY <1>1, <1>2, <1>6, <2>1, <2>2 DEF RatesInv
  <1> QED BY <1>1, <1>11 DEF LaidOutInv, WalkInv, ResultInv

\* The rates end where the reference's do: at the count or at the last whole word.
LEMMA EndRatesLaidOut ==
    ASSUME ParserTypeOK, ParserInv, LaidOutInv, EndRates
    PROVE  LaidOutInv'
  <1> DEFINE n == Len(fmt.sample_rates)
  <1>1. /\ p_pc = "rates" /\ p_pc' = "done" /\ ~RateFits /\ fmt.sample_rates # <<>>
        /\ UNCHANGED <<extra, pos, fmt>>
    BY DEF EndRates
  <1>2. /\ RatesTaken(n) /\ fmt.sample_rates \in Seq([1..4 -> Byte])
        /\ fmt.sample_rates = [k \in 1..n |-> RateWord(Here, k)]
    BY <1>1, AmongRates DEF RatesTaken
  <1>3. n \in Nat /\ n # 0
    BY <1>1, <1>2, EmptySeq
  <1>4. WholeRates(Here) = n
    BY <1>1, <1>2, RatesCounted
  <1>5. RatesOf(Here) = fmt.sample_rates
    <2>1. n > 0
      BY <1>3
    <2> QED BY <1>2, <1>4, <2>1 DEF RatesOf
  <1>6. fmt' = [fmt EXCEPT !.sample_rates = RatesOf(Here)]
    BY <1>1, <1>5 DEF ParserTypeOK
  <1>7. fmt' = FormatIn(extra')
    BY <1>1, <1>6, FormatComplete
  <1>8. ~Panics(extra')
    <2>1. Length \in Nat /\ 8 + 4 * n <= Length /\ Len(Here) = Length
      BY <1>2 DEF RatesTaken
    <2>2. Length # 11
      <3> HIDE DEF n
      <3> QED BY <1>3, <2>1
    <2>3. FirstFormat(extra) = Here /\ ~Overflows(Here)
      BY <1>1, AmongRates
    <2> QED BY <1>1, <2>1, <2>2, <2>3 DEF Panics, Overruns
  <1> QED BY <1>1, <1>7, <1>8 DEF LaidOutInv, WalkInv, RatesInv, ResultInv, Taken

\* Without a whole word in the list the rates are the fixed one or the fallback.
LEMMA FixedRateLaidOut ==
    ASSUME ParserTypeOK, ParserInv, LaidOutInv, FixedRate
    PROVE  LaidOutInv'
  <1>1. /\ p_pc = "rates" /\ ~RateFits /\ fmt.sample_rates = <<>>
        /\ UNCHANGED <<extra, pos>>
    BY DEF FixedRate
  <1>2. /\ RatesTaken(0) /\ DescriptorHere /\ FirstFormat(extra) = Here
        /\ Begins(extra)[FirstAt(extra)] = End /\ ~Overflows(Here) /\ End <= Len(extra)
        /\ Len(extra) \in Nat
    <2>1. Len(fmt.sample_rates) = 0
      BY <1>1
    <2> QED BY <1>1, <2>1, AmongRates, HereBytes
  <1>3. /\ Length \in Nat /\ Len(Here) = Length /\ pos \in Nat /\ data_pos = pos + 8
        /\ End = pos + Length
    BY <1>2 DEF RatesTaken
  <1>4. WholeRates(Here) = 0
    BY <1>1, <1>2, RatesCounted
  <1>5. /\ Panics(extra') <=> Length = 11 /\ End = Len(extra)
        /\ Length = 11 => Taken(extra', fmt')
    BY <1>1, <1>2, <1>3 DEF Panics, Overruns, Taken
  <1>6. \A rate : WithRate(rate) = [fmt EXCEPT !.sample_rates = <<rate>>]
    <2>1. \A rate : Append(fmt.sample_rates, rate) = <<rate>>
      BY <1>1
    <2> QED BY <2>1 DEF WithRate
  <1>7. CASE data_pos + 3 > End
    <2>1. p_pc' = "done" /\ fmt' = [fmt EXCEPT !.sample_rates = <<Hz48000>>]
      BY <1>6, <1>7 DEF FixedRate
    <2>2. Length < 11
      BY <1>3, <1>7
    <2>3. RatesOf(Here) = <<Hz48000>>
      <3>1. ~(WholeRates(Here) > 0) /\ ~(Len(Here) >= 12)
        BY <1>3, <1>4, <2>2
      <3> QED BY <3>1 DEF RatesOf
    <2>4. fmt' = FormatIn(extra')
      BY <1>1, <2>1, <2>3, FormatComplete
    <2>5. ~Panics(extra')
      BY <1>3, <1>5, <2>2
    <2> QED BY <2>1, <2>4, <2>5 DEF LaidOutInv, WalkInv, RatesInv, ResultInv, Taken
  <1>8. CASE ~(data_pos + 3 > End) /\ data_pos + 4 <= Len(extra)
    <2>1. p_pc' = "done" /\ fmt' = [fmt EXCEPT !.sample_rates = <<Rate(data_pos)>>]
      BY <1>6, <1>8 DEF FixedRate
    <2>2. Length = 11 \/ Length >= 12
      BY <1>3, <1>8
    <2>3. CASE Length = 11
      <3>1. ~Panics(extra')
        BY <1>2, <1>3, <1>5, <1>8, <2>3
      <3>2. Taken(extra', fmt')
        BY <1>5, <2>3
      <3> QED BY <2>1, <3>1, <3>2 DEF LaidOutInv, WalkInv, RatesInv, ResultInv
    <2>4. CASE Length >= 12
      <3>1. Rate(data_pos) = RateWord(Here, 1)
        <4>1. 0 \in Nat /\ 12 + 4 * 0 <= Length /\ pos + 8 + 4 * 0 = data_pos /\ 0 + 1 = 1
          BY <1>3, <2>4
        <4>2. Rate(pos + 8 + 4 * 0) = RateWord(Here, 0 + 1)
          BY <1>2, <4>1, RateRead
        <4> QED BY <4>1, <4>2
      <3>2. RatesOf(Here) = <<Rate(data_pos)>>
        <4>1. ~(WholeRates(Here) > 0) /\ Len(Here) >= 12
          BY <1>3, <1>4, <2>4
        <4> QED BY <3>1, <4>1 DEF RatesOf
      <3>3. fmt' = FormatIn(extra')
        BY <1>1, <2>1, <3>2, FormatComplete
      <3>4. ~Panics(extra')
        BY <1>3, <1>5, <2>4
      <3> QED BY <2>1, <3>3, <3>4 DEF LaidOutInv, WalkInv, RatesInv, ResultInv, Taken
    <2> QED BY <2>2, <2>3, <2>4
  <1>9. CASE ~(data_pos + 3 > End) /\ ~(data_pos + 4 <= Len(extra))
    <2>1. p_pc' = "panicked"
      BY <1>9 DEF FixedRate
    <2>2. Length = 11 /\ End = Len(extra)
      BY <1>2, <1>3, <1>9
    <2>3. Panics(extra')
      BY <1>5, <2>2
    <2> QED BY <2>1, <2>3 DEF LaidOutInv, WalkInv, RatesInv, ResultInv
  <1> QED BY <1>7, <1>8, <1>9

\* Every step of the parse keeps to the layout.
LEMMA ParserLaidOutStep ==
    ASSUME ParserTypeOK, ParserInv, LaidOutInv, ParserNext
    PROVE  LaidOutInv'
  BY EndWalkLaidOut, PassLaidOut, OverflowLaidOut, TakeFormatLaidOut, TakeRateLaidOut, EndRatesLaidOut,
     FixedRateLaidOut
  DEF ParserNext

\* The layout is kept by steps that leave the parser alone.
LEMMA LaidOutKept ==
    ASSUME LaidOutInv, UNCHANGED parser
    PROVE  LaidOutInv'
  BY DEF parser, LaidOutInv, WalkInv, RatesInv, ResultInv, Here, Length, End, At
=============================================================================
