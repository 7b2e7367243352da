-------------------------- MODULE TokenCheckProofs --------------------------
(***************************************************************************)
(* TokenCheck for every width of integers, length of a day, key size and   *)
(* digest size: that of the code, 64 bits and 1000 ms, among them.         *)
(***************************************************************************)
EXTENDS TokenCheck, TLAPS

LEMMA WrapIsInt64 == ASSUME NEW n \in Int PROVE Wrap(n) \in Int64
<1>1. CASE n \in Int64
  BY <1>1 DEF Wrap
<1>2. CASE n \notin Int64
  <2> DEFINE m == 2 * MaxInt64 + 2
             r == (n + MaxInt64 + 1) % m
  <2>1. m \in Nat \ {0} /\ n + MaxInt64 + 1 \in Int
    BY WidthAssumption
  <2> HIDE DEF m
  <2>2. r \in 0..(m - 1)
    BY <2>1
  <2> HIDE DEF r
  <2>3. r - MaxInt64 - 1 \in Int64
    BY <2>2, WidthAssumption DEF m, Int64
  <2> QED
    BY <1>2, <2>3 DEF r, m, Wrap
<1> QED
  BY <1>1, <1>2

\* What is left after the guard of shouldRefresh() fits into 64 bits, and
\* what the guard sends away is longer than any age.
LEMMA GuardIsExact ==
    ASSUME NEW days \in Int64
    PROVE  /\ days \in 0..(MaxInt64 \div MsPerDay) => days * MsPerDay \in 0..MaxInt64
           /\ days > MaxInt64 \div MsPerDay => days * MsPerDay > MaxInt64
<1> DEFINE q == MaxInt64 \div MsPerDay
<1>1. /\ MsPerDay \in Nat /\ MsPerDay > 0 /\ MaxInt64 \in Nat
  BY WidthAssumption
<1>2. q \in Int /\ q * MsPerDay <= MaxInt64 /\ MaxInt64 < (q + 1) * MsPerDay
  BY <1>1
<1> HIDE DEF q
<1>3. days \in Int
  BY <1>1 DEF Int64
<1>4. ASSUME NEW a \in Int, NEW b \in Int, a <= b PROVE a * MsPerDay <= b * MsPerDay
  BY <1>4, <1>1
<1>5. ASSUME days \in 0..q PROVE days * MsPerDay \in 0..MaxInt64
  <2>1. days * MsPerDay <= q * MsPerDay
    BY <1>2, <1>3, <1>4, <1>5
  <2>2. 0 * MsPerDay <= days * MsPerDay
    BY <1>3, <1>4, <1>5
  <2> QED
    BY <2>1, <2>2, <1>1, <1>2, <1>3
<1>6. ASSUME days > q PROVE days * MsPerDay > MaxInt64
  <2>1. (q + 1) * MsPerDay <= days * MsPerDay
    BY <1>2, <1>3, <1>4, <1>6
  <2> QED
    BY <2>1, <1>1, <1>2, <1>3
<1> QED
  BY <1>5, <1>6 DEF q

-----------------------------------------------------------------------------
(* Types.                                                                  *)

LEMMA AccessTokenType ==
    ASSUME NEW issued \in Int64, NEW expires \in Int64,
           NEW interval \in Int64 \cup {Absent}
    PROVE  MakeAccessToken(issued, expires, interval) \in AccessToken
<1>1. {issued * MsPerSecond, expires * MsPerSecond} \subseteq Int
  BY WidthAssumption DEF Int64
<1>2. {Wrap(issued * MsPerSecond), Wrap(expires * MsPerSecond)} \subseteq Int64
  BY <1>1, WrapIsInt64
<1>3. ReadRefreshIntervalDays(interval) \in Int64
  BY WidthAssumption DEF ReadRefreshIntervalDays, Int64
<1> QED
  BY <1>2, <1>3 DEF MakeAccessToken, AccessToken

LEMMA PaddedType ==
    ASSUME NEW size \in 0..KeySize, NEW number \in [1..size -> Byte]
    PROVE  ToBigEndianPadded(number, KeySize) \in [1..KeySize -> Byte]
<1>1. Len(number) = size /\ size \in Nat /\ KeySize \in Nat /\ 0 \in Byte
  BY KeyAssumption
<1> DEFINE padded == [i \in 1..KeySize |->
                        IF i <= KeySize - Len(number) THEN 0 ELSE number[KeySize + 1 - i]]
<1>2. ASSUME NEW i \in 1..KeySize, ~(i <= KeySize - Len(number))
      PROVE  number[KeySize + 1 - i] \in Byte
  <2>1. KeySize + 1 - i \in 1..size
    BY <1>1, <1>2
  <2> QED
    BY <2>1
<1>3. padded \in [1..KeySize -> Byte]
  BY <1>1, <1>2
<1>4. ToBigEndianPadded(number, KeySize) = padded
  BY <1>1 DEF ToBigEndianPadded
<1> QED
  BY <1>3, <1>4

LEMMA TokenTypeStep == TypeOK /\ [Next]_vars => TypeOK'
<1> SUFFICES ASSUME TypeOK, [Next]_vars PROVE TypeOK'
  OBVIOUS
<1> USE DEF TypeOK
<1>1. CASE ParseToken
  <2>1. stage' \in {"signature", "refused"}
    BY <1>1 DEF ParseToken
  <2> QED
    BY <1>1, <2>1 DEF ParseToken
<1>2. CASE VerifySignature
  BY <1>2, PaddedType DEF VerifySignature
<1>3. CASE ValidateClaims
  BY <1>3, AccessTokenType DEF ValidateClaims
<1>4. CASE Tick
  BY <1>4, WidthAssumption DEF Tick
<1>5. CASE UNCHANGED vars
  BY <1>5 DEF vars
<1> QED
  BY <1>1, <1>2, <1>3, <1>4, <1>5 DEF Next

\* Every stage keeps to its types; an accepted token's times fit their 64 bits.
THEOREM TokenTypeCorrect == Spec => []TypeOK
<1>1. Init => TypeOK
  BY WidthAssumption DEF Init, TypeOK, NoToken, AccessToken, Int64
<1> QED
  BY <1>1, TokenTypeStep, PTL DEF Spec

-----------------------------------------------------------------------------
(* The signature.                                                          *)

LEMMA EncodingBytes ==
    ASSUME NEW digest
    PROVE  /\ Encoding(digest)[1] = 0
           /\ Encoding(digest)[2] = 1
           /\ Encoding(digest)[KeySize - DigestSize] = 0
           /\ \A i \in 3..(KeySize - DigestSize - 1) : Encoding(digest)[i] = 255
           /\ \A i \in 1..DigestSize : Encoding(digest)[KeySize - DigestSize + i] = digest[i]
<1> DEFINE d == KeySize - DigestSize
<1>1. /\ KeySize \in Nat /\ DigestSize \in Nat /\ d \in 3..KeySize
  BY KeyAssumption
<1>2. Encoding(digest)[1] = 0
  BY <1>1 DEF Encoding
<1>3. Encoding(digest)[2] = 1
  BY <1>1 DEF Encoding
<1>4. Encoding(digest)[d] = 0
  BY <1>1 DEF Encoding
<1>5. ASSUME NEW i \in 3..(d - 1) PROVE Encoding(digest)[i] = 255
  BY <1>1, <1>5 DEF Encoding
<1>6. ASSUME NEW i \in 1..DigestSize PROVE Encoding(digest)[d + i] = digest[i]
  <2>1. d + i \in (d + 1)..KeySize /\ (d + i) - d = i
    BY <1>1, <1>6
  <2> QED
    BY <1>1, <2>1 DEF Encoding
<1> QED
  BY <1>2, <1>3, <1>4, <1>5, <1>6

\* Verifies() is the comparison with the one encoding: what the loops of the
\* code find out byte by byte fixes every byte.
LEMMA VerifiesOneEncoding ==
    ASSUME NEW bytes \in [1..KeySize -> Byte], NEW digest \in [1..DigestSize -> Byte]
    PROVE  Verifies(bytes, digest) <=> bytes = Encoding(digest)
<1> DEFINE sep == KeySize - DigestSize - 1
<1>1. /\ KeySize \in Nat /\ DigestSize \in Nat /\ MinSeparator \in Nat
      /\ MinSeparator >= 2 /\ sep \in MinSeparator..(KeySize - 1)
  BY KeyAssumption
<1>2. ASSUME Verifies(bytes, digest) PROVE bytes = Encoding(digest)
  <2>1. PICK index \in MinSeparator..(KeySize - 1) :
             /\ IsSeparator(bytes, index)
             /\ index + 1 + DigestSize = KeySize
             /\ \A i \in 2..(index - 1) : bytes[i + 1] = 255
             /\ \A i \in 1..DigestSize : bytes[index + 1 + i] = digest[i]
    BY <1>2 DEF Verifies
  <2>2. index = sep
    BY <1>1, <2>1
  <2>3. ASSUME NEW i \in 1..KeySize PROVE bytes[i] = Encoding(digest)[i]
    <3>1. CASE i = 1 \/ i = 2 \/ i = KeySize - DigestSize
      <4>1. bytes[1] = 0 /\ bytes[2] = 1
        BY <1>2 DEF Verifies
      <4>2. bytes[index + 1] = 0
        BY <2>1 DEF IsSeparator
      <4>3. index + 1 = KeySize - DigestSize
        BY <1>1, <2>2
      <4>4. bytes[KeySize - DigestSize] = 0
        BY <4>2, <4>3
      <4> QED
        BY <3>1, <4>1, <4>4, EncodingBytes
    <3>2. CASE i \in 3..(KeySize - DigestSize - 1)
      <4>1. i - 1 \in 2..(index - 1) /\ i = (i - 1) + 1
        BY <1>1, <2>2, <3>2
      <4>2. bytes[(i - 1) + 1] = 255
        BY <4>1, <2>1
      <4>3. bytes[i] = 255
        BY <4>1, <4>2
      <4> QED
        BY <3>2, <4>3, EncodingBytes
    <3>3. CASE i \in (KeySize - DigestSize + 1)..KeySize
      <4> DEFINE j == i - (KeySize - DigestSize)
      <4>1. j \in 1..DigestSize /\ i = index + 1 + j
        BY <1>1, <2>2, <3>3
      <4>2. bytes[i] = digest[j]
        BY <4>1, <2>1
      <4>3. Encoding(digest)[KeySize - DigestSize + j] = digest[j]
        BY <4>1, EncodingBytes
      <4>4. KeySize - DigestSize + j = i
        BY <1>1, <3>3
      <4> QED
        BY <4>2, <4>3, <4>4
    <3> QED
      BY <1>1, <3>1, <3>2, <3>3
  <2> QED
    BY <2>3 DEF Encoding
<1>3. ASSUME bytes = Encoding(digest) PROVE Verifies(bytes, digest)
  <2>0. sep + 1 = KeySize - DigestSize
    BY <1>1
  <2>1. ASSUME NEW i \in 2..(sep - 1) PROVE bytes[i + 1] = 255
    <3> DEFINE k == i + 1
    <3>1. k \in 3..(KeySize - DigestSize - 1)
      BY <1>1
    <3> HIDE DEF k
    <3>2. Encoding(digest)[k] = 255
      BY <3>1, EncodingBytes
    <3>3. bytes[k] = 255
      BY <3>2, <1>3
    <3> QED
      BY <3>3 DEF k
  <2>2. bytes[1] = 0 /\ bytes[2] = 1 /\ bytes[sep + 1] = 0
    BY <1>3, <2>0, EncodingBytes
  <2>3. ASSUME NEW i \in 1..DigestSize PROVE bytes[sep + 1 + i] = digest[i]
    <3>1. bytes[KeySize - DigestSize + i] = digest[i]
      BY <1>3, EncodingBytes
    <3> QED
      BY <2>0, <3>1
  <2>4. IsSeparator(bytes, sep)
    BY <2>1, <2>2 DEF IsSeparator
  <2>5. sep + 1 + DigestSize = KeySize
    BY <1>1
  <2> HIDE DEF sep
  <2> QED
    BY <1>1, <2>1, <2>2, <2>3, <2>4, <2>5 DEF Verifies
<1> QED
  BY <1>2, <1>3

LEMMA SignatureStep ==
    TypeOK /\ SignatureHasOneEncoding /\ [Next]_vars => SignatureHasOneEncoding'
<1> SUFFICES ASSUME TypeOK, SignatureHasOneEncoding, [Next]_vars
             PROVE  SignatureHasOneEncoding'
  OBVIOUS
<1>1. CASE ParseToken
  BY <1>1 DEF ParseToken, SignatureHasOneEncoding
<1>2. CASE VerifySignature
  <2>1. CASE stage' = "refused"
    BY <2>1 DEF SignatureHasOneEncoding
  <2>2. CASE stage' # "refused"
    <3>1. PICK size \in 0..KeySize : \E number \in [1..size -> Byte] :
               /\ encoded' = ToBigEndianPadded(number, KeySize)
               /\ stage' = IF Verifies(encoded', digestInfo) THEN "claims" ELSE "forged"
      BY <1>2, <2>2 DEF VerifySignature
    <3>2. encoded' \in [1..KeySize -> Byte]
      BY <3>1, PaddedType
    <3>3. digestInfo' = digestInfo /\ digestInfo \in [1..DigestSize -> Byte]
      BY <1>2 DEF VerifySignature, TypeOK
    <3>4. Verifies(encoded', digestInfo) <=> encoded' = Encoding(digestInfo)
      BY <3>2, <3>3, VerifiesOneEncoding
    <3>5. Encoding(digestInfo') = Encoding(digestInfo)
      BY <3>3
    <3>6. Encoding(digestInfo)' = Encoding(digestInfo')
      BY DEF Encoding
    <3>7. stage' = IF Verifies(encoded', digestInfo) THEN "claims" ELSE "forged"
      BY <3>1
    <3> QED
      BY <3>4, <3>5, <3>6, <3>7 DEF SignatureHasOneEncoding
  <2> QED
    BY <2>1, <2>2
<1>3. CASE ValidateClaims
  BY <1>3 DEF ValidateClaims, SignatureHasOneEncoding, Encoding
<1>4. CASE Tick
  BY <1>4 DEF Tick, SignatureHasOneEncoding, Encoding
<1>5. CASE UNCHANGED vars
  BY <1>5 DEF vars, SignatureHasOneEncoding, Encoding
<1> QED
  BY <1>1, <1>2, <1>3, <1>4, <1>5 DEF Next

\* For every key and digest size a digest has one encoding that verifies.
THEOREM OneEncoding == Spec => []SignatureHasOneEncoding
<1>1. Init => SignatureHasOneEncoding
  BY DEF Init, SignatureHasOneEncoding
<1> QED
  BY <1>1, SignatureStep, TokenTypeCorrect, PTL DEF Spec

-----------------------------------------------------------------------------
(* The refresh.                                                            *)

\* An accepted token was issued before now, and time goes on.
Accepted ==
    stage = "validated" =>
        /\ at.issuedAt \in 1..(time - 1)
        /\ at.refreshIntervalDays >= -1

LEMMA AcceptedStep == TypeOK /\ Accepted /\ [Next]_vars => Accepted'
<1> SUFFICES ASSUME TypeOK, Accepted, [Next]_vars, stage' = "validated"
             PROVE  at'.issuedAt \in 1..(time' - 1) /\ at'.refreshIntervalDays >= -1
  BY DEF Accepted
<1>1. CASE ValidateClaims
  <2>1. PICK issued \in Int64, expires \in Int64, interval \in Int64 \cup {Absent} :
             /\ at' = MakeAccessToken(issued, expires, interval)
             /\ stage' = IF InDate(at') THEN "validated" ELSE "refused"
    BY <1>1 DEF ValidateClaims
  <2>2. at'.refreshIntervalDays = ReadRefreshIntervalDays(interval)
    BY <2>1 DEF MakeAccessToken
  <2>3. ReadRefreshIntervalDays(interval) >= -1
    BY WidthAssumption DEF ReadRefreshIntervalDays, Int64
  <2>4. InDate(at') /\ time' = time
    BY <1>1, <2>1 DEF ValidateClaims
  <2> QED
    BY <2>2, <2>3, <2>4 DEF InDate
<1>2. CASE Tick
  BY <1>2 DEF Tick, Accepted, TypeOK
<1>3. CASE ParseToken \/ VerifySignature
  BY <1>3 DEF ParseToken, VerifySignature
<1>4. CASE UNCHANGED vars
  BY <1>4 DEF vars, Accepted
<1> QED
  BY <1>1, <1>2, <1>3, <1>4 DEF Next

LEMMA ExactWhenAccepted == TypeOK /\ Accepted => RefreshIsExact
<1> DEFINE days == at.refreshIntervalDays
           age == time - at.issuedAt
<1> SUFFICES ASSUME TypeOK, Accepted, stage = "validated", days # -1
             PROVE  ShouldRefresh <=> age > days * MsPerDay
  BY DEF RefreshIsExact, ShouldRefresh
<1>1. MaxInt64 \in Nat /\ MsPerDay \in Nat \ {0} /\ MaxInt64 \div MsPerDay \in Int
  BY WidthAssumption
<1>2. days \in Int64 /\ days \in Nat
  BY <1>1 DEF TypeOK, AccessToken, Accepted, Int64
<1>3. age \in 0..MaxInt64 /\ Wrap(age) = age
  BY <1>1 DEF TypeOK, Accepted, Wrap, Int64
<1>4. CASE days <= MaxInt64 \div MsPerDay
  <2>1. days \in 0..(MaxInt64 \div MsPerDay)
    BY <1>1, <1>2, <1>4
  <2>2. days * MsPerDay \in 0..MaxInt64
    BY <1>2, <2>1, GuardIsExact
  <2>3. Wrap(days * MsPerDay) = days * MsPerDay
    BY <1>1, <2>2 DEF Wrap, Int64
  <2> QED
    BY <1>3, <1>4, <2>3 DEF ShouldRefresh
<1>5. CASE ~(days <= MaxInt64 \div MsPerDay)
  <2>1. days > MaxInt64 \div MsPerDay
    BY <1>1, <1>2, <1>5
  <2>2. days * MsPerDay > MaxInt64 /\ days * MsPerDay \in Int
    BY <1>1, <1>2, <2>1, GuardIsExact
  <2>3. ~(age > days * MsPerDay)
    BY <1>1, <1>3, <2>2
  <2> QED
    BY <1>5, <2>3 DEF ShouldRefresh
<1> QED
  BY <1>4, <1>5

\* In 64 bits or any other width, shouldRefresh() of an accepted token is the
\* comparison of its age with its interval.
THEOREM RefreshExact == Spec => []RefreshIsExact
<1>1. Init => Accepted
  BY DEF Init, Accepted
<1> QED
  BY <1>1, AcceptedStep, ExactWhenAccepted, TokenTypeCorrect, PTL DEF Spec
=============================================================================
