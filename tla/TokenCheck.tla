----------------------------- MODULE TokenCheck -----------------------------
(***************************************************************************)
(* TokenValidator::validateAccessToken(), stage by stage, with the PKCS #1 *)
(* check of SignatureVerification, and AccessToken::shouldRefresh() as     *)
(* long as the accepted token is used.  Integers have the width of         *)
(* juce::int64, scaled down for TLC; what overflows wraps around.  RSA     *)
(* itself is juce's: any number may come out of applyToValue().            *)
(***************************************************************************)
EXTENDS Integers, SequencesExt

CONSTANTS
    MaxInt64,       \* std::numeric_limits<juce::int64>::max()
    MsPerSecond,
    MsPerDay,
    Absent,         \* a claim that is missing or unusable
    Byte,           \* the values of a byte that matter here
    KeySize,        \* keySizeInBytes
    DigestSize,     \* expectedDigestInfo.getSize()
    MinSeparator    \* the least index of the 00 that ends the padding

ASSUME WidthAssumption ==
    /\ {MsPerSecond, MsPerDay} \subseteq Nat \ {0}
    /\ MaxInt64 \in Nat \ {0}
    /\ Absent \notin Int
ASSUME KeyAssumption ==
    /\ {0, 1, 255} \subseteq Byte
    /\ {KeySize, DigestSize} \subseteq Nat
    /\ MinSeparator \in Nat /\ MinSeparator >= 2
    /\ KeySize >= DigestSize + MinSeparator + 1

VARIABLES
    stage,          \* how far the token got
    encoded,        \* encodedMessage
    digestInfo,     \* expectedDigestInfo
    at,             \* the AccessToken
    time            \* juce::Time::currentTimeMillis()

vars == <<stage, encoded, digestInfo, at, time>>

Int64 == (-MaxInt64 - 1)..MaxInt64

Wrap(n) ==
    IF n \in Int64 THEN n
    ELSE ((n + MaxInt64 + 1) % (2 * MaxInt64 + 2)) - MaxInt64 - 1

AccessToken == [issuedAt : Int64, expiresAt : Int64, refreshIntervalDays : Int64]

NoToken == [issuedAt |-> 0, expiresAt |-> 0, refreshIntervalDays |-> 1]

TypeOK ==
    /\ stage \in {"token", "signature", "claims", "validated", "refused", "forged"}
    /\ encoded \in [1..KeySize -> Byte] \cup {<<>>}
    /\ digestInfo \in [1..DigestSize -> Byte]
    /\ at \in AccessToken
    /\ time \in 1..MaxInt64

Init ==
    /\ stage = "token"
    /\ encoded = <<>>
    /\ digestInfo \in [1..DigestSize -> Byte]
    /\ at = NoToken
    /\ time \in 1..MaxInt64

-----------------------------------------------------------------------------
(* The text: payload and signature in base64 with one dot between them.    *)

Parts == {"empty", "base64", "other"}

ParseToken ==
    /\ stage = "token"
    /\ \E parts \in BoundedSeq(Parts, 3) :
         stage' = IF parts = <<"base64", "base64">> THEN "signature" ELSE "refused"
    /\ UNCHANGED <<encoded, digestInfo, at, time>>

-----------------------------------------------------------------------------
(* The signature.  Sequences begin at 1, the indices of the code at 0.     *)

ToBigEndianPadded(littleEndian, size) ==
    IF Len(littleEndian) > size THEN <<>>
    ELSE [i \in 1..size |->
            IF i <= size - Len(littleEndian) THEN 0 ELSE littleEndian[size + 1 - i]]

IsSeparator(bytes, index) ==
    /\ bytes[index + 1] = 0
    /\ \A i \in 2..(index - 1) : bytes[i + 1] # 0

\* Mutant: whatever follows the digest is ignored.
VerifiesPrefix(bytes, digest) ==
    /\ DOMAIN bytes = 1..KeySize
    /\ bytes[1] = 0 /\ bytes[2] = 1
    /\ \E index \in MinSeparator..(KeySize - DigestSize - 1) :
         /\ IsSeparator(bytes, index)
         /\ \A i \in 2..(index - 1) : bytes[i + 1] = 255
         /\ \A i \in 1..DigestSize : bytes[index + 1 + i] = digest[i]

Verifies(bytes, digest) ==
    /\ DOMAIN bytes = 1..KeySize
    /\ bytes[1] = 0 /\ bytes[2] = 1
    /\ \E index \in MinSeparator..(KeySize - 1) :
         /\ IsSeparator(bytes, index)
         /\ index + 1 + DigestSize = KeySize
         /\ \A i \in 2..(index - 1) : bytes[i + 1] = 255
         /\ \A i \in 1..DigestSize : bytes[index + 1 + i] = digest[i]

\* The signature has to be as long as the key, or it is refused before.  The
\* number it yields may be short, when its leading bytes are zero.
VerifySignature ==
    /\ stage = "signature"
    /\ \/ stage' = "refused" /\ UNCHANGED encoded
       \/ \E size \in 0..KeySize : \E number \in [1..size -> Byte] :
            /\ encoded' = ToBigEndianPadded(number, KeySize)
            /\ stage' = IF Verifies(encoded', digestInfo) THEN "claims" ELSE "forged"
    /\ UNCHANGED <<digestInfo, at, time>>

-----------------------------------------------------------------------------
(* The claims.                                                             *)

ReadRefreshIntervalDays(interval) ==
    IF interval = Absent THEN 1 ELSE IF interval < -1 THEN 1 ELSE interval

\* makeAccessTokenFromJSON(), from seconds to milliseconds
MakeAccessToken(issued, expires, interval) ==
    [issuedAt |-> Wrap(issued * MsPerSecond),
     expiresAt |-> Wrap(expires * MsPerSecond),
     refreshIntervalDays |-> ReadRefreshIntervalDays(interval)]

\* validateAccessTokenClaims(), apart from the names
InDate(token) == token.expiresAt > time /\ token.issuedAt \in 1..(time - 1)

\* Without both times, with another product or device, without a user, or
\* out of date a token is refused.
ValidateClaims ==
    /\ stage = "claims"
    /\ \/ stage' = "refused" /\ UNCHANGED at
       \/ \E issued, expires \in Int64, interval \in Int64 \cup {Absent} :
            /\ at' = MakeAccessToken(issued, expires, interval)
            /\ stage' = IF InDate(at') THEN "validated" ELSE "refused"
    /\ UNCHANGED <<encoded, digestInfo, time>>

\* Mutant: the product may overflow.
ShouldRefreshUnguarded ==
    /\ at.refreshIntervalDays # -1
    /\ Wrap(time - at.issuedAt) > Wrap(at.refreshIntervalDays * MsPerDay)

\* AccessToken::shouldRefresh()
ShouldRefresh ==
    /\ at.refreshIntervalDays # -1
    /\ at.refreshIntervalDays <= MaxInt64 \div MsPerDay
    /\ Wrap(time - at.issuedAt) > Wrap(at.refreshIntervalDays * MsPerDay)

Tick ==
    /\ stage = "validated"
    /\ time < MaxInt64
    /\ time' = time + 1
    /\ UNCHANGED <<stage, encoded, digestInfo, at>>

Next ==
    \/ ParseToken
    \/ VerifySignature
    \/ ValidateClaims
    \/ Tick

Spec == Init /\ [][Next]_vars

-----------------------------------------------------------------------------
(* Properties.                                                             *)

\* Whatever times and interval an accepted token claims, the answer of
\* shouldRefresh() is that of unbounded integers as long as it is used:
\* neither the age nor the interval in milliseconds overflows.
RefreshIsExact ==
    stage = "validated" =>
        (ShouldRefresh <=> /\ at.refreshIntervalDays # -1
                           /\ time - at.issuedAt > at.refreshIntervalDays * MsPerDay)

\* 00 01 FF ... FF 00 and the digest, over the size of the key
Encoding(digest) ==
    [i \in 1..KeySize |->
        CASE i = 1 \/ i = KeySize - DigestSize -> 0
          [] i = 2 -> 1
          [] i \in 3..(KeySize - DigestSize - 1) -> 255
          [] i \in (KeySize - DigestSize + 1)..KeySize -> digest[i - (KeySize - DigestSize)]]

\* A digest has exactly one encoding that verifies: shorter or other padding
\* and bytes after the digest are refused, and the one encoding never is,
\* although the number that holds it has no leading zero.
SignatureHasOneEncoding ==
    /\ stage \in {"claims", "validated"} => encoded = Encoding(digestInfo)
    /\ stage = "forged" => encoded # Encoding(digestInfo)
=============================================================================
