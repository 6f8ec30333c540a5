-------------------------- MODULE WebhookSignature --------------------------
(***************************************************************************)
(* _verify_hmac_sha256: is the signature header of a webhook call the      *)
(* digest of its body?  Digests and headers are sequences of characters;   *)
(* the digest of the body is any sequence, as for a keyed hash.            *)
(***************************************************************************)
EXTENDS Naturals, Sequences, SequencesExt

CONSTANTS
    HexDigits,    \* the characters of a digest
    DigestLength  \* bound: 3 instead of 64

ASSUME DigestAssumption == DigestLength \in Nat \ {0}

Digests == [1 .. DigestLength -> HexDigits]

\* The two prefixes, as characters.
Sha256Prefix == <<"s", "h", "a", "2", "5", "6", "=">>
V1Prefix     == <<"v", "1", "=">>

Chars(s) == {s[i] : i \in DOMAIN s}

\* str.lstrip: drops leading characters for as long as they are in the set.
LStrip(s, chars) ==
    LET first == SelectInSeq(s, LAMBDA x : x \notin chars)
    IN  IF first = 0 THEN <<>> ELSE SubSeq(s, first, Len(s))

\* Fault: only as much as there is of the signature is compared.
VerifyBeginning(signature, digest) ==
    LET sig == LStrip(LStrip(signature, Chars(Sha256Prefix)), Chars(V1Prefix))
    IN  IsPrefix(sig, digest)

Verify(signature, digest) ==
    LStrip(LStrip(signature, Chars(Sha256Prefix)), Chars(V1Prefix)) = digest

\* What arrives: a header that may have a prefix, and may be cut short.
Bodies  == UNION {[1 .. n -> HexDigits] : n \in 0 .. DigestLength}
Headers == {prefix \o body : prefix \in {<<>>, Sha256Prefix, V1Prefix}, body \in Bodies}

VARIABLES
    digest,    \* HMAC-SHA256 of the body under the integration's secret
    signature, \* the header
    verdict    \* "none" before the check, then whether the call is accepted

vars == <<digest, signature, verdict>>

Init ==
    /\ digest \in Digests
    /\ signature \in Headers
    /\ verdict = "none"

Check ==
    /\ verdict = "none"
    /\ verdict' = IF Verify(signature, digest) THEN "accepted" ELSE "refused"
    /\ UNCHANGED <<digest, signature>>

-----------------------------------------------------------------------------
\* The header as the platform builds it for this body, in any of its forms.
Genuine == \E prefix \in {<<>>, Sha256Prefix, V1Prefix} : signature = prefix \o digest

AnyPrefix == Chars(Sha256Prefix) \cup Chars(V1Prefix)

\* An accepted header ends in the whole digest of the body, and what precedes it are
\* characters of the prefixes: nothing cut short or altered passes.
AcceptedHasDigest ==
    verdict = "accepted" =>
        \E i \in 0 .. Len(signature) :
            /\ SubSeq(signature, i + 1, Len(signature)) = digest
            /\ Chars(SubSeq(signature, 1, i)) \subseteq AnyPrefix

\* No call is accepted without the digest of its body, and a genuine header is accepted
\* in all its forms, except with a digest that begins with a character of the prefixes.
SignatureJudged ==
    /\ AcceptedHasDigest
    /\ Genuine /\ digest[1] \notin AnyPrefix => verdict # "refused"

=============================================================================
