---------------------------- MODULE SecretMasker ----------------------------
(***************************************************************************)
(* Build output is masked while it streams.  Output arrives in arbitrary   *)
(* chunks; streamingSecretMasker passes on what can no longer become part  *)
(* of a secret and keeps the rest, and a flush at the end of a step masks  *)
(* what was kept.  The reference is literal masking of the whole text at   *)
(* once, what strings.Replacer does with the longest secret first.         *)
(*                                                                         *)
(* A text is a sequence of bytes.  Lead is the first byte of a two-byte    *)
(* character and Cont its second one; the other bytes are characters of    *)
(* their own, Space among them.  Masked stands for "********".             *)
(***************************************************************************)
EXTENDS Naturals, Sequences, FiniteSets, SequencesExt

CONSTANTS
    Bytes,       \* what output is made of
    Values,      \* the configured values, as sequences of bytes
    MinLength,   \* minMaskedSecretLen, in characters
    MaxText,     \* bound: bytes of one step
    MaxChunk     \* bound: bytes of one chunk

ASSUME MaskAssumption == MinLength \in Nat \ {0} /\ Values \subseteq Seq(Bytes)

VARIABLES
    text,     \* history: what the step has written
    pending,  \* the fragment that is kept
    safe      \* what was passed on since the step began

maskVars == <<text, pending, safe>>

Lead == "lead"
Cont == "cont"
Space == "space"
Masked == "masked"

(***************************************************************************)
(* newSecretMasker                                                         *)
(***************************************************************************)
Characters(value) == Cardinality({i \in DOMAIN value : value[i] # Cont})

TrimSpace(value) ==
    LET kept == {i \in DOMAIN value : value[i] # Space}
        first == CHOOSE i \in kept : \A j \in kept : i <= j
        last == CHOOSE i \in kept : \A j \in kept : j <= i
    IN  IF kept = {} THEN <<>> ELSE SubSeq(value, first, last)

\* Short values are no secrets; a value is one with and without the space around it.
Maskable(values) ==
    LET long == {v \in values : Characters(TrimSpace(v)) >= MinLength}
    IN  long \cup {TrimSpace(v) : v \in long}

MaskedSecrets == Maskable(Values)

\* Sorted by length: where several secrets begin, the longest counts.
MatchesAt(t, i) == {s \in MaskedSecrets : IsPrefix(s, SubSeq(t, i, Len(t)))}
Longest(matches) == CHOOSE s \in matches : \A other \in matches : Len(other) <= Len(s)

\* The text from a place on, given what comes of the places after it.
MaskAt(t, i, later) ==
    IF i > Len(t) THEN <<>>
    ELSE IF MatchesAt(t, i) # {} THEN <<Masked>> \o later[i + Len(Longest(MatchesAt(t, i)))]
    ELSE <<t[i]>> \o later[i + 1]

MaskedFrom(t) == LET from[i \in 1..Len(t) + 1] == MaskAt(t, i, from) IN from
MaskText(t) == MaskedFrom(t)[1]

(***************************************************************************)
(* streamingSecretMasker                                                   *)
(***************************************************************************)
\* Mutant of IsSecretPrefix: the first byte that fits is not yet a fragment.
IsSecretPrefixOfTwo(rest) == Len(rest) > 1 /\ \E s \in MaskedSecrets : Len(rest) < Len(s) /\ IsPrefix(rest, s)

IsSecretPrefix(rest) == \E s \in MaskedSecrets : Len(rest) < Len(s) /\ IsPrefix(rest, s)

IsIncompleteUTF8Prefix(rest) == rest = <<Lead>>

\* Where Write stops in what it kept and what was written, and what it passes on till there.
ScanAt(t, i, later) ==
    IF i > Len(t) THEN [safe |-> <<>>, stop |-> i]
    ELSE IF MatchesAt(t, i) # {}
        THEN LET rest == later[i + Len(Longest(MatchesAt(t, i)))]
             IN  [safe |-> <<Masked>> \o rest.safe, stop |-> rest.stop]
    ELSE IF IsSecretPrefix(SubSeq(t, i, Len(t))) \/ IsIncompleteUTF8Prefix(SubSeq(t, i, Len(t)))
        THEN [safe |-> <<>>, stop |-> i]
    ELSE [safe |-> <<t[i]>> \o later[i + 1].safe, stop |-> later[i + 1].stop]

ScannedFrom(t) == LET from[i \in 1..Len(t) + 1] == ScanAt(t, i, from) IN from
Scan(t) == ScannedFrom(t)[1]

MaskInit == text = <<>> /\ pending = <<>> /\ safe = <<>>

\* logBuildOutput and logBuildLine; the latter writes chunks that end with a line feed.
Write(chunk) ==
    LET combined == pending \o chunk
        scan == IF MaskedSecrets = {} THEN [safe |-> combined, stop |-> Len(combined) + 1] ELSE Scan(combined)
    IN  /\ Len(text) + Len(chunk) <= MaxText
        /\ text' = text \o chunk
        /\ safe' = safe \o scan.safe
        /\ pending' = SubSeq(combined, scan.stop, Len(combined))

\* flushBuildOutput; the next step starts afresh.
Flush ==
    /\ text # <<>>
    /\ text' = <<>> /\ safe' = <<>> /\ pending' = <<>>

MaskNext ==
    \/ \E chunk \in SeqOf(Bytes, MaxChunk) \ {<<>>} : Write(chunk)
    \/ Flush

MaskSpec == MaskInit /\ [][MaskNext]_maskVars

(***************************************************************************)
(* Properties                                                              *)
(***************************************************************************)
\* However output is cut into chunks, a flush completes it to the text masked as a whole.
StreamMatchesWhole == safe \o MaskText(pending) = MaskText(text)

\* Output is live: what is kept could become a secret or is half a character.
KeepsFragmentsOnly ==
    pending = <<>> \/ pending = <<Lead>> \/ (\E s \in MaskedSecrets : IsStrictPrefix(pending, s))

\* Masking a stream hides what masking the whole would, and holds nothing else back.
StreamIsMasked ==
    /\ StreamMatchesWhole
    /\ KeepsFragmentsOnly
=============================================================================
