---------------------------- MODULE ReleaseCatalog ----------------------------
(***************************************************************************)
(* The catalog of official releases: Check reads what the latest release   *)
(* offers, Download fetches its manifest of checksums and its parts, each  *)
(* through a mirror, and assembles them in a temporary file that the       *)
(* request removes when it ends.                                           *)
(*                                                                         *)
(* A part is its number; what arrives of it is its number again, or        *)
(* another content of the same size, or less of it.  A checksum stands for *)
(* the content it was made of.                                             *)
(***************************************************************************)
EXTENDS Naturals, Sequences, FiniteSets, SequencesExt

CONSTANTS
    PartCount,     \* parts of the archive that was released
    Listings,      \* sequences of part numbers: what the release lists, in any order
    Manifests      \* what checksums.txt says: the parts it has, and those of the archive

VARIABLES
    listing,      \* the parts in the release's metadata
    manifest,     \* [parts, archive], empty when it cannot be read
    fetch,        \* the request: where it is and what it has
    temporary     \* the content of the temporary file, or NoFile

catalogVars == <<listing, manifest, fetch, temporary>>

NoFile == "none"
Archive == [i \in 1..PartCount |-> i - 1]

\* checksums.txt was made of the archive that was released, or cannot be read.
ASSUME CatalogAssumption == \A m \in Manifests : m.archive \in {<<>>, Archive}

Arrivals == {"intact", "altered", "short", "unavailable"}

CatalogInit ==
    /\ listing \in Listings
    /\ manifest \in Manifests
    /\ fetch = [step |-> "check", parts |-> <<>>, got |-> <<>>]
    /\ temporary = NoFile

(***************************************************************************)
(* Check                                                                   *)
(***************************************************************************)
Sorted(parts) == SortSeq(parts, <)

\* selectReleaseAssets: the parts are numbered from 000 without a gap or a repetition.
Contiguous(parts) == parts # <<>> /\ \A i \in DOMAIN Sorted(parts) : Sorted(parts)[i] = i - 1

Check ==
    /\ fetch.step = "check"
    /\ fetch' = IF Contiguous(listing) THEN [step |-> "checksums", parts |-> Sorted(listing), got |-> <<>>]
                ELSE [fetch EXCEPT !.step = "refused"]
    /\ UNCHANGED <<listing, manifest, temporary>>

(***************************************************************************)
(* Download                                                                *)
(***************************************************************************)
Content(p, arrival) == IF arrival = "intact" THEN p ELSE PartCount

DownloadChecksums ==
    /\ fetch.step = "checksums"
    /\ IF manifest.archive = <<>>
       THEN fetch' = [fetch EXCEPT !.step = "refused"] /\ UNCHANGED temporary
       ELSE fetch' = [fetch EXCEPT !.step = "parts"] /\ temporary' = <<>>
    /\ UNCHANGED <<listing, manifest>>

Cleaned == NoFile

\* downloadAsset checks the size, verifyChecksum the content.
DownloadPart(arrival) ==
    /\ fetch.step = "parts"
    /\ Len(temporary) < Len(fetch.parts)
    /\ LET p == fetch.parts[Len(temporary) + 1] IN
       IF p \in manifest.parts /\ arrival \in {"intact", "altered"} /\ Content(p, arrival) = p
       THEN temporary' = Append(temporary, p) /\ UNCHANGED fetch
       ELSE temporary' = Cleaned /\ fetch' = [fetch EXCEPT !.step = "refused"]
    /\ UNCHANGED <<listing, manifest>>

\* Mutant of AssembledMatches: parts that were all verified make the archive.
AssembledUnchecked == TRUE

AssembledMatches == temporary = manifest.archive

Assemble ==
    /\ fetch.step = "parts"
    /\ Len(temporary) = Len(fetch.parts)
    /\ IF AssembledMatches
       THEN fetch' = [fetch EXCEPT !.step = "bundle", !.got = temporary] /\ UNCHANGED temporary
       ELSE fetch' = [fetch EXCEPT !.step = "refused"] /\ temporary' = Cleaned
    /\ UNCHANGED <<listing, manifest>>

\* applyLatestSystemUpdate: Start reads the bundle, and closing it removes the file.
HandOver ==
    /\ fetch.step = "bundle"
    /\ fetch' = [fetch EXCEPT !.step = "started"]
    /\ temporary' = NoFile
    /\ UNCHANGED <<listing, manifest>>

CatalogNext == Check \/ DownloadChecksums \/ (\E a \in Arrivals : DownloadPart(a)) \/ Assemble \/ HandOver

CatalogSpec == CatalogInit /\ [][CatalogNext]_catalogVars

(***************************************************************************)
(* Properties.                                                             *)
(***************************************************************************)

\* What reaches the updater is the archive of the manifest: every part of it,
\* in order, whatever the release lists and however a transfer goes wrong.
BundleIsTheArchive == fetch.step \in {"bundle", "started"} => fetch.got = Archive

\* No temporary file outlives the request.
TemporaryIsRemoved == fetch.step \in {"refused", "started"} => temporary = NoFile

\* A download gives the updater the archive of the release, and leaves nothing else.
DownloadIsTheArchive ==
    /\ BundleIsTheArchive
    /\ TemporaryIsRemoved
=============================================================================
