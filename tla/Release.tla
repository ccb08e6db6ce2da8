------------------------------ MODULE Release -------------------------------
(***************************************************************************)
(* Getting a new executable: release_download.rs, release_auth.rs, and the *)
(* checks of lifecycle.rs update() before anything is stopped.             *)
(*                                                                         *)
(* A release is its version number.  The mirror serves the assets of its   *)
(* latest release one at a time and may move on between two of them; an    *)
(* asset may arrive damaged (Junk) or not at all.  The assets of one       *)
(* release belong together: its signature signs its manifest, and the      *)
(* manifest holds size and digest of its archive.                          *)
(***************************************************************************)
EXTENDS Naturals

CONSTANTS
    Releases,       \* versions the mirror may come to serve
    Current,        \* CARGO_PKG_VERSION of the running program
    Junk,           \* a damaged asset
    MaxMishaps      \* bound: damaged or failing downloads, failing steps, slow replies

ASSUME ReleaseAssumption ==
    /\ Releases \subseteq Nat \ {0} /\ Current \in Nat \ {0}
    /\ Junk \notin Nat
    /\ MaxMishaps \in Nat

VARIABLES
    latest,     \* release the mirror serves
    asset,      \* the private directory: [Assets -> release, Junk or Missing]
    fetching,   \* where download_release() and update() are
    candidate,  \* version of the binary to install, Missing before it is chosen
    mishaps

releaseVars == <<latest, asset, fetching, candidate, mishaps>>

-----------------------------------------------------------------------------
Missing == 0
Assets == {"manifest", "signature", "archive", "checksum"}
Stages == Assets \cup {"off", "authenticate", "verify", "extract", "validate", "ready", "refused"}

(* download_file is called in this order; the manifest is authenticated    *)
(* between the second call and the third.                                  *)
After == [manifest |-> "signature", signature |-> "authenticate",
          archive |-> "checksum", checksum |-> "verify"]

Empty == [a \in Assets |-> Missing]

ReleaseInit ==
    /\ latest \in Releases
    /\ asset = Empty
    /\ fetching = "off"
    /\ candidate = Missing
    /\ mishaps = 0

Mishap == mishaps < MaxMishaps /\ mishaps' = mishaps + 1

(* An error: the private directory is dropped and the update ends. *)
Refused == fetching' = "refused" /\ asset' = Empty /\ candidate' = Missing

(* slurm-log update, with or without --binary. *)
BeginUpdate ==
    /\ fetching = "off"
    /\ \/ fetching' = "manifest" /\ UNCHANGED candidate
       \/ \E r \in Releases \cup {Current} : fetching' = "validate" /\ candidate' = r
    /\ UNCHANGED <<latest, asset, mishaps>>

(* It matters only between two downloads. *)
MirrorMoves ==
    /\ fetching \in DOMAIN After
    /\ \E r \in Releases : r > latest /\ latest' = r
    /\ UNCHANGED <<asset, fetching, candidate, mishaps>>

(* download_file and copy_file_limited: exceeding the size limit and empty *)
(* files are errors; anything else is stored as it comes.                  *)
Download(a) ==
    /\ fetching = a
    /\ \/ /\ asset' = [asset EXCEPT ![a] = latest]
          /\ fetching' = After[a]
          /\ UNCHANGED <<candidate, mishaps>>
       \/ /\ Mishap
          /\ asset' = [asset EXCEPT ![a] = Junk]
          /\ fetching' = After[a]
          /\ UNCHANGED candidate
       \/ Mishap /\ Refused
    /\ UNCHANGED latest

(* verify_manifest, ReleaseManifest::parse *)
Authentic == asset["manifest"] # Junk /\ asset["signature"] = asset["manifest"]

Authenticate ==
    /\ fetching = "authenticate"
    /\ IF Authentic
       THEN fetching' = "archive" /\ UNCHANGED <<asset, candidate>>
       ELSE Refused
    /\ UNCHANGED <<latest, mishaps>>

(* verify_archive: the sidecar, then size and digest of the archive. *)
SidecarMatches ==     \* mutant: only the sidecar is compared
    asset["checksum"] = asset["manifest"]

ArchiveMatches ==
    /\ asset["checksum"] = asset["manifest"]
    /\ asset["archive"] = asset["manifest"]

Verify ==
    /\ fetching = "verify"
    /\ IF ArchiveMatches
       THEN fetching' = "extract" /\ UNCHANGED <<asset, candidate>>
       ELSE Refused
    /\ UNCHANGED <<latest, mishaps>>

(* extract_candidate, with its deadline. *)
Extract ==
    /\ fetching = "extract"
    /\ \/ /\ fetching' = "validate"
          /\ candidate' = asset["archive"]
          /\ UNCHANGED <<asset, mishaps>>
       \/ Mishap /\ Refused
    /\ UNCHANGED latest

(* validate_candidate and binary_version run the candidate; then versions  *)
(* are compared, and a candidate with the contents of the target leaves    *)
(* nothing to do.                                                          *)
Validate(target) ==
    /\ fetching = "validate"
    /\ \/ /\ IF candidate < Current \/ candidate = target
             THEN Refused
             ELSE fetching' = "ready" /\ asset' = Empty /\ UNCHANGED candidate
          /\ UNCHANGED mishaps
       \/ Mishap /\ Refused
    /\ UNCHANGED latest

FetchStep(target) ==
    \/ \E a \in Assets : Download(a)
    \/ Authenticate \/ Verify \/ Extract \/ Validate(target)

-----------------------------------------------------------------------------
ReleaseTypeOK ==
    /\ latest \in Releases
    /\ asset \in [Assets -> Releases \cup {Junk, Missing}]
    /\ fetching \in Stages
    /\ candidate \in Releases \cup {Current, Missing}
    /\ mishaps \in 0..MaxMishaps

(* README: the updater "verifies the detached manifest signature before    *)
(* downloading the archive, checks the signed size and SHA-256 digest      *)
(* before extraction or candidate execution": with a mirror that moves on  *)
(* between two downloads, what is unpacked and run is the archive of the   *)
(* release whose signed manifest was verified.                             *)
VerifiedBeforeUse ==
    /\ fetching \in {"archive", "checksum", "verify"} =>
          asset["manifest"] \in Releases /\ asset["signature"] = asset["manifest"]
    /\ fetching \in {"extract", "validate"} /\ asset # Empty =>
          /\ asset["manifest"] \in Releases /\ asset["signature"] = asset["manifest"]
          /\ asset["archive"] = asset["manifest"]
          /\ fetching = "validate" => candidate = asset["manifest"]
=============================================================================
