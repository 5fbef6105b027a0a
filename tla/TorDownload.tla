---------------------------- MODULE TorDownload ----------------------------
(***************************************************************************)
(* download_and_extract_tor (transports/p2p/tor_manager.py): what a launch  *)
(* does when the node has no Tor binary.  Launches run in threads and share *)
(* two files, the archive and the executable; the process may end anywhere  *)
(* and leaves them as they are.  A file is "none", "part" (still written, or *)
(* cut off), "good" (what the Tor Project signed) or "bad".  The remote      *)
(* servers, gpg and the signature files are external.                       *)
(***************************************************************************)
EXTENDS Naturals

CONSTANTS Downloaders,      \* calls of download_and_extract_tor
          MaxDownloads,     \* bound: downloads begun
          MaxKills          \* bound: ends of the process

ASSUME DownloadAssumption == MaxDownloads \in Nat /\ MaxKills \in Nat

VARIABLES
    archive,        \* bin/tor_bundle.tar.gz
    executable,     \* the file find_tor_binary finds
    download,       \* call -> the step it is at
    begun, kills,   \* downloads begun and process ends so far
    shared          \* history: two downloads were in progress at once

downloadVars == <<archive, executable, download, begun, kills, shared>>

FileState == {"none", "part", "good", "bad"}
InProgress == {"fetching", "signature", "checksum", "extract", "extracting", "remove"}

DownloadTypeOK ==
    /\ archive \in FileState /\ executable \in FileState
    /\ download \in [Downloaders -> InProgress \cup {"idle", "found", "failed"}]
    /\ begun \in 0..MaxDownloads /\ kills \in 0..MaxKills /\ shared \in BOOLEAN

DownloadInit ==
    /\ archive = "none" /\ executable = "none"
    /\ download = [d \in Downloaders |-> "idle"]
    /\ begun = 0 /\ kills = 0 /\ shared = FALSE

DownloadTo(d, step) == download' = [download EXCEPT ![d] = step]

\* find_tor_binary: any file of the right name is taken, whole or not
FindTorBinary(d) ==
    /\ download[d] = "idle" /\ executable # "none"
    /\ DownloadTo(d, "found")
    /\ UNCHANGED <<archive, executable, begun, kills, shared>>

\* ... otherwise the archive is opened for writing, which empties it
BeginDownload(d) ==
    /\ download[d] = "idle" /\ executable = "none"
    /\ begun < MaxDownloads /\ begun' = begun + 1
    /\ archive' = "part"
    /\ shared' = (shared \/ \E e \in Downloaders \ {d} : download[e] \in InProgress)
    /\ DownloadTo(d, "fetching")
    /\ UNCHANGED <<executable, kills>>

\* the response is copied; a file that another call removed meanwhile stays removed
Fetched(d) ==
    /\ download[d] = "fetching"
    /\ archive' \in IF archive = "none" THEN {"none"} ELSE {"good", "bad"}
    /\ DownloadTo(d, "signature")
    /\ UNCHANGED <<executable, begun, kills, shared>>

\* every exception inside the try: the archive is removed and the launch fails;
\* what was extracted stays
RaiseDownload(d) ==
    /\ archive' = "none"
    /\ DownloadTo(d, "failed")

FetchFails(d) ==
    /\ download[d] = "fetching"
    /\ RaiseDownload(d)
    /\ UNCHANGED <<executable, begun, kills, shared>>

\* Mutant: a gpg that cannot answer counts as one that accepted
VerifyGpgSignature_Lenient(d) ==
    /\ download[d] = "signature"
    /\ DownloadTo(d, "extract")
    /\ UNCHANGED <<archive, executable, begun, kills, shared>>

\* verify_gpg_signature: without gpg, signature file, keyserver or a key the
\* answer is no; an INVALID signature raises ValueError, which the except around
\* the call takes as a no as well.  Only a good archive has a valid signature.
VerifyGpgSignature(d) ==
    /\ download[d] = "signature"
    /\ \/ archive = "good" /\ DownloadTo(d, "extract")
       \/ DownloadTo(d, "checksum")
    /\ UNCHANGED <<archive, executable, begun, kills, shared>>

\* fetch_expected_sha256 from one of two lists, or no list names the file; the
\* checksum is of the file as it is now
VerifyChecksum(d) ==
    /\ download[d] = "checksum"
    /\ \/ archive = "good" /\ DownloadTo(d, "extract") /\ UNCHANGED archive
       \/ RaiseDownload(d)
    /\ UNCHANGED <<executable, begun, kills, shared>>

\* tarfile opens the archive and creates the executable ...
BeginExtract(d) ==
    /\ download[d] = "extract"
    /\ IF archive = "none"
       THEN RaiseDownload(d) /\ UNCHANGED executable
       ELSE executable' = "part" /\ DownloadTo(d, "extracting") /\ UNCHANGED archive
    /\ UNCHANGED <<begun, kills, shared>>

\* ... and fills it with what the archive holds, or raises (a cut-off archive, a
\* full disk).  An archive that another call removed is still open.
Extract(d) ==
    /\ download[d] = "extracting"
    /\ \/ archive \in {"good", "bad"} /\ executable' = archive /\ DownloadTo(d, "remove") /\ UNCHANGED archive
       \/ archive = "none" /\ executable' \in {"good", "bad"} /\ DownloadTo(d, "remove") /\ UNCHANGED archive
       \/ RaiseDownload(d) /\ UNCHANGED executable
    /\ UNCHANGED <<begun, kills, shared>>

\* the archive is removed, and the executable looked up among the extracted files
RemoveArchive(d) ==
    /\ download[d] = "remove"
    /\ archive' = "none"
    /\ DownloadTo(d, IF executable = "none" THEN "failed" ELSE "found")
    /\ UNCHANGED <<executable, begun, kills, shared>>

\* the process ends and is started again: the files stay
KillProcess ==
    /\ kills < MaxKills /\ kills' = kills + 1
    /\ download' = [d \in Downloaders |-> "idle"]
    /\ UNCHANGED <<archive, executable, begun, shared>>

\* a later launch of the same process
LaunchAgain(d) ==
    /\ download[d] \in {"found", "failed"}
    /\ DownloadTo(d, "idle")
    /\ UNCHANGED <<archive, executable, begun, kills, shared>>

DownloadNext ==
    \/ \E d \in Downloaders :
          \/ FindTorBinary(d) \/ BeginDownload(d) \/ Fetched(d) \/ FetchFails(d)
          \/ VerifyGpgSignature(d) \/ VerifyChecksum(d)
          \/ BeginExtract(d) \/ Extract(d) \/ RemoveArchive(d) \/ LaunchAgain(d)
    \/ KillProcess

DownloadSpec == DownloadInit /\ [][DownloadNext]_downloadVars

\* "Path to the validated Tor executable": whatever failed, was killed or left
\* behind on disk before, a whole executable came out of an archive that was
\* verified after its last byte was written.  Two downloads that overlap are
\* excepted: one may rewrite the archive the other has just verified.
ExecutableVerified == executable = "bad" => shared
=============================================================================
