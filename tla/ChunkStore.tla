----------------------------- MODULE ChunkStore ------------------------------
(***************************************************************************)
(* The file-chunk store of transports/p2p/routers/files.py: uploads by     *)
(* peers and by the local client, downloads, the upload limiter, and       *)
(* _prune_expired_chunks, which runs in a worker thread before each save.  *)
(*                                                                         *)
(* Every chunk is one unit of storage once it is written and none while it *)
(* is being written (open(..., "wb") truncates).  Keys are symbolic: 0 is  *)
(* the master key, n > 0 the key of the n-th shared secret.  A file has an *)
(* inode, since a file that is unlinked while it is written is gone when   *)
(* the write ends.  The data of an upload is its number.                   *)
(***************************************************************************)
EXTENDS Integers, Sequences, FiniteSets

CONSTANTS Uploader,    \* onion addresses that upload chunks
          Local,       \* the local client
          ChunkId,     \* chunk identifiers
          Saver,       \* _save_chunk calls that may be running
          Loader,      \* _load_chunk calls that may be running
          StorageCap,         \* MAX_TOTAL_STORAGE_BYTES, in chunks
          Ttl,         \* CHUNK_TTL_SECONDS (15 min)
          Window,      \* WINDOW_SECONDS of the upload limiter (5 min)
          MaxUploads,  \* MAX_UPLOADS_PER_WINDOW (50)
          MaxClock,    \* bound on the clock
          MaxData,     \* bound on the uploads
          MaxSecrets,  \* bound on the shared secrets
          NoFile

ASSUME ChunkAssumption ==
  /\ Local \notin Uploader
  /\ StorageCap \in Nat /\ Ttl \in Nat /\ Window \in Nat /\ MaxUploads \in Nat
  /\ MaxClock \in Nat /\ MaxData \in Nat /\ MaxSecrets \in Nat

Owner == Uploader \cup {Local}
Path == Owner \X ChunkId

VARIABLES
  clock,
  disk,      \* the file at each path, NoFile without one
  secret,    \* shared_secret_b64 of each uploader's contact row, 0 without one
  secrets,   \* number of shared secrets so far
  uploads,   \* _uploads of the limiter
  save,      \* the _save_chunk call each saver is in
  load,      \* what each _load_chunk call has read
  paths,     \* the owner and chunk id of every upload so far
  loaded     \* what the last download of each loader returned

chunkVars == <<clock, disk, secret, secrets, uploads, save, load, paths, loaded>>

ChunkInit ==
  /\ clock = 1
  /\ disk = [p \in Path |-> NoFile]
  /\ secret = [u \in Uploader |-> 0]
  /\ secrets = 0
  /\ uploads = [u \in Uploader |-> <<>>]
  /\ save = [v \in Saver |-> NoFile]
  /\ load = [l \in Loader |-> NoFile]
  /\ paths = <<>>
  /\ loaded = [l \in Loader |-> NoFile]

Tick ==
  /\ clock < MaxClock
  /\ clock' = clock + 1
  /\ UNCHANGED <<disk, secret, secrets, uploads, save, load, paths, loaded>>

\* The contact of an uploader gets a new shared secret, or is removed.
SetSecret(u) ==
  /\ \/ secrets < MaxSecrets /\ secrets' = secrets + 1
        /\ secret' = [secret EXCEPT ![u] = secrets + 1]
     \/ secret[u] # 0 /\ secret' = [secret EXCEPT ![u] = 0] /\ UNCHANGED secrets
  /\ UNCHANGED <<clock, disk, uploads, save, load, paths, loaded>>

\* Mutant: every upload goes to the same directory.
PathOf_Shared(o, id) == <<Local, id>>

\* _uploader_dir and _safe_chunk_path
PathOf(o, id) == <<o, id>>

-----------------------------------------------------------------------------
(* Uploads *)

\* The loop pops the times on the left that are out of the window.
InWindow(q) ==
  LET stale == {i \in 1..Len(q) : \A j \in 1..i : clock - q[j] > Window}
  IN  SubSeq(q, Cardinality(stale) + 1, Len(q))

WithinLimit(q) == Len(q) < MaxUploads

\* check_and_record of the limiter, when it lets an upload of u through
RecordUpload(u) ==
  LET q == InWindow(uploads[u])
  IN  /\ WithinLimit(q)
      /\ uploads' = [uploads EXCEPT ![u] = Append(q, clock)]

\* _save_chunk is called for a chunk of o.
StartSave(v, o, id) ==
  /\ save[v] = NoFile
  /\ Len(paths) < MaxData
  /\ paths' = Append(paths, <<o, id>>)
  /\ save' = [save EXCEPT ![v] =
                [at |-> "list", path |-> PathOf(o, id), data |-> Len(paths) + 1,
                 files |-> {}, todo |-> {}, now |-> 0, total |-> 0, key |-> 0, inode |-> 0]]
  /\ UNCHANGED <<clock, disk, secret, secrets, load, loaded>>

\* local_upload passes no limiter.
LocalUpload(v, id) == StartSave(v, Local, id) /\ UNCHANGED uploads

\* p2p_upload, with a valid signature
P2PUpload(v, u, id) == RecordUpload(u) /\ StartSave(v, u, id)

\* p2p_upload, with a body that is empty or too large: it counts for the limiter
\* and is refused.
P2PUploadRefused(u) ==
  /\ RecordUpload(u)
  /\ UNCHANGED <<clock, disk, secret, secrets, save, load, paths, loaded>>

At(v, a) == save[v] # NoFile /\ save[v].at = a
Files == {p \in Path : disk[p] # NoFile}
Expired(p, now) == disk[p] # NoFile /\ now - disk[p].time > Ttl
Written(p) == disk[p] # NoFile /\ disk[p].done

\* _prune_expired_chunks: the list of files ...
PruneList(v) ==
  /\ At(v, "list")
  /\ save' = [save EXCEPT ![v].at = "expire", ![v].files = Files, ![v].todo = Files,
                          ![v].now = clock]
  /\ UNCHANGED <<clock, disk, secret, secrets, uploads, load, paths, loaded>>

\* ... an iteration of the loop that removes the expired files and adds up the
\* others ...
PruneExpired(v) ==
  LET s == save[v]
  IN  /\ At(v, "expire")
      /\ \E p \in s.todo :
           /\ disk' = IF Expired(p, s.now) THEN [disk EXCEPT ![p] = NoFile] ELSE disk
           /\ save' = [save EXCEPT ![v].todo = @ \ {p},
                         ![v].total = IF Written(p) /\ ~Expired(p, s.now) THEN @ + 1 ELSE @]
      /\ UNCHANGED <<clock, secret, secrets, uploads, load, paths, loaded>>

OverCap(total) == total > StorageCap

\* ... and, over the cap, the sort by age.  It calls stat() on every file of the
\* list, the ones just removed included: a missing file ends the pruning.
PruneSort(v) ==
  LET s == save[v]
      sorted == OverCap(s.total) /\ s.files \subseteq Files
  IN  /\ At(v, "expire")
      /\ s.todo = {}
      /\ save' = [save EXCEPT ![v].at = IF sorted THEN "evict" ELSE "lookup",
                              ![v].files = IF sorted THEN {<<p, disk[p].time>> : p \in s.files}
                                           ELSE {},
                              ![v].total = IF sorted THEN @ ELSE 0, ![v].now = 0]
      /\ UNCHANGED <<clock, disk, secret, secrets, uploads, load, paths, loaded>>

\* One iteration of the loop over the sorted files.
Evict(v) ==
  LET s == save[v]
  IN  /\ At(v, "evict")
      /\ OverCap(s.total)
      /\ \E e \in s.files :
           /\ \A other \in s.files : e[2] <= other[2]
           /\ disk' = [disk EXCEPT ![e[1]] = NoFile]
           /\ save' = [save EXCEPT ![v].files = @ \ {e},
                         ![v].total = IF Written(e[1]) THEN @ - 1 ELSE @]
      /\ UNCHANGED <<clock, secret, secrets, uploads, load, paths, loaded>>

EvictDone(v) ==
  /\ At(v, "evict")
  /\ ~OverCap(save[v].total) \/ save[v].files = {}
  /\ save' = [save EXCEPT ![v].at = "lookup", ![v].files = {}, ![v].total = 0]
  /\ UNCHANGED <<clock, disk, secret, secrets, uploads, load, paths, loaded>>

SecretOf(p) == IF p[1] = Local THEN 0 ELSE secret[p[1]]

\* _lookup_shared_secret and _derive_chunk_key
LookupKey(v) ==
  /\ At(v, "lookup")
  /\ save' = [save EXCEPT ![v].at = "open", ![v].key = SecretOf(save[v].path)]
  /\ UNCHANGED <<clock, disk, secret, secrets, uploads, load, paths, loaded>>

\* open(target, "wb"): a new file, or the old one truncated.
OpenFile(v) ==
  LET s == save[v]
      inode == IF disk[s.path] = NoFile THEN s.data ELSE disk[s.path].inode
  IN  /\ At(v, "open")
      /\ disk' = [disk EXCEPT ![s.path] = [inode |-> inode, data |-> s.data, key |-> s.key,
                                           time |-> clock, done |-> FALSE]]
      /\ save' = [save EXCEPT ![v].at = "write", ![v].inode = inode]
      /\ UNCHANGED <<clock, secret, secrets, uploads, load, paths, loaded>>

\* The key of a file that two overlapping writes have mixed: none opens it.
Torn == -1

\* The write; the request is answered with success also when the file was
\* unlinked meanwhile.  A file that another saver has written since this one
\* opened it keeps the end of the other's data if that is longer.
WriteFile(v) ==
  LET s == save[v]
      d == disk[s.path]
  IN  /\ At(v, "write")
      /\ IF d # NoFile /\ d.inode = s.inode
         THEN \E key \in IF d.done THEN {s.key, Torn} ELSE {s.key} :
                disk' = [disk EXCEPT ![s.path] = [inode |-> s.inode, data |-> s.data,
                                                  key |-> key, time |-> clock, done |-> TRUE]]
         ELSE UNCHANGED disk
      /\ save' = [save EXCEPT ![v] = NoFile]
      /\ UNCHANGED <<clock, secret, secrets, uploads, load, paths, loaded>>

-----------------------------------------------------------------------------
(* Downloads *)

\* _load_chunk up to the read.  An expired file is removed; a file that is being
\* written reads as empty, which is answered with 404.
LoadRead(l, p) ==
  /\ load[l] = NoFile
  /\ disk[p] # NoFile
  /\ IF Expired(p, clock)
     THEN disk' = [disk EXCEPT ![p] = NoFile] /\ UNCHANGED load
     ELSE /\ disk[p].done
          /\ load' = [load EXCEPT ![l] = [path |-> p, data |-> disk[p].data, key |-> disk[p].key]]
          /\ UNCHANGED disk
  /\ UNCHANGED <<clock, secret, secrets, uploads, save, paths, loaded>>

\* The contact's key is tried first, then the master key.
Opens(key, s) == key = s \/ key = 0

LoadDecrypt(l) ==
  /\ load[l] # NoFile
  /\ loaded' = [loaded EXCEPT ![l] =
                  IF Opens(load[l].key, SecretOf(load[l].path)) THEN load[l] ELSE NoFile]
  /\ load' = [load EXCEPT ![l] = NoFile]
  /\ UNCHANGED <<clock, disk, secret, secrets, uploads, save, paths>>

ChunkNext ==
  \/ Tick
  \/ \E u \in Uploader : SetSecret(u) \/ P2PUploadRefused(u)
  \/ \E v \in Saver :
       \/ \E id \in ChunkId : LocalUpload(v, id) \/ \E u \in Uploader : P2PUpload(v, u, id)
       \/ PruneList(v) \/ PruneExpired(v) \/ PruneSort(v) \/ Evict(v) \/ EvictDone(v)
       \/ LookupKey(v) \/ OpenFile(v) \/ WriteFile(v)
  \/ \E l \in Loader : LoadDecrypt(l) \/ \E p \in Path : LoadRead(l, p)

ChunkSpec == ChunkInit /\ [][ChunkNext]_chunkVars

-----------------------------------------------------------------------------
(* Properties *)

File == [inode : Nat, data : Nat, key : Nat \cup {Torn}, time : Nat, done : BOOLEAN]
Save == [at : {"list", "expire", "evict", "lookup", "open", "write"},
         path : Path, data : Nat, files : SUBSET (Path \cup (Path \X Nat)), todo : SUBSET Path,
         now : Nat, total : Nat, key : Nat, inode : Nat]
Load == [path : Path, data : Nat, key : Nat \cup {Torn}]

\* Every variable has its type.
ChunkTypeOK ==
  /\ clock \in Nat
  /\ disk \in [Path -> File \cup {NoFile}]
  /\ secret \in [Uploader -> Nat]
  /\ secrets \in Nat
  /\ uploads \in [Uploader -> Seq(Nat)]
  /\ save \in [Saver -> Save \cup {NoFile}]
  /\ load \in [Loader -> Load \cup {NoFile}]
  /\ paths \in Seq(Path)
  /\ loaded \in [Loader -> Load \cup {NoFile}]

\* "maintains 500 MB storage cap": what is written never exceeds the cap by more
\* than the chunks that are being saved.  A pruning that meets a file another one
\* has removed gives up before it has evicted anything.
QuotaKept == Cardinality({p \in Path : Written(p)}) <= StorageCap + Cardinality(Saver)

\* "two peers writing the same chunk_id will not overwrite each other's data": a
\* download returns data that was uploaded by the owner and under the chunk id it
\* asks for, whatever is saved, mixed, evicted and saved again meanwhile.
LoadedIsUploaded ==
  \A l \in Loader : loaded[l] # NoFile => paths[loaded[l].data] = loaded[l].path
=============================================================================
