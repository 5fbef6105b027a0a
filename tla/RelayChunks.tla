----------------------------- MODULE RelayChunks -----------------------------
(***************************************************************************)
(* The relay's chunk store (transports/relay/server.py): upload_chunk,        *)
(* download_chunk, the two routes and the cleanup loop.  With Redis a          *)
(* download is a GET and then a DELETE; any Redis call may fail, before or     *)
(* after Redis applied it, and the code then goes on with the worker's memory.  Uploads are numbered to tell   *)
(* the data of one from that of another under the same chunk id.              *)
(***************************************************************************)
EXTENDS Naturals, FiniteSets

CONSTANTS
    ChunkIds,
    Downloads,      \* download requests
    HasRedis,       \* whether REDIS_URL is set
    ChunkTTL,       \* 24 h
    MaxPuts,        \* bound: uploads
    MaxHours        \* bound on the clock

ASSUME RelayChunksAssumption ==
    /\ ChunkIds # {} /\ HasRedis \in BOOLEAN
    /\ ChunkTTL \in Nat /\ MaxPuts \in Nat /\ MaxHours \in Nat

Absent == [no |-> 0, expires |-> 0]

VARIABLES
    inRedis,        \* chunk id -> [no, expires]; no 0: none
    inMemory,       \* relay_file_chunks, alike
    puts,           \* number of uploads so far
    download,       \* request -> [pc, id, no, before]; before: history, the
                    \* puts already delivered when the request began
    delivered,      \* history: puts whose data a finished request returned
    doubled,        \* history: puts whose SET was applied and yet raised
    hours           \* the clock

relayChunkVars == <<inRedis, inMemory, puts, download, delivered, doubled, hours>>

Chunk == [no : 0..MaxPuts, expires : 0..(MaxHours + ChunkTTL)]

RelayChunksTypeOK ==
    /\ inRedis \in [ChunkIds -> Chunk] /\ inMemory \in [ChunkIds -> Chunk]
    /\ puts \in 0..MaxPuts /\ hours \in 0..MaxHours
    /\ \A d \in Downloads : download[d].pc \in {"idle", "delete", "memory", "done"}
    /\ delivered \subseteq 1..puts /\ doubled \subseteq 1..puts

RelayChunksInit ==
    /\ inRedis = [c \in ChunkIds |-> Absent] /\ inMemory = [c \in ChunkIds |-> Absent]
    /\ puts = 0 /\ hours = 0 /\ delivered = {} /\ doubled = {}
    /\ download = [d \in Downloads |->
         [pc |-> "idle", id |-> CHOOSE c \in ChunkIds : TRUE, no |-> 0, before |-> {}]]

\* relay_file_upload and upload_chunk: into Redis, or into memory when there is
\* none or the SET raises.  A SET whose reply is lost was applied, and the data
\* is then in both.  A chunk above 16500 bytes is refused before this.
UploadChunk(c) ==
    LET chunk == [no |-> puts + 1, expires |-> hours + ChunkTTL] IN
    /\ puts < MaxPuts
    /\ puts' = puts + 1
    /\ \/ /\ HasRedis /\ inRedis' = [inRedis EXCEPT ![c] = chunk]
          /\ UNCHANGED <<inMemory, doubled>>
       \/ /\ inMemory' = [inMemory EXCEPT ![c] = chunk]
          /\ UNCHANGED <<inRedis, doubled>>
       \/ /\ HasRedis /\ inRedis' = [inRedis EXCEPT ![c] = chunk]
          /\ inMemory' = [inMemory EXCEPT ![c] = chunk]
          /\ doubled' = doubled \cup {puts + 1}
    /\ UNCHANGED <<download, delivered, hours>>

\* download_chunk: the GET; nothing there, or an error, leads to the memory
RedisGet(d, c) ==
    /\ download[d].pc = "idle"
    /\ \/ /\ HasRedis /\ inRedis[c].no # 0
          /\ download' = [download EXCEPT ![d] =
               [pc |-> "delete", id |-> c, no |-> inRedis[c].no, before |-> delivered]]
       \/ download' = [download EXCEPT ![d] =
               [pc |-> "memory", id |-> c, no |-> 0, before |-> delivered]]
    /\ UNCHANGED <<inRedis, inMemory, puts, delivered, doubled, hours>>

Return(d, no) ==
    /\ download' = [download EXCEPT ![d].pc = "done", ![d].no = no]
    /\ delivered' = IF no = 0 THEN delivered ELSE delivered \cup {no}

\* Mutant: an error of the DELETE is swallowed and the data returned
DeleteErrorIgnored(d) ==
    /\ download[d].pc = "delete"
    /\ Return(d, download[d].no)
    /\ inRedis' \in {inRedis, [inRedis EXCEPT ![download[d].id] = Absent]}
    /\ UNCHANGED <<inMemory, puts, doubled, hours>>

\* the DELETE: of whatever the key holds by now.  When it raises, applied
\* or not, the data that was read is thrown away and the memory is looked up.
RedisDelete(d) ==
    /\ download[d].pc = "delete"
    /\ \/ /\ inRedis' = [inRedis EXCEPT ![download[d].id] = Absent]
          /\ Return(d, download[d].no)
       \/ /\ download' = [download EXCEPT ![d].pc = "memory", ![d].no = 0]
          /\ inRedis' \in {inRedis, [inRedis EXCEPT ![download[d].id] = Absent]}
          /\ UNCHANGED delivered
    /\ UNCHANGED <<inMemory, puts, doubled, hours>>

\* the memory: popped, and returned unless it expired
MemoryPop(d) ==
    LET chunk == inMemory[download[d].id] IN
    /\ download[d].pc = "memory"
    /\ inMemory' = [inMemory EXCEPT ![download[d].id] = Absent]
    /\ Return(d, IF chunk.expires >= hours THEN chunk.no ELSE 0)
    /\ UNCHANGED <<inRedis, puts, doubled, hours>>

\* the cleanup loop of the memory, and Redis's own expiry (external)
CleanupChunks ==
    /\ \E c \in ChunkIds : inMemory[c].no # 0 /\ inMemory[c].expires < hours
    /\ inMemory' = [c \in ChunkIds |-> IF inMemory[c].expires < hours THEN Absent ELSE inMemory[c]]
    /\ UNCHANGED <<inRedis, puts, download, delivered, doubled, hours>>

RedisExpires(c) ==
    /\ inRedis[c].no # 0 /\ inRedis[c].expires <= hours
    /\ inRedis' = [inRedis EXCEPT ![c] = Absent]
    /\ UNCHANGED <<inMemory, puts, download, delivered, doubled, hours>>

HourPasses ==
    /\ hours < MaxHours
    /\ hours' = hours + 1
    /\ UNCHANGED <<inRedis, inMemory, puts, download, delivered, doubled>>

RelayChunksNext ==
    \/ \E c \in ChunkIds : UploadChunk(c) \/ RedisExpires(c)
    \/ \E d \in Downloads : (\E c \in ChunkIds : RedisGet(d, c)) \/ RedisDelete(d) \/ MemoryPop(d)
    \/ CleanupChunks \/ HourPasses

RelayChunksSpec == RelayChunksInit /\ [][RelayChunksNext]_relayChunkVars

(***************************************************************************)
(* Properties.                                                              *)
(***************************************************************************)
\* delete-on-download: once a request has returned the data of an upload, no
\* request that begins afterwards returns it, whichever calls of a download fail
\* and whether Redis applied them.  Excepted are the uploads whose SET was applied
\* and yet raised: their data lies in Redis and in memory and is served from each.
\* (Two requests that overlap between GET and DELETE both return it.)
DeliveredOnce ==
    \A d \in Downloads :
        download[d].pc = "done" => download[d].no \notin download[d].before \ doubled
=============================================================================
