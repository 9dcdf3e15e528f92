------------------------------- MODULE Shelf --------------------------------
(***************************************************************************)
(* The documents of listings: the file in storage, the key in the row and  *)
(* the chunks the assistant reads, written by uploads and by the seed of a *)
(* first boot, and read by downloads.  A deployment boots as many          *)
(* instances as it has traffic, and any of them may be killed.             *)
(*                                                                         *)
(* A document is what wrote it: an upload, or a boot.  Its text and its    *)
(* chunks are abstracted to that.                                          *)
(***************************************************************************)
EXTENDS Integers, Sequences

CONSTANTS
    Settings,  \* what deployments have set, and where they run
    Boots,     \* instances that come up
    Uploads,   \* upload requests
    Downloads, \* download requests
    Listed,    \* products that sellers create
    SeedDocs,  \* the sequence of demo products
    Names,     \* file names
    KeyOf,     \* what fileKey makes of a name; two may come to one key
    NoDoc      \* no document, no key, no product, no holder

Seeds    == {SeedDocs[i] : i \in DOMAIN SeedDocs}
Products == Listed \cup Seeds

\* SEED_ON_BOOT, how much of what a bucket requires, and the host.
SettingsThereAre ==
    [seed : {"1", "false"}, s3 : {"none", "half", "full"}, host : {"server", "serverless"}]

ASSUME ShelfAssumption ==
    /\ Settings \subseteq SettingsThereAre
    /\ SeedDocs \in Seq(Products) /\ Len(SeedDocs) > 0
    /\ \A i, j \in DOMAIN SeedDocs : SeedDocs[i] = SeedDocs[j] => i = j
    /\ Listed \cap Seeds = {}
    /\ Boots \cap Uploads = {} /\ NoDoc \notin Boots \cup Uploads \cup Names \cup Products
    /\ KeyOf \in [Names -> Names] /\ \E n \in Names : KeyOf[n] = n

VARIABLES
    setting,  \* what this deployment has set
    status,   \* Product.status, or "absent"
    key,      \* Product.fileKey
    files,    \* the bucket, or a disk that lasts: the document each key holds
    disks,    \* a serverless instance's own disk, which goes with it
    index,    \* the document whose chunks are the product's
    lock,     \* the boot holding the advisory lock
    bootAt, bootDoc,   \* where each boot is, and in which of SeedDocs
    uploadAt, uploadOf, \* where each upload is, and its product and key
    downAt, downKey,   \* where each download is, and the product and key it read
    seeders,  \* the boots that have written demo data
    disturbed \* products of uploads that failed or met another writer

rowVars   == <<status, key>>
fileVars  == <<files, disks>>
bootVars  == <<lock, bootAt, bootDoc, seeders>>
upVars    == <<uploadAt, uploadOf>>
downVars  == <<downAt, downKey>>
shelfVars == <<setting, rowVars, fileVars, index, bootVars, upVars, downVars, disturbed>>

TypeOKRows ==
    /\ status    \in [Products -> {"absent", "DRAFT", "PUBLISHED"}]
    /\ key       \in [Products -> Names \cup {NoDoc}]
    /\ files     \in [Products \X Names -> Boots \cup Uploads \cup {NoDoc}]
    /\ disks     \in [Boots -> [Products \X Names -> Boots \cup Uploads \cup {NoDoc}]]
    /\ index     \in [Products -> Boots \cup Uploads \cup {NoDoc}]

TypeOKBoots ==
    /\ lock      \in Boots \cup {NoDoc}
    /\ bootAt    \in [Boots -> {"down", "claim", "check", "upsert", "put", "key", "index",
                                "release", "serving", "dead"}]
    /\ bootDoc   \in [Boots -> DOMAIN SeedDocs]
    /\ seeders   \subseteq Boots

TypeOKRequests ==
    /\ uploadAt  \in [Uploads -> {"none", "extracted", "stored", "indexed", "done",
                                  "refused", "failed"}]
    /\ uploadOf  \in [Uploads -> (Products \X Names) \cup {<<>>}]
    /\ downAt    \in [Downloads -> {"none", "reading", "served", "missing", "no file", "denied"}]
    /\ downKey   \in [Downloads -> (Products \X Names) \cup {<<>>}]
    /\ \A u \in Uploads : uploadAt[u] # "none" => uploadOf[u] # <<>>
    /\ \A d \in Downloads : downAt[d] = "reading" => downKey[d] # <<>>

TypeOKShelf ==
    /\ setting \in Settings
    /\ TypeOKRows /\ TypeOKBoots /\ TypeOKRequests
    /\ disturbed \subseteq Products

NoFiles == [k \in Products \X Names |-> NoDoc]

ShelfInit ==
    /\ setting \in Settings
    /\ status = [p \in Products |-> "absent"]
    /\ key = [p \in Products |-> NoDoc]
    /\ files = NoFiles
    /\ disks = [b \in Boots |-> NoFiles]
    /\ index = [p \in Products |-> NoDoc]
    /\ lock = NoDoc
    /\ bootAt = [b \in Boots |-> "down"]
    /\ bootDoc = [b \in Boots |-> 1]
    /\ uploadAt = [u \in Uploads |-> "none"]
    /\ uploadOf = [u \in Uploads |-> <<>>]
    /\ downAt = [d \in Downloads |-> "none"]
    /\ downKey = [d \in Downloads |-> <<>>]
    /\ seeders = {} /\ disturbed = {}

\* Slip: half configured falls back to the disk.
SelectStoreFallsBack == IF setting.s3 = "full" THEN "s3" ELSE "disk"

\* Half configured is an error, never a quiet fall back to the disk.
SelectStore == CASE setting.s3 = "none" -> "disk" [] setting.s3 = "half" -> "error"
                 [] OTHER -> "s3"

\* The disk is the default, and on a serverless host it is the instance's own.
EphemeralDisk == SelectStore = "disk" /\ setting.host = "serverless"

\* What fileKey makes of a product and a name.
FileKey(p, n) == <<p, KeyOf[n]>>

\* Slip: a key that is taken is left as it is.
PutOnce(b, at, doc) ==
    /\ SelectStore # "error"
    /\ IF EphemeralDisk
         THEN disks' = [disks EXCEPT ![b][at] = IF @ = NoDoc THEN doc ELSE @] /\ UNCHANGED files
         ELSE files' = [files EXCEPT ![at] = IF @ = NoDoc THEN doc ELSE @] /\ UNCHANGED disks

\* The bytes under the key, whatever was there, from the instance b.
Put(b, at, doc) ==
    /\ SelectStore # "error"
    /\ IF EphemeralDisk THEN disks' = [disks EXCEPT ![b][at] = doc] /\ UNCHANGED files
                        ELSE files' = [files EXCEPT ![at] = doc] /\ UNCHANGED disks

\* What the instance b finds under the key.
Get(b, at) == IF EphemeralDisk THEN disks[b][at] ELSE files[at]

\* The chunks of one document for those of another, in one transaction.
IndexProduct(p, doc) == index' = [index EXCEPT ![p] = doc]

-----------------------------------------------------------------------------
(* The first boot.                                                         *)

BootGoes(b, from, to) == bootAt[b] = from /\ bootAt' = [bootAt EXCEPT ![b] = to]
SeedName == CHOOSE n \in Names : KeyOf[n] = n
DocOf(b) == SeedDocs[bootDoc[b]]

\* "1" and nothing else.
SeedOnBootRequested == setting.seed = "1"

Register(b) ==
    /\ BootGoes(b, "down", IF SeedOnBootRequested THEN "claim" ELSE "serving")
    /\ UNCHANGED <<setting, rowVars, fileVars, index, lock, bootDoc, seeders, upVars, downVars, disturbed>>

\* Slip: emptiness is looked at first, and the lock taken after.
ClaimSeen(b) ==
    /\ BootGoes(b, "claim", IF \A p \in Products : status[p] = "absent" THEN "check" ELSE "serving")
    /\ UNCHANGED <<setting, rowVars, fileVars, index, lock, bootDoc, seeders, upVars, downVars, disturbed>>

\* pg_try_advisory_lock: it does not wait.
Claim(b) ==
    /\ BootGoes(b, "claim", IF lock = NoDoc THEN "check" ELSE "serving")
    /\ lock' = IF lock = NoDoc THEN b ELSE lock
    /\ UNCHANGED <<setting, rowVars, fileVars, index, bootDoc, seeders, upVars, downVars, disturbed>>

IsEmpty(b) ==
    /\ BootGoes(b, "check",
                IF \A p \in Products : status[p] = "absent" THEN "upsert" ELSE "release")
    /\ UNCHANGED <<setting, rowVars, fileVars, index, lock, bootDoc, seeders, upVars, downVars, disturbed>>

\* Slip: the row is created with the key its file is about to have.
SeedRowWithKey(b) ==
    /\ BootGoes(b, "upsert", "put")
    /\ status' = [status EXCEPT ![DocOf(b)] = "PUBLISHED"]
    /\ key' = [key EXCEPT ![DocOf(b)] = KeyOf[SeedName]]
    /\ seeders' = seeders \cup {b}
    /\ UNCHANGED <<setting, fileVars, index, lock, bootDoc, upVars, downVars, disturbed>>

\* seedDemoData, a document at a time: the row, the file, its key, its chunks.
SeedRow(b) ==
    /\ BootGoes(b, "upsert", "put")
    /\ status' = [status EXCEPT ![DocOf(b)] = "PUBLISHED"]
    /\ seeders' = seeders \cup {b}
    /\ UNCHANGED <<setting, key, fileVars, index, lock, bootDoc, upVars, downVars, disturbed>>

SeedFile(b) ==
    /\ BootGoes(b, "put", "key")
    /\ Put(b, FileKey(DocOf(b), SeedName), b)
    /\ UNCHANGED <<setting, rowVars, index, lock, bootDoc, seeders, upVars, downVars, disturbed>>

SeedKey(b) ==
    /\ BootGoes(b, "key", "index")
    /\ key' = [key EXCEPT ![DocOf(b)] = KeyOf[SeedName]]
    /\ UNCHANGED <<setting, status, fileVars, index, lock, bootDoc, seeders, upVars, downVars, disturbed>>

SeedChunks(b) ==
    /\ BootGoes(b, "index", IF bootDoc[b] < Len(SeedDocs) THEN "upsert" ELSE "release")
    /\ IndexProduct(DocOf(b), b)
    /\ bootDoc' = [bootDoc EXCEPT ![b] = IF @ < Len(SeedDocs) THEN @ + 1 ELSE @]
    /\ UNCHANGED <<setting, rowVars, fileVars, lock, seeders, upVars, downVars, disturbed>>

Seeding(b) == bootAt[b] \in {"upsert", "put", "key", "index"}

\* A seed that throws gives the claim back and serves anyway.
SeedThrows(b) ==
    /\ Seeding(b)
    /\ bootAt' = [bootAt EXCEPT ![b] = "release"]
    /\ disturbed' = disturbed \cup {DocOf(b)}
    /\ UNCHANGED <<setting, rowVars, fileVars, index, lock, bootDoc, seeders, upVars, downVars>>

Release(b) ==
    /\ BootGoes(b, "release", "serving")
    /\ lock' = NoDoc
    /\ UNCHANGED <<setting, rowVars, fileVars, index, bootDoc, seeders, upVars, downVars, disturbed>>

\* Killed: the lock goes with the connection, and the instance's disk with it.
Kill(b) ==
    /\ bootAt[b] \notin {"down", "dead"}
    /\ bootAt' = [bootAt EXCEPT ![b] = "dead"]
    /\ lock' = IF lock = b THEN NoDoc ELSE lock
    /\ disturbed' = IF Seeding(b) THEN disturbed \cup {DocOf(b)} ELSE disturbed
    /\ disks' = [disks EXCEPT ![b] = NoFiles]
    /\ UNCHANGED <<setting, rowVars, files, index, bootDoc, seeders, upVars, downVars>>

Serving == \E b \in Boots : bootAt[b] = "serving"

-----------------------------------------------------------------------------
(* The seller: a draft, and its document.                                  *)

CreateListing(p) ==
    /\ Serving /\ status[p] = "absent"
    /\ status' = [status EXCEPT ![p] = "DRAFT"]
    /\ UNCHANGED <<setting, key, fileVars, index, bootVars, upVars, downVars, disturbed>>

UploadGoes(u, from, to) == uploadAt[u] = from /\ uploadAt' = [uploadAt EXCEPT ![u] = to]
Uploading(u) == uploadAt[u] \in {"extracted", "stored", "indexed"}
BeingWritten(p) ==
    \/ \E u \in Uploads : Uploading(u) /\ uploadOf[u][1] = p
    \/ \E b \in Boots : Seeding(b) /\ DocOf(b) = p

\* What a file is: text, an extension nobody reads, or pages with no text.
ExtractText(kind) ==
    CASE kind = "zip" -> "refused" [] kind = "scan" -> "refused" [] OTHER -> "extracted"

\* Extracted before it is stored: what cannot be indexed never lands on disk.
StartUpload(u, p, n) ==
    /\ Serving /\ status[p] # "absent"
    /\ \E kind \in {"text", "pdf", "scan", "zip"} : UploadGoes(u, "none", ExtractText(kind))
    /\ uploadOf' = [uploadOf EXCEPT ![u] = FileKey(p, n)]
    /\ disturbed' = IF BeingWritten(p) THEN disturbed \cup {p} ELSE disturbed
    /\ UNCHANGED <<setting, rowVars, fileVars, index, bootVars, downVars>>

\* By the instance that serves the upload, which may be any.
StoreUpload(u) ==
    /\ UploadGoes(u, "extracted", "stored")
    /\ \E b \in Boots : bootAt[b] = "serving" /\ Put(b, uploadOf[u], u)
    /\ UNCHANGED <<setting, rowVars, index, bootVars, uploadOf, downVars, disturbed>>

IndexUpload(u) ==
    /\ UploadGoes(u, "stored", "indexed")
    /\ IndexProduct(uploadOf[u][1], u)
    /\ UNCHANGED <<setting, rowVars, fileVars, bootVars, uploadOf, downVars, disturbed>>

AttachUpload(u) ==
    /\ UploadGoes(u, "indexed", "done")
    /\ key' = [key EXCEPT ![uploadOf[u][1]] = uploadOf[u][2]]
    /\ UNCHANGED <<setting, status, fileVars, index, bootVars, uploadOf, downVars, disturbed>>

\* The store, the embedder or the database throws, or the process dies.
UploadFails(u) ==
    /\ Uploading(u)
    /\ uploadAt' = [uploadAt EXCEPT ![u] = "failed"]
    /\ disturbed' = disturbed \cup {uploadOf[u][1]}
    /\ UNCHANGED <<setting, rowVars, fileVars, index, bootVars, uploadOf, downVars>>

-----------------------------------------------------------------------------
(* The reader.                                                             *)

DownloadAccess(role, published, free, paid) ==
    \/ role \in {"admin", "owner"}
    \/ published /\ free
    \/ published /\ role = "buyer" /\ paid

\* The row, and what may be read of it by whoever asks.
OpenDownload(d, p) ==
    /\ Serving /\ downAt[d] = "none" /\ status[p] # "absent"
    /\ \E role \in {"anyone", "buyer", "owner", "admin"}, free, paid \in BOOLEAN :
         downAt' = [downAt EXCEPT ![d] =
             IF ~DownloadAccess(role, status[p] = "PUBLISHED", free, paid) THEN "denied"
             ELSE IF key[p] = NoDoc THEN "no file" ELSE "reading"]
    /\ downKey' = [downKey EXCEPT ![d] = IF key[p] = NoDoc THEN <<>> ELSE <<p, key[p]>>]
    /\ UNCHANGED <<setting, rowVars, fileVars, index, bootVars, upVars, disturbed>>

ReadFileByKey(d) ==
    /\ downAt[d] = "reading"
    /\ \E b \in Boots :
         /\ bootAt[b] = "serving"
         /\ downAt' = [downAt EXCEPT ![d] =
                          IF Get(b, downKey[d]) = NoDoc THEN "missing" ELSE "served"]
    /\ UNCHANGED <<setting, rowVars, fileVars, index, bootVars, upVars, downKey, disturbed>>

ShelfNext ==
    \/ \E b \in Boots :
         \/ Register(b) \/ Claim(b) \/ IsEmpty(b) \/ SeedRow(b) \/ SeedFile(b) \/ SeedKey(b)
         \/ SeedChunks(b) \/ SeedThrows(b) \/ Release(b) \/ Kill(b)
    \/ \E p \in Listed : CreateListing(p)
    \/ \E u \in Uploads, p \in Products, n \in Names : StartUpload(u, p, n)
    \/ \E u \in Uploads : StoreUpload(u) \/ IndexUpload(u) \/ AttachUpload(u) \/ UploadFails(u)
    \/ \E d \in Downloads, p \in Products : OpenDownload(d, p)
    \/ \E d \in Downloads : ReadFileByKey(d)

ShelfSpec == ShelfInit /\ [][ShelfNext]_shelfVars

-----------------------------------------------------------------------------
\* Of the instances that come up at once one seeds at a time, whichever of them
\* are killed (bootstrap.ts:17, 49).
OneSeeder == \A b, c \in Boots : Seeding(b) /\ Seeding(c) => b = c

\* A seed that died half way is retried by the next boot (bootstrap.ts:56): an
\* instance that held the claim and leaves without a row of its own left no demo
\* product missing.
HalfSeedIsRetried ==
    \A b \in Boots \ seeders :
        bootAt[b] = "release" /\ (\E c \in seeders : bootAt[c] = "dead") =>
            \A p \in Seeds : status[p] # "absent"

\* Whoever set anything of a bucket, or runs where the disk lasts.
FilesAreKept == setting.s3 # "none" \/ setting.host = "server"

\* There, a key that a row ever carried finds its file, whatever uploads, seeds
\* and failures there have been since: the disk of a serverless host, where a
\* file goes with the instance, is never fallen back to (storage.ts:9, 53).
DownloadFindsFile ==
    FilesAreKept =>
        /\ \A d \in Downloads : downAt[d] # "missing"
        /\ \A p \in Products : key[p] # NoDoc => files[<<p, key[p]>>] # NoDoc

\* There, what the assistant has read is what a buyer downloads, of a listing
\* whose uploads neither failed nor overlapped (upload/route.ts:25).
FileIsIndexed ==
    FilesAreKept =>
        \A p \in Products \ disturbed :
            ~BeingWritten(p) /\ key[p] # NoDoc => files[<<p, key[p]>>] = index[p]
=============================================================================
