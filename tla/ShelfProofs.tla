----------------------------- MODULE ShelfProofs -----------------------------
(***************************************************************************)
(* Theorems about Shelf, for any number of instances, requests, products   *)
(* and demo documents.                                                     *)
(***************************************************************************)
EXTENDS Shelf, TLAPS

USE DEF fileVars

\* The seed's file has a name that is its own key, and a document a product.
LEMMA SeedNameIsAKey == SeedName \in Names /\ KeyOf[SeedName] = SeedName
BY ShelfAssumption DEF SeedName

LEMMA FileKeyIsAKey ==
    ASSUME NEW p \in Products, NEW n \in Names
    PROVE  FileKey(p, n) \in Products \X Names /\ FileKey(p, n) # <<>>
BY ShelfAssumption DEF FileKey

\* Where the files are kept, what is put is what the key holds from then on.
LEMMA PutKeeps ==
    ASSUME FilesAreKept, NEW b, NEW at, NEW doc, Put(b, at, doc)
    PROVE  files' = [files EXCEPT ![at] = doc]
<1>1. ~EphemeralDisk
  BY DEF FilesAreKept, EphemeralDisk, SelectStore
<1> QED
  BY <1>1 DEF Put

LEMMA PutTyped ==
    ASSUME TypeOKRows, NEW b \in Boots, NEW at \in Products \X Names, NEW doc \in Boots \cup Uploads,
           Put(b, at, doc), UNCHANGED <<status, key, index>>
    PROVE  TypeOKRows'
<1>1. CASE EphemeralDisk
  <2>1. disks' = [disks EXCEPT ![b][at] = doc] /\ UNCHANGED files
    BY <1>1 DEF Put
  <2> QED
    BY <2>1 DEF TypeOKRows
<1>2. CASE ~EphemeralDisk
  <2>1. files' = [files EXCEPT ![at] = doc] /\ UNCHANGED disks
    BY <1>2 DEF Put
  <2> QED
    BY <2>1 DEF TypeOKRows
<1> QED
  BY <1>1, <1>2

LEMMA SeedIsAProduct ==
    ASSUME TypeOKBoots, NEW b \in Boots
    PROVE  DocOf(b) \in Products /\ bootDoc[b] \in DOMAIN SeedDocs
<1>1. bootDoc[b] \in DOMAIN SeedDocs
  BY DEF TypeOKBoots
<1> QED
  BY <1>1 DEF DocOf, Products, Seeds

\* Type correctness of a deployment's listings, their files and chunks, and of
\* the boots and requests that write and read them.
THEOREM ShelfTypeCorrect == ShelfSpec => []TypeOKShelf
<1>1. ShelfInit => TypeOKShelf
  BY ShelfAssumption DEF ShelfInit, NoFiles, TypeOKShelf, TypeOKRows, TypeOKBoots, TypeOKRequests
<1>2. ASSUME TypeOKShelf, [ShelfNext]_shelfVars
      PROVE  TypeOKShelf'
  <2>0. TypeOKRows /\ TypeOKBoots /\ TypeOKRequests
    BY <1>2 DEF TypeOKShelf
  <2> USE <2>0 DEF rowVars, bootVars, upVars, downVars
  <2>1. UNCHANGED <<status, key, fileVars, index>> => TypeOKRows'
    BY DEF TypeOKRows
  <2>2. UNCHANGED <<lock, bootAt, bootDoc, seeders>> => TypeOKBoots'
    BY DEF TypeOKBoots
  <2>3. UNCHANGED <<uploadAt, uploadOf, downAt, downKey>> => TypeOKRequests'
    BY DEF TypeOKRequests
  <2>4. UNCHANGED setting /\ (UNCHANGED disturbed \/ \E p \in Products : disturbed' = disturbed \cup {p})
          /\ TypeOKRows' /\ TypeOKBoots' /\ TypeOKRequests' => TypeOKShelf'
    BY <1>2 DEF TypeOKShelf
  <2>5. ASSUME NEW b \in Boots,
               \/ Register(b) \/ Claim(b) \/ IsEmpty(b) \/ SeedRow(b) \/ SeedFile(b) \/ SeedKey(b)
               \/ SeedChunks(b) \/ SeedThrows(b) \/ Release(b) \/ Kill(b)
        PROVE  TypeOKShelf'
    <3>1. DocOf(b) \in Products /\ bootDoc[b] \in DOMAIN SeedDocs
      BY SeedIsAProduct
    <3>2. UNCHANGED setting /\ TypeOKRequests'
      BY <2>3, <2>5 DEF Register, Claim, IsEmpty, SeedRow, SeedFile, SeedKey, SeedChunks, SeedThrows,
         Release, Kill
    <3>3. UNCHANGED disturbed \/ \E p \in Products : disturbed' = disturbed \cup {p}
      BY <2>5, <3>1 DEF Register, Claim, IsEmpty, SeedRow, SeedFile, SeedKey, SeedChunks, SeedThrows,
         Release, Kill
    <3>4. TypeOKRows'
      <4>1. CASE SeedRow(b)
        BY <3>1, <4>1 DEF SeedRow, TypeOKRows
      <4>2. CASE SeedFile(b)
        BY <3>1, <4>2, SeedNameIsAKey, FileKeyIsAKey, PutTyped DEF SeedFile
      <4>3. CASE SeedKey(b)
        BY <3>1, <4>3, SeedNameIsAKey DEF SeedKey, TypeOKRows
      <4>4. CASE SeedChunks(b)
        BY <3>1, <4>4 DEF SeedChunks, IndexProduct, TypeOKRows
      <4>5. CASE Kill(b)
        <5>1. UNCHANGED <<status, key, files, index>> /\ disks' = [disks EXCEPT ![b] = NoFiles]
          BY <4>5 DEF Kill
        <5> QED
          BY <5>1 DEF NoFiles, TypeOKRows
      <4> QED
        BY <2>1, <2>5, <4>1, <4>2, <4>3, <4>4, <4>5 DEF Register, Claim, IsEmpty, SeedThrows, Release
    <3>5. TypeOKBoots'
      <4>1. CASE Register(b)
        BY <4>1 DEF Register, BootGoes, TypeOKBoots
      <4>2. CASE Claim(b)
        BY <4>2 DEF Claim, BootGoes, TypeOKBoots
      <4>3. CASE IsEmpty(b)
        BY <4>3 DEF IsEmpty, BootGoes, TypeOKBoots
      <4>4. CASE SeedRow(b)
        BY <4>4 DEF SeedRow, BootGoes, TypeOKBoots
      <4>5. CASE SeedFile(b) \/ SeedKey(b)
        BY <4>5 DEF SeedFile, SeedKey, BootGoes, TypeOKBoots
      <4>6. CASE SeedChunks(b)
        <5>1. DOMAIN SeedDocs = 1..Len(SeedDocs) /\ Len(SeedDocs) \in Nat
          BY ShelfAssumption
        <5>2. bootDoc[b] < Len(SeedDocs) => bootDoc[b] + 1 \in DOMAIN SeedDocs
          BY <3>1, <5>1
        <5> QED
          BY <3>1, <4>6, <5>2 DEF SeedChunks, BootGoes, TypeOKBoots
      <4>7. CASE SeedThrows(b) \/ Release(b) \/ Kill(b)
        BY <4>7 DEF SeedThrows, Release, Kill, BootGoes, TypeOKBoots
      <4> QED
        BY <2>5, <4>1, <4>2, <4>3, <4>4, <4>5, <4>6, <4>7
    <3> QED
      BY <2>4, <3>2, <3>3, <3>4, <3>5
  <2>6. ASSUME NEW p \in Listed, CreateListing(p)
        PROVE  TypeOKShelf'
    <3>1. TypeOKRows'
      BY <2>6 DEF CreateListing, TypeOKRows, Products
    <3> QED
      BY <2>2, <2>3, <2>4, <2>6, <3>1 DEF CreateListing
  <2>7. ASSUME NEW u \in Uploads, NEW p \in Products, NEW n \in Names, StartUpload(u, p, n)
        PROVE  TypeOKShelf'
    <3>1. TypeOKRequests'
      BY <2>7, FileKeyIsAKey DEF StartUpload, UploadGoes, ExtractText, TypeOKRequests
    <3> QED
      BY <2>1, <2>2, <2>4, <2>7, <3>1 DEF StartUpload
  <2>8. ASSUME NEW u \in Uploads, StoreUpload(u) \/ IndexUpload(u) \/ AttachUpload(u) \/ UploadFails(u)
        PROVE  TypeOKShelf'
    <3>1. uploadOf[u] \in Products \X Names
      BY <2>8 DEF StoreUpload, IndexUpload, AttachUpload, UploadFails, UploadGoes, Uploading,
         TypeOKRequests
    <3>2. TypeOKRequests' /\ TypeOKBoots' /\ UNCHANGED setting
      BY <2>2, <2>8 DEF StoreUpload, IndexUpload, AttachUpload, UploadFails, UploadGoes, Uploading,
         TypeOKRequests
    <3>3. UNCHANGED disturbed \/ \E p \in Products : disturbed' = disturbed \cup {p}
      BY <2>8, <3>1 DEF StoreUpload, IndexUpload, AttachUpload, UploadFails
    <3>4. TypeOKRows'
      <4>1. CASE StoreUpload(u)
        BY <3>1, <4>1, PutTyped DEF StoreUpload
      <4>2. CASE IndexUpload(u) \/ AttachUpload(u)
        BY <3>1, <4>2 DEF IndexUpload, AttachUpload, IndexProduct, TypeOKRows
      <4>3. CASE UploadFails(u)
        BY <2>1, <4>3 DEF UploadFails
      <4> QED
        BY <2>8, <4>1, <4>2, <4>3
    <3> QED
      BY <2>4, <3>2, <3>3, <3>4
  <2>9. ASSUME NEW d \in Downloads, NEW p \in Products, OpenDownload(d, p)
        PROVE  TypeOKShelf'
    <3>1. key[p] # NoDoc => key[p] \in Names
      BY DEF TypeOKRows
    <3>2. TypeOKRequests'
      BY <2>9, <3>1 DEF OpenDownload, TypeOKRequests
    <3> QED
      BY <2>1, <2>2, <2>4, <2>9, <3>2 DEF OpenDownload
  <2>10. ASSUME NEW d \in Downloads, ReadFileByKey(d)
         PROVE  TypeOKShelf'
    <3>1. TypeOKRequests'
      BY <2>10 DEF ReadFileByKey, TypeOKRequests
    <3> QED
      BY <2>1, <2>2, <2>4, <2>10, <3>1 DEF ReadFileByKey
  <2>11. CASE UNCHANGED shelfVars
    BY <2>1, <2>2, <2>3, <2>4, <2>11 DEF shelfVars
  <2> QED
    BY <1>2, <2>5, <2>6, <2>7, <2>8, <2>9, <2>10, <2>11 DEF ShelfNext
<1> QED
  BY <1>1, <1>2, PTL DEF ShelfSpec

-----------------------------------------------------------------------------
(* The first boot.                                                         *)

\* The strengthening: whoever is past the claim holds the lock.
SeederInv ==
    \A b \in Boots :
        bootAt[b] \in {"check", "upsert", "put", "key", "index", "release"} => lock = b

LEMMA SeederInvHolds == ShelfSpec => []SeederInv
<1>1. ShelfInit => SeederInv
  BY DEF ShelfInit, SeederInv
<1>2. ASSUME TypeOKShelf, SeederInv, [ShelfNext]_shelfVars
      PROVE  SeederInv'
  <2>0. TypeOKBoots
    BY <1>2 DEF TypeOKShelf
  <2>1. ASSUME NEW b \in Boots, Claim(b)
        PROVE  SeederInv'
    <3>1. \A c \in Boots : c # b => bootAt'[c] = bootAt[c]
      BY <2>0, <2>1 DEF Claim, BootGoes, TypeOKBoots
    <3>2. CASE lock = NoDoc
      <4>1. lock' = b
        BY <2>1, <3>2 DEF Claim
      <4>2. \A c \in Boots : c # b =>
              bootAt[c] \notin {"check", "upsert", "put", "key", "index", "release"}
        BY <1>2, <3>2, ShelfAssumption DEF SeederInv
      <4> QED
        BY <3>1, <4>1, <4>2 DEF SeederInv
    <3>3. CASE lock # NoDoc
      <4>1. lock' = lock /\ bootAt'[b] = "serving"
        BY <2>0, <2>1, <3>3 DEF Claim, BootGoes, TypeOKBoots
      <4> QED
        BY <1>2, <3>1, <4>1 DEF SeederInv
    <3> QED
      BY <3>2, <3>3
  \* A boot that goes on under the lock, and one that gives it up.
  <2>2. ASSUME NEW b \in Boots,
               \/ Register(b) \/ IsEmpty(b) \/ SeedRow(b) \/ SeedFile(b) \/ SeedKey(b)
               \/ SeedChunks(b) \/ SeedThrows(b)
        PROVE  SeederInv'
    <3>1. lock' = lock
      BY <2>2 DEF Register, IsEmpty, SeedRow, SeedFile, SeedKey, SeedChunks, SeedThrows
    <3>2. \A c \in Boots : c # b => bootAt'[c] = bootAt[c]
      BY <2>0, <2>2 DEF Register, IsEmpty, SeedRow, SeedFile, SeedKey, SeedChunks, SeedThrows,
         BootGoes, TypeOKBoots
    <3>3. \/ bootAt'[b] \in {"claim", "serving"}
          \/ bootAt[b] \in {"check", "upsert", "put", "key", "index"}
      BY <2>0, <2>2 DEF Register, IsEmpty, SeedRow, SeedFile, SeedKey, SeedChunks, SeedThrows,
         BootGoes, Seeding, TypeOKBoots
    <3> QED
      BY <1>2, <3>1, <3>2, <3>3 DEF SeederInv
  <2>3. ASSUME NEW b \in Boots, Release(b) \/ Kill(b)
        PROVE  SeederInv'
    <3>1. bootAt'[b] \in {"serving", "dead"} /\ \A c \in Boots : c # b => bootAt'[c] = bootAt[c]
      BY <2>0, <2>3 DEF Release, Kill, BootGoes, TypeOKBoots
    <3>2. lock' = lock \/ lock = b
      BY <1>2, <2>3 DEF Release, Kill, BootGoes, SeederInv
    <3> QED
      BY <1>2, <3>1, <3>2 DEF SeederInv
  <2>4. UNCHANGED <<lock, bootAt>> => SeederInv'
    BY <1>2 DEF SeederInv
  <2> QED
    BY <1>2, <2>1, <2>2, <2>3, <2>4 DEF ShelfNext, CreateListing, StartUpload, StoreUpload, IndexUpload,
       AttachUpload, UploadFails, OpenDownload, ReadFileByKey, bootVars, shelfVars
<1> QED
  BY <1>1, <1>2, ShelfTypeCorrect, PTL DEF ShelfSpec

\* However many instances come up, and whichever of them are killed, one at most
\* writes demo data at a time (bootstrap.ts:17, 49).
THEOREM OneSeederHolds == ShelfSpec => []OneSeeder
<1>1. SeederInv => OneSeeder
  BY DEF SeederInv, OneSeeder, Seeding
<1> QED
  BY <1>1, SeederInvHolds, PTL

-----------------------------------------------------------------------------
(* Files, where they are kept.                                             *)

\* A deployment sets nothing anew.
LEMMA SettingStays ==
    ASSUME [ShelfNext]_shelfVars
    PROVE  setting' = setting
BY DEF ShelfNext, Register, Claim, IsEmpty, SeedRow, SeedFile, SeedKey, SeedChunks, SeedThrows, Release,
   Kill, CreateListing, StartUpload, StoreUpload, IndexUpload, AttachUpload, UploadFails, OpenDownload,
   ReadFileByKey, shelfVars

KeysFindFiles ==
    /\ \A d \in Downloads : downAt[d] # "missing"
    /\ \A p \in Products : key[p] # NoDoc => files[<<p, key[p]>>] # NoDoc

\* The strengthening: a key is written of a row, and read of one, only where the
\* file is already there; and what is there is only ever replaced.
FilesInv ==
    /\ \A b \in Boots : bootAt[b] = "key" => files[FileKey(DocOf(b), SeedName)] # NoDoc
    /\ \A u \in Uploads : uploadAt[u] \in {"stored", "indexed"} => files[uploadOf[u]] # NoDoc
    /\ \A d \in Downloads : downAt[d] = "reading" => files[downKey[d]] # NoDoc
    /\ KeysFindFiles

LEMMA FilesInvHolds == ShelfSpec => [](FilesAreKept => FilesInv)
<1>1. ShelfInit => FilesInv
  BY DEF ShelfInit, NoFiles, FilesInv, KeysFindFiles
<1>2. ASSUME TypeOKShelf, FilesAreKept, FilesInv, [ShelfNext]_shelfVars
      PROVE  FilesInv'
  <2>0. TypeOKRows /\ TypeOKBoots /\ TypeOKRequests
    BY <1>2 DEF TypeOKShelf
  \* Whatever step this is, a file that is there stays.
  <2>1. \A k \in Products \X Names : files[k] # NoDoc => files'[k] # NoDoc
    <3>1. ASSUME NEW b \in Boots, NEW at, NEW doc \in Boots \cup Uploads, Put(b, at, doc)
          PROVE  \A k \in Products \X Names : files[k] # NoDoc => files'[k] # NoDoc
      <4>1. files' = [files EXCEPT ![at] = doc]
        BY <1>2, <3>1, PutKeeps
      <4> QED
        BY <2>0, <4>1, ShelfAssumption DEF TypeOKRows
    <3>2. \/ UNCHANGED files
          \/ \E b \in Boots : Put(b, FileKey(DocOf(b), SeedName), b)
          \/ \E u \in Uploads, b \in Boots : Put(b, uploadOf[u], u)
      BY <1>2 DEF ShelfNext, Register, Claim, IsEmpty, SeedRow, SeedFile, SeedKey, SeedChunks,
         SeedThrows, Release, Kill, CreateListing, StartUpload, StoreUpload, IndexUpload, AttachUpload,
         UploadFails, OpenDownload, ReadFileByKey, shelfVars
    <3> QED
      BY <3>1, <3>2
  <2>2. \A b \in Boots : FileKey(DocOf(b), SeedName) \in Products \X Names
    BY <2>0, SeedIsAProduct, SeedNameIsAKey, FileKeyIsAKey
  <2>3. \A u \in Uploads : uploadAt[u] # "none" => uploadOf[u] \in Products \X Names
    BY <2>0 DEF TypeOKRequests
  <2>4. \A d \in Downloads : downAt[d] = "reading" => downKey[d] \in Products \X Names
    BY <2>0 DEF TypeOKRequests
  <2>5. \A p \in Products : key[p] # NoDoc => <<p, key[p]>> \in Products \X Names
    BY <2>0 DEF TypeOKRows
  \* The parts, when what they are about rests.
  <2>6. UNCHANGED <<bootAt, bootDoc>> =>
          \A b \in Boots : bootAt'[b] = "key" => files'[FileKey(DocOf(b), SeedName)'] # NoDoc
    BY <1>2, <2>1, <2>2 DEF FilesInv, DocOf, FileKey, SeedName
  <2>7. UNCHANGED upVars =>
          \A u \in Uploads : uploadAt'[u] \in {"stored", "indexed"} => files'[uploadOf'[u]] # NoDoc
    BY <1>2, <2>1, <2>3 DEF FilesInv, upVars
  <2>8. UNCHANGED downVars =>
          \A d \in Downloads :
            downAt'[d] # "missing" /\ (downAt'[d] = "reading" => files'[downKey'[d]] # NoDoc)
    BY <1>2, <2>1, <2>4 DEF FilesInv, KeysFindFiles, downVars
  <2>9. UNCHANGED key => \A p \in Products : key'[p] # NoDoc => files'[<<p, key'[p]>>] # NoDoc
    BY <1>2, <2>1, <2>5 DEF FilesInv, KeysFindFiles
  <2>10. ASSUME NEW b \in Boots,
                \/ Register(b) \/ Claim(b) \/ IsEmpty(b) \/ SeedRow(b) \/ SeedFile(b) \/ SeedKey(b)
                \/ SeedChunks(b) \/ SeedThrows(b) \/ Release(b) \/ Kill(b)
         PROVE  FilesInv'
    <3>1. UNCHANGED <<upVars, downVars>>
      BY <2>10 DEF Register, Claim, IsEmpty, SeedRow, SeedFile, SeedKey, SeedChunks, SeedThrows,
         Release, Kill
    <3>2. \A c \in Boots : c # b => bootAt'[c] = bootAt[c] /\ bootDoc'[c] = bootDoc[c]
      BY <2>0, <2>10 DEF Register, Claim, IsEmpty, SeedRow, SeedFile, SeedKey, SeedChunks, SeedThrows,
         Release, Kill, BootGoes, TypeOKBoots
    <3>3. bootAt'[b] = "key" => files'[FileKey(DocOf(b), SeedName)'] # NoDoc
      <4>1. CASE SeedFile(b)
        <5>1. files' = [files EXCEPT ![FileKey(DocOf(b), SeedName)] = b] /\ UNCHANGED bootDoc
          BY <1>2, <4>1, PutKeeps DEF SeedFile
        <5> QED
          BY <2>0, <2>2, <5>1, ShelfAssumption DEF TypeOKRows, DocOf, FileKey, SeedName
      <4>2. CASE ~SeedFile(b)
        BY <2>0, <2>10, <4>2 DEF Register, Claim, IsEmpty, SeedRow, SeedKey, SeedChunks, SeedThrows,
           Release, Kill, BootGoes, TypeOKBoots
      <4> QED
        BY <4>1, <4>2
    <3>4. \A c \in Boots : bootAt'[c] = "key" => files'[FileKey(DocOf(c), SeedName)'] # NoDoc
      BY <1>2, <2>1, <2>2, <3>2, <3>3 DEF FilesInv, DocOf, FileKey, SeedName
    <3>5. \A p \in Products : key'[p] # NoDoc => files'[<<p, key'[p]>>] # NoDoc
      <4>1. CASE SeedKey(b)
        <5>1. key' = [key EXCEPT ![DocOf(b)] = KeyOf[SeedName]] /\ UNCHANGED files /\ bootAt[b] = "key"
          BY <4>1 DEF SeedKey, BootGoes
        <5>2. files[<<DocOf(b), KeyOf[SeedName]>>] # NoDoc
          BY <1>2, <5>1 DEF FilesInv, FileKey
        <5> QED
          BY <1>2, <2>0, <5>1, <5>2 DEF FilesInv, KeysFindFiles, TypeOKRows
      <4>2. CASE ~SeedKey(b)
        BY <2>9, <2>10, <4>2 DEF Register, Claim, IsEmpty, SeedRow, SeedFile, SeedChunks, SeedThrows,
           Release, Kill, rowVars
      <4> QED
        BY <4>1, <4>2
    <3> QED
      BY <2>7, <2>8, <3>1, <3>4, <3>5 DEF FilesInv, KeysFindFiles
  <2>11. ASSUME UNCHANGED <<bootAt, bootDoc, upVars, downVars, key>>
         PROVE  FilesInv'
    BY <2>6, <2>7, <2>8, <2>9, <2>11 DEF FilesInv, KeysFindFiles
  <2>12. ASSUME NEW p \in Listed, CreateListing(p)
         PROVE  FilesInv'
    BY <2>11, <2>12 DEF CreateListing, bootVars
  <2>13. ASSUME NEW u \in Uploads, NEW p \in Products, NEW n \in Names, StartUpload(u, p, n)
         PROVE  FilesInv'
    <3>1. UNCHANGED <<bootAt, bootDoc, downVars, key>>
      BY <2>13 DEF StartUpload, bootVars, rowVars
    <3>2. uploadAt'[u] \notin {"stored", "indexed"}
      BY <2>0, <2>13 DEF StartUpload, UploadGoes, ExtractText, TypeOKRequests
    <3>3. \A v \in Uploads : v # u => uploadAt'[v] = uploadAt[v] /\ uploadOf'[v] = uploadOf[v]
      BY <2>0, <2>13 DEF StartUpload, UploadGoes, TypeOKRequests
    <3>4. \A v \in Uploads : uploadAt'[v] \in {"stored", "indexed"} => files'[uploadOf'[v]] # NoDoc
      BY <1>2, <2>1, <2>3, <3>2, <3>3 DEF FilesInv
    <3> QED
      BY <2>6, <2>8, <2>9, <3>1, <3>4 DEF FilesInv, KeysFindFiles
  <2>14. ASSUME NEW u \in Uploads, StoreUpload(u) \/ IndexUpload(u) \/ AttachUpload(u) \/ UploadFails(u)
         PROVE  FilesInv'
    <3>1. UNCHANGED <<bootAt, bootDoc, downVars, uploadOf>>
      BY <2>14 DEF StoreUpload, IndexUpload, AttachUpload, UploadFails, bootVars, upVars
    <3>2. uploadOf[u] \in Products \X Names
      BY <2>3, <2>14 DEF StoreUpload, IndexUpload, AttachUpload, UploadFails, UploadGoes, Uploading
    <3>3. \A v \in Uploads : v # u => uploadAt'[v] = uploadAt[v]
      BY <2>0, <2>14 DEF StoreUpload, IndexUpload, AttachUpload, UploadFails, UploadGoes, TypeOKRequests
    <3>4. uploadAt'[u] \in {"stored", "indexed"} => files'[uploadOf[u]] # NoDoc
      <4>1. CASE StoreUpload(u)
        <5>1. files' = [files EXCEPT ![uploadOf[u]] = u]
          BY <1>2, <4>1, PutKeeps DEF StoreUpload
        <5> QED
          BY <2>0, <3>2, <5>1, ShelfAssumption DEF TypeOKRows
      <4>2. CASE IndexUpload(u)
        BY <1>2, <4>2 DEF IndexUpload, UploadGoes, FilesInv
      <4>3. CASE AttachUpload(u) \/ UploadFails(u)
        BY <2>0, <4>3 DEF AttachUpload, UploadFails, UploadGoes, TypeOKRequests
      <4> QED
        BY <2>14, <4>1, <4>2, <4>3
    <3>5. \A v \in Uploads : uploadAt'[v] \in {"stored", "indexed"} => files'[uploadOf'[v]] # NoDoc
      BY <1>2, <2>1, <2>3, <3>1, <3>3, <3>4 DEF FilesInv
    <3>6. \A p \in Products : key'[p] # NoDoc => files'[<<p, key'[p]>>] # NoDoc
      <4>1. CASE AttachUpload(u)
        <5>1. key' = [key EXCEPT ![uploadOf[u][1]] = uploadOf[u][2]] /\ UNCHANGED files
                /\ uploadAt[u] = "indexed"
          BY <4>1 DEF AttachUpload, UploadGoes
        <5>2. <<uploadOf[u][1], uploadOf[u][2]>> = uploadOf[u]
          BY <3>2
        <5>3. files[<<uploadOf[u][1], uploadOf[u][2]>>] # NoDoc
          BY <1>2, <5>1, <5>2 DEF FilesInv
        <5> QED
          BY <1>2, <2>0, <5>1, <5>3 DEF FilesInv, KeysFindFiles, TypeOKRows
      <4>2. CASE ~AttachUpload(u)
        BY <2>9, <2>14, <4>2 DEF StoreUpload, IndexUpload, UploadFails, rowVars
      <4> QED
        BY <4>1, <4>2
    <3> QED
      BY <2>6, <2>8, <3>1, <3>5, <3>6 DEF FilesInv, KeysFindFiles
  <2>15. ASSUME NEW d \in Downloads, NEW p \in Products, OpenDownload(d, p)
         PROVE  FilesInv'
    <3>1. UNCHANGED <<bootAt, bootDoc, upVars, key, files>>
      BY <2>15 DEF OpenDownload, bootVars, rowVars
    <3>2. downAt'[d] # "missing" /\ (downAt'[d] = "reading" => key[p] # NoDoc)
      BY <2>0, <2>15 DEF OpenDownload, TypeOKRequests
    <3>3. key[p] # NoDoc => downKey'[d] = <<p, key[p]>>
      BY <2>0, <2>15 DEF OpenDownload, TypeOKRequests
    <3>4. downAt'[d] = "reading" => files[downKey'[d]] # NoDoc
      BY <1>2, <3>2, <3>3 DEF FilesInv, KeysFindFiles
    <3>5. \A e \in Downloads : e # d => downAt'[e] = downAt[e] /\ downKey'[e] = downKey[e]
      BY <2>0, <2>15 DEF OpenDownload, TypeOKRequests
    <3>6. \A e \in Downloads :
            downAt'[e] # "missing" /\ (downAt'[e] = "reading" => files'[downKey'[e]] # NoDoc)
      BY <1>2, <3>1, <3>2, <3>4, <3>5 DEF FilesInv, KeysFindFiles
    <3> QED
      BY <2>6, <2>7, <2>9, <3>1, <3>6 DEF FilesInv, KeysFindFiles
  <2>16. ASSUME NEW d \in Downloads, ReadFileByKey(d)
         PROVE  FilesInv'
    <3>1. UNCHANGED <<bootAt, bootDoc, upVars, key, files, downKey>>
      BY <2>16 DEF ReadFileByKey, bootVars, rowVars
    <3>0. \A b \in Boots : Get(b, downKey[d]) = files[downKey[d]]
      BY <1>2 DEF Get, FilesAreKept, EphemeralDisk, SelectStore
    <3>2. downAt'[d] = "served" /\ \A e \in Downloads : e # d => downAt'[e] = downAt[e]
      BY <1>2, <2>0, <2>16, <3>0 DEF ReadFileByKey, FilesInv, TypeOKRequests
    <3>3. \A e \in Downloads :
            downAt'[e] # "missing" /\ (downAt'[e] = "reading" => files'[downKey'[e]] # NoDoc)
      BY <1>2, <3>1, <3>2 DEF FilesInv, KeysFindFiles
    <3> QED
      BY <2>6, <2>7, <2>9, <3>1, <3>3 DEF FilesInv, KeysFindFiles
  <2>17. CASE UNCHANGED shelfVars
    BY <2>11, <2>17 DEF shelfVars, rowVars, bootVars
  <2> QED
    BY <1>2, <2>10, <2>12, <2>13, <2>14, <2>15, <2>16, <2>17 DEF ShelfNext
<1>3. TypeOKShelf /\ (FilesAreKept => FilesInv) /\ [ShelfNext]_shelfVars => (FilesAreKept => FilesInv)'
  BY <1>2, SettingStays DEF FilesAreKept
<1> QED
  BY <1>1, <1>3, ShelfTypeCorrect, PTL DEF ShelfSpec

\* With a bucket, or a disk that lasts, whoever may download what a row names gets
\* a file, whatever uploads, seeds and failures went before or come between the row
\* and the read; on the disk of a serverless host it claims nothing (storage.ts:8-10).
THEOREM DownloadFindsFileHolds == ShelfSpec => []DownloadFindsFile
<1>1. (FilesAreKept => FilesInv) => DownloadFindsFile
  BY DEF FilesInv, KeysFindFiles, DownloadFindsFile
<1> QED
  BY <1>1, FilesInvHolds, PTL

-----------------------------------------------------------------------------
(* Files and chunks.                                                       *)

\* Two writers of one listing at once: the strengthening's first half.  Only a
\* listing that is there is uploaded to, those a seed has still to write are not
\* there, and a listing nothing disturbed has one writer.
WritersInv ==
    /\ \A u \in Uploads : Uploading(u) => status[uploadOf[u][1]] # "absent"
    /\ \A b \in Boots : Seeding(b) =>
         \A j \in DOMAIN SeedDocs :
           j > bootDoc[b] \/ (j = bootDoc[b] /\ bootAt[b] = "upsert") => status[SeedDocs[j]] = "absent"
    /\ \A u, v \in Uploads :
         Uploading(u) /\ Uploading(v) /\ uploadOf[u][1] = uploadOf[v][1] /\ uploadOf[u][1] \notin disturbed
           => u = v
    /\ \A u \in Uploads, b \in Boots :
         Uploading(u) /\ Seeding(b) /\ uploadOf[u][1] \notin disturbed => uploadOf[u][1] # DocOf(b)

\* The second half: what the one writer of a listing has written so far.
UploadWrote(u) ==
    uploadOf[u][1] \notin disturbed =>
        /\ uploadAt[u] \in {"stored", "indexed"} => files[uploadOf[u]] = u
        /\ uploadAt[u] = "indexed" => index[uploadOf[u][1]] = u

BootWrote(b) ==
    DocOf(b) \notin disturbed =>
        /\ bootAt[b] \in {"key", "index"} => files[FileKey(DocOf(b), SeedName)] = b
        /\ bootAt[b] = "index" => key[DocOf(b)] = KeyOf[SeedName]

WrittenInv ==
    /\ \A u \in Uploads : Uploading(u) => UploadWrote(u)
    /\ \A b \in Boots : Seeding(b) => BootWrote(b)
    /\ \A p \in Products \ disturbed :
         ~BeingWritten(p) /\ key[p] # NoDoc => files[<<p, key[p]>>] = index[p]

LEMMA WritersInvHolds == ShelfSpec => []WritersInv
<1>1. ShelfInit => WritersInv
  BY DEF ShelfInit, WritersInv, Uploading, Seeding
<1>2. ASSUME TypeOKShelf, SeederInv, WritersInv, [ShelfNext]_shelfVars
      PROVE  WritersInv'
  <2>0. TypeOKRows /\ TypeOKBoots /\ TypeOKRequests
    BY <1>2 DEF TypeOKShelf
  <2>1. \A b, c \in Boots : Seeding(b) /\ Seeding(c) => b = c
    BY <1>2 DEF SeederInv, Seeding
  \* No writer comes, and a listing is there or not as before.
  <2>2. ASSUME UNCHANGED <<status, bootDoc, uploadOf>>, disturbed \subseteq disturbed',
               \A u \in Uploads : Uploading(u)' => Uploading(u),
               \A b \in Boots : Seeding(b)' =>
                 Seeding(b) /\ (bootAt'[b] = "upsert" => bootAt[b] = "upsert")
        PROVE  WritersInv'
    BY <1>2, <2>2 DEF WritersInv, DocOf
  <2>3. ASSUME NEW b \in Boots,
               \/ Register(b) \/ Claim(b) \/ SeedFile(b) \/ SeedKey(b) \/ SeedThrows(b)
               \/ Release(b) \/ Kill(b)
        PROVE  WritersInv'
    <3>1. UNCHANGED <<status, bootDoc, upVars>> /\ disturbed \subseteq disturbed'
      BY <2>3 DEF Register, Claim, SeedFile, SeedKey, SeedThrows, Release, Kill, rowVars
    <3>2. \A c \in Boots : c # b => bootAt'[c] = bootAt[c]
      BY <2>0, <2>3 DEF Register, Claim, SeedFile, SeedKey, SeedThrows, Release, Kill, BootGoes,
         TypeOKBoots
    <3>3. bootAt'[b] # "upsert" /\ (Seeding(b)' => Seeding(b))
      BY <2>0, <2>3 DEF Register, Claim, SeedFile, SeedKey, SeedThrows, Release, Kill, BootGoes,
         Seeding, TypeOKBoots
    <3>4. \A c \in Boots : Seeding(c)' =>
            Seeding(c) /\ (bootAt'[c] = "upsert" => bootAt[c] = "upsert")
      BY <3>2, <3>3 DEF Seeding
    <3> QED
      BY <2>2, <3>1, <3>4 DEF upVars, Uploading
  <2>4. ASSUME NEW b \in Boots, IsEmpty(b)
        PROVE  WritersInv'
    <3>1. UNCHANGED <<status, bootDoc, upVars, disturbed>>
      BY <2>4 DEF IsEmpty, rowVars
    <3>2. \A c \in Boots : c # b => bootAt'[c] = bootAt[c]
      BY <2>0, <2>4 DEF IsEmpty, BootGoes, TypeOKBoots
    <3>3. CASE \A p \in Products : status[p] = "absent"
      <4>1. \A u \in Uploads : ~Uploading(u)
        <5>1. \A u \in Uploads : Uploading(u) => uploadOf[u][1] \in Products
          BY <2>0 DEF TypeOKRequests, Uploading
        <5> QED
          BY <1>2, <3>3, <5>1 DEF WritersInv
      <4>2. \A j \in DOMAIN SeedDocs : status[SeedDocs[j]] = "absent"
        BY <3>3 DEF Products, Seeds
      <4> QED
        BY <3>1, <4>1, <4>2 DEF WritersInv, upVars, Uploading
    <3>4. CASE ~\A p \in Products : status[p] = "absent"
      <4>1. bootAt'[b] = "release"
        BY <2>0, <2>4, <3>4 DEF IsEmpty, BootGoes, TypeOKBoots
      <4>2. \A c \in Boots : Seeding(c)' =>
              Seeding(c) /\ (bootAt'[c] = "upsert" => bootAt[c] = "upsert")
        BY <3>2, <4>1 DEF Seeding
      <4> QED
        BY <2>2, <3>1, <4>2 DEF upVars, Uploading
    <3> QED
      BY <3>3, <3>4
  \* The boot that seeds goes from one document to the next.
  <2>5. ASSUME NEW b \in Boots, SeedRow(b) \/ SeedChunks(b)
        PROVE  WritersInv'
    <3>1. Seeding(b) /\ UNCHANGED <<upVars, disturbed>>
      BY <2>5 DEF SeedRow, SeedChunks, BootGoes, Seeding
    <3>2. \A c \in Boots : Seeding(c)' => c = b
      <4>1. \A c \in Boots : c # b => bootAt'[c] = bootAt[c]
        BY <2>0, <2>5 DEF SeedRow, SeedChunks, BootGoes, TypeOKBoots
      <4> QED
        BY <2>1, <3>1, <4>1 DEF Seeding
    <3>3. \A p \in Products : status[p] # "absent" => status'[p] # "absent"
      BY <2>0, <2>5 DEF SeedRow, SeedChunks, rowVars, TypeOKRows
    <3>4. \A u \in Uploads : Uploading(u) => uploadOf[u][1] \in Products
      BY <2>0 DEF TypeOKRequests, Uploading
    <3>5. Seeding(b)' => \A j \in DOMAIN SeedDocs :
            j > bootDoc'[b] \/ (j = bootDoc'[b] /\ bootAt'[b] = "upsert") => status'[SeedDocs[j]] = "absent"
      <4>0. DOMAIN SeedDocs \subseteq Int /\ bootDoc[b] \in DOMAIN SeedDocs
        BY <2>0, ShelfAssumption DEF TypeOKBoots
      <4>1. CASE SeedRow(b)
        <5>1. bootAt'[b] = "put" /\ bootDoc' = bootDoc
          BY <2>0, <4>1 DEF SeedRow, BootGoes, TypeOKBoots
        <5>2. \A j \in DOMAIN SeedDocs : j > bootDoc[b] => SeedDocs[j] # DocOf(b)
          BY <4>0, ShelfAssumption DEF DocOf
        <5>3. \A p \in Products : p # DocOf(b) => status'[p] = status[p]
          BY <2>0, <4>1 DEF SeedRow, TypeOKRows
        <5>4. \A j \in DOMAIN SeedDocs : SeedDocs[j] \in Products
          BY DEF Products, Seeds
        <5> QED
          BY <1>2, <3>1, <5>1, <5>2, <5>3, <5>4 DEF WritersInv
      <4>2. CASE SeedChunks(b)
        <5>1. Seeding(b)' => bootDoc'[b] = bootDoc[b] + 1
          BY <2>0, <4>2 DEF SeedChunks, BootGoes, Seeding, TypeOKBoots
        <5>2. status' = status
          BY <4>2 DEF SeedChunks, rowVars
        <5>3. \A j \in DOMAIN SeedDocs : j >= bootDoc[b] + 1 => j > bootDoc[b]
          BY <4>0
        <5> QED
          BY <1>2, <3>1, <4>0, <5>1, <5>2, <5>3 DEF WritersInv
      <4> QED
        BY <2>5, <4>1, <4>2
    <3>6. \A u \in Uploads : Uploading(u) /\ Seeding(b)' /\ uploadOf[u][1] \notin disturbed =>
            uploadOf[u][1] # DocOf(b)'
      <4>1. CASE SeedRow(b)
        <5>1. DocOf(b)' = DocOf(b)
          BY <4>1 DEF SeedRow, DocOf
        <5> QED
          BY <1>2, <3>1, <5>1 DEF WritersInv
      <4>2. CASE SeedChunks(b)
        <5>1. Seeding(b)' => bootAt'[b] = "upsert"
          BY <2>0, <4>2 DEF SeedChunks, BootGoes, Seeding, TypeOKBoots
        <5>2. bootDoc'[b] \in DOMAIN SeedDocs /\ status' = status
          <6>1. bootDoc'[b] = IF bootDoc[b] < Len(SeedDocs) THEN bootDoc[b] + 1 ELSE bootDoc[b]
            BY <2>0, <4>2 DEF SeedChunks, TypeOKBoots
          <6>2. bootDoc[b] \in 1..Len(SeedDocs) /\ Len(SeedDocs) \in Nat
            BY <2>0, ShelfAssumption DEF TypeOKBoots
          <6>3. DOMAIN SeedDocs = 1..Len(SeedDocs)
            BY ShelfAssumption
          <6> QED
            BY <4>2, <6>1, <6>2, <6>3 DEF SeedChunks, rowVars
        <5>3. Seeding(b)' => status[DocOf(b)'] = "absent"
          BY <3>5, <5>1, <5>2 DEF DocOf
        <5> QED
          BY <1>2, <5>3 DEF WritersInv
      <4> QED
        BY <2>5, <4>1, <4>2
    <3>7. \A u \in Uploads : Uploading(u)' <=> Uploading(u)
      BY <3>1 DEF upVars, Uploading
    <3> QED
      BY <1>2, <3>1, <3>2, <3>3, <3>4, <3>5, <3>6, <3>7 DEF WritersInv, upVars
  <2>6. ASSUME NEW p \in Listed, CreateListing(p)
        PROVE  WritersInv'
    <3>1. UNCHANGED <<bootVars, upVars, disturbed>>
      BY <2>6 DEF CreateListing
    <3>2. \A q \in Products : status[q] # "absent" => status'[q] # "absent"
      BY <2>0, <2>6 DEF CreateListing, TypeOKRows
    <3>3. \A j \in DOMAIN SeedDocs : status'[SeedDocs[j]] = status[SeedDocs[j]]
      BY <2>0, <2>6, ShelfAssumption DEF CreateListing, TypeOKRows, Products, Seeds
    <3>4. \A u \in Uploads : Uploading(u) => uploadOf[u][1] \in Products
      BY <2>0 DEF TypeOKRequests, Uploading
    <3> QED
      BY <1>2, <3>1, <3>2, <3>3, <3>4 DEF WritersInv, bootVars, upVars, Uploading, Seeding, DocOf
  <2>7. ASSUME NEW u \in Uploads, NEW p \in Products, NEW n \in Names, StartUpload(u, p, n)
        PROVE  WritersInv'
    <3>1. UNCHANGED <<status, bootAt, bootDoc>> /\ status[p] # "absent"
      BY <2>7 DEF StartUpload, rowVars, bootVars
    <3>2. disturbed' = IF BeingWritten(p) THEN disturbed \cup {p} ELSE disturbed
      BY <2>7 DEF StartUpload
    <3>3. uploadOf'[u][1] = p
      BY <2>0, <2>7 DEF StartUpload, TypeOKRequests, FileKey
    <3>4. \A v \in Uploads : v # u => uploadAt'[v] = uploadAt[v] /\ uploadOf'[v] = uploadOf[v]
      BY <2>0, <2>7 DEF StartUpload, UploadGoes, TypeOKRequests
    <3>5. \A v \in Uploads : v # u /\ Uploading(v)' /\ p \notin disturbed' => uploadOf'[v][1] # p
      BY <3>2, <3>4 DEF BeingWritten, Uploading
    <3>6. \A b \in Boots : Seeding(b)' /\ p \notin disturbed' => DocOf(b)' # p
      BY <3>1, <3>2 DEF BeingWritten, Seeding, DocOf
    <3>7. \A v \in Uploads : Uploading(v)' => status'[uploadOf'[v][1]] # "absent"
      BY <1>2, <3>1, <3>3, <3>4 DEF WritersInv, Uploading
    <3>8. \A v, w \in Uploads :
            Uploading(v)' /\ Uploading(w)' /\ uploadOf'[v][1] = uploadOf'[w][1]
              /\ uploadOf'[v][1] \notin disturbed' => v = w
      BY <1>2, <3>2, <3>3, <3>4, <3>5 DEF WritersInv, Uploading
    <3>9. \A v \in Uploads, b \in Boots :
            Uploading(v)' /\ Seeding(b)' /\ uploadOf'[v][1] \notin disturbed' => uploadOf'[v][1] # DocOf(b)'
      BY <1>2, <3>1, <3>2, <3>3, <3>4, <3>6 DEF WritersInv, Uploading, Seeding, DocOf
    <3> QED
      BY <1>2, <3>1, <3>7, <3>8, <3>9 DEF WritersInv, Seeding
  <2>8. ASSUME NEW u \in Uploads, StoreUpload(u) \/ IndexUpload(u) \/ AttachUpload(u) \/ UploadFails(u)
        PROVE  WritersInv'
    <3>1. UNCHANGED <<status, bootVars, uploadOf>> /\ disturbed \subseteq disturbed'
      BY <2>8 DEF StoreUpload, IndexUpload, AttachUpload, UploadFails, rowVars
    <3>2. \A v \in Uploads : Uploading(v)' => Uploading(v)
      BY <2>0, <2>8 DEF StoreUpload, IndexUpload, AttachUpload, UploadFails, UploadGoes, Uploading,
         TypeOKRequests
    <3> QED
      BY <2>2, <3>1, <3>2 DEF bootVars, Seeding
  <2>9. ASSUME UNCHANGED <<status, bootVars, upVars, disturbed>>
        PROVE  WritersInv'
    BY <2>2, <2>9 DEF bootVars, upVars, Uploading, Seeding
  <2>10. ASSUME NEW d \in Downloads, (\E p \in Products : OpenDownload(d, p)) \/ ReadFileByKey(d)
         PROVE  WritersInv'
    BY <2>9, <2>10 DEF OpenDownload, ReadFileByKey, rowVars
  <2>11. CASE UNCHANGED shelfVars
    BY <2>9, <2>11 DEF shelfVars, rowVars
  <2> QED
    BY <1>2, <2>3, <2>4, <2>5, <2>6, <2>7, <2>8, <2>10, <2>11 DEF ShelfNext
<1> QED
  BY <1>1, <1>2, ShelfTypeCorrect, SeederInvHolds, PTL DEF ShelfSpec

LEMMA WrittenInvHolds == ShelfSpec => [](FilesAreKept => WrittenInv)
<1>1. ShelfInit => WrittenInv
  BY DEF ShelfInit, WrittenInv, UploadWrote, BootWrote, Uploading, Seeding
<1>2. ASSUME TypeOKShelf, SeederInv, WritersInv, FilesAreKept, WrittenInv, [ShelfNext]_shelfVars
      PROVE  WrittenInv'
  <2>0. TypeOKRows /\ TypeOKBoots /\ TypeOKRequests
    BY <1>2 DEF TypeOKShelf
  <2>1. \A b, c \in Boots : Seeding(b) /\ Seeding(c) => b = c
    BY <1>2 DEF SeederInv, Seeding
  <2>2. \A b \in Boots : DocOf(b) \in Products
    BY <2>0, SeedIsAProduct
  <2>3. \A u \in Uploads : Uploading(u) =>
          uploadOf[u] \in Products \X Names /\ uploadOf[u] = <<uploadOf[u][1], uploadOf[u][2]>>
    <3>1. \A u \in Uploads : Uploading(u) => uploadOf[u] \in Products \X Names
      BY <2>0 DEF TypeOKRequests, Uploading
    <3> QED
      BY <3>1
  <2>4. SeedName \in Names /\ KeyOf[SeedName] = SeedName
    BY SeedNameIsAKey
  <2>4a. ASSUME NEW b, NEW at, NEW doc, Put(b, at, doc)
         PROVE  files' = [files EXCEPT ![at] = doc]
    BY <1>2, <2>4a, PutKeeps
  \* Nothing is written, and a writer that ends disturbed what it wrote.
  <2>5. ASSUME UNCHANGED <<key, files, index>>, disturbed \subseteq disturbed',
               \A u \in Uploads : uploadAt'[u] \in {"stored", "indexed"} =>
                 uploadAt'[u] = uploadAt[u] /\ uploadOf'[u] = uploadOf[u],
               \A b \in Boots : bootAt'[b] \in {"key", "index"} =>
                 bootAt'[b] = bootAt[b] /\ bootDoc'[b] = bootDoc[b],
               \A p \in Products \ disturbed' : BeingWritten(p) => BeingWritten(p)'
        PROVE  WrittenInv'
    <3>1. \A u \in Uploads : UploadWrote(u)'
      BY <1>2, <2>5 DEF WrittenInv, UploadWrote, Uploading
    <3>2. \A b \in Boots : BootWrote(b)'
      BY <1>2, <2>5 DEF WrittenInv, BootWrote, Seeding, DocOf, FileKey
    <3>3. \A q \in Products \ disturbed' :
            ~BeingWritten(q)' /\ key'[q] # NoDoc => files'[<<q, key'[q]>>] = index'[q]
      BY <1>2, <2>5 DEF WrittenInv
    <3> QED
      BY <3>1, <3>2, <3>3 DEF WrittenInv
  <2>6. ASSUME NEW b \in Boots,
               \/ Register(b) \/ Claim(b) \/ IsEmpty(b) \/ SeedRow(b) \/ SeedThrows(b)
               \/ Release(b) \/ Kill(b)
        PROVE  WrittenInv'
    <3>1. UNCHANGED <<key, files, index, bootDoc, upVars>> /\ disturbed \subseteq disturbed'
      BY <2>6 DEF Register, Claim, IsEmpty, SeedRow, SeedThrows, Release, Kill, rowVars
    <3>2. \A c \in Boots : c # b => bootAt'[c] = bootAt[c]
      BY <2>0, <2>6 DEF Register, Claim, IsEmpty, SeedRow, SeedThrows, Release, Kill, BootGoes,
         TypeOKBoots
    <3>3. bootAt'[b] \notin {"key", "index"}
      BY <2>0, <2>6 DEF Register, Claim, IsEmpty, SeedRow, SeedThrows, Release, Kill, BootGoes,
         TypeOKBoots
    <3>4. Seeding(b) => Seeding(b)' \/ DocOf(b) \in disturbed'
      BY <2>0, <2>6 DEF Register, Claim, IsEmpty, SeedRow, SeedThrows, Release, Kill, BootGoes,
         Seeding, TypeOKBoots
    <3>5. \A p \in Products \ disturbed' : BeingWritten(p) => BeingWritten(p)'
      BY <3>1, <3>2, <3>4 DEF BeingWritten, upVars, Uploading, Seeding, DocOf
    <3> QED
      BY <2>5, <3>1, <3>2, <3>3, <3>5 DEF upVars
  \* The boot that seeds writes: no upload of that listing runs undisturbed.
  <2>7. ASSUME NEW b \in Boots, SeedFile(b) \/ SeedKey(b) \/ SeedChunks(b)
        PROVE  WrittenInv'
    <3> DEFINE k == KeyOf[SeedName]
    <3>0. PICK p \in Products : p = DocOf(b)
      BY <2>2
    <3>1. Seeding(b) /\ UNCHANGED <<upVars, disturbed>> /\ k \in Names
      BY <2>4, <2>7 DEF SeedFile, SeedKey, SeedChunks, BootGoes, Seeding
    <3>2. \A c \in Boots : c # b => bootAt'[c] = bootAt[c] /\ ~Seeding(c)
      BY <2>0, <2>1, <2>7, <3>1 DEF SeedFile, SeedKey, SeedChunks, BootGoes, TypeOKBoots
    <3>3. \A u \in Uploads : Uploading(u) /\ uploadOf[u][1] \notin disturbed => uploadOf[u][1] # p
      BY <1>2, <3>0, <3>1 DEF WritersInv
    <3>4. /\ \A q \in Products, n \in Names : q # p => files'[<<q, n>>] = files[<<q, n>>]
          /\ \A q \in Products : q # p => key'[q] = key[q] /\ index'[q] = index[q]
      <4>1. CASE SeedFile(b)
        <5>1. files' = [files EXCEPT ![<<p, k>>] = b] /\ UNCHANGED <<key, index>>
          BY <2>4a, <3>0, <4>1 DEF SeedFile, FileKey, rowVars
        <5> QED
          BY <2>0, <5>1 DEF TypeOKRows
      <4>2. CASE SeedKey(b) \/ SeedChunks(b)
        BY <2>0, <3>0, <4>2 DEF SeedKey, SeedChunks, IndexProduct, rowVars, TypeOKRows
      <4> QED
        BY <2>7, <4>1, <4>2
    <3>5. \A u \in Uploads : Uploading(u)' => UploadWrote(u)'
      <4>1. \A u \in Uploads : Uploading(u)' <=> Uploading(u)
        BY <3>1 DEF upVars, Uploading
      <4>2. ASSUME NEW u \in Uploads, Uploading(u), uploadOf[u][1] \notin disturbed
            PROVE  files'[uploadOf[u]] = files[uploadOf[u]] /\ index'[uploadOf[u][1]] = index[uploadOf[u][1]]
        BY <2>3, <3>3, <3>4, <4>2
      <4> QED
        BY <1>2, <3>1, <4>1, <4>2 DEF WrittenInv, UploadWrote, upVars
    <3>6. BootWrote(b)'
      <4>1. CASE SeedFile(b)
        <5>1. bootAt'[b] = "key" /\ files'[FileKey(p, SeedName)] = b /\ bootDoc' = bootDoc
          <6>1. files' = [files EXCEPT ![FileKey(p, SeedName)] = b]
            BY <2>4a, <3>0, <4>1 DEF SeedFile
          <6> QED
            BY <2>0, <3>0, <3>1, <4>1, <6>1 DEF SeedFile, BootGoes, FileKey, TypeOKRows, TypeOKBoots
        <5> QED
          BY <3>0, <5>1 DEF BootWrote, DocOf
      <4>2. CASE SeedKey(b)
        <5>1. bootAt[b] = "key" /\ key'[p] = k /\ UNCHANGED <<files, bootDoc>>
          BY <2>0, <3>0, <3>1, <4>2 DEF SeedKey, BootGoes, TypeOKRows
        <5> QED
          BY <1>2, <3>0, <3>1, <5>1 DEF WrittenInv, BootWrote, DocOf
      <4>3. CASE SeedChunks(b)
        <5>1. bootAt'[b] \notin {"key", "index"}
          BY <2>0, <4>3 DEF SeedChunks, BootGoes, TypeOKBoots
        <5> QED
          BY <5>1 DEF BootWrote
      <4> QED
        BY <2>7, <4>1, <4>2, <4>3
    <3>7. \A c \in Boots : Seeding(c)' => BootWrote(c)'
      BY <3>2, <3>6 DEF Seeding
    <3>8. \A q \in Products \ disturbed' :
            ~BeingWritten(q)' /\ key'[q] # NoDoc => files'[<<q, key'[q]>>] = index'[q]
      <4>1. ASSUME NEW q \in Products \ disturbed', ~BeingWritten(q)', key'[q] # NoDoc, q # p
            PROVE  files'[<<q, key'[q]>>] = index'[q]
        <5>1. ~BeingWritten(q)
          BY <3>0, <3>1, <3>2, <4>1 DEF BeingWritten, upVars, Uploading
        <5>2. key[q] \in Names
          BY <2>0, <3>4, <4>1 DEF TypeOKRows
        <5>3. files[<<q, key[q]>>] = index[q]
          BY <1>2, <3>1, <3>4, <4>1, <5>1 DEF WrittenInv
        <5> QED
          BY <3>4, <4>1, <5>2, <5>3
      <4>2. ASSUME p \notin disturbed', ~BeingWritten(p)'
            PROVE  files'[<<p, key'[p]>>] = index'[p]
        <5>1. CASE SeedFile(b) \/ SeedKey(b)
          <6>1. Seeding(b)' /\ DocOf(b)' = p
            BY <2>0, <3>0, <5>1 DEF SeedFile, SeedKey, BootGoes, Seeding, TypeOKBoots, DocOf
          <6> QED
            BY <4>2, <6>1 DEF BeingWritten
        <5>2. CASE SeedChunks(b)
          <6>1. bootAt[b] = "index" /\ index'[p] = b /\ UNCHANGED <<key, files>>
            BY <2>0, <3>0, <3>1, <5>2 DEF SeedChunks, BootGoes, IndexProduct, rowVars, TypeOKRows
          <6>2. files[<<p, k>>] = b /\ key[p] = k
            BY <1>2, <3>0, <3>1, <4>2, <6>1 DEF WrittenInv, BootWrote, FileKey
          <6> QED
            BY <6>1, <6>2
        <5> QED
          BY <2>7, <5>1, <5>2
      <4> QED
        BY <4>1, <4>2
    <3> QED
      BY <3>5, <3>7, <3>8 DEF WrittenInv
  <2>8. ASSUME NEW p \in Listed, CreateListing(p)
        PROVE  WrittenInv'
    BY <2>5, <2>8 DEF CreateListing, bootVars, upVars, BeingWritten, Uploading, Seeding, DocOf
  <2>9. ASSUME NEW u \in Uploads, NEW p \in Products, NEW n \in Names, StartUpload(u, p, n)
        PROVE  WrittenInv'
    <3>1. UNCHANGED <<key, files, index, bootAt, bootDoc>> /\ disturbed \subseteq disturbed'
      BY <2>9 DEF StartUpload, rowVars, bootVars
    <3>2. uploadAt[u] = "none" /\ uploadAt'[u] \notin {"stored", "indexed"}
      BY <2>0, <2>9 DEF StartUpload, UploadGoes, ExtractText, TypeOKRequests
    <3>3. \A v \in Uploads : v # u => uploadAt'[v] = uploadAt[v] /\ uploadOf'[v] = uploadOf[v]
      BY <2>0, <2>9 DEF StartUpload, UploadGoes, TypeOKRequests
    <3>4. \A q \in Products \ disturbed' : BeingWritten(q) => BeingWritten(q)'
      BY <3>1, <3>2, <3>3 DEF BeingWritten, Uploading, Seeding, DocOf
    <3> QED
      BY <2>5, <3>1, <3>2, <3>3, <3>4
  <2>10. ASSUME NEW u \in Uploads, UploadFails(u)
         PROVE  WrittenInv'
    <3>1. UNCHANGED <<key, files, index, bootAt, bootDoc, uploadOf>>
            /\ disturbed' = disturbed \cup {uploadOf[u][1]}
      BY <2>10 DEF UploadFails, rowVars, bootVars
    <3>2. uploadAt'[u] = "failed" /\ \A v \in Uploads : v # u => uploadAt'[v] = uploadAt[v]
      BY <2>0, <2>10 DEF UploadFails, TypeOKRequests
    <3>3. \A q \in Products \ disturbed' : BeingWritten(q) => BeingWritten(q)'
      BY <3>1, <3>2 DEF BeingWritten, Uploading, Seeding, DocOf
    <3> QED
      BY <2>5, <3>1, <3>2, <3>3
  \* An upload writes: nobody else writes that listing undisturbed.
  <2>11. ASSUME NEW u \in Uploads, StoreUpload(u) \/ IndexUpload(u) \/ AttachUpload(u)
         PROVE  WrittenInv'
    <3>1. Uploading(u) /\ UNCHANGED <<bootAt, bootDoc, uploadOf, disturbed>>
      BY <2>11 DEF StoreUpload, IndexUpload, AttachUpload, UploadGoes, Uploading, bootVars
    <3>2. PICK p \in Products, k \in Names : uploadOf[u] = <<p, k>>
      BY <2>3, <3>1
    <3>3. \A v \in Uploads : v # u => uploadAt'[v] = uploadAt[v]
      BY <2>0, <2>11 DEF StoreUpload, IndexUpload, AttachUpload, UploadGoes, TypeOKRequests
    <3>4. \A v \in Uploads : v # u /\ Uploading(v) /\ uploadOf[v][1] \notin disturbed => uploadOf[v][1] # p
      BY <1>2, <3>1, <3>2 DEF WritersInv
    <3>5. \A b \in Boots : Seeding(b) /\ DocOf(b) \notin disturbed => DocOf(b) # p
      BY <1>2, <3>1, <3>2 DEF WritersInv
    <3>6. /\ \A q \in Products, n \in Names : q # p => files'[<<q, n>>] = files[<<q, n>>]
          /\ \A q \in Products : q # p => key'[q] = key[q] /\ index'[q] = index[q]
      <4>1. CASE StoreUpload(u)
        <5>1. files' = [files EXCEPT ![<<p, k>>] = u] /\ UNCHANGED <<key, index>>
          BY <2>4a, <3>2, <4>1 DEF StoreUpload, rowVars
        <5> QED
          BY <2>0, <5>1 DEF TypeOKRows
      <4>2. CASE IndexUpload(u) \/ AttachUpload(u)
        BY <2>0, <3>2, <4>2 DEF IndexUpload, AttachUpload, IndexProduct, rowVars, TypeOKRows
      <4> QED
        BY <2>11, <4>1, <4>2
    <3>7. UploadWrote(u)'
      <4>1. CASE StoreUpload(u)
        <5>1. uploadAt'[u] = "stored" /\ files'[uploadOf[u]] = u
          <6>1. files' = [files EXCEPT ![uploadOf[u]] = u]
            BY <2>4a, <4>1 DEF StoreUpload
          <6> QED
            BY <2>0, <2>3, <3>1, <4>1, <6>1 DEF StoreUpload, UploadGoes, TypeOKRows, TypeOKRequests
        <5> QED
          BY <3>1, <5>1 DEF UploadWrote
      <4>2. CASE IndexUpload(u)
        <5>1. uploadAt[u] = "stored" /\ files' = files /\ index'[p] = u
          BY <2>0, <3>2, <4>2 DEF IndexUpload, UploadGoes, IndexProduct, TypeOKRows
        <5> QED
          BY <1>2, <3>1, <3>2, <5>1 DEF WrittenInv, UploadWrote
      <4>3. CASE AttachUpload(u)
        <5>1. uploadAt'[u] = "done"
          BY <2>0, <4>3 DEF AttachUpload, UploadGoes, TypeOKRequests
        <5> QED
          BY <5>1 DEF UploadWrote
      <4> QED
        BY <2>11, <4>1, <4>2, <4>3
    <3>8. \A v \in Uploads : Uploading(v)' => UploadWrote(v)'
      <4>1. ASSUME NEW v \in Uploads, v # u, Uploading(v), uploadOf[v][1] \notin disturbed
            PROVE  files'[uploadOf[v]] = files[uploadOf[v]] /\ index'[uploadOf[v][1]] = index[uploadOf[v][1]]
        BY <2>3, <3>4, <3>6, <4>1
      <4>2. \A v \in Uploads : v # u => (Uploading(v)' <=> Uploading(v))
        BY <3>3 DEF Uploading
      <4> QED
        BY <1>2, <3>1, <3>3, <3>7, <4>1, <4>2 DEF WrittenInv, UploadWrote
    <3>9. \A b \in Boots : Seeding(b)' => BootWrote(b)'
      <4>1. ASSUME NEW b \in Boots, Seeding(b), DocOf(b) \notin disturbed
            PROVE  files'[FileKey(DocOf(b), SeedName)] = files[FileKey(DocOf(b), SeedName)]
                     /\ key'[DocOf(b)] = key[DocOf(b)]
        BY <2>2, <2>4, <3>5, <3>6, <4>1 DEF FileKey
      <4>2. \A b \in Boots : DocOf(b)' = DocOf(b) /\ (Seeding(b)' <=> Seeding(b))
        BY <3>1 DEF DocOf, Seeding
      <4> QED
        BY <1>2, <3>1, <4>1, <4>2 DEF WrittenInv, BootWrote
    <3>10. \A q \in Products \ disturbed' :
            ~BeingWritten(q)' /\ key'[q] # NoDoc => files'[<<q, key'[q]>>] = index'[q]
      <4>1. ASSUME NEW q \in Products \ disturbed', ~BeingWritten(q)', key'[q] # NoDoc, q # p
            PROVE  files'[<<q, key'[q]>>] = index'[q]
        <5>1. ~BeingWritten(q)
          BY <3>1, <3>2, <3>3, <4>1 DEF BeingWritten, Uploading, Seeding, DocOf
        <5>2. key[q] \in Names
          BY <2>0, <3>6, <4>1 DEF TypeOKRows
        <5>3. files[<<q, key[q]>>] = index[q]
          BY <1>2, <3>1, <3>6, <4>1, <5>1 DEF WrittenInv
        <5> QED
          BY <3>6, <4>1, <5>2, <5>3
      <4>2. ASSUME p \notin disturbed', ~BeingWritten(p)'
            PROVE  files'[<<p, key'[p]>>] = index'[p]
        <5>1. CASE StoreUpload(u) \/ IndexUpload(u)
          <6>1. Uploading(u)'
            BY <2>0, <5>1 DEF StoreUpload, IndexUpload, UploadGoes, Uploading, TypeOKRequests
          <6>2. uploadOf'[u][1] = p
            BY <3>1, <3>2
          <6> QED
            BY <4>2, <6>1, <6>2 DEF BeingWritten
        <5>2. CASE AttachUpload(u)
          <6>1. uploadAt[u] = "indexed" /\ key'[p] = k /\ UNCHANGED <<files, index>>
            BY <2>0, <3>2, <5>2 DEF AttachUpload, UploadGoes, TypeOKRows
          <6>2. files[<<p, k>>] = u /\ index[p] = u
            BY <1>2, <3>1, <3>2, <4>2, <6>1 DEF WrittenInv, UploadWrote
          <6> QED
            BY <6>1, <6>2
        <5> QED
          BY <2>11, <5>1, <5>2
      <4> QED
        BY <4>1, <4>2
    <3> QED
      BY <3>8, <3>9, <3>10 DEF WrittenInv
  <2>12. ASSUME NEW d \in Downloads, (\E p \in Products : OpenDownload(d, p)) \/ ReadFileByKey(d)
         PROVE  WrittenInv'
    BY <2>5, <2>12 DEF OpenDownload, ReadFileByKey, rowVars, bootVars, upVars, BeingWritten,
       Uploading, Seeding, DocOf
  <2>13. CASE UNCHANGED shelfVars
    BY <2>5, <2>13 DEF shelfVars, rowVars, bootVars, upVars, BeingWritten, Uploading, Seeding, DocOf
  <2> QED
    BY <1>2, <2>6, <2>7, <2>8, <2>9, <2>10, <2>11, <2>12, <2>13 DEF ShelfNext
<1>3. TypeOKShelf /\ SeederInv /\ WritersInv /\ (FilesAreKept => WrittenInv) /\ [ShelfNext]_shelfVars
        => (FilesAreKept => WrittenInv)'
  BY <1>2, SettingStays DEF FilesAreKept
<1> QED
  BY <1>1, <1>3, ShelfTypeCorrect, SeederInvHolds, WritersInvHolds, PTL DEF ShelfSpec

\* With a bucket, or a disk that lasts, what the assistant has read of a listing
\* that no upload and no seed failed on or met another in is what a buyer downloads
\* (upload/route.ts:25).
THEOREM FileIsIndexedHolds == ShelfSpec => []FileIsIndexed
<1>1. (FilesAreKept => WrittenInv) => FileIsIndexed
  BY DEF WrittenInv, FileIsIndexed
<1> QED
  BY <1>1, WrittenInvHolds, PTL
=============================================================================
