------------------------ MODULE KotasyncUpdateProofs ------------------------
(***************************************************************************)
(* The theorems about fetch_manifest and about download_update, for        *)
(* archives of any versions, files and sizes.                              *)
(***************************************************************************)
EXTENDS KotasyncUpdate, WellFoundedInduction, TLAPS

Saving == at \in {"save", "write", "etag"}

VersionsOK ==
  /\ server \in Versions
  /\ manifest_file \in Version0 /\ etag_file \in Version0 /\ fetched \in Version0
  /\ etag \in Version0 /\ manifest \in Version0 /\ response.version \in Version0

\* What is on disk is the server's or older, and the ETag is never newer than
\* a manifest that can be read: one may be left without the other, and the
\* server may publish at any time.
OnDisk ==
  /\ manifest_file <= server /\ etag_file <= server
  /\ manifest_file # 0 => etag_file <= manifest_file

\* The ETag sent is that of the manifest on disk; the answer is the server's
\* when it answered, and no older than what it replaces.
Fetching ==
  /\ at = "request" \/ Saving => stage = "start"
  /\ at = "request" /\ etag # 0 => manifest_file # 0 /\ etag = etag_file
  /\ Saving => /\ response.version # 0 /\ response.version = fetched
               /\ fetched <= server /\ etag_file <= fetched
  /\ at = "etag" => manifest_file = fetched

IInv == VersionsOK /\ OnDisk /\ Fetching /\ FreshManifest

\* The versions are numbers in order.
LEMMA VersionNumbers == Versions \subseteq Nat \ {0} /\ 1 \in Versions
<1>1. Contents \in Seq(Seq(Nat)) /\ Contents # <<>> BY UpdateAssumption
<1>2. Versions = 1 .. Len(Contents) /\ Len(Contents) \in Nat BY <1>1 DEF Versions
<1>3. Len(Contents) > 0 BY <1>1
<1> QED BY <1>2, <1>3

\* Every step of fetching, and every failure, crash and publication.
LEMMA StepKeepsIInv == IInv /\ [Next]_vars => IInv'
<1> SUFFICES ASSUME IInv, [Next]_vars PROVE IInv' OBVIOUS
<1>a. VersionsOK /\ OnDisk /\ Fetching /\ FreshManifest BY DEF IInv
<1>0. Version0 \subseteq Nat /\ Versions \subseteq Nat \ {0}
  BY VersionNumbers DEF Version0
<1>b. /\ server \in Nat \ {0} /\ manifest_file \in Nat /\ etag_file \in Nat
      /\ fetched \in Nat /\ etag \in Nat /\ response.version \in Nat
  BY <1>a, <1>0 DEF VersionsOK
<1>1. CASE FetchStart
  BY <1>1, <1>a, <1>b DEF FetchStart, files, IInv, VersionsOK, OnDisk, Fetching, Saving,
     FreshManifest, Version0
<1>2. CASE NotModified
  <2>1. manifest_file = server /\ manifest_file # 0
    BY <1>2, <1>a, <1>b DEF NotModified, OnDisk, Fetching
  <2> QED BY <2>1, <1>2, <1>a, <1>b DEF NotModified, files, IInv, VersionsOK, OnDisk,
             Fetching, Saving, FreshManifest, Version0
<1>3. CASE Modified
  <2>1. response'.version = server BY <1>3 DEF Modified
  <2> QED BY <2>1, <1>3, <1>a, <1>b DEF Modified, files, known, IInv, VersionsOK, OnDisk,
             Fetching, Saving, FreshManifest, Version0
<1>4. CASE SaveCreate
  BY <1>4, <1>a, <1>b DEF SaveCreate, fetching, known, IInv, VersionsOK, OnDisk,
     Fetching, Saving, FreshManifest, Version0
<1>5. CASE SaveWrite
  BY <1>5, <1>a, <1>b DEF SaveWrite, fetching, known, IInv, VersionsOK, OnDisk,
     Fetching, Saving, FreshManifest, Version0
<1>6. CASE EtagSave
  BY <1>6, <1>a, <1>b DEF EtagSave, fetching, IInv, VersionsOK, OnDisk,
     Fetching, Saving, FreshManifest, Version0
<1>7. CASE prepare_update
  BY <1>7, <1>a, <1>b DEF prepare_update, files, fetching, IInv, VersionsOK, OnDisk,
     Fetching, Saving, FreshManifest, Version0
<1>8. CASE Crash
  BY <1>8, <1>a, <1>b DEF Crash, files, IInv, VersionsOK, OnDisk, Fetching, Saving,
     FreshManifest, Version0
<1>9. CASE ServerPublishes
  <2>1. server' = server + 1 /\ server' \in Versions /\ server' > server
    BY <1>9, <1>b DEF ServerPublishes
  <2> QED BY <2>1, <1>9, <1>a, <1>b DEF ServerPublishes, files, known, fetching, IInv,
             VersionsOK, OnDisk, Fetching, Saving, FreshManifest, Version0
<1>10. CASE UNCHANGED <<server, files, known, fetching>>
            /\ (at' = at \/ at' \notin {"request", "save", "write", "etag"})
  BY <1>10, <1>a DEF files, known, fetching, IInv, VersionsOK, OnDisk, Fetching, Saving,
     FreshManifest
<1>11. Raises \/ DownloadStart \/ RangeBegins \/ Chunk \/ BodyEnds \/ WriteEntry
       \/ Progress \/ Publish \/ UNCHANGED vars
       => /\ UNCHANGED <<server, files, known, fetching>>
          /\ at' = at \/ at' \notin {"request", "save", "write", "etag"}
  BY DEF Raises, DownloadStart, RangeBegins, Chunk, BodyEnds, AfterBody, WriteEntry, Progress,
         Publish, vars, files, known, fetching
<1> QED BY <1>1, <1>2, <1>3, <1>4, <1>5, <1>6, <1>7, <1>8, <1>9, <1>10, <1>11 DEF Next

\* A manifest that is returned is the server's, whatever failed before.
THEOREM ManifestsAreFresh == Spec => []FreshManifest
<1>1. Init => IInv
  BY VersionNumbers DEF Init, IInv, VersionsOK, OnDisk, Fetching, Saving, FreshManifest,
     Version0
<1>2. IInv => FreshManifest BY DEF IInv
<1> QED BY <1>1, <1>2, StepKeepsIInv, PTL DEF Spec

-----------------------------------------------------------------------------
(* The download.                                                           *)

\* The number of units up to the end of entry s.
EndOf(s) == s * Size

Downloading == at \in {"range", "body", "write chunk", "publish"}

\* A download is of what the installed files lack of the manifest in memory.
Prepared ==
  /\ stage = "prepared" => manifest # 0 /\ missing_files = Missing(manifest)
  /\ Downloading => stage = "prepared"

InStep ==
  /\ dl.next + dl.chunk <= dl.end
  /\ dl.left < Size /\ (dl.left > 0 => dl.entry \in Files)
  /\ Downloading /\ at # "write chunk" => dl.chunk = 0

\* A range ends with an entry that no missing one follows.
RangeEnds == \E e \in 0 .. Len(Seed) : dl.end = EndOf(e) /\ (e = 0 \/ e + 1 \notin missing_files)

\* Between two entries: exactly the missing ones up to the position are done.
Between == \E m \in 0 .. Len(Seed) :
             dl.next = EndOf(m) /\ \A s \in missing_files : s <= dl.entry <=> s <= m

(* Entries are begun in order and none is left before it has its hash,     *)
(* wherever the bodies of the ranges end.                                  *)
Verified ==
  /\ \A s \in missing_files : s < dl.entry \/ (s = dl.entry /\ dl.left = 0) =>
       dl.part[s] = Wanted(manifest, s)
  /\ \A s \in missing_files : s > dl.entry => dl.part[s] = {}

(* While bodies end with their ranges, position and entry are in step; what *)
(* a range still brings are missing entries.                                *)
Received ==
  /\ dl.left > 0 => dl.entry \in missing_files /\ dl.next + dl.left = EndOf(dl.entry)
  /\ dl.left = 0 => Between
  /\ \A s \in Files : dl.next < EndOf(s) /\ EndOf(s) <= dl.end => s \in missing_files
  /\ RangeEnds
  /\ at \in {"range", "publish"} => dl.next = dl.end /\ dl.left = 0
  /\ at = "publish" => Ahead = {}

DownloadInv ==
  /\ TypeOK /\ Prepared /\ InStep /\ PublishedComplete
  /\ Downloading => Verified
  /\ Downloading /\ dl.whole => Received

LEMMA MinOfNats ==
  ASSUME NEW S \in SUBSET Nat, S # {}
  PROVE  Min(S) \in S /\ \A y \in S : Min(S) <= y
<1>1. \E x \in S : \A y \in S : ~(<<y, x>> \in OpToRel(<, Nat))
  BY NatLessThanWellFounded, WFMin
<1>2. \A x, y \in Nat : <<y, x>> \in OpToRel(<, Nat) <=> y < x BY DEF OpToRel
<1>3. PICK x \in S : \A y \in S : ~(<<y, x>> \in OpToRel(<, Nat)) BY <1>1
<1>4. \A y \in S : y \in Nat /\ ~(y < x) BY <1>2, <1>3
<1>5. \A y \in S : x <= y BY <1>4
<1> QED BY <1>5 DEF Min

\* Entries follow one another, each Size units long.
LEMMA EntriesFollow ==
  ASSUME NEW a \in Nat, NEW b \in Nat
  PROVE  /\ EndOf(a) \in Nat /\ EndOf(0) = 0 /\ EndOf(a + 1) = EndOf(a) + Size
         /\ a <= b <=> EndOf(a) <= EndOf(b)
         /\ a < b <=> EndOf(a) < EndOf(b)
         /\ Size \in Nat \ {0}
<1>0. Size \in Nat \ {0} BY UpdateAssumption
<1>1. EndOf(a) \in Nat /\ EndOf(0) = 0 /\ EndOf(b) \in Nat BY <1>0 DEF EndOf
<1>2. EndOf(a + 1) = EndOf(a) + Size BY <1>0 DEF EndOf
<1>3. a <= b => EndOf(a) <= EndOf(b) BY <1>0 DEF EndOf
<1>4. b < a => EndOf(b) < EndOf(a)
  <2>1. SUFFICES ASSUME b < a PROVE EndOf(b) < EndOf(a) OBVIOUS
  <2>2. (b + 1) * Size <= a * Size BY <1>0, <2>1
  <2>3. (b + 1) * Size = b * Size + Size BY <1>0
  <2> QED BY <1>0, <1>1, <2>2, <2>3 DEF EndOf
<1>5. a < b => EndOf(a) < EndOf(b)
  <2>1. SUFFICES ASSUME a < b PROVE EndOf(a) < EndOf(b) OBVIOUS
  <2>2. (a + 1) * Size <= b * Size BY <1>0, <2>1
  <2>3. (a + 1) * Size = a * Size + Size BY <1>0
  <2> QED BY <1>0, <1>1, <2>2, <2>3 DEF EndOf
<1> QED BY <1>0, <1>1, <1>2, <1>3, <1>4, <1>5

LEMMA ArchiveFacts ==
  /\ Files = 1 .. Len(Seed) /\ Len(Seed) \in Nat
  /\ Size \in Nat \ {0} /\ Units = EndOf(Len(Seed)) /\ Units \in Nat
  /\ \A v \in Versions : \A s \in Files : Contents[v][s] \in Hashes
  /\ Versions \subseteq Nat \ {0}
<1>1. Files = 1 .. Len(Seed) /\ Len(Seed) \in Nat /\ Size \in Nat \ {0}
  BY UpdateAssumption DEF Files
<1>2. Units = EndOf(Len(Seed)) /\ Units \in Nat BY <1>1 DEF Units, EndOf
<1> QED BY <1>1, <1>2, VersionNumbers DEF Hashes

\* Every missing entry is in a range: the runs of missing files that cannot be
\* longer cover them.
LEMMA RangesCover ==
  ASSUME missing_files \subseteq Files, NEW s \in missing_files
  PROVE  \E r \in merge_ranges : r[1] <= s /\ s <= r[2]
<1>1. Files = 1 .. Len(Seed) /\ Len(Seed) \in Nat /\ s \in 1 .. Len(Seed)
  BY ArchiveFacts
<1> DEFINE Starts == {a \in Files : a <= s /\ a .. s \subseteq missing_files}
           Lengths == {Len(Seed) - b : b \in {c \in Files : s <= c /\ s .. c \subseteq missing_files}}
<1>2. s \in Starts
  <2>1. s .. s = {s} BY <1>1
  <2> QED BY <2>1, <1>1
<1>3. Len(Seed) - s \in Lengths
  <2>1. s .. s = {s} BY <1>1
  <2> QED BY <2>1, <1>1
<1>4. Starts \subseteq Nat /\ Lengths \subseteq Nat BY <1>1
<1>5. PICK a \in Starts : \A x \in Starts : a <= x BY <1>2, <1>4, MinOfNats
<1>6. PICK l \in Lengths : \A x \in Lengths : l <= x BY <1>3, <1>4, MinOfNats
<1>7. PICK b \in Files : l = Len(Seed) - b /\ s <= b /\ s .. b \subseteq missing_files
  BY <1>6
<1>8. a \in Files /\ a <= s /\ a .. s \subseteq missing_files BY <1>5
<1>9. a .. b \subseteq missing_files BY <1>1, <1>7, <1>8
<1>10. a - 1 \notin missing_files
  <2> SUFFICES ASSUME a - 1 \in missing_files PROVE FALSE OBVIOUS
  <2>1. a - 1 \in Files BY ArchiveFacts
  <2>2. (a - 1) .. s \subseteq missing_files
    <3> SUFFICES ASSUME NEW x \in (a - 1) .. s PROVE x \in missing_files OBVIOUS
    <3>1. x = a - 1 \/ x \in a .. s BY <1>1, <1>8
    <3> QED BY <3>1, <1>8
  <2>3. a - 1 \in Starts BY <1>1, <1>8, <2>1, <2>2
  <2> QED BY <2>3, <1>1, <1>5, <1>8
<1>11. b + 1 \notin missing_files
  <2> SUFFICES ASSUME b + 1 \in missing_files PROVE FALSE OBVIOUS
  <2>1. b + 1 \in Files BY ArchiveFacts
  <2>2. s .. (b + 1) \subseteq missing_files
    <3> SUFFICES ASSUME NEW x \in s .. (b + 1) PROVE x \in missing_files OBVIOUS
    <3>1. x = b + 1 \/ x \in s .. b BY <1>1, <1>7
    <3> QED BY <3>1, <1>7
  <2>3. Len(Seed) - (b + 1) \in Lengths BY <1>1, <1>7, <2>1, <2>2
  <2> HIDE DEF Lengths
  <2>4. l <= Len(Seed) - (b + 1) BY <2>3, <1>6
  <2> QED BY <2>4, <1>1, <1>7
<1>12. <<a, b>> \in merge_ranges
  BY <1>1, <1>7, <1>8, <1>9, <1>10, <1>11 DEF merge_ranges
<1> QED BY <1>7, <1>8, <1>12

\* A missing entry beyond the end of the last range is in a range ahead.
LEMMA BeyondIsAhead ==
  ASSUME missing_files \subseteq Files, RangeEnds,
         NEW s \in missing_files, dl.end < EndOf(s)
  PROVE  \E r \in Ahead : r[1] <= s /\ s <= r[2]
<1>0. Files = 1 .. Len(Seed) /\ Len(Seed) \in Nat BY ArchiveFacts
<1>1. PICK r \in merge_ranges : r[1] <= s /\ s <= r[2] BY RangesCover
<1>2. /\ r[1] \in 1 .. Len(Seed) /\ r[2] \in 1 .. Len(Seed)
      /\ r[1] .. r[2] \subseteq missing_files
  BY <1>0, <1>1 DEF merge_ranges
<1>3. PICK e \in 0 .. Len(Seed) : dl.end = EndOf(e) /\ (e = 0 \/ e + 1 \notin missing_files)
  BY DEF RangeEnds
<1>4. s \in Nat /\ e \in Nat /\ e < s BY <1>0, <1>3, EntriesFollow
<1>5. e <= r[1] - 1
  <2> SUFFICES ASSUME r[1] <= e PROVE FALSE BY <1>2, <1>4
  <2>1. e + 1 \in r[1] .. r[2] BY <1>1, <1>2, <1>4
  <2> QED BY <2>1, <1>2, <1>3
<1>6. r[1] - 1 \in Nat BY <1>2
<1>7. (r[1] - 1) * Size >= dl.end BY <1>3, <1>4, <1>5, <1>6, EntriesFollow DEF EndOf
<1> QED BY <1>1, <1>7 DEF Ahead

Downloads == [part : Parts, version : Versions, next : 0 .. Units, end : 0 .. Units,
              chunk : 0 .. Units, entry : Files \cup {0}, left : 0 .. Size,
              whole : BOOLEAN]

LEMMA DownloadTyped ==
  ASSUME TypeOK
  PROVE  /\ dl \in Downloads /\ dl.part \in Parts /\ dl.version \in Versions
         /\ dl.next \in Nat /\ dl.end \in Nat /\ dl.chunk \in Nat /\ dl.end <= Units
         /\ dl.entry \in Nat /\ dl.entry \in Files \cup {0} /\ dl.left \in 0 .. Size
         /\ dl.left \in Nat /\ dl.whole \in BOOLEAN
<1>1. dl \in Downloads BY DEF TypeOK, Downloads
<1>2. /\ dl.part \in Parts /\ dl.version \in Versions
      /\ dl.next \in 0 .. Units /\ dl.end \in 0 .. Units /\ dl.chunk \in 0 .. Units
      /\ dl.entry \in Files \cup {0} /\ dl.left \in 0 .. Size /\ dl.whole \in BOOLEAN
  BY <1>1 DEF Downloads
<1>3. Units \in Nat /\ Size \in Nat /\ Files = 1 .. Len(Seed) BY ArchiveFacts
<1> QED BY <1>1, <1>2, <1>3

\* The unit the server sends for a position of the archive.
LEMMA SentIsUnit ==
  ASSUME TypeOK, NEW k \in Nat, k < Units
  PROVE  Sent(k) \in Hashes \X Files \X (0 .. Size - 1)
<1> DEFINE q == k \div Size  m == k % Size
<1>1. Size \in Nat \ {0} /\ Files = 1 .. Len(Seed) /\ Len(Seed) \in Nat
      /\ Units = EndOf(Len(Seed))
  BY ArchiveFacts
<1>2. q \in Nat /\ m \in 0 .. Size - 1 /\ k = q * Size + m BY <1>1
<1> HIDE DEF q, m
<1>3. q * Size <= k BY <1>1, <1>2
<1>4. EndOf(q) < EndOf(Len(Seed)) BY <1>1, <1>2, <1>3 DEF EndOf
<1>5. q + 1 \in Files BY <1>1, <1>2, <1>4, EntriesFollow
<1>6. dl.version \in Versions BY DownloadTyped
<1>7. Contents[dl.version][q + 1] \in Hashes BY <1>5, <1>6, ArchiveFacts
<1>8. Sent(k) = <<Contents[dl.version][q + 1], q + 1, m>> BY DEF Sent, q, m
<1> QED BY <1>2, <1>5, <1>7, <1>8

\* The loop takes at least one unit, no more than the chunk or the entry has.
LEMMA CountBounds ==
  ASSUME TypeOK, dl.chunk > 0
  PROVE  LET rest == IF dl.left > 0 THEN dl.left ELSE Size
         IN  Count \in 1 .. dl.chunk /\ Count <= rest /\ rest \in 1 .. Size
<1> DEFINE rest == IF dl.left > 0 THEN dl.left ELSE Size
<1>1. dl.left \in 0 .. Size /\ dl.chunk \in Nat /\ Size \in Nat \ {0} /\ Units \in Nat
  BY DownloadTyped, ArchiveFacts
<1>2. rest \in 1 .. Size BY <1>1
<1> HIDE DEF rest
<1>3. {rest, dl.chunk} \in SUBSET Nat /\ {rest, dl.chunk} # {} BY <1>1, <1>2
<1>4. /\ Min({rest, dl.chunk}) \in {rest, dl.chunk}
      /\ \A y \in {rest, dl.chunk} : Min({rest, dl.chunk}) <= y
  BY <1>3, MinOfNats
<1>5. Count = Min({rest, dl.chunk}) BY DEF Count, rest
<1> QED BY <1>1, <1>2, <1>4, <1>5 DEF rest

\* The entry being received is the current one, or the next that is missing.
LEMMA EntryKnown ==
  ASSUME TypeOK, missing_files \subseteq Files,
         dl.left > 0 \/ \E s \in missing_files : s > dl.entry
  PROVE  /\ dl.left > 0 => Entry = dl.entry
         /\ ~(dl.left > 0) => /\ Entry \in missing_files /\ Entry > dl.entry
                              /\ \A s \in missing_files : s > dl.entry => Entry <= s
<1>1. CASE dl.left > 0 BY <1>1 DEF Entry
<1>2. CASE ~(dl.left > 0)
  <2> DEFINE S == {s \in missing_files : s > dl.entry}
  <2>1. S \in SUBSET Nat
    <3>1. \A s \in missing_files : s \in Nat
      <4>1. missing_files \subseteq 1 .. Len(Seed) BY ArchiveFacts
      <4> QED BY <4>1
    <3>2. S \subseteq missing_files OBVIOUS
    <3> QED BY <3>1, <3>2
  <2>4. S # {} BY <1>2
  <2>2. Min(S) \in S /\ \A y \in S : Min(S) <= y BY <2>1, <2>4, MinOfNats
  <2>3. Entry = Min(S) BY <1>2 DEF Entry
  <2> QED BY <1>2, <2>2, <2>3
<1> QED BY <1>1, <1>2

\* One turn of the loop, field by field.
LEMMA WrittenFields ==
  ASSUME TypeOK, InStep, missing_files \subseteq Files, dl.chunk > 0,
         dl.left > 0 => dl.entry \in Files,
         dl.left > 0 \/ \E s \in missing_files : s > dl.entry
  PROVE  /\ Written \in Downloads /\ Entry \in Files
         /\ Written.next = dl.next + Count /\ Written.chunk = dl.chunk - Count
         /\ Written.left = (IF dl.left > 0 THEN dl.left ELSE Size) - Count
         /\ Written.left < Size
         /\ Written.end = dl.end /\ Written.entry = Entry
         /\ Written.whole = dl.whole
         /\ \A s \in Files \ {Entry} : Written.part[s] = dl.part[s]
<1> DEFINE rest == IF dl.left > 0 THEN dl.left ELSE Size
           new == {Sent(k) : k \in dl.next .. dl.next + Count - 1}
<1>1. dl \in Downloads /\ Size \in Nat \ {0} /\ Units \in Nat
  BY ArchiveFacts, DownloadTyped
<1>2. Count \in 1 .. dl.chunk /\ Count <= rest /\ rest \in 1 .. Size BY CountBounds
<1>3. Entry \in Files BY EntryKnown
<1>4. dl.next \in Nat /\ dl.end \in 0 .. Units /\ dl.chunk \in Nat /\ dl.next + dl.chunk <= dl.end
  <2> HIDE DEF rest, new
  <2>1. dl.next + dl.chunk <= dl.end BY DEF InStep
  <2>2. dl.next \in Nat /\ dl.chunk \in Nat /\ dl.end \in Nat /\ dl.end <= Units
    BY DownloadTyped
  <2> QED BY <1>1, <2>1, <2>2
<1>5. dl.next + Count \in 0 .. Units /\ dl.chunk - Count \in 0 .. Units
  BY <1>1, <1>2, <1>4
<1>6. new \subseteq Hashes \X Files \X (0 .. Size - 1)
  <2>1. \A k \in dl.next .. dl.next + Count - 1 : k \in Nat /\ k < Units
    BY <1>1, <1>2, <1>4
  <2> QED BY <2>1, SentIsUnit
<1>7. rest - Count \in 0 .. Size /\ rest - Count < Size BY <1>1, <1>2
<1>8. dl.part \in Parts BY <1>1 DEF Downloads
<1> DEFINE part == [dl.part EXCEPT ![Entry] = dl.part[Entry] \cup new]
<1>9. part \in Parts /\ \A s \in Files \ {Entry} : part[s] = dl.part[s]
  BY <1>3, <1>6, <1>8 DEF Parts
<1>10. Written = [dl EXCEPT !.part = part, !.next = dl.next + Count, !.chunk = dl.chunk - Count,
                            !.entry = Entry, !.left = rest - Count]
  BY <1>1 DEF Written, Downloads
<1> HIDE DEF rest, new, part
<1>11. Written \in Downloads
  BY <1>1, <1>3, <1>5, <1>7, <1>9, <1>10 DEF Downloads
<1>12. /\ Written.next = dl.next + Count /\ Written.chunk = dl.chunk - Count
       /\ Written.left = rest - Count /\ Written.end = dl.end /\ Written.entry = Entry
       /\ Written.whole = dl.whole /\ Written.part = part
  BY <1>1, <1>10 DEF Downloads
<1> QED BY <1>3, <1>7, <1>9, <1>11, <1>12 DEF rest

OuterTyped ==
  /\ server \in Versions
  /\ {manifest_file, etag_file, manifest, etag, fetched} \subseteq Version0
  /\ missing_files \subseteq Files
  /\ stage \in {"start", "fetched", "prepared"}
  /\ at \in {"idle", "request", "save", "write", "etag", "range", "body", "write chunk",
             "publish"}
  /\ response \in [version : Version0, weak : BOOLEAN]

Updates == [exists : BOOLEAN, part : Parts, manifest : Version0, whole : BOOLEAN]

LEMMA TypesSplit ==
  TypeOK <=> OuterTyped /\ dl \in Downloads /\ update_file \in Updates
BY DEF TypeOK, OuterTyped, Downloads, Updates

LEMMA NextTypesSplit ==
  TypeOK' <=> OuterTyped' /\ dl' \in Downloads /\ update_file' \in Updates
BY DEF TypeOK, OuterTyped, Downloads, Updates

\* A step that leaves the download and what is published alone.
LEMMA Aside ==
  ASSUME DownloadInv, OuterTyped', Prepared', UNCHANGED <<dl, update_file>>,
         \/ ~Downloading'
         \/ at' = at /\ manifest' = manifest /\ missing_files' = missing_files
  PROVE  DownloadInv'
<1>1. TypeOK /\ InStep /\ PublishedComplete BY DEF DownloadInv
<1>2. TypeOK' BY <1>1, TypesSplit, NextTypesSplit
<1>3. PublishedComplete' BY <1>1 DEF PublishedComplete, InOrder, Complete
<1>4. InStep' /\ (Downloading' => Verified') /\ (Downloading' /\ dl'.whole => Received')
  <2>1. CASE ~Downloading' BY <2>1, <1>1 DEF InStep
  <2>2. CASE Downloading' /\ at' = at /\ manifest' = manifest /\ missing_files' = missing_files
    <3>1. Downloading BY <2>2 DEF Downloading
    <3>2. Ahead' = Ahead BY <2>2 DEF Ahead, merge_ranges
    <3>3. Verified' BY <2>2, <3>1 DEF DownloadInv, Verified, Wanted
    <3>4. InStep' BY <2>2, <3>1 DEF DownloadInv, InStep, Downloading
    <3> QED BY <2>2, <3>1, <3>2, <3>3, <3>4 DEF DownloadInv, Received, Between, RangeEnds
  <2> QED BY <2>1, <2>2
<1> QED BY <1>2, <1>3, <1>4 DEF DownloadInv

LEMMA DownloadStartKeeps ==
  ASSUME DownloadInv, DownloadStart
  PROVE  DownloadInv'
<1>1. /\ at' = "range" /\ update_file' = NoUpdate /\ dl' = NoDownload /\ stage = "prepared"
      /\ UNCHANGED <<server, manifest_file, etag_file, manifest, missing_files, stage,
                     etag, response, fetched>>
  BY DEF DownloadStart, files, known, fetching
<1>2. OuterTyped /\ Prepared BY TypesSplit DEF DownloadInv
<1>3. NoDownload \in Downloads /\ NoUpdate \in Updates
  <2>1. 0 \in 0 .. Units /\ 0 \in 0 .. Size /\ 1 \in Versions BY ArchiveFacts, VersionNumbers
  <2>2. [s \in Files |-> {}] \in Parts BY DEF Parts
  <2> QED BY <2>1, <2>2 DEF NoDownload, NoUpdate, Downloads, Updates, Version0
<1>4. TypeOK' BY <1>1, <1>2, <1>3, NextTypesSplit DEF OuterTyped
<1>5. Prepared' BY <1>1, <1>2 DEF Prepared
<1>6. /\ dl'.next = 0 /\ dl'.end = 0 /\ dl'.chunk = 0 /\ dl'.left = 0 /\ dl'.entry = 0
     /\ \A s \in Files : dl'.part[s] = {}
  BY <1>1 DEF NoDownload
<1>7. /\ Size \in Nat \ {0} /\ Files = 1 .. Len(Seed) /\ Len(Seed) \in Nat /\ EndOf(0) = 0
      /\ \A s \in Nat : EndOf(s) \in Nat
  BY ArchiveFacts, EntriesFollow
<1>8. InStep' BY <1>6, <1>7 DEF InStep
<1>9. PublishedComplete' BY <1>1 DEF PublishedComplete, NoUpdate
<1>10. Received'
  <2>3. 0 \in 0 .. Len(Seed) /\ dl'.next = EndOf(0) /\ dl'.end = EndOf(0) BY <1>6, <1>7
  <2>4. Between' BY <1>6, <2>3 DEF Between
  <2>5. RangeEnds' BY <2>3 DEF RangeEnds
  <2>6. \A s \in Files : ~(dl'.next < EndOf(s) /\ EndOf(s) <= dl'.end) BY <1>6, <1>7
  <2> QED BY <1>1, <1>6, <2>4, <2>5, <2>6 DEF Received
<1>11. Verified'
  <2>1. missing_files' \subseteq 1 .. Len(Seed) BY <1>1, <1>2, <1>7 DEF OuterTyped
  <2>2. \A s \in missing_files' : ~(s < dl'.entry \/ (s = dl'.entry /\ dl'.left = 0))
    BY <1>6, <1>7, <2>1
  <2> QED BY <1>6, <1>7, <2>1, <2>2 DEF Verified
<1> QED BY <1>4, <1>5, <1>8, <1>9, <1>10, <1>11 DEF DownloadInv

\* A step that leaves the entries as they are.
LEMMA VerifiedStays ==
  ASSUME Verified, manifest' = manifest, missing_files' = missing_files,
         dl'.left = dl.left, dl'.entry = dl.entry, dl'.part = dl.part
  PROVE  Verified'
BY DEF Verified, Wanted

LEMMA RangeBeginsKeeps ==
  ASSUME DownloadInv, RangeBegins
  PROVE  DownloadInv'
<1>1. /\ at = "range" /\ at' = "body" /\ Ahead # {}
      /\ UNCHANGED <<server, manifest_file, etag_file, update_file, manifest, missing_files,
                     stage, etag, response, fetched>>
  BY DEF RangeBegins, files, known, fetching
<1>2. /\ OuterTyped /\ Prepared /\ InStep /\ TypeOK /\ PublishedComplete /\ dl \in Downloads
      /\ missing_files \subseteq Files /\ update_file \in Updates
  BY TypesSplit DEF DownloadInv, OuterTyped
<1>3. Files = 1 .. Len(Seed) /\ Len(Seed) \in Nat /\ Units = EndOf(Len(Seed))
  BY ArchiveFacts
<1>4. \A r \in Ahead : /\ r \in merge_ranges /\ r[1] \in Nat /\ r[1] \in Files /\ r[2] \in Files
                       /\ r[1] <= r[2] /\ r[1] .. r[2] \subseteq missing_files
                       /\ r[2] + 1 \notin missing_files /\ (r[1] - 1) * Size >= dl.end
  BY <1>3 DEF Ahead, merge_ranges
<1> DEFINE Firsts == {r[1] : r \in Ahead}
           next == CHOOSE r \in Ahead : \A q \in Ahead : r[1] <= q[1]
<1>5. next \in Ahead /\ \A q \in Ahead : next[1] <= q[1]
  <2>1. Firsts \in SUBSET Nat /\ Firsts # {} BY <1>1, <1>4
  <2>2. Min(Firsts) \in Firsts /\ \A y \in Firsts : Min(Firsts) <= y BY <2>1, MinOfNats
  <2>3. \E r \in Ahead : \A q \in Ahead : r[1] <= q[1] BY <2>2
  <2> QED BY <2>3
<1>6. dl' = [dl EXCEPT !.version = server, !.next = (next[1] - 1) * Size, !.end = next[2] * Size]
  BY DEF RangeBegins
<1> HIDE DEF Firsts, next
<1> DEFINE a == next[1] - 1  b == next[2]
<1>7. /\ a \in 0 .. Len(Seed) /\ b \in 1 .. Len(Seed) /\ a < b /\ a + 1 = next[1]
      /\ (a + 1) .. b \subseteq missing_files /\ b + 1 \notin missing_files
      /\ EndOf(a) >= dl.end
  BY <1>3, <1>4, <1>5 DEF EndOf
<1>8. dl' = [dl EXCEPT !.version = server, !.next = EndOf(a), !.end = EndOf(b)]
  BY <1>6 DEF EndOf
<1> HIDE DEF a, b
<1>9. EndOf(a) \in 0 .. Units /\ EndOf(b) \in 0 .. Units /\ EndOf(a) <= EndOf(b)
  BY <1>3, <1>7, EntriesFollow
<1>10. dl' \in Downloads BY <1>2, <1>8, <1>9 DEF Downloads, OuterTyped
<1>11. /\ dl'.next = EndOf(a) /\ dl'.end = EndOf(b) /\ dl'.chunk = dl.chunk
       /\ dl'.left = dl.left /\ dl'.entry = dl.entry /\ dl'.part = dl.part
       /\ dl'.whole = dl.whole
  BY <1>2, <1>8 DEF Downloads
<1>12. TypeOK'
  BY <1>1, <1>2, <1>10, NextTypesSplit DEF OuterTyped
<1>13. Prepared' BY <1>1, <1>2 DEF Prepared, Downloading
<1>14. InStep'
  <2>1. dl.chunk = 0 BY <1>1, <1>2 DEF InStep, Downloading
  <2> QED BY <1>2, <1>9, <1>11, <2>1 DEF InStep
<1>15. PublishedComplete' BY <1>1, <1>2 DEF PublishedComplete, InOrder, Complete
<1>16. ASSUME dl'.whole PROVE Received'
  <2>1. Received /\ Downloading
    BY <1>1, <1>11, <1>16 DEF DownloadInv, Downloading
  <2>2. dl.next = dl.end /\ dl.left = 0 /\ Between /\ RangeEnds BY <1>1, <2>1 DEF Received
  <2>3. PICK m \in 0 .. Len(Seed) :
          dl.next = EndOf(m) /\ \A s \in missing_files : s <= dl.entry <=> s <= m
    BY <2>2 DEF Between
  <2>4. m <= a BY <1>7, <2>2, <2>3, EntriesFollow
  <2>5. ASSUME NEW s \in missing_files, s > m PROVE s > a
    <3>1. s \in Nat /\ EndOf(m) < EndOf(s) BY <1>2, <1>3, <2>3, <2>5, EntriesFollow
    <3>2. PICK r \in Ahead : r[1] <= s /\ s <= r[2]
      BY <1>2, <2>2, <2>3, <3>1, BeyondIsAhead
    <3>3. r[1] \in Nat /\ next[1] \in Nat /\ next[1] <= r[1] BY <1>4, <1>5, <3>2
    <3> QED BY <1>7, <3>1, <3>2, <3>3
  <2>6. Between'
    <3>1. \A s \in missing_files : s <= dl.entry <=> s <= a
      BY <1>2, <1>3, <1>7, <2>3, <2>4, <2>5
    <3> QED BY <1>1, <1>7, <1>11, <3>1 DEF Between
  <2>7. RangeEnds' BY <1>1, <1>3, <1>7, <1>11 DEF RangeEnds
  <2>8. \A s \in Files : dl'.next < EndOf(s) /\ EndOf(s) <= dl'.end => s \in missing_files
    <3> SUFFICES ASSUME NEW s \in Files, EndOf(a) < EndOf(s), EndOf(s) <= EndOf(b)
                 PROVE  s \in missing_files
      BY <1>11
    <3>1. a < s /\ s <= b BY <1>3, <1>7, EntriesFollow
    <3>2. s \in (a + 1) .. b BY <1>3, <1>7, <3>1
    <3> QED BY <1>7, <3>2
  <2> QED BY <1>1, <1>11, <2>2, <2>6, <2>7, <2>8 DEF Received
<1>17. Verified' BY <1>1, <1>11, VerifiedStays DEF DownloadInv, Downloading
<1> QED BY <1>12, <1>13, <1>14, <1>15, <1>16, <1>17 DEF DownloadInv

\* A step that leaves the position as it is.
LEMMA ReceivedStays ==
  ASSUME Received, manifest' = manifest, missing_files' = missing_files,
         dl'.next = dl.next, dl'.end = dl.end, dl'.left = dl.left, dl'.entry = dl.entry,
         at' \in {"range", "publish"} => dl.next = dl.end /\ dl.left = 0,
         at' = "publish" => Ahead' = {}
  PROVE  Received'
<1>3. Between => Between' BY DEF Between
<1>4. RangeEnds' BY DEF Received, RangeEnds
<1>5. \A s \in Files : dl'.next < EndOf(s) /\ EndOf(s) <= dl'.end => s \in missing_files'
  BY DEF Received
<1>6. dl'.left > 0 => dl'.entry \in missing_files' /\ dl'.next + dl'.left = EndOf(dl'.entry)
  BY DEF Received
<1>7. dl'.left = 0 => Between' BY <1>3 DEF Received
<1>8. at' \in {"range", "publish"} => dl'.next = dl'.end /\ dl'.left = 0 OBVIOUS
<1> QED BY <1>4, <1>5, <1>6, <1>7, <1>8 DEF Received

LEMMA ChunkKeeps ==
  ASSUME DownloadInv, Chunk
  PROVE  DownloadInv'
<1>1. PICK len \in 1 .. dl.end - dl.next : dl' = [dl EXCEPT !.chunk = len] BY DEF Chunk
<1>2. /\ at = "body" /\ at' = "write chunk"
      /\ UNCHANGED <<server, manifest_file, etag_file, update_file, manifest, missing_files,
                     stage, etag, response, fetched>>
  BY DEF Chunk, files, known, fetching
<1>3. /\ OuterTyped /\ Prepared /\ InStep /\ TypeOK /\ PublishedComplete /\ dl \in Downloads
      /\ update_file \in Updates
  BY TypesSplit DEF DownloadInv
<1>4. dl.next \in Nat /\ dl.end \in Nat /\ dl.end <= Units /\ Units \in Nat
  BY <1>3, DownloadTyped, ArchiveFacts
<1>5. len \in 0 .. Units /\ dl.next + len <= dl.end BY <1>1, <1>4
<1>6. dl' \in Downloads BY <1>1, <1>3, <1>5 DEF Downloads
<1>7. /\ dl'.next = dl.next /\ dl'.end = dl.end /\ dl'.chunk = len
      /\ dl'.left = dl.left /\ dl'.entry = dl.entry /\ dl'.part = dl.part
      /\ dl'.whole = dl.whole
  BY <1>1, <1>3 DEF Downloads
<1>8. TypeOK' BY <1>2, <1>3, <1>6, NextTypesSplit DEF OuterTyped
<1>9. Prepared' BY <1>2, <1>3 DEF Prepared, Downloading
<1>10. InStep' BY <1>2, <1>3, <1>5, <1>7 DEF InStep
<1>11. PublishedComplete' BY <1>2, <1>3 DEF PublishedComplete, InOrder, Complete
<1>12. ASSUME dl'.whole PROVE Received'
  <2>1. Received BY <1>2, <1>7, <1>12 DEF DownloadInv, Downloading
  <2> QED BY <1>2, <1>7, <2>1, ReceivedStays
<1>13. Verified' BY <1>2, <1>7, VerifiedStays DEF DownloadInv, Downloading
<1> QED BY <1>8, <1>9, <1>10, <1>11, <1>12, <1>13 DEF DownloadInv

\* A range ends with an entry, so at its end nothing is left of one.
LEMMA EndOfRangeEndsEntry ==
  ASSUME TypeOK, InStep, Received, dl.next = dl.end
  PROVE  dl.left = 0
<1> SUFFICES ASSUME dl.left # 0 PROVE FALSE OBVIOUS
<1>1. PICK e \in 0 .. Len(Seed) : dl.end = EndOf(e) BY DEF Received, RangeEnds
<1>0. /\ dl.left \in Nat /\ dl.end \in Nat /\ Size \in Nat /\ Len(Seed) \in Nat
      /\ dl.entry \in Nat /\ e \in Nat
  BY DownloadTyped, ArchiveFacts
<1>1a. dl.left < Size BY DEF InStep
<1>2. dl.left > 0 /\ dl.left < Size BY <1>0, <1>1a
<1>3. dl.entry \in missing_files /\ dl.next + dl.left = EndOf(dl.entry)
  BY <1>2 DEF Received
<1>4. dl.entry \in Nat /\ e \in Nat /\ e + 1 \in Nat BY <1>0
<1>5. EndOf(dl.entry) = EndOf(e) + dl.left /\ EndOf(e) \in Nat
  BY <1>1, <1>3, <1>4, EntriesFollow
<1>6. EndOf(e) < EndOf(dl.entry) /\ EndOf(dl.entry) < EndOf(e + 1)
  <2>1. EndOf(e + 1) = EndOf(e) + Size /\ EndOf(dl.entry) \in Nat
    BY <1>4, EntriesFollow
  <2> QED BY <1>0, <1>2, <1>5, <2>1
<1>7. e < dl.entry BY <1>4, <1>6, EntriesFollow
<1>8. dl.entry < e + 1 BY <1>4, <1>6, EntriesFollow
<1> QED BY <1>4, <1>7, <1>8

\* The end of a body, wherever it comes: only one at the end of its range leaves
\* the download whole, and then it has come to the end of an entry.
LEMMA BodyOverKeeps ==
  ASSUME DownloadInv, at \in {"body", "write chunk"}, dl.chunk = 0,
         at' = AfterBody, dl' = BodyOver,
         UNCHANGED <<server, files, update_file, known, fetching>>
  PROVE  DownloadInv'
<1>1. /\ at' \in {"publish", "range"} /\ (at' = "publish" => Ahead = {})
      /\ UNCHANGED <<server, manifest_file, etag_file, update_file, manifest, missing_files,
                     stage, etag, response, fetched>>
  BY DEF AfterBody, files, known, fetching
<1>2. /\ OuterTyped /\ Prepared /\ InStep /\ TypeOK /\ PublishedComplete
      /\ missing_files \subseteq Files /\ dl \in Downloads /\ update_file \in Updates
  BY TypesSplit DEF DownloadInv, OuterTyped
<1>3. /\ dl' \in Downloads /\ dl'.next = dl.next /\ dl'.end = dl.end /\ dl'.chunk = 0
      /\ dl'.left = dl.left /\ dl'.entry = dl.entry /\ dl'.part = dl.part
      /\ dl'.whole = (dl.whole /\ dl.next = dl.end)
  <2>1. dl.whole \in BOOLEAN /\ (dl.whole /\ dl.next = dl.end) \in BOOLEAN
    BY <1>2, DownloadTyped
  <2> QED BY <1>2, <2>1 DEF BodyOver, Downloads
<1>4. TypeOK' BY <1>1, <1>2, <1>3, NextTypesSplit DEF OuterTyped
<1>5. Prepared' BY <1>1, <1>2 DEF Prepared, Downloading
<1>6. InStep' BY <1>1, <1>2, <1>3 DEF InStep, Downloading
<1>7. PublishedComplete' BY <1>1, <1>2 DEF PublishedComplete, InOrder, Complete
<1>8. Verified' BY <1>1, <1>3, VerifiedStays DEF DownloadInv, Downloading
<1>9. ASSUME dl'.whole PROVE Received'
  <2>0. dl.whole /\ dl.next = dl.end BY <1>3, <1>9
  <2>1. Received BY <2>0 DEF DownloadInv, Downloading
  <2>2. dl.left = 0 BY <1>2, <2>0, <2>1, EndOfRangeEndsEntry
  <2>3. Ahead' = Ahead BY <1>1, <1>3 DEF Ahead, merge_ranges
  <2> QED BY <1>1, <1>3, <2>0, <2>1, <2>2, <2>3, ReceivedStays
<1> QED BY <1>4, <1>5, <1>6, <1>7, <1>8, <1>9 DEF DownloadInv

LEMMA BodyEndsKeeps ==
  ASSUME DownloadInv, BodyEnds
  PROVE  DownloadInv'
<1>1. dl.chunk = 0 BY DEF BodyEnds, DownloadInv, InStep, Downloading
<1> QED BY <1>1, BodyOverKeeps DEF BodyEnds

LEMMA ProgressKeeps ==
  ASSUME DownloadInv, Progress
  PROVE  DownloadInv'
<1>1. /\ at = "write chunk" /\ dl.chunk = 0
      /\ UNCHANGED <<server, files, update_file, known, fetching>>
  BY DEF Progress
<1>2. CASE at' = AfterBody /\ dl' = BodyOver BY <1>1, <1>2, BodyOverKeeps
<1>3. CASE at' = "body" /\ dl' = dl
  <2>1. OuterTyped /\ Prepared /\ InStep /\ TypeOK /\ PublishedComplete
    BY TypesSplit DEF DownloadInv
  <2>2. OuterTyped' BY <1>1, <1>3, <2>1 DEF OuterTyped, files, known, fetching
  <2>3. TypeOK' BY <1>1, <1>3, <2>1, <2>2, TypesSplit, NextTypesSplit
  <2>4. Prepared' BY <1>1, <1>3, <2>1 DEF Prepared, Downloading, known
  <2>5. InStep' BY <1>1, <1>3, <2>1 DEF InStep
  <2>6. PublishedComplete' BY <1>1, <2>1 DEF PublishedComplete, InOrder, Complete
  <2>7. Verified' BY <1>1, <1>3, VerifiedStays DEF DownloadInv, Downloading, known
  <2>8. dl'.whole => Received'
    BY <1>1, <1>3, ReceivedStays DEF DownloadInv, Downloading, known
  <2> QED BY <2>3, <2>4, <2>5, <2>6, <2>7, <2>8 DEF DownloadInv
<1> QED BY <1>2, <1>3 DEF Progress

\* The entry is done only if it has its hash, and position and entry move
\* together.
LEMMA WriteEntryKeeps ==
  ASSUME DownloadInv, WriteEntry
  PROVE  DownloadInv'
<1>1. /\ at = "write chunk" /\ dl.chunk > 0
      /\ dl.left > 0 \/ \E s \in missing_files : s > dl.entry
      /\ UNCHANGED <<server, manifest_file, etag_file, update_file, manifest, missing_files,
                     stage, etag, response, fetched>>
  BY DEF WriteEntry, files, known, fetching
<1>2. /\ OuterTyped /\ Prepared /\ InStep /\ TypeOK /\ PublishedComplete /\ dl \in Downloads
      /\ update_file \in Updates /\ missing_files \subseteq Files
  BY TypesSplit DEF DownloadInv, OuterTyped
<1>3. CASE at' = "idle" /\ dl' = dl
  <2>1. OuterTyped' /\ Prepared' /\ ~Downloading'
    BY <1>1, <1>2, <1>3 DEF OuterTyped, Prepared, Downloading
  <2> QED BY <1>1, <1>3, <2>1, Aside
<1>4. CASE /\ Written.left # 0 \/ Written.part[Entry] = Wanted(manifest, Entry)
           /\ dl' = Written /\ at' = at
  <2>1. /\ Written \in Downloads /\ Entry \in Files
        /\ Written.next = dl.next + Count /\ Written.chunk = dl.chunk - Count
        /\ Written.left = (IF dl.left > 0 THEN dl.left ELSE Size) - Count
        /\ Written.left < Size
        /\ Written.end = dl.end /\ Written.entry = Entry
        /\ Written.whole = dl.whole
        /\ \A s \in Files \ {Entry} : Written.part[s] = dl.part[s]
    BY <1>1, <1>2, WrittenFields DEF InStep
  <2>2. /\ dl.next \in Nat /\ dl.end \in Nat /\ dl.chunk \in Nat /\ dl.left \in Nat
        /\ dl.entry \in Nat /\ Size \in Nat \ {0} /\ Files = 1 .. Len(Seed) /\ Len(Seed) \in Nat
        /\ Units = EndOf(Len(Seed))
    BY <1>2, DownloadTyped, ArchiveFacts
  <2>3. Count \in Nat /\ Count >= 1 /\ Count <= dl.chunk
        /\ Count <= (IF dl.left > 0 THEN dl.left ELSE Size)
    <3>1. Count \in 1 .. dl.chunk /\ Count <= (IF dl.left > 0 THEN dl.left ELSE Size)
      BY <1>1, <1>2, CountBounds
    <3> QED BY <2>2, <3>1
  <2>4. TypeOK' BY <1>1, <1>2, <1>4, <2>1, NextTypesSplit DEF OuterTyped
  <2>5. Prepared' BY <1>1, <1>2, <1>4 DEF Prepared, Downloading
  <2>6. InStep'
    <3>1. dl.next + dl.chunk <= dl.end BY <1>2 DEF InStep
    <3>2. dl'.next + dl'.chunk <= dl'.end BY <1>4, <2>1, <2>2, <2>3, <3>1
    <3> QED BY <1>1, <1>4, <2>1, <3>2 DEF InStep
  <2>7. PublishedComplete' BY <1>1, <1>2 DEF PublishedComplete, InOrder, Complete
  <2>9. Verified'
    <3>0. Verified BY <1>1 DEF DownloadInv, Downloading
    <3>1. Entry \in Nat /\ \A s \in missing_files : s \in Nat BY <1>2, <2>1, <2>2
    <3>2. ASSUME NEW s \in missing_files, s # Entry
          PROVE  /\ s < Entry => dl.part[s] = Wanted(manifest, s)
                 /\ s > Entry => dl.part[s] = {}
      <4>1. CASE dl.left > 0
        <5>1. Entry = dl.entry BY <4>1, <1>1, <1>2, EntryKnown
        <5> QED BY <5>1, <3>0 DEF Verified
      <4>2. CASE ~(dl.left > 0)
        <5>1. Entry > dl.entry /\ (s > dl.entry => Entry <= s)
          BY <4>2, <1>1, <1>2, EntryKnown
        <5>2. s < Entry => s < dl.entry \/ (s = dl.entry /\ dl.left = 0)
          BY <4>2, <5>1, <3>1, <2>2
        <5>3. s > Entry => s > dl.entry BY <5>1, <3>1, <2>2
        <5> QED BY <5>2, <5>3, <3>0 DEF Verified
      <4> QED BY <4>1, <4>2
    <3>3. \A s \in missing_files \ {Entry} : dl'.part[s] = dl.part[s] BY <1>2, <1>4, <2>1
    <3>4. ASSUME NEW s \in missing_files
          PROVE  /\ s < Entry \/ (s = Entry /\ dl'.left = 0) =>
                      dl'.part[s] = Wanted(manifest, s)
                 /\ s > Entry => dl'.part[s] = {}
      <4>1. CASE s = Entry BY <4>1, <1>4, <3>1
      <4>2. CASE s # Entry BY <4>2, <3>1, <3>2, <3>3
      <4> QED BY <4>1, <4>2
    <3>5. missing_files' = missing_files /\ manifest' = manifest /\ dl'.entry = Entry
      BY <1>1, <1>4, <2>1
    <3>6. ASSUME NEW s \in missing_files'
          PROVE  /\ s < dl'.entry \/ (s = dl'.entry /\ dl'.left = 0) =>
                      dl'.part[s] = Wanted(manifest', s)
                 /\ s > dl'.entry => dl'.part[s] = {}
      BY <3>4, <3>5
    <3> QED BY <3>6 DEF Verified, Wanted
  <2>8. ASSUME dl'.whole PROVE Received'
    <3>1. Received BY <1>1, <1>4, <2>1, <2>8 DEF DownloadInv, Downloading
    <3>2. RangeEnds' BY <1>1, <1>4, <2>1, <3>1 DEF Received, RangeEnds
    <3>3. \A s \in Files : dl'.next < EndOf(s) /\ EndOf(s) <= dl'.end => s \in missing_files
      <4> SUFFICES ASSUME NEW s \in Files, dl'.next < EndOf(s), EndOf(s) <= dl'.end
                   PROVE  s \in missing_files
        OBVIOUS
      <4>1. EndOf(s) \in Nat BY <2>2, EntriesFollow
      <4>2. dl.next < EndOf(s) /\ EndOf(s) <= dl.end BY <1>4, <2>1, <2>2, <2>3, <4>1
      <4> QED BY <3>1, <4>2 DEF Received
    <3>4. /\ Entry \in missing_files
          /\ dl.next + (IF dl.left > 0 THEN dl.left ELSE Size) = EndOf(Entry)
      <4>1. CASE dl.left > 0
        <5>1. Entry = dl.entry BY <4>1, <1>1, <1>2, EntryKnown
        <5> QED BY <4>1, <5>1, <3>1 DEF Received
      <4>2. CASE ~(dl.left > 0)
        <5>1. /\ Entry \in missing_files /\ Entry > dl.entry
              /\ \A s \in missing_files : s > dl.entry => Entry <= s
          BY <4>2, <1>1, <1>2, EntryKnown
        <5>2. PICK m \in 0 .. Len(Seed) :
                dl.next = EndOf(m) /\ \A s \in missing_files : s <= dl.entry <=> s <= m
          BY <4>2, <2>2, <3>1 DEF Received, Between
        <5>3. PICK e \in 0 .. Len(Seed) : dl.end = EndOf(e) BY <3>1 DEF Received, RangeEnds
        <5>4. m \in Nat /\ e \in Nat /\ m + 1 \in Nat BY <2>2
        <5>5. EndOf(m) < EndOf(e)
          <6>1. dl.next + dl.chunk <= dl.end BY <1>2 DEF InStep
          <6>2. dl.chunk > 0 BY <1>1
          <6> QED BY <2>2, <5>2, <5>3, <6>1, <6>2
        <5>6. m < e BY <5>4, <5>5, EntriesFollow
        <5>7. m + 1 \in Files BY <2>2, <5>4, <5>6
        <5>8. /\ EndOf(m) < EndOf(m + 1) /\ EndOf(m + 1) <= EndOf(e)
              /\ EndOf(m + 1) = EndOf(m) + Size
          BY <5>4, <5>6, EntriesFollow
        <5>9. m + 1 \in missing_files BY <3>1, <5>2, <5>3, <5>7, <5>8 DEF Received
        <5>10. m + 1 > dl.entry BY <2>2, <5>2, <5>4, <5>9
        <5>11. Entry <= m + 1 BY <5>1, <5>9, <5>10
        <5>12. Entry > m BY <2>1, <2>2, <5>1, <5>2, <5>4
        <5>13. Entry = m + 1 BY <2>1, <2>2, <5>4, <5>11, <5>12
        <5> QED BY <4>2, <5>1, <5>2, <5>8, <5>13
      <4> QED BY <4>1, <4>2
    <3>5. Entry \in Nat /\ EndOf(Entry) \in Nat BY <2>1, <2>2, EntriesFollow
    <3>6. dl'.next + dl'.left = EndOf(dl'.entry) /\ dl'.entry = Entry /\ dl'.left \in Nat
      <4> DEFINE rest == IF dl.left > 0 THEN dl.left ELSE Size
      <4>1. rest \in Nat /\ dl.next + rest = EndOf(Entry) /\ Count <= rest
            /\ dl'.next = dl.next + Count /\ dl'.left = rest - Count
        BY <1>4, <2>1, <2>2, <2>3, <3>4
      <4> HIDE DEF rest
      <4> QED BY <4>1, <1>4, <2>1, <2>2, <2>3
    <3>8. dl'.left = 0 => Between'
      <4> SUFFICES ASSUME dl'.left = 0 PROVE Between' OBVIOUS
      <4>1. dl'.next = EndOf(Entry) /\ Entry \in 0 .. Len(Seed)
        <5>1. dl'.next \in Nat BY <1>4, <2>1, <2>2, <2>3
        <5> QED BY <2>1, <2>2, <3>5, <3>6, <5>1
      <4>2. \A s \in missing_files' : s <= dl'.entry <=> s <= Entry BY <3>6
      <4> QED BY <4>1, <4>2 DEF Between
    <3>10. dl'.left > 0 => dl'.entry \in missing_files' /\ dl'.next + dl'.left = EndOf(dl'.entry)
      BY <1>1, <3>4, <3>6
    <3>11. \A s \in Files : dl'.next < EndOf(s) /\ EndOf(s) <= dl'.end => s \in missing_files'
      BY <1>1, <3>3
    <3>12. at' = "write chunk" BY <1>1, <1>4
    <3> QED BY <3>2, <3>8, <3>10, <3>11, <3>12 DEF Received
  <2> QED BY <2>4, <2>5, <2>6, <2>7, <2>8, <2>9 DEF DownloadInv
<1> QED BY <1>3, <1>4 DEF WriteEntry

\* Index and footer follow the last range: nothing is missing then.
LEMMA PublishKeeps ==
  ASSUME DownloadInv, Publish
  PROVE  DownloadInv'
<1>1. /\ at = "publish" /\ at' = "idle" /\ dl' = dl
      /\ update_file' = [exists |-> TRUE, part |-> dl.part, manifest |-> manifest,
                         whole |-> dl.whole]
      /\ UNCHANGED <<server, manifest_file, etag_file, manifest, missing_files,
                     stage, etag, response, fetched>>
  BY DEF Publish, files, known, fetching
<1>2. /\ OuterTyped /\ Prepared /\ InStep /\ TypeOK /\ PublishedComplete
      /\ missing_files \subseteq Files /\ manifest \in Version0 /\ dl \in Downloads
  BY TypesSplit DEF DownloadInv, OuterTyped
<1>3. dl.part \in Parts /\ dl.whole \in BOOLEAN BY <1>2, DownloadTyped
<1>4. TypeOK'
  <2>1. update_file' \in Updates BY <1>1, <1>2, <1>3 DEF Updates
  <2> QED BY <1>1, <1>2, <2>1, NextTypesSplit DEF OuterTyped
<1>5. Prepared' /\ ~Downloading' /\ InStep'
  BY <1>1, <1>2 DEF Prepared, Downloading, InStep
<1>6. PublishedComplete'
  <2>0. Verified BY <1>1 DEF DownloadInv, Downloading
  <2>10. InOrder(update_file)'
    <3>1. dl.entry \in Files \cup {0} /\ missing_files = Missing(manifest)
      BY <1>1, <1>2, DownloadTyped DEF Prepared, Downloading
    <3>2. \A s \in Missing(manifest) : /\ s < dl.entry => dl.part[s] = Wanted(manifest, s)
                                       /\ s > dl.entry => dl.part[s] = {}
      BY <2>0, <3>1 DEF Verified
    <3>3. update_file'.manifest = manifest /\ update_file'.part = dl.part BY <1>1
    <3>4. \A s \in Missing(update_file'.manifest) :
            /\ s < dl.entry => update_file'.part[s] = Wanted(update_file'.manifest, s)
            /\ s > dl.entry => update_file'.part[s] = {}
      BY <3>2, <3>3
    <3> QED BY <3>1, <3>4 DEF InOrder
  <2> SUFFICES ASSUME dl.whole PROVE Complete(update_file)'
    BY <1>1, <2>10 DEF PublishedComplete
  <2>1. Received BY <1>1 DEF DownloadInv, Downloading
  <2>2. missing_files = Missing(manifest)
    BY <1>1, <1>2 DEF Prepared, Downloading
  <2>3. dl.next = dl.end /\ dl.left = 0 /\ Ahead = {} /\ RangeEnds /\ Between
    BY <1>1, <2>1 DEF Received
  <2>4. ASSUME NEW s \in missing_files PROVE dl.part[s] = Wanted(manifest, s)
    <3>0. s \in Nat /\ dl.entry \in Nat /\ Len(Seed) \in Nat
      BY <1>2, ArchiveFacts, DownloadTyped
    <3>1. PICK m \in 0 .. Len(Seed) :
            dl.next = EndOf(m) /\ \A t \in missing_files : t <= dl.entry <=> t <= m
      BY <2>3 DEF Between
    <3>2. m \in Nat /\ EndOf(m) \in Nat /\ EndOf(s) \in Nat BY <3>0, EntriesFollow
    <3>3. ~(dl.end < EndOf(s)) BY <1>2, <2>3, BeyondIsAhead
    <3>4. EndOf(s) <= EndOf(m) BY <2>3, <3>1, <3>2, <3>3
    <3>5. s <= m BY <3>0, <3>2, <3>4, EntriesFollow
    <3>6. s <= dl.entry BY <3>1, <3>5
    <3>7. s < dl.entry \/ (s = dl.entry /\ dl.left = 0) BY <2>3, <3>0, <3>6
    <3> QED BY <2>0, <3>7 DEF Verified
  <2>5. update_file'.manifest = manifest /\ update_file'.part = dl.part BY <1>1
  <2>6. \A s \in Missing(manifest) : update_file'.part[s] = Wanted(update_file'.manifest, s)
    BY <2>2, <2>4, <2>5
  <2>7. Missing(update_file'.manifest) = Missing(manifest) BY <2>5
  <2> QED BY <2>6, <2>7 DEF Complete, Missing, Wanted
<1> QED BY <1>4, <1>5, <1>6 DEF DownloadInv

LEMMA StepKeepsDownloadInv ==
  ASSUME DownloadInv, FreshManifest, [Next]_vars
  PROVE  DownloadInv'
<1>1. OuterTyped /\ Prepared /\ FreshManifest /\ missing_files \subseteq Files
  BY TypesSplit DEF DownloadInv, OuterTyped
<1>2. 0 \in Version0 /\ Versions \subseteq Version0 BY DEF Version0
<1>3. CASE FetchStart
  <2>1. OuterTyped' /\ Prepared' /\ ~Downloading' /\ UNCHANGED <<dl, update_file>>
    BY <1>1, <1>2, <1>3 DEF FetchStart, files, OuterTyped, Prepared, Downloading
  <2> QED BY <2>1, Aside
<1>4. CASE NotModified
  <2>1. OuterTyped' /\ Prepared' /\ ~Downloading' /\ UNCHANGED <<dl, update_file>>
    BY <1>1, <1>2, <1>4 DEF NotModified, files, OuterTyped, Prepared, Downloading
  <2> QED BY <2>1, Aside
<1>5. CASE Modified
  <2>1. response' \in [version : Version0, weak : BOOLEAN]
    BY <1>1, <1>2, <1>5 DEF Modified, OuterTyped
  <2>2. OuterTyped' /\ Prepared' /\ ~Downloading' /\ UNCHANGED <<dl, update_file>>
    BY <1>1, <1>2, <1>5, <2>1 DEF Modified, files, known, OuterTyped, Prepared, Downloading, Missing
  <2> QED BY <2>2, Aside
<1>6. CASE SaveCreate \/ SaveWrite \/ EtagSave
  <2>1. response.version \in Version0 BY <1>1 DEF OuterTyped
  <2>2. OuterTyped' /\ Prepared' /\ ~Downloading' /\ UNCHANGED <<dl, update_file>>
    BY <1>1, <1>2, <1>6, <2>1
       DEF SaveCreate, SaveWrite, EtagSave, fetching, known, OuterTyped, Prepared, Downloading
  <2> QED BY <2>2, Aside
<1>7. CASE prepare_update
  <2>1. manifest # 0 /\ Missing(manifest) \subseteq Files
    BY <1>1, <1>7 DEF prepare_update, FreshManifest, Missing
  <2>2. /\ UNCHANGED <<server, files, update_file, manifest, at, fetching, dl>> /\ at = "idle"
        /\ \/ missing_files' = Missing(manifest) /\ stage' \in {"fetched", "prepared"}
           \/ stage' = "fetched" /\ missing_files' = missing_files
    BY <1>7 DEF prepare_update
  <2>3. OuterTyped' BY <1>1, <2>1, <2>2 DEF OuterTyped, files, fetching
  <2>4. Prepared' /\ ~Downloading' BY <2>1, <2>2 DEF Prepared, Downloading
  <2> QED BY <2>2, <2>3, <2>4, Aside
<1>8. CASE Raises
  <2>1. OuterTyped' /\ Prepared' /\ ~Downloading' /\ UNCHANGED <<dl, update_file>>
    BY <1>1, <1>8 DEF Raises, files, known, fetching, OuterTyped, Prepared, Downloading
  <2> QED BY <2>1, Aside
<1>9. CASE Crash
  <2>1. /\ dl' = NoDownload /\ update_file' = update_file /\ at' = "idle" /\ stage' = "start"
    BY <1>9 DEF Crash
  <2>2. OuterTyped' /\ Prepared' /\ ~Downloading'
    BY <1>1, <1>2, <1>9 DEF Crash, files, OuterTyped, Prepared, Downloading
  <2>3. NoDownload \in Downloads
    <3>1. 0 \in 0 .. Units /\ 0 \in 0 .. Size /\ 1 \in Versions BY ArchiveFacts, VersionNumbers
    <3>2. [s \in Files |-> {}] \in Parts BY DEF Parts
    <3> QED BY <3>1, <3>2 DEF NoDownload, Downloads
  <2>4. TypeOK' BY <2>1, <2>2, <2>3, TypesSplit, NextTypesSplit DEF DownloadInv
  <2>5. InStep'
    <3>1. dl'.next = 0 /\ dl'.end = 0 /\ dl'.chunk = 0 /\ dl'.left = 0 BY <2>1 DEF NoDownload
    <3> QED BY <3>1, ArchiveFacts DEF InStep
  <2>6. PublishedComplete' BY <2>1 DEF DownloadInv, PublishedComplete, InOrder, Complete
  <2> QED BY <2>2, <2>4, <2>5, <2>6 DEF DownloadInv
<1>10. CASE ServerPublishes
  <2>1. OuterTyped' BY <1>1, <1>10 DEF ServerPublishes, files, known, fetching, OuterTyped
  <2>2. UNCHANGED <<dl, update_file, at, manifest, missing_files, stage>>
    BY <1>10 DEF ServerPublishes, known
  <2>3. Prepared' BY <1>1, <2>2 DEF Prepared, Downloading
  <2> QED BY <2>1, <2>2, <2>3, Aside
<1>11. CASE UNCHANGED vars
  <2>1. OuterTyped' BY <1>1, <1>11 DEF vars, files, known, fetching, OuterTyped
  <2>2. UNCHANGED <<dl, update_file, at, manifest, missing_files, stage>>
    BY <1>11 DEF vars
  <2>3. Prepared' BY <1>1, <2>2 DEF Prepared, Downloading
  <2> QED BY <2>1, <2>2, <2>3, Aside
<1> QED BY <1>3, <1>4, <1>5, <1>6, <1>7, <1>8, <1>9, <1>10, <1>11, DownloadStartKeeps,
           RangeBeginsKeeps, ChunkKeeps, BodyEndsKeeps, WriteEntryKeeps, ProgressKeeps,
           PublishKeeps DEF Next

\* The invariant of a download.
THEOREM DownloadInvariance == Spec => []DownloadInv
<1>1. Init => DownloadInv
  <2> SUFFICES ASSUME Init PROVE DownloadInv OBVIOUS
  <2>1. 0 \in 0 .. Units /\ 0 \in 0 .. Size /\ 1 \in Versions BY ArchiveFacts, VersionNumbers
  <2>2. [s \in Files |-> {}] \in Parts BY DEF Parts
  <2>3. dl \in Downloads /\ update_file \in Updates
    BY <2>1, <2>2 DEF Init, NoDownload, NoUpdate, Downloads, Updates, Version0
  <2>4. OuterTyped BY <2>1 DEF Init, OuterTyped, Version0
  <2>5. TypeOK BY <2>3, <2>4, TypesSplit
  <2>6. dl.next = 0 /\ dl.end = 0 /\ dl.chunk = 0 /\ dl.left = 0 /\ ~update_file.exists
    BY DEF Init, NoDownload, NoUpdate
  <2>7. InStep BY <2>6, ArchiveFacts DEF InStep
  <2>8. Prepared /\ PublishedComplete /\ ~Downloading
    BY <2>6 DEF Init, Prepared, Downloading, PublishedComplete
  <2> QED BY <2>5, <2>7, <2>8 DEF DownloadInv
<1>2. DownloadInv /\ FreshManifest /\ [Next]_vars => DownloadInv' BY StepKeepsDownloadInv
<1> QED BY <1>1, <1>2, ManifestsAreFresh, PTL DEF Spec

\* The position, the entries and the parts are what they can be, whatever the
\* chunks, cancellations and failures.
THEOREM DownloadsAreTyped == Spec => []TypeOK
<1>1. DownloadInv => TypeOK BY DEF DownloadInv
<1> QED BY <1>1, DownloadInvariance, PTL

\* An update whose bodies all came to the end of their ranges is published with
\* every entry it needs; wherever they end, no entry before the last one begun is
\* wrong or unverified.  For archives of any versions, files and sizes and chunks
\* of any length.
THEOREM UpdatesAreComplete == Spec => []PublishedComplete
<1>1. DownloadInv => PublishedComplete BY DEF DownloadInv
<1> QED BY <1>1, DownloadInvariance, PTL
=============================================================================
