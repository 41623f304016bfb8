--------------------------- MODULE KotasyncUpdate ---------------------------
(***************************************************************************)
(* The zsync-like updater of ffi/kotasync.lua over ffi/downloader.lua:     *)
(* fetch_manifest keeps the server's manifest and its ETag in the state    *)
(* directory, prepare_update finds the entries the installed files lack,   *)
(* download_update fetches them by ranges and publishes update.tar.xz.     *)
(* Meanwhile the server may publish a new version, the process may crash   *)
(* and anything may fail.                                                  *)
(*                                                                         *)
(* A version of the archive is a content for each file (what its hash      *)
(* tells apart), each at a fixed place and of Size units; an ETag stands   *)
(* for the version that has it.  X_... before X is a variant of X with a   *)
(* plausible bug.                                                          *)
(***************************************************************************)
EXTENDS Naturals, Sequences, FiniteSetsExt

CONSTANTS
  Contents,   \* the content of each file, in each version of the archive
  Seed,       \* the installed content of each file
  Size        \* how many units the entry of a file has

Files    == DOMAIN Seed
Versions == DOMAIN Contents

ASSUME UpdateAssumption ==
  /\ Size \in Nat \ {0}
  /\ Seed \in Seq(Nat) /\ Contents \in Seq(Seq(Nat)) /\ Contents # <<>>
  /\ \A v \in Versions : DOMAIN Contents[v] = Files

VARIABLES
  server,         \* the version the server has
  manifest_file, etag_file,   \* the version of each; 0: absent or unreadable
  update_file,    \* update.tar.xz: nothing, or what was published
  manifest,       \* the version of the manifest in memory; 0: nil
  missing_files,
  stage,          \* what the caller has so far
  at,             \* the step the updater is at
  etag,           \* the ETag sent with the request; 0: none
  response,       \* version and strength of the ETag of the answer
  fetched,        \* (history) the version the server had when it answered
  dl              \* the download; whole (history): every body so far came to the
                  \* end of its range

vars == <<server, manifest_file, etag_file, update_file, manifest, missing_files,
          stage, at, etag, response, fetched, dl>>

files    == <<manifest_file, etag_file>>
fetching == <<etag, response, fetched>>
known    == <<manifest, missing_files, stage>>

Units    == Size * Len(Seed)
Version0 == Versions \cup {0}
Hashes   == UNION {{Contents[v][s] : s \in Files} : v \in Versions}
Parts    == [Files -> SUBSET (Hashes \X Files \X (0 .. Size - 1))]

NoDownload == [part |-> [s \in Files |-> {}], version |-> 1, next |-> 0, end |-> 0,
               chunk |-> 0, entry |-> 0, left |-> 0, whole |-> TRUE]
NoUpdate   == [exists |-> FALSE, part |-> NoDownload.part, manifest |-> 0,
               whole |-> TRUE]

TypeOK ==
  /\ server \in Versions
  /\ {manifest_file, etag_file, manifest, etag, fetched} \subseteq Version0
  /\ update_file \in [exists : BOOLEAN, part : Parts, manifest : Version0,
                      whole : BOOLEAN]
  /\ missing_files \subseteq Files
  /\ stage \in {"start", "fetched", "prepared"}
  /\ at \in {"idle", "request", "save", "write", "etag", "range", "body", "write chunk",
             "publish"}
  /\ response \in [version : Version0, weak : BOOLEAN]
  /\ dl \in [part : Parts, version : Versions, next : 0 .. Units, end : 0 .. Units,
             chunk : 0 .. Units, entry : Files \cup {0}, left : 0 .. Size,
             whole : BOOLEAN]

Init ==
  /\ server = 1
  /\ manifest_file = 0 /\ etag_file = 0 /\ update_file = NoUpdate
  /\ manifest = 0 /\ missing_files = {} /\ stage = "start"
  /\ at = "idle" /\ etag = 0
  /\ response = [version |-> 0, weak |-> FALSE] /\ fetched = 0
  /\ dl = NoDownload

-----------------------------------------------------------------------------
(* fetch_manifest *)

\* The ETag counts only with a manifest that can be read.
FetchStart ==
  /\ at = "idle" /\ at' = "request"
  /\ stage' = "start"
  /\ etag' = IF manifest_file # 0 THEN etag_file ELSE 0
  /\ UNCHANGED <<server, files, update_file, manifest, missing_files, response,
                 fetched, dl>>

\* 304: the manifest on disk is the server's.
NotModified ==
  /\ at = "request" /\ etag = server
  /\ at' = "idle"
  /\ manifest' = manifest_file /\ fetched' = server /\ stage' = "fetched"
  /\ UNCHANGED <<server, files, update_file, missing_files, etag, response, dl>>

\* 200: a new manifest, with an ETag, a weak one or none.
Modified ==
  /\ at = "request" /\ etag # server
  /\ at' = "save"
  /\ \E weak \in BOOLEAN : response' = [version |-> server, weak |-> weak]
  /\ fetched' = server
  /\ UNCHANGED <<server, files, update_file, known, etag, dl>>

\* The ETag is saved first.
SaveCreate_EtagFirst ==
  /\ at = "save" /\ at' = "write"
  /\ etag_file' = response.version
  /\ UNCHANGED <<server, manifest_file, update_file, known, fetching, dl>>

\* save_manifest truncates the file, then writes it.
SaveCreate ==
  /\ at = "save" /\ at' = "write"
  /\ manifest_file' = 0
  /\ UNCHANGED <<server, etag_file, update_file, known, fetching, dl>>

SaveWrite ==
  /\ at = "write" /\ at' = "etag"
  /\ manifest_file' = response.version
  /\ UNCHANGED <<server, etag_file, update_file, known, fetching, dl>>

EtagSave ==
  /\ at = "etag" /\ at' = "idle"
  /\ etag_file' = IF response.weak THEN 0 ELSE response.version
  /\ manifest' = response.version /\ stage' = "fetched"
  /\ UNCHANGED <<server, manifest_file, update_file, missing_files, fetching, dl>>

-----------------------------------------------------------------------------
(* prepare_update *)

Missing(v) == {s \in Files : Contents[v][s] # Seed[s]}

\* The caller may cancel at any file; then nothing is stored.
prepare_update ==
  /\ at = "idle" /\ stage # "start"
  /\ \/ /\ missing_files' = Missing(manifest)
        /\ stage' = IF Missing(manifest) = {} THEN "fetched" ELSE "prepared"
     \/ /\ Files # {}
        /\ stage' = "fetched" /\ UNCHANGED missing_files
  /\ UNCHANGED <<server, files, update_file, manifest, at, fetching, dl>>

-----------------------------------------------------------------------------
(* download_update: called only with something to download. *)

DownloadStart ==
  /\ at = "idle" /\ stage = "prepared"
  /\ at' = "range"
  /\ update_file' = NoUpdate
  /\ dl' = NoDownload
  /\ UNCHANGED <<server, files, known, fetching>>

\* Adjacent ranges become one: the maximal runs of missing files.
merge_ranges ==
  {r \in Files \X Files :
     /\ r[1] <= r[2] /\ r[1] .. r[2] \subseteq missing_files
     /\ r[1] - 1 \notin missing_files /\ r[2] + 1 \notin missing_files}

Ahead == {r \in merge_ranges : (r[1] - 1) * Size >= dl.end}

\* 206: the units of the next range, as the server has them now.
RangeBegins ==
  /\ at = "range" /\ Ahead # {}
  /\ at' = "body"
  /\ LET r == CHOOSE r \in Ahead : \A q \in Ahead : r[1] <= q[1]
     IN  dl' = [dl EXCEPT !.version = server, !.next = (r[1] - 1) * Size,
                          !.end = r[2] * Size]
  /\ UNCHANGED <<server, files, update_file, known, fetching>>

\* A chunk of the body, of any length.
Chunk ==
  /\ at = "body" /\ dl.next < dl.end
  /\ at' = "write chunk"
  /\ \E len \in 1 .. dl.end - dl.next : dl' = [dl EXCEPT !.chunk = len]
  /\ UNCHANGED <<server, files, update_file, known, fetching>>

AfterBody == IF Ahead = {} THEN "publish" ELSE "range"

BodyOver == [dl EXCEPT !.whole = @ /\ dl.next = dl.end]

\* The peer ends the body without an error, wherever it is: fetch looks at the
\* status and at http.request's result, never at the length.
BodyEnds ==
  /\ at = "body" /\ at' = AfterBody
  /\ dl' = BodyOver
  /\ UNCHANGED <<server, files, update_file, known, fetching>>

\* The entry being received: the current one, or the first not begun.
Entry == IF dl.left > 0 THEN dl.entry
                        ELSE Min({s \in missing_files : s > dl.entry})

\* The chunk is taken for a part of the entry.
Count_WholeChunk == dl.chunk

Count == Min({IF dl.left > 0 THEN dl.left ELSE Size, dl.chunk})

\* The unit at k of what the server sends.
Sent(k) == LET s == k \div Size + 1 IN <<Contents[dl.version][s], s, k % Size>>

\* What an entry must be, and its hash is compared with.
Wanted(v, s) == {<<Contents[v][s], s, j>> : j \in 0 .. Size - 1}

Written == [dl EXCEPT
  !.part[Entry] = @ \cup {Sent(k) : k \in dl.next .. dl.next + Count - 1},
  !.next = @ + Count, !.chunk = @ - Count,
  !.entry = Entry,
  !.left = (IF dl.left > 0 THEN dl.left ELSE Size) - Count]

\* An entry is taken as it comes.
WriteEntry_Unchecked ==
  /\ at = "write chunk" /\ dl.chunk > 0
  /\ dl.left > 0 \/ \E s \in missing_files : s > dl.entry
  /\ dl' = Written
  /\ UNCHANGED <<server, files, update_file, known, at, fetching>>

\* One turn of the loop: a chunk is split over entries, and a complete entry
\* must have its hash.
WriteEntry ==
  /\ at = "write chunk" /\ dl.chunk > 0
  /\ dl.left > 0 \/ \E s \in missing_files : s > dl.entry
  /\ IF Written.left = 0 /\ Written.part[Entry] # Wanted(manifest, Entry)
     THEN at' = "idle" /\ UNCHANGED dl
     ELSE dl' = Written /\ UNCHANGED at
  /\ UNCHANGED <<server, files, update_file, known, fetching>>

\* progress_cb; a false result ends the body here, which counts as success.
Progress ==
  /\ at = "write chunk" /\ dl.chunk = 0
  /\ \/ at' = "body" /\ UNCHANGED dl
     \/ at' = AfterBody /\ dl' = BodyOver
  /\ UNCHANGED <<server, files, update_file, known, fetching>>

\* Index, footer, truncation and renaming.
Publish ==
  /\ at = "publish" /\ at' = "idle"
  /\ update_file' = [exists |-> TRUE, part |-> dl.part, manifest |-> manifest,
                     whole |-> dl.whole]
  /\ UNCHANGED <<server, files, known, fetching, dl>>

-----------------------------------------------------------------------------

\* A request, a system call or an assertion fails.
Raises ==
  /\ at # "idle" /\ at' = "idle"
  /\ UNCHANGED <<server, files, update_file, known, fetching, dl>>

\* The process dies; the next one starts with what is on disk.
Crash ==
  /\ at' = "idle" /\ manifest' = 0 /\ missing_files' = {} /\ stage' = "start"
  /\ dl' = NoDownload /\ etag' = 0
  /\ UNCHANGED <<server, files, update_file, response, fetched>>

ServerPublishes ==
  /\ server + 1 \in Versions /\ server' = server + 1
  /\ UNCHANGED <<files, update_file, known, at, fetching, dl>>

Next ==
  \/ FetchStart \/ NotModified \/ Modified \/ SaveCreate \/ SaveWrite \/ EtagSave
  \/ prepare_update
  \/ DownloadStart \/ RangeBegins \/ Chunk \/ BodyEnds \/ WriteEntry \/ Progress
  \/ Publish
  \/ Raises \/ Crash \/ ServerPublishes

Spec == Init /\ [][Next]_vars

-----------------------------------------------------------------------------
(* Properties *)

(* fetch_manifest returns the manifest the server had when it answered,    *)
(* whatever crash or failure left the manifest and its ETag as they are.   *)
FreshManifest == stage # "start" => manifest # 0 /\ manifest = fetched

Complete(u) == \A s \in Missing(u.manifest) : u.part[s] = Wanted(u.manifest, s)

\* Nothing but the last entry begun is other than asked for: those before it
\* are complete and in place, those after it empty.
InOrder(u) ==
  \E last \in Files \cup {0} : \A s \in Missing(u.manifest) :
    /\ s < last => u.part[s] = Wanted(u.manifest, s)
    /\ s > last => u.part[s] = {}

(* A published update never has a wrong or an unverified entry before the  *)
(* last one begun, whatever the server published between manifest and      *)
(* ranges or between two ranges; and it has every entry its manifest asks  *)
(* for if each body came to the end of its range.  download_update         *)
(* publishes after a body cut short, by the peer or by progress_cb, too:   *)
(* such an update need not be complete.                                    *)
PublishedComplete ==
  update_file.exists =>
    /\ InOrder(update_file)
    /\ update_file.whole => Complete(update_file)

(* download_update compares the hash of each missing entry and raises      *)
(* "corrupted entry" rather than go on: what it publishes is complete.     *)
PublishedVerified == update_file.exists => Complete(update_file)
=============================================================================
