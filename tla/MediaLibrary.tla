---------------------------- MODULE MediaLibrary ----------------------------
(***************************************************************************)
(* The media library of the CMS (packages/cms/src/index.ts): rows that     *)
(* name stored bytes, registered once and purged bytes first, and the      *)
(* filters that list them.                                                 *)
(*                                                                         *)
(* In a Durable Object a mutation is one transaction, though the bucket    *)
(* takes no part in it; on D1 two calls' statements interleave.  A call    *)
(* may stop between two steps.  A key is drawn at random and minted once.  *)
(***************************************************************************)
EXTENDS Naturals, FiniteSets

CONSTANTS
  Keys,                \* blobs: keys under <tenant>/media/
  Ids,                 \* rows
  Callers,
  Types,               \* content types by what their prefix tells; Null is one
  MaxUploads           \* bound on uploads

Null == "null"
MediaAssumption ==
  /\ Null \in Types /\ Types \cap {"idle", "checked", "purging", "half"} = {}
  /\ IsFiniteSet(Ids) /\ MaxUploads \in Nat

VARIABLES
  store,               \* "do" or "d1"
  urls,                \* keys with an upload url that has not expired
  minted,              \* keys that had one
  blobs,               \* keys the bucket holds
  uploads,             \* so far
  rows,                \* cms_media: id -> row
  work,                \* caller -> its call
  owned,               \* keys that ever had a row
  torn,                \* keys of purges stopped between bytes and row
  again                \* keys put once more after their bytes were deleted
vars == <<store, urls, minted, blobs, uploads, rows, work, owned, torn, again>>

Absent == "absent"
NoRow == [state |-> Absent, key |-> "none", type |-> Null]
Live == {i \in Ids : rows[i].state = "live"}
Trashed == {i \in Ids : rows[i].state = "trashed"}
Idle == [pc |-> "idle", id |-> 0, key |-> "none"]
At(pc, id, key) == [pc |-> pc, id |-> id, key |-> key]
\* a Durable Object runs one mutation at a time
free == store = "d1" \/ \A c \in Callers : work[c].pc = "idle"

-----------------------------------------------------------------------------
(* The clause a filter adds to the query.  A comparison with NULL is       *)
(* neither true nor false, so its negation is not true either.             *)

MEDIA_KINDS == {"image", "video", "audio", "document", "other"}
DOCUMENT_PREFIXES == {"pdf", "text", "word", "vnd"}
startsWith(type, prefixes) ==
  IF type = Null THEN "unknown" ELSE IF type \in prefixes THEN "true" ELSE "false"
negated(v) == CASE v = "true" -> "false" [] v = "false" -> "true" [] OTHER -> v

otherLikeBefore(type) ==
  negated(startsWith(type, {"image", "video", "audio"} \cup DOCUMENT_PREFIXES)) = "true"
other(type) ==
  type = Null
    \/ negated(startsWith(type, {"image", "video", "audio"} \cup DOCUMENT_PREFIXES)) = "true"
mediaKindWhere(kind, type) ==
  CASE kind \in {"image", "video", "audio"} -> startsWith(type, {kind}) = "true"
    [] kind = "document" -> startsWith(type, DOCUMENT_PREFIXES) = "true"
    [] kind = "other" -> other(type)

listMedia(kind) == {i \in Live : mediaKindWhere(kind, rows[i].type)}
listTrash == Trashed

-----------------------------------------------------------------------------
signMediaUpload(k) ==
  /\ k \notin minted
  /\ urls' = urls \cup {k}
  /\ minted' = minted \cup {k}
  /\ UNCHANGED <<store, blobs, uploads, rows, work, owned, torn, again>>

\* the url may be used until it expires, over what is there or after a purge
put(k) ==
  /\ k \in urls
  /\ uploads < MaxUploads
  /\ blobs' = blobs \cup {k}
  /\ uploads' = uploads + 1
  /\ again' = IF k \in owned THEN again \cup {k} ELSE again
  /\ UNCHANGED <<store, urls, minted, rows, work, owned, torn>>

expires(k) ==
  /\ k \in urls
  /\ urls' = urls \ {k}
  /\ UNCHANGED <<store, minted, blobs, uploads, rows, work, owned, torn, again>>

-----------------------------------------------------------------------------
(* createMedia: the duplicate check reads every row, trashed ones too.     *)
(* The type is the one the bucket answers with.                            *)

namesInView(k) == {i \in Live : rows[i].key = k}
names(k) == {i \in Ids : rows[i].state # Absent /\ rows[i].key = k}

createMedia(c, k) ==
  /\ free
  /\ work[c] = Idle
  /\ k \in minted
  /\ names(k) = {}
  /\ work' = [work EXCEPT ![c] = At("checked", 0, k)]
  /\ UNCHANGED <<store, urls, minted, blobs, uploads, rows, owned, torn, again>>

headMissing(c) ==
  /\ work[c].pc = "checked"
  /\ work[c].key \notin blobs
  /\ work' = [work EXCEPT ![c] = Idle]
  /\ UNCHANGED <<store, urls, minted, blobs, uploads, rows, owned, torn, again>>

headFound(c) ==
  /\ work[c].pc = "checked"
  /\ work[c].key \in blobs
  /\ \E i \in Ids, type \in Types \ {Null} :
       /\ rows[i] = NoRow /\ \A d \in Callers : work[d].id # i
       /\ work' = [work EXCEPT ![c] = At(type, i, work[c].key)]
  /\ UNCHANGED <<store, urls, minted, blobs, uploads, rows, owned, torn, again>>

insert(c) ==
  LET w == work[c] IN
  /\ w.pc \in Types
  /\ rows' = [rows EXCEPT ![w.id] = [state |-> "live", key |-> w.key, type |-> w.pc]]
  /\ work' = [work EXCEPT ![c] = Idle]
  /\ owned' = owned \cup {w.key}
  /\ UNCHANGED <<store, urls, minted, blobs, uploads, torn, again>>

-----------------------------------------------------------------------------
(* Trash, restore, purge.                                                  *)

deleteMedia(i) ==
  /\ free
  /\ i \in Live
  /\ rows' = [rows EXCEPT ![i].state = "trashed"]
  /\ UNCHANGED <<store, urls, minted, blobs, uploads, work, owned, torn, again>>

restoreMedia(i) ==
  /\ free
  /\ i \in Trashed
  /\ rows' = [rows EXCEPT ![i].state = "live"]
  /\ UNCHANGED <<store, urls, minted, blobs, uploads, work, owned, torn, again>>

purgeMedia(c, i) ==
  /\ free
  /\ work[c] = Idle
  /\ i \in Trashed
  /\ work' = [work EXCEPT ![c] = At("purging", i, rows[i].key)]
  /\ UNCHANGED <<store, urls, minted, blobs, uploads, rows, owned, torn, again>>

\* the two writes of a purge, in their order
rowFirst == [purging |-> "row", half |-> "bytes"]
bytesFirst == [purging |-> "bytes", half |-> "row"]

deletesBytes(c) ==
  LET w == work[c] IN
  /\ w.pc \in {"purging", "half"} /\ bytesFirst[w.pc] = "bytes"
  /\ blobs' = blobs \ {w.key}
  /\ again' = again \ {w.key}
  /\ work' = [work EXCEPT ![c] = IF w.pc = "purging" THEN At("half", w.id, w.key) ELSE Idle]
  /\ torn' = IF w.pc = "purging" THEN torn \cup {w.key} ELSE torn \ {w.key}
  /\ UNCHANGED <<store, urls, minted, uploads, rows, owned>>

deletesRow(c) ==
  LET w == work[c] IN
  /\ w.pc \in {"purging", "half"} /\ bytesFirst[w.pc] = "row"
  /\ rows' = [rows EXCEPT ![w.id] = NoRow]
  /\ work' = [work EXCEPT ![c] = IF w.pc = "purging" THEN At("half", w.id, w.key) ELSE Idle]
  /\ torn' = torn \ {w.key}
  /\ UNCHANGED <<store, urls, minted, blobs, uploads, owned, again>>

\* the bucket refuses, or the process dies; a Durable Object rolls back its
\* rows, which a call writes last
dies(c) ==
  /\ work[c] # Idle
  /\ work' = [work EXCEPT ![c] = Idle]
  /\ UNCHANGED <<store, urls, minted, blobs, uploads, rows, owned, torn, again>>

-----------------------------------------------------------------------------
\* a library may hold a row from before its columns were there
Init ==
  /\ store \in {"do", "d1"}
  /\ \E legacy \in [Ids -> {NoRow} \cup [state : {"live"}, key : Keys, type : {Null}]] :
       /\ Cardinality({i \in Ids : legacy[i] # NoRow}) <= 1
       /\ rows = legacy
       /\ minted = {legacy[i].key : i \in {j \in Ids : legacy[j] # NoRow}}
  /\ owned = minted
  /\ urls = {}
  /\ blobs = minted
  /\ uploads = 0
  /\ work = [c \in Callers |-> Idle]
  /\ torn = {} /\ again = {}

Next ==
  \/ \E k \in Keys : signMediaUpload(k) \/ expires(k) \/ put(k)
  \/ \E c \in Callers, k \in Keys : createMedia(c, k)
  \/ \E c \in Callers : headMissing(c) \/ headFound(c) \/ insert(c)
  \/ \E i \in Ids : deleteMedia(i) \/ restoreMedia(i)
  \/ \E c \in Callers, i \in Ids : purgeMedia(c, i)
  \/ \E c \in Callers : deletesBytes(c) \/ deletesRow(c) \/ dies(c)

Spec == Init /\ [][Next]_vars

-----------------------------------------------------------------------------
(* In a Durable Object no two rows name the same blob, so purging one      *)
(* never takes another's bytes (createMedia).                              *)
OneRowPerBlob ==
  store = "do" => \A i, j \in Live \cup Trashed : rows[i].key = rows[j].key => i = j

(* In a Durable Object the bytes behind a row are there, unless a purge    *)
(* of that blob was stopped between its bytes and its row.                 *)
BytesBehindRows ==
  store = "do" => \A i \in Live \cup Trashed : rows[i].key \in blobs \cup torn

(* Bytes that were ever in the library have a row a reviewer can purge     *)
(* them by, unless they were put again under a url that outlived them.     *)
NothingIsOrphaned ==
  \A k \in (blobs \cap owned) \ again :
    \E i \in Live \cup Trashed : rows[i].key = k

(* Whatever its type, a file that is not in the trash is under exactly one *)
(* of the library's filters.                                               *)
OneKindEach ==
  \A i \in Live : Cardinality({kind \in MEDIA_KINDS : i \in listMedia(kind)}) = 1
=============================================================================
