------------------------------- MODULE Files --------------------------------
(***************************************************************************)
(* Stored files (packages/server/src/runtime/storage.ts): signed urls, the *)
(* upload and download endpoints, public media, and byte ranges read while *)
(* the object is replaced or deleted.                                      *)
(*                                                                         *)
(* An object is one version of a key's bytes, and a version is its etag.   *)
(* One reader's request runs in steps, as the awaits of the code split it; *)
(* uploads and deletions come in between.  A byte is its position.         *)
(***************************************************************************)
EXTENDS Integers, Sequences, FiniteSets

CONSTANTS
  Folders,             \* of a key: "media" is what signMediaUpload mints
  Types,               \* declared content types: sequences of members
  Sizes,               \* of objects
  Numbers,             \* that a Range header may name; Blank is an empty one
  MAX,                 \* Number.MAX_SAFE_INTEGER, scaled
  MaxWrites,           \* bound on stored versions
  MaxUrls              \* bound on urls alive at once

Blank == -1
FilesAssumption ==
  /\ MAX \in Nat /\ MaxWrites \in Nat /\ MaxUrls \in Nat
  /\ Sizes \subseteq 0 .. MAX /\ Numbers \subseteq Nat \cup {Blank}

VARIABLES
  folder,              \* of the key; keys do not meet, so there is one
  stored,              \* what the bucket holds under it, or Gone
  urls,                \* signed urls that have not expired: [op, type, max]
  writes,
  reader,              \* the request being answered
  reply,               \* its answer
  cache                \* what a shared cache keeps: "nothing", "whole" or "slice"
vars == <<folder, stored, urls, writes, reader, reply, cache>>

Gone == [version |-> 0, size |-> 0, type |-> <<>>]
NoRange == [kind |-> "none", offset |-> 0, length |-> 0]
Unsatisfiable == [kind |-> "unsatisfiable", offset |-> 0, length |-> 0]
From(offset) == [kind |-> "from", offset |-> offset, length |-> 0]
Slice(offset, length) == [kind |-> "slice", offset |-> offset, length |-> length]
Suffix(length) == [kind |-> "suffix", offset |-> 0, length |-> length]
NoReply == [status |-> 0, object |-> Gone, first |-> 0, length |-> 0, measured |-> FALSE,
            sandboxed |-> FALSE, shared |-> FALSE]
Idle == [pc |-> "idle"]

Least(a, b) == IF a < b THEN a ELSE b

-----------------------------------------------------------------------------
(* Ranges.  A header is a pair of numbers, either of which may be blank.   *)

parseRangeHeader(h) ==
  CASE h[1] = Blank /\ h[2] = Blank -> NoRange
    [] h[1] = Blank /\ h[2] = 0 -> Unsatisfiable
    [] h[1] = Blank /\ h[2] > 0 -> Suffix(Least(h[2], MAX))
    [] h[1] > MAX -> Unsatisfiable
    [] h[1] \in 0 .. MAX /\ (h[2] = Blank \/ h[2] > MAX) -> From(h[1])
    [] h[1] \in 0 .. MAX /\ h[2] \in 0 .. (h[1] - 1) -> NoRange
    [] OTHER -> Slice(h[1], h[2] - h[1] + 1)

Outside(req, size) == req.kind # "suffix" /\ req.offset >= size
resolveUnclamped(req, size) ==
  CASE req.kind = "suffix" -> Slice(0, req.length)
    [] Outside(req, size) -> NoRange
    [] req.kind = "from" /\ ~Outside(req, size) -> Slice(req.offset, size - req.offset)
    [] OTHER -> Slice(req.offset, req.length)
resolveRange(req, size) ==
  CASE req.kind = "suffix" ->
         IF Least(req.length, size) = 0 THEN NoRange
         ELSE Slice(size - Least(req.length, size), Least(req.length, size))
    [] Outside(req, size) -> NoRange
    [] req.kind = "from" /\ ~Outside(req, size) -> Slice(req.offset, size - req.offset)
    [] OTHER -> Slice(req.offset, Least(req.length, size - req.offset))

(* A weak or absent validator never matches.                               *)
ifRangeMatches(validator, object) == validator = object.version

-----------------------------------------------------------------------------
(* Content types.  A declared type is a list of members; a member is       *)
(* "active" (a browser runs it), "inert", "bad" (not a MIME type) or       *)
(* "empty".                                                                *)

Members(type) == {type[i] : i \in DOMAIN type}
isActiveFirst(type) ==
  /\ type # <<>>
  /\ type[1] \in {"active", "bad"}
isActiveType(type) ==
  /\ type # <<>>
  /\ \/ "active" \in Members(type)
     \/ "inert" \notin Members(type)

isSingleMimeType(type) == Len(type) = 1 /\ type[1] \in {"active", "inert"}

-----------------------------------------------------------------------------
(* Signed urls.                                                            *)

signUpload(type) ==
  /\ isSingleMimeType(type)
  /\ Cardinality(urls) < MaxUrls
  /\ \E max \in Sizes :
       urls' = urls \cup {[op |-> "put", type |-> type, max |-> max]}
  /\ UNCHANGED <<folder, stored, writes, reader, reply, cache>>

signDownload ==
  /\ Cardinality(urls) < MaxUrls
  /\ urls' = urls \cup {[op |-> "get", type |-> <<>>, max |-> 0]}
  /\ UNCHANGED <<folder, stored, writes, reader, reply, cache>>

expires(url) ==
  /\ urls' = urls \ {url}
  /\ UNCHANGED <<folder, stored, writes, reader, reply, cache>>

Stored(size, type) ==
  /\ writes < MaxWrites
  /\ writes' = writes + 1
  /\ stored' = [version |-> writes + 1, size |-> size, type |-> type]

(* PUT /files/upload: as often as the url lives.  A declared length binds  *)
(* R2's stream.                                                            *)
uploads(url, size) ==
  /\ url.op = "put"
  /\ size <= url.max
  /\ Stored(size, url.type)
  /\ UNCHANGED <<folder, urls, reader, reply, cache>>

(* A blob stored before content types were checked, or by other code.      *)
puts(size, type) ==
  /\ Stored(size, type)
  /\ UNCHANGED <<folder, urls, reader, reply, cache>>

deletes ==
  /\ stored # Gone
  /\ stored' = Gone
  /\ UNCHANGED <<folder, urls, writes, reader, reply, cache>>

-----------------------------------------------------------------------------
(* A request arrives: a download url, or a media path.                     *)

servesAny == TRUE
servesMedia == folder = "media"

Asks(public, isHead, header, validator) ==
  [pc |-> IF isHead \/ parseRangeHeader(header) = Unsatisfiable THEN "head" ELSE "get",
   public |-> public, isHead |-> isHead, header |-> header,
   ifRange |-> validator, req |-> parseRangeHeader(header), object |-> Gone,
   range |-> NoRange, retry |-> NoRange]

Free == reader = Idle /\ reply = NoReply
requests(public, isHead, header, validator) ==
  /\ Free
  /\ IF public THEN servesMedia ELSE \E url \in urls : url.op = "get"
  /\ reader' = Asks(public, isHead, header, validator)
  /\ UNCHANGED <<folder, stored, urls, writes, reply, cache>>

(* Answers.                                                                *)
Answer(status, object, first, length, measured) ==
  [status |-> status, object |-> object, first |-> first, length |-> length,
   measured |-> measured, sandboxed |-> isActiveType(object.type),
   shared |-> reader.public /\ status = 200 /\ measured]
answers(a) ==
  /\ reader' = [reader EXCEPT !.pc = "answered"]
  /\ reply' = a
whole(object) == answers(Answer(200, object, 0, object.size, TRUE))
partial(r, object) == answers(Answer(206, object, r.offset, r.length, TRUE))
unsatisfiable(object) == answers([Answer(416, object, 0, 0, FALSE) EXCEPT !.sandboxed = FALSE])
notFound == answers([NoReply EXCEPT !.status = 404])
errs == answers([NoReply EXCEPT !.status = 500])
continues(r) == reader' = r /\ UNCHANGED reply

(* adapter.head, for HEAD and for `bytes=-0`.                              *)
serveHead ==
  LET object == stored
      voided == \/ reader.ifRange # 0 /\ ~ifRangeMatches(reader.ifRange, object)
                \/ object.size = 0
      req == IF reader.req # NoRange /\ voided THEN NoRange ELSE reader.req
      r == resolveRange(req, object.size)
  IN /\ reader.pc = "head"
     /\ CASE object = Gone -> notFound
          [] object # Gone /\ req = Unsatisfiable -> unsatisfiable(object)
          [] object # Gone /\ reader.isHead /\ req = NoRange -> whole(object)
          [] object # Gone /\ reader.isHead /\ req \notin {NoRange, Unsatisfiable} ->
               IF r = NoRange THEN unsatisfiable(object) ELSE partial(r, object)
          [] OTHER -> continues([reader EXCEPT !.pc = "get", !.req = NoRange])
     /\ UNCHANGED <<folder, stored, urls, writes, cache>>

(* bucket.get.  R2 refuses a start past the end, and may refuse a length   *)
(* past it instead of clamping it.                                         *)
Past(req, size) == req.kind = "slice" /\ req.offset + req.length > size
adapterGet ==
  LET object == stored
      r == resolveRange(reader.req, object.size)
      got == [reader EXCEPT !.pc = "got", !.object = object]
  IN /\ reader.pc = "get"
     /\ \/ object = Gone /\ notFound
        \/ object # Gone /\ reader.req = NoRange /\ continues([got EXCEPT !.range = NoRange])
        \/ object # Gone /\ reader.req # NoRange /\ r # NoRange /\ continues([got EXCEPT !.range = r])
        \/ /\ object # Gone /\ reader.req # NoRange
           /\ r = NoRange \/ Past(reader.req, object.size)
           /\ continues([reader EXCEPT !.pc = "refused"])
     /\ UNCHANGED <<folder, stored, urls, writes, cache>>

(* The second operation: the size, and the range resolved against it.      *)
adapterHead ==
  LET object == stored
      r == resolveRange(reader.req, object.size)
  IN /\ reader.pc = "refused"
     /\ CASE object = Gone -> notFound
          [] object # Gone /\ r = NoRange -> continues([reader EXCEPT !.pc = "outside", !.object = object])
          [] OTHER -> continues([reader EXCEPT !.pc = "getResolved", !.retry = r])
     /\ UNCHANGED <<folder, stored, urls, writes, cache>>

adapterGetResolved ==
  LET object == stored
      r == resolveRange(reader.retry, object.size)
      got == continues([reader EXCEPT !.pc = "got", !.object = object, !.range = r])
  IN /\ reader.pc = "getResolved"
     /\ CASE object = Gone -> notFound
          [] object # Gone /\ r = NoRange -> errs
          [] object # Gone /\ r # NoRange /\ Past(reader.retry, object.size) -> errs \/ got
          [] OTHER -> got
     /\ UNCHANGED <<folder, stored, urls, writes, cache>>

(* RangeNotSatisfiable.                                                    *)
serveOutside ==
  /\ reader.pc = "outside"
  /\ IF reader.object.size # 0 /\ reader.ifRange = 0
     THEN unsatisfiable(reader.object)
     ELSE continues([reader EXCEPT !.pc = "getWhole"])
  /\ UNCHANGED <<folder, stored, urls, writes, cache>>
serveWhole ==
  LET object == stored IN
  /\ reader.pc = "getWhole"
  /\ IF object # Gone /\ object.size # 0 /\ reader.ifRange # 0 /\ ifRangeMatches(reader.ifRange, object)
     THEN unsatisfiable(object)
     ELSE IF object = Gone THEN notFound ELSE whole(object)
  /\ UNCHANGED <<folder, stored, urls, writes, cache>>

staleNever == FALSE
stale == reader.ifRange # 0 /\ ~ifRangeMatches(reader.ifRange, reader.object)
serveObject ==
  /\ reader.pc = "got"
  /\ CASE reader.range # NoRange /\ stale -> continues([reader EXCEPT !.pc = "getAfresh"])
       [] reader.range # NoRange /\ ~stale -> partial(reader.range, reader.object)
       [] OTHER -> whole(reader.object)
  /\ UNCHANGED <<folder, stored, urls, writes, cache>>
serveAfresh ==
  LET object == stored IN
  /\ reader.pc = "getAfresh"
  /\ IF object = Gone THEN notFound ELSE whole(object)
  /\ UNCHANGED <<folder, stored, urls, writes, cache>>

-----------------------------------------------------------------------------
(* The answer leaves; a shared cache may keep what is `public`.            *)

keptWhateverStatus == reader.public /\ reply.status \in {200, 206}
kept == reply.shared
leaves ==
  /\ reader.pc = "answered"
  /\ \/ /\ kept
        /\ cache' = IF reply.first = 0 /\ reply.length = reply.object.size THEN "whole" ELSE "slice"
     \/ UNCHANGED cache
  /\ reader' = Idle
  /\ reply' = NoReply
  /\ UNCHANGED <<folder, stored, urls, writes>>

ages ==
  /\ cache # "nothing"
  /\ cache' = "nothing"
  /\ UNCHANGED <<folder, stored, urls, writes, reader, reply>>

Init ==
  /\ folder \in Folders
  /\ stored = Gone
  /\ urls = {}
  /\ writes = 0
  /\ reader = Idle
  /\ reply = NoReply
  /\ cache = "nothing"

Next ==
  \/ \E type \in Types : signUpload(type) \/ \E size \in Sizes : puts(size, type)
  \/ signDownload \/ deletes \/ ages
  \/ /\ Free
     /\ \E public \in BOOLEAN, isHead \in BOOLEAN, a \in Numbers, b \in Numbers,
           validator \in 0 .. writes : requests(public, isHead, <<a, b>>, validator)
  \/ \E url \in urls : expires(url) \/ \E size \in Sizes : uploads(url, size)
  \/ serveHead \/ adapterGet \/ adapterHead \/ adapterGetResolved
  \/ serveOutside \/ serveWhole \/ serveObject \/ serveAfresh
  \/ leaves

Spec == Init /\ [][Next]_vars

-----------------------------------------------------------------------------
(* Properties of the answer about to leave.                                *)

Answered == reader # Idle /\ reader.pc = "answered"

(* The bytes a header asks for, said by RFC 9110 and not by the parser.    *)
Asked(h, size) ==
  CASE h[1] = Blank -> {i \in 0 .. (size - 1) : i >= size - h[2]}
    [] h[2] = Blank -> {i \in 0 .. (size - 1) : i >= h[1]}
    [] OTHER -> {i \in 0 .. (size - 1) : i >= h[1] /\ i <= h[2]}

(* A 206 carries the bytes that were asked for, of the version its size    *)
(* and etag name, however often the object changed meanwhile.  When the    *)
(* bucket refused the first read and the object grew before the second,    *)
(* they are the beginning of those, or, if the last bytes were asked for,  *)
(* start where the ones of the size in between did.  A 200 carries all of  *)
(* one version.                                                            *)
Body == reply.first .. (reply.first + reply.length - 1)
BytesAreTrue ==
  Answered =>
    /\ reply.status = 206 =>
         LET asked == Asked(reader.header, reply.object.size) IN
         /\ Body # {} /\ Body \subseteq 0 .. (reply.object.size - 1)
         /\ reader.retry = NoRange => Body = asked
         /\ IF reader.retry # NoRange /\ reader.header[1] = Blank
            THEN reply.first = reader.retry.offset
            ELSE Body \subseteq asked /\ \A i \in asked : i >= reply.first
    /\ reply.status = 200 => reply.first = 0 /\ reply.length = reply.object.size

(* Whoever resumes with If-Range gets more of the version it holds, or the *)
(* whole of another one: never bytes of two versions.                      *)
NoSplice ==
  Answered /\ reply.status = 206 /\ reader.ifRange # 0 => reply.object.version = reader.ifRange

(* A 416 is about an object in which nothing was asked for, and never about *)
(* a validator that had gone stale.                                        *)
RefusedIsOutside ==
  Answered /\ reply.status = 416 =>
    /\ Asked(reader.header, reply.object.size) = {} /\ reply.object.size # 0
    /\ reader.ifRange # 0 => reader.ifRange = reply.object.version

(* What a browser would run is sandboxed.  Of a list it takes the last     *)
(* member it can parse.                                                    *)
Understood(type) == {i \in DOMAIN type : type[i] \in {"active", "inert"}}
Runs(type) ==
  \E i \in Understood(type) : type[i] = "active" /\ \A j \in Understood(type) : j <= i
ActiveIsSandboxed == Answered /\ reply.status \in {200, 206} /\ Runs(reply.object.type) => reply.sandboxed

(* Only media is served without a url, and a shared cache keeps whole      *)
(* objects of media and nothing else.                                      *)
PrivateStaysSigned ==
  /\ reader # Idle => (reader.public => folder = "media")
  /\ cache # "nothing" => folder = "media" /\ cache = "whole"
=============================================================================
