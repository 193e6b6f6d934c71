------------------------------- MODULE MCEdges -------------------------------
(***************************************************************************)
(* What the service hands out at its edges, side by side: a behaviour      *)
(* picks one component, and the variables of the others stay as they are.  *)
(*   requests   five deployments, eight tokens, two tenants, two           *)
(*              partitions, and up to three writes of a D1 session         *)
(*   files      one object of the bucket, one upload url, one reader       *)
(*   media      two keys, two ids, two callers                             *)
(*   reads      two pages and the file one of them shows, on both stores   *)
(*   previews   one user, one row and one link over three instants          *)
(*   registry   twelve registries that boot, six of them over a NOT NULL   *)
(*              column of the app's own, and 31 that must not; two rows,   *)
(*              callers with and without read access                       *)
(***************************************************************************)
EXTENDS Requests, TLC

CONSTANTS
  Folders, FileTypes, Sizes, Numbers, MaxBytes, MaxVersions, MaxUrls,
  BlobKeys, Ids, Uploaders, MediaTypes, MaxUploads,
  Stores, Pages, File, MaxEdits,
  Users, Rows, Never, SessionTtl, DefaultTtl, Cap, RaisedTtl, MaxTime, MaxLinks,
  Configs, Viewers, Sendable, Words, OptionSources, Limits, MaxListed, MaxSchedule, MaxDate,
  MaxInstant, MaxCalls

VARIABLES
  part,
  folder, stored, urls, writes, reader, reply, cache,
  storage, mUrls, minted, blobs, uploads, rows, work, owned, torn, again,
  store, page, file, call, during, answer,
  now, raised, row, user, minting, links, shown,
  conf, phase, cNow, cRows, revs, said, failed, trail, want, edits

fileVars == <<folder, stored, urls, writes, reader, reply, cache>>
mediaVars == <<storage, mUrls, minted, blobs, uploads, rows, work, owned, torn, again>>
readVars == <<store, page, file, call, during, answer>>
previewVars == <<now, raised, row, user, minting, links, shown>>
registryVars == <<conf, phase, cNow, cRows, revs, said, failed, trail, want, edits>>
edgeVars == <<part, vars, fileVars, mediaVars, readVars, previewVars, registryVars>>

Symmetry == Permutations(Pages)

Env(kind, header, db, do, shared, keys, claims, dev, lan, exp) ==
  [store |-> kind, header |-> header, db |-> db, do |-> do, shared |-> shared,
   keys |-> keys, claims |-> claims, dev |-> dev, lan |-> lan, requireExp |-> exp]
Token(name, signer, aud, exp, revoked, roles, tenants) ==
  [name |-> name, signer |-> signer, aud |-> aud, exp |-> exp, revoked |-> revoked,
   roles |-> roles, tenants |-> tenants]
Handler(name, kind, auth, partition) ==
  [name |-> name, kind |-> kind, auth |-> auth, partition |-> partition]

MCEnvs ==
  { Env("do", FALSE, FALSE, TRUE, FALSE, "secret", FALSE, FALSE, FALSE, TRUE),
    Env("do", TRUE, TRUE, TRUE, FALSE, "secret", FALSE, TRUE, TRUE, FALSE),
    Env("d1", FALSE, TRUE, FALSE, TRUE, "jwks", TRUE, FALSE, FALSE, FALSE),
    Env("d1", TRUE, TRUE, TRUE, FALSE, "secret", TRUE, FALSE, FALSE, FALSE),
    Env("d1", FALSE, TRUE, TRUE, FALSE, "jwks", FALSE, FALSE, FALSE, FALSE) }
MCTokens ==
  { Token("anonymous", "nobody", "here", "none", FALSE, {}, {}),
    Token("ann", "service", "here", "live", FALSE, {"user", "__system"}, {"t1"}),
    Token("bob", "idp", "here", "none", FALSE, {"user"}, {}),
    Token("admin", "service", "here", "live", FALSE, {"admin"}, {}),
    Token("gone", "service", "here", "live", TRUE, {"admin"}, {"t1"}),
    Token("forged", "published", "here", "none", FALSE, {"admin"}, {"t1"}),
    Token("other", "idp", "elsewhere", "live", FALSE, {"admin", "__system"}, {"t1"}),
    Token("ours", "idp", "here", "live", FALSE, {"admin", "__system"}, {"t1"}) }
MCHandlers ==
  { Handler("read", "query", {"open"}, "default"),
    Handler("write", "mutation", {"authenticated"}, "log"),
    Handler("grant", "mutation", {"__system"}, "default") }

MCFileTypes == {<<"inert">>, <<"inert", "active">>}
MCNumbers == {-1, 0, 1, 4}

Files == INSTANCE Files WITH Types <- FileTypes, MAX <- MaxBytes, MaxWrites <- MaxVersions
Media == INSTANCE MediaLibrary WITH
  Keys <- BlobKeys, Callers <- Uploaders, Types <- MediaTypes, store <- storage, urls <- mUrls
Reads == INSTANCE PageReads
Previews == INSTANCE PreviewLinks

(* Registries over an entity with every managed column.  Each bad one is   *)
(* the full one, or its schema, with one thing wrong.                      *)
Column(type) ==
  [type |-> type, notNull |-> FALSE, default |-> FALSE, hidden |-> FALSE, primaryKey |-> FALSE]
Lectures ==
  [id |-> [Column("uuid") EXCEPT !.primaryKey = TRUE], key |-> Column("text"),
   title |-> Column("text"), body |-> Column("json"), status |-> Column("text"),
   publishedAt |-> Column("text"), scheduledAt |-> Column("text"),
   unpublishAt |-> Column("text"), createdAt |-> [Column("text") EXCEPT !.default = TRUE]]
Schema ==
  [lectures |-> [partition |-> "default", columns |-> Lectures],
   cms_collection_revisions |->
     [partition |-> "default", columns |-> [id |-> Column("uuid")]]]
Needs(n, default) == [Schema EXCEPT !.lectures.columns[n].notNull = TRUE,
                                    !.lectures.columns[n].default = default]
Without(n) == [Schema EXCEPT !.lectures.columns = [c \in DOMAIN @ \ {n} |-> @[c]]]
WrongColumns ==
  {Column("json"), Column("integer"), [Column("text") EXCEPT !.hidden = TRUE],
   [Column("text") EXCEPT !.notNull = TRUE]}

FieldOf(name, type) ==
  [name |-> name, type |-> type, required |-> TRUE, multiple |-> FALSE, source |-> ""]
Title == FieldOf("title", "text")
Collection(fields, supports) ==
  [slug |-> "lectures", entity |-> "lectures", fields |-> fields, supports |-> supports,
   idField |-> "id", orderBy |-> ""]
Plain == Collection({Title, FieldOf("body", "richtext")}, {})
Loose == Collection({[Title EXCEPT !.required = FALSE], FieldOf("body", "richtext")}, {"revisions"})
Full == [Plain EXCEPT !.supports = {"drafts", "scheduling", "revisions", "preview"}]
Titled == Collection({Title}, {"drafts"})
Timed == Collection({Title}, {"drafts", "scheduling"})
WrongCollections ==
  { [Full EXCEPT !.idField = "key"], [Full EXCEPT !.orderBy = "rank"],
    [Full EXCEPT !.supports = {"scheduling"}], [Full EXCEPT !.supports = {"drafts", "x"}],
    [Full EXCEPT !.fields = {Title, FieldOf("body", "text")}],
    [Full EXCEPT !.fields = {[FieldOf("title", "reference") EXCEPT !.multiple = TRUE]}],
    [Full EXCEPT !.fields = {[Title EXCEPT !.source = "nowhere"]}],
    [Full EXCEPT !.fields = @ \cup {FieldOf("status", "publish")}] }

Config(list, schema) == [registry |-> list, schema |-> schema]
Stranded == Config(<<Collection({}, {})>>, [n \in {} |-> n])
MCConfigs ==
  {Stranded} \cup
  { Config(<<Plain>>, Schema), Config(<<Full>>, Schema), Config(<<Titled>>, Without("createdAt")),
    Config(<<[Plain EXCEPT !.orderBy = "title"]>>, Without("createdAt")),
    Config(<<[Timed EXCEPT !.orderBy = "scheduledAt"]>>, Schema), Config(<<Loose>>, Schema) }
  \cup {Config(<<Plain>>, Needs("key", default)) : default \in BOOLEAN}
  \cup {Config(<<Loose>>, Needs("title", default)) : default \in BOOLEAN}
  \cup {Config(<<Loose>>, Needs("body", FALSE))}
  \cup {Config(<<Full>>, [Schema EXCEPT !.lectures.columns[n] = c]) :
          n \in {"title", "body", "status", "unpublishAt"}, c \in WrongColumns}
  \cup {Config(<<Full>>, Without(n)) : n \in {"id", "title", "status", "scheduledAt"}}
  \cup {Config(<<Full>>, [Schema EXCEPT ![e].partition = "log"]) : e \in DOMAIN Schema}
  \cup {Config(<<c>>, Schema) : c \in WrongCollections}
  \cup {Config(<<Timed, [Titled EXCEPT !.slug = s]>>, Schema) : s \in {"lectures", "talks"}}

CellOf(kind, word, at) == [kind |-> kind, word |-> word, at |-> at, quoted |-> FALSE]
Inputs ==
  [text |-> {CellOf("word", "v", 1), CellOf("word", "w", 2)},
   richtext |-> {CellOf("document", "d", 1)},
   reference |-> {CellOf("word", "v", 1)},
   publish |-> {CellOf("word", "published", 0)}]
Filled(c, names) ==
  {b \in [names -> UNION {Inputs[g.type] : g \in c.fields} \cup Inputs.publish] :
     \A g \in c.fields : g.name \in names => b[g.name] \in Inputs[g.type]}
Cleared(names) ==
  {[b EXCEPT ![n] = CellOf("null", "", -1)] : n \in names, b \in Filled(Loose, names)}
BagsOf(c) ==
  LET names == {g.name : g \in c.fields}
  IN UNION {Filled(c, S) : S \in {{n} : n \in names} \cup {names, names \cup {"status"}}}
     \cup IF c = Loose THEN Cleared({"title"}) \cup Cleared(names) ELSE {}
MCSendable == [c \in {k.registry[1] : k \in MCConfigs} |-> BagsOf(c)]
MCLimits == {-1, 1, 2}
MCViewers == {DOMAIN Lectures, DOMAIN Lectures \ {"title"}, {}}

Registry == INSTANCE CollectionRegistry WITH
  Callers <- Viewers, MAX_COLLECTION_LIST_LIMIT <- MaxListed, MAX_SCHEDULE <- MaxSchedule,
  MAX_DATE <- MaxDate, MaxTime <- MaxInstant, MaxEdits <- MaxCalls, now <- cNow, rows <- cRows, answer <- said

ASSUME FileConstants == Files!FilesAssumption
ASSUME MediaConstants == Media!MediaAssumption
ASSUME PreviewConstants == Previews!PreviewAssumption
ASSUME RegistryConstants == Registry!RegistryAssumption

----------------------------------------------------------------------------
(* Five parts explore less than they could.  The database session and the  *)
(* object of a deployment share nothing, so at most one of them moves; the *)
(* last version of a file is stored between the two reads of a range that  *)
(* was refused; the callers of the library are alike, so one starts; the   *)
(* file changes only while every page is as it was; and the second row of  *)
(* a collection, which meets the first in lists only, is not edited.       *)

EdgesInit ==
  /\ part \in {"requests", "files", "media", "reads", "previews", "registry"}
  /\ Init
  /\ part # "requests" => env.store = "do" /\ env.db
  /\ Files!Init
  /\ part # "files" => folder = "media"
  /\ Media!Init
  /\ part # "media" => storage = "do" /\ minted = {}
  /\ Reads!Init
  /\ part # "reads" => store = "do" /\ \A p \in Pages : page[p].group = 0
  /\ Previews!Init
  /\ part # "previews" => ~raised /\ \A u \in Users : ~user[u].unstamped /\ user[u].roles = {"author"}
  /\ Registry!Init
  /\ part # "registry" => conf = Stranded

FirstUploader == CHOOSE c \in Uploaders : TRUE
Pristine(p) == p.draft = 1 /\ p.status = "draft" /\ ~p.trashed

EdgesNext ==
  \/ /\ part = "requests"
     /\ UNCHANGED <<part, fileVars, mediaVars, readVars, previewVars, registryVars>>
     /\ Next
     /\ (primary' = 0 /\ sent' = {}) \/ registry' = {}
  \/ /\ part = "files"
     /\ UNCHANGED <<part, vars, mediaVars, readVars, previewVars, registryVars>>
     /\ Files!Next
     /\ writes' # writes /\ writes' = MaxVersions => reader.pc = "getResolved"
  \/ /\ part = "media"
     /\ UNCHANGED <<part, vars, fileVars, readVars, previewVars, registryVars>>
     /\ Media!Next
     /\ (\A c \in Uploaders : work[c].pc = "idle") =>
          \A c \in Uploaders \ {FirstUploader} : work'[c] = work[c]
  \/ /\ part = "reads"
     /\ UNCHANGED <<part, vars, fileVars, mediaVars, previewVars, registryVars>>
     /\ Reads!Next
     /\ \/ file' = [there |-> TRUE, trashed |-> FALSE]
        \/ \A p \in Pages : Pristine(page'[p])
  \/ /\ part = "previews"
     /\ UNCHANGED <<part, vars, fileVars, mediaVars, readVars, registryVars>>
     /\ Previews!Next
  \/ /\ part = "registry"
     /\ UNCHANGED <<part, vars, fileVars, mediaVars, readVars, previewVars>>
     /\ Registry!Next
     /\ trail'[2].past = << >> /\ ~want'[2].up /\ want'[2].until = -1
     /\ cRows[2] # << >> => cRows'[2] \in {cRows[2], << >>}

EdgesSpec == EdgesInit /\ [][EdgesNext]_edgeVars

----------------------------------------------------------------------------
(* What a url serves is what was stored under it, to those it may serve it *)
(* to, and every row of the library stands for bytes of its own.           *)
BytesAreKept ==
  /\ part = "files" =>
       /\ Files!BytesAreTrue
       /\ Files!NoSplice
       /\ Files!RefusedIsOutside
       /\ Files!ActiveIsSandboxed
       /\ Files!PrivateStaysSigned
  /\ part = "media" =>
       /\ Media!OneRowPerBlob
       /\ Media!BytesBehindRows
       /\ Media!NothingIsOrphaned
       /\ Media!OneKindEach

(* A page is read published by anyone, and otherwise only by those who may *)
(* read drafts or who hold a link that one of them minted and that stands. *)
ReadsAreLicensed ==
  /\ part = "reads" => Reads!PublicIsPublished /\ Reads!TrashStaysHidden
  /\ part = "previews" => Previews!RevokedLinksStayShut /\ Previews!LinksReadAsTheirMinter

(* A registry that boots serves its collections as editors are told: a     *)
(* value the app's own column lacks is the only misfit a call fails for,   *)
(* the public sees what was published, history is whole and within sight,  *)
(* and lists are in order.                                                 *)
CollectionsKeepTheirWord ==
  part = "registry" =>
    /\ Registry!AcceptedWorks
    /\ Registry!PublicSeesPublished
    /\ Registry!HistoryIsWhole
    /\ Registry!ListsAreOrdered
=============================================================================
