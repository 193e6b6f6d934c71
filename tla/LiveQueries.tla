---------------------------- MODULE LiveQueries ----------------------------
(***************************************************************************)
(* Live queries of one Durable Object                                      *)
(* (packages/server/src/durable-object.ts): the WebSocket frames of its    *)
(* sockets, the in-memory subscription lists, the bit that survives        *)
(* hibernation, and the broadcast that follows every write.                *)
(*                                                                         *)
(* Everything that runs in the object is a job: a frame of a socket, or a  *)
(* write from elsewhere (an HTTP call, an admin write, a drained task)     *)
(* with the broadcast it causes.  A job runs alone until it awaits the     *)
(* outside world: a revocation lookup in KV, or a query handler that calls *)
(* out.  "run" is a job between two awaits; no other job moves then.       *)
(*                                                                         *)
(* A query's result is what it read of the tables' versions, so two        *)
(* results are equal exactly when their digests are.                       *)
(***************************************************************************)
EXTENDS Integers, FiniteSets

CONSTANTS
  Tables,             \* table a, and b where a query branches
  Sockets,            \* connections; each is opened at most once
  NoSocket,
  Ids,                \* subscription ids; a client uses each once per socket
  NoId,
  Branching,          \* queries whose read set depends on what they read
  MAX_SUBSCRIPTIONS,  \* durable-object.ts: 64
  Lookups,            \* do identities have a userId to look up in KV?
  SlowQueries,        \* may query handlers await something outside?
  LookupsFail,        \* may a KV lookup fail?
  Drops,              \* may a socket close while a frame of it is handled?
  Lapses,             \* ways a session may end: expired, revoked
  Hibernates,         \* may the idle object be evicted?
  MaxJobs             \* bound: frames and writes in a behaviour

LiveQueriesAssumption ==
  /\ Tables \in {{"a"}, {"a", "b"}}
  /\ Branching # {} => "b" \in Tables
  /\ NoSocket \notin Sockets
  /\ NoId \notin Ids
  /\ Branching \subseteq Ids
  /\ MAX_SUBSCRIPTIONS \in Nat
  /\ Lapses \subseteq {"expired", "revoked"}
  /\ MaxJobs \in Nat
  /\ {Lookups, SlowQueries, LookupsFail, Drops, Hibernates} \subseteq BOOLEAN

VARIABLES
  data,      \* versions of the tables
  socket,    \* per connection: its state, attachment bit and list of ids
  sub,       \* the Subscription objects: read set and digest
  client,    \* what the other end of each socket holds and last received
  lapsed,    \* per socket: is its session still good?
  job,       \* frames and writes, in order of arrival
  arrived    \* how many have arrived

vars == <<data, socket, sub, client, lapsed, job, arrived>>

Jobs   == 1..MaxJobs

(* known: subsBySocket has an entry, and ids is its array.  subscribed is  *)
(* the attachment's bit.                                                   *)
newSocket == [state |-> "new", subscribed |-> FALSE, known |-> FALSE, ids |-> {}]

noSub == [tables |-> {}, digest |-> <<>>]

(* The client's end of a subscription. *)
unasked == [st |-> "unasked", val |-> <<>>]

idleJob == [kind |-> "none", ws |-> NoSocket, id |-> NoId, table |-> "a", pc |-> "none",
            base |-> {}, got |-> noSub, barred |-> {}, late |-> {},
            targets |-> {}, captured |-> [w \in Sockets |-> {}],
            at |-> NoSocket, rest |-> {}, dirty |-> FALSE]

Version == 0..MaxJobs
Result  == {<<>>} \cup {<<v>> : v \in Version} \cup (Version \X Version)
SubObj  == [tables: SUBSET Tables, digest: Result]

Job == [kind: {"none", "subscribe", "unsubscribe", "call", "write"},
        ws: Sockets \cup {NoSocket}, id: Ids \cup {NoId}, table: Tables,
        pc: {"none", "queued", "lookup", "query", "castLookup", "run", "rerun", "done"},
        base: SUBSET Ids, got: SubObj, barred: SUBSET Sockets, late: SUBSET Sockets,
        targets: SUBSET Sockets, captured: [Sockets -> SUBSET Ids],
        at: Sockets \cup {NoSocket}, rest: SUBSET Ids, dirty: BOOLEAN]

TypeOK ==
  /\ data \in [Tables -> Version]
  /\ socket \in [Sockets -> [state: {"new", "open", "closed"}, subscribed: BOOLEAN,
                             known: BOOLEAN, ids: SUBSET Ids]]
  /\ sub \in [Sockets -> [Ids -> SubObj]]
  /\ client \in [Sockets -> [Ids -> [st: {"unasked", "waiting", "live", "refused", "gone"},
                                     val: Result]]]
  /\ lapsed \in [Sockets -> {"no", "expired", "revoked"}]
  /\ job \in [Jobs -> Job]
  /\ arrived \in 0..MaxJobs

Init ==
  /\ data = [t \in Tables |-> 0]
  /\ socket = [w \in Sockets |-> newSocket]
  /\ sub = [w \in Sockets |-> [i \in Ids |-> noSub]]
  /\ client = [w \in Sockets |-> [i \in Ids |-> unasked]]
  /\ lapsed = [w \in Sockets |-> "no"]
  /\ job = [n \in Jobs |-> idleJob]
  /\ arrived = 0

open(ws) == socket[ws].state = "open"

over(n) == job[n].pc \in {"none", "done"}

quiet == \A n \in Jobs : over(n)

(* Frames of one socket are handled one after the other. *)
inTurn(n) == \A m \in Jobs : m < n /\ job[m].ws = job[n].ws => over(m)

free == \A n \in Jobs : job[n].pc # "run"

canStart(n) == job[n].pc = "queued" /\ (job[n].ws # NoSocket => inTurn(n))

(* No job is between two awaits or about to start, so the next event may  *)
(* come in.                                                               *)
gateOpen == free /\ \A n \in Jobs : ~canStart(n)

(* What a query reads of the tables, and which tables those are. *)
branches(id) == id \in Branching /\ data["a"] > 0
result(id) == IF branches(id) THEN <<data["a"], data["b"]>> ELSE <<data["a"]>>
readSet(id) == IF branches(id) THEN {"a", "b"} ELSE {"a"}
evaluate(id) == [tables |-> readSet(id), digest |-> result(id)]

-----------------------------------------------------------------------------
(***************************************************************************)
(* Sockets and the frames and writes that come in.                         *)
(***************************************************************************)
upgrade(ws) ==
  /\ gateOpen
  /\ socket[ws].state = "new"
  /\ socket' = [socket EXCEPT ![ws].state = "open", ![ws].known = TRUE]
  /\ UNCHANGED <<data, sub, client, lapsed, job, arrived>>

arrive(j) ==
  /\ gateOpen
  /\ arrived < MaxJobs
  /\ arrived' = arrived + 1
  /\ job' = [job EXCEPT ![arrived + 1] =
       [j EXCEPT !.pc = "queued", !.late = {w \in Sockets : lapsed[w] # "no"}]]
  /\ UNCHANGED <<data, socket, sub, lapsed>>

sendSubscribe(ws, id) ==
  /\ open(ws)
  /\ client[ws][id].st = "unasked"
  /\ client' = [client EXCEPT ![ws][id] = [st |-> "waiting", val |-> <<>>]]
  /\ arrive([idleJob EXCEPT !.kind = "subscribe", !.ws = ws, !.id = id])

sendUnsubscribe(ws, id) ==
  /\ open(ws)
  /\ client[ws][id].st \in {"waiting", "live"}
  /\ client' = [client EXCEPT ![ws][id] = [st |-> "gone", val |-> <<>>]]
  /\ arrive([idleJob EXCEPT !.kind = "unsubscribe", !.ws = ws, !.id = id])

sendCall(ws, t) ==
  /\ open(ws)
  /\ arrive([idleJob EXCEPT !.kind = "call", !.ws = ws, !.table = t])
  /\ UNCHANGED client

writeElsewhere(t) ==
  /\ arrive([idleJob EXCEPT !.kind = "write", !.table = t])
  /\ UNCHANGED client

(* The list of a socket as setSubs leaves it, with the attachment's bit. *)
setSubsNoBit(s, ws, ids) ==     \* mutant: the bit is not kept in step
  [s EXCEPT ![ws] = [@ EXCEPT !.known = TRUE, !.ids = ids]]
setSubs(s, ws, ids) ==
  [s EXCEPT ![ws] = [@ EXCEPT !.known = TRUE, !.ids = ids, !.subscribed = (ids # {})]]

forgetNothing(s, ws) == s       \* mutant
forget(s, ws) == [s EXCEPT ![ws] = [@ EXCEPT !.known = FALSE, !.ids = {}]]

closeAll(s, gone) ==
  [w \in Sockets |-> IF w \in gone THEN [s[w] EXCEPT !.state = "closed", !.known = FALSE, !.ids = {}]
                     ELSE s[w]]

webSocketClose(ws) ==
  /\ gateOpen
  /\ open(ws)
  /\ Drops \/ \A n \in Jobs : job[n].ws = ws => over(n)
  /\ socket' = [forget(socket, ws) EXCEPT ![ws].state = "closed"]
  /\ UNCHANGED <<data, sub, client, lapsed, job, arrived>>

(* The idle object is evicted with its sockets left open: the lists are    *)
(* gone, the attachments stay.                                             *)
hibernate ==
  /\ Hibernates
  /\ quiet
  /\ \E w \in Sockets : socket[w].known
  /\ socket' = [w \in Sockets |-> [socket[w] EXCEPT !.known = FALSE, !.ids = {}]]
  /\ UNCHANGED <<data, sub, client, lapsed, job, arrived>>

lapse(ws) ==
  /\ gateOpen
  /\ lapsed[ws] = "no"
  /\ \E how \in Lapses : lapsed' = [lapsed EXCEPT ![ws] = how]
  /\ UNCHANGED <<data, socket, sub, client, job, arrived>>

-----------------------------------------------------------------------------
(***************************************************************************)
(* The broadcast.                                                          *)
(***************************************************************************)
revoked == {w \in Sockets : lapsed[w] = "revoked"}

(* Lost to hibernation: the bit is set and there is no entry. *)
orphaned(s, w) == ~s[w].known /\ s[w].subscribed

reads(ids, w, t) == {i \in ids : t \in sub[w][i].tables}

(* Close what cannot be pushed to, remember the lists of the sockets this  *)
(* write concerns, and look their sessions up; with no such socket, or no  *)
(* session to look up, nothing is awaited.                                 *)
beginCast(n, j, s) ==
  LET alive   == {w \in Sockets : s[w].state = "open"}
      bad     == {w \in alive : lapsed[w] = "expired" \/ orphaned(s, w)}
      targets == {w \in alive \ bad : reads(s[w].ids, w, j.table) # {}}
  IN  /\ socket' = closeAll(s, bad)
      /\ job' = [job EXCEPT ![n] =
           IF targets = {} THEN [idleJob EXCEPT !.pc = "done"]
           ELSE [j EXCEPT !.pc = IF Lookups THEN "castLookup" ELSE "run",
                          !.targets = targets,
                          !.captured = [w \in Sockets |-> IF w \in targets THEN s[w].ids ELSE {}],
                          !.barred = IF Lookups THEN revoked \cap targets ELSE {}]]

(* The lookups are in.  A socket whose lookup failed is skipped. *)
castLooked(n) ==
  /\ job[n].pc = "castLookup"
  /\ gateOpen
  /\ \E failed \in SUBSET job[n].targets :
       /\ failed # {} => LookupsFail
       /\ job' = [job EXCEPT ![n].pc = "run", ![n].targets = @ \ failed]
  /\ UNCHANGED <<data, socket, sub, client, lapsed, arrived>>

atSocket(n) == job[n].pc = "run" /\ job[n].at # NoSocket
betweenSockets(n) == job[n].pc = "run" /\ job[n].at = NoSocket

pushAnyway(n, w) == FALSE       \* mutant: the verdict is not looked at
isBarred(n, w) == w \in job[n].barred

castSocket(n, w) ==
  /\ betweenSockets(n)
  /\ w \in job[n].targets
  /\ IF isBarred(n, w)
       THEN /\ socket' = closeAll(socket, {w})
            /\ job' = [job EXCEPT ![n].targets = @ \ {w}]
       ELSE /\ job' = [job EXCEPT ![n] = [job[n] EXCEPT
                 !.targets = @ \ {w}, !.at = w, !.dirty = FALSE,
                 !.rest = reads(job[n].captured[w], w, job[n].table)]]
            /\ UNCHANGED socket
  /\ UNCHANGED <<data, sub, client, lapsed, arrived>>

castOver(n) ==
  /\ betweenSockets(n)
  /\ job[n].targets = {}
  /\ job' = [job EXCEPT ![n] = [idleJob EXCEPT !.pc = "done"]]
  /\ UNCHANGED <<data, socket, sub, client, lapsed, arrived>>

(* A data frame reaches the client if the socket is open (send throws      *)
(* otherwise) and counts if the client still holds the subscription.       *)
received(ws, id, val) ==
  IF open(ws) /\ client[ws][id].st \in {"waiting", "live"}
    THEN [client EXCEPT ![ws][id] = [st |-> "live", val |-> val]]
    ELSE client

pushForgetful(n, id, val, j) ==     \* mutant: the digest is not replaced
  LET w == job[n].at
  IN  IF val = sub[w][id].digest
        THEN /\ job' = [job EXCEPT ![n] = j]
             /\ UNCHANGED <<sub, client>>
        ELSE /\ client' = received(w, id, val)
             /\ job' = [job EXCEPT ![n] = [j EXCEPT !.dirty = TRUE]]
             /\ UNCHANGED sub
push(n, id, val, j) ==
  LET w == job[n].at
  IN  IF val = sub[w][id].digest
        THEN /\ job' = [job EXCEPT ![n] = j]
             /\ UNCHANGED <<sub, client>>
        ELSE /\ sub' = [sub EXCEPT ![w][id].digest = val]
             /\ client' = received(w, id, val)
             /\ job' = [job EXCEPT ![n] = [j EXCEPT !.dirty = TRUE]]

(* Re-run one subscription: the read set it had when subscribed is kept. *)
rerun(n, id) ==
  /\ atSocket(n)
  /\ id \in job[n].rest
  /\ LET j == [job[n] EXCEPT !.rest = @ \ {id}]
     IN  IF SlowQueries
           THEN /\ job' = [job EXCEPT ![n] =
                     [j EXCEPT !.pc = "rerun", !.id = id, !.got = evaluate(id)]]
                /\ UNCHANGED <<sub, client>>
           ELSE push(n, id, result(id), j)
  /\ UNCHANGED <<data, socket, lapsed, arrived>>

reran(n) ==
  /\ job[n].pc = "rerun"
  /\ gateOpen
  /\ push(n, job[n].id, job[n].got.digest,
          [job[n] EXCEPT !.pc = "run", !.id = NoId, !.got = noSub])
  /\ UNCHANGED <<data, socket, lapsed, arrived>>

(* if (dirty) setSubs(ws, subs), with the array the broadcast started from. *)
socketDone(n) ==
  /\ atSocket(n)
  /\ job[n].rest = {}
  /\ socket' = IF job[n].dirty
                 THEN setSubs(socket, job[n].at, job[n].captured[job[n].at])
                 ELSE socket
  /\ job' = [job EXCEPT ![n].at = NoSocket, ![n].dirty = FALSE]
  /\ UNCHANGED <<data, sub, client, lapsed, arrived>>

castStep(n) ==
  \/ castLooked(n)
  \/ \E w \in Sockets : castSocket(n, w)
  \/ \E id \in Ids : rerun(n, id)
  \/ reran(n)
  \/ socketDone(n)
  \/ castOver(n)

-----------------------------------------------------------------------------
(***************************************************************************)
(* Frames.                                                                 *)
(***************************************************************************)
finished(n) == job' = [job EXCEPT ![n] = [idleJob EXCEPT !.pc = "done"]]

writeTwice(t) == data' = [data EXCEPT ![t] = @ + 2]     \* mutant
write(t) == data' = [data EXCEPT ![t] = @ + 1]

(* A write that did not come in by a socket: commit, then broadcast. *)
fetchRpc(n) ==
  /\ job[n].kind = "write"
  /\ canStart(n)
  /\ free
  /\ write(job[n].table)
  /\ beginCast(n, job[n], socket)
  /\ UNCHANGED <<sub, client, lapsed, arrived>>

reject(n) ==
  /\ finished(n)
  /\ socket' = IF open(job[n].ws) THEN closeAll(socket, {job[n].ws}) ELSE socket
  /\ UNCHANGED <<data, sub, client>>

(* A result is sent before the broadcast; on a closed socket that throws,  *)
(* and the write stays committed without its broadcast.                    *)
onCall(n) ==
  /\ write(job[n].table)
  /\ IF open(job[n].ws) THEN beginCast(n, job[n], socket)
                        ELSE finished(n) /\ UNCHANGED socket
  /\ UNCHANGED <<sub, client>>

onUnsubscribe(n) ==
  LET ws == job[n].ws
  IN  /\ socket' = setSubs(socket, ws, socket[ws].ids \ {job[n].id})
      /\ finished(n)
      /\ UNCHANGED <<data, sub, client>>

installSub(n, base, q) ==
  LET ws == job[n].ws
      id == job[n].id
  IN  /\ socket' = setSubs(socket, ws, base \cup {id})
      /\ sub' = [sub EXCEPT ![ws][id] = q]
      /\ client' = received(ws, id, q.digest)
      /\ finished(n)
      /\ UNCHANGED data

limitOneMore(ids) == Cardinality(ids) > MAX_SUBSCRIPTIONS       \* mutant
limitReached(ids) == Cardinality(ids) >= MAX_SUBSCRIPTIONS

refuse(n) ==
  LET ws == job[n].ws
  IN  /\ client' = IF open(ws) /\ client[ws][job[n].id].st = "waiting"
                     THEN [client EXCEPT ![ws][job[n].id].st = "refused"]
                     ELSE client
      /\ finished(n)
      /\ UNCHANGED <<data, socket, sub>>

(* The list is read before the query runs and written back after it. *)
onSubscribe(n) ==
  LET ids == socket[job[n].ws].ids
  IN  IF limitReached(ids) THEN refuse(n)
      ELSE IF SlowQueries
        THEN /\ job' = [job EXCEPT ![n] =
                  [@ EXCEPT !.pc = "query", !.base = ids, !.got = evaluate(job[n].id)]]
             /\ UNCHANGED <<data, socket, sub, client>>
        ELSE installSub(n, ids, evaluate(job[n].id))

queryAnswered(n) ==
  /\ job[n].pc = "query"
  /\ gateOpen
  /\ installSub(n, job[n].base, job[n].got)
  /\ UNCHANGED <<lapsed, arrived>>

resubscribeNever(n) == FALSE    \* mutant: a frame of an orphaned socket is served
mustResubscribe(n) == job[n].kind # "call" /\ orphaned(socket, job[n].ws)

(* A frame whose session is good. *)
serve(n) ==
  IF mustResubscribe(n) THEN reject(n)
  ELSE \/ job[n].kind = "subscribe" /\ onSubscribe(n)
       \/ job[n].kind = "unsubscribe" /\ onUnsubscribe(n)
       \/ job[n].kind = "call" /\ onCall(n)

startFrame(n) ==
  /\ job[n].ws # NoSocket
  /\ canStart(n)
  /\ free
  /\ IF lapsed[job[n].ws] = "expired" THEN reject(n)
     ELSE IF Lookups
       THEN /\ job' = [job EXCEPT ![n].pc = "lookup", ![n].barred = revoked \cap {job[n].ws}]
            /\ UNCHANGED <<data, socket, sub, client>>
       ELSE serve(n)
  /\ UNCHANGED <<lapsed, arrived>>

frameLooked(n) ==
  /\ job[n].pc = "lookup"
  /\ gateOpen
  /\ IF isBarred(n, job[n].ws) THEN reject(n) ELSE serve(n)
  /\ UNCHANGED <<lapsed, arrived>>

(* A lookup that fails rejects the frame's promise, and nothing is sent. *)
frameLookupFails(n) ==
  /\ LookupsFail
  /\ job[n].pc = "lookup"
  /\ gateOpen
  /\ finished(n)
  /\ UNCHANGED <<data, socket, sub, client, lapsed, arrived>>

frameStep(n) ==
  \/ startFrame(n)
  \/ frameLooked(n)
  \/ frameLookupFails(n)
  \/ queryAnswered(n)

Next ==
  \/ \E ws \in Sockets :
       \/ upgrade(ws)
       \/ webSocketClose(ws)
       \/ lapse(ws)
       \/ \E t \in Tables : sendCall(ws, t)
       \/ \E id \in Ids : sendSubscribe(ws, id) \/ sendUnsubscribe(ws, id)
  \/ \E t \in Tables : writeElsewhere(t)
  \/ hibernate
  \/ \E n \in Jobs : fetchRpc(n) \/ frameStep(n) \/ castStep(n)

Spec == Init /\ [][Next]_vars

-----------------------------------------------------------------------------
held(ws) == {i \in Ids : client[ws][i].st \in {"waiting", "live"}}

(* With nothing under way, the object's list of an open socket is exactly  *)
(* what its client holds: no subscription was lost, none is left that      *)
(* nobody holds; or the list was lost to hibernation and the bit says so.  *)
HeldIsKnown ==
  quiet => \A w \in Sockets : open(w) =>
    IF socket[w].known THEN socket[w].ids = held(w)
                       ELSE held(w) # {} => socket[w].subscribed

(* With nothing under way, what a client holds is the result of its query  *)
(* on the current data, whatever order subscribes, writes, broadcasts and  *)
(* hibernation came in.                                                    *)
FreshWhenQuiet ==
  quiet => \A w \in Sockets, i \in Ids :
    open(w) /\ client[w][i].st = "live" => client[w][i].val = result(i)

(* A job never hands data to a socket whose session had lapsed before the  *)
(* job came in, however late its lookups answer.                           *)
DataAfterLapse ==
  \E n \in Jobs, w \in Sockets :
    /\ job'[n] # job[n]
    /\ w \in job[n].late
    /\ \E i \in Ids : client'[w][i].st = "live" /\ client'[w][i] # client[w][i]
NoDataAfterLapse == [][~DataAfterLapse]_vars

(* The digest a broadcast compares with is that of the last result the     *)
(* client was sent, so a push that is skipped would have changed nothing.  *)
DigestIsLastSent ==
  \A w \in Sockets, i \in Ids :
    open(w) /\ client[w][i].st = "live" => sub[w][i].digest = client[w][i].val

(* Neither overlapping subscribes nor arrays written back late take a      *)
(* socket beyond its cap.                                                  *)
WithinLimit == \A w \in Sockets : Cardinality(socket[w].ids) <= MAX_SUBSCRIPTIONS

(* Nothing of a socket stays in memory once it is closed. *)
NoClosedEntry ==
  quiet => \A w \in Sockets : socket[w].state = "closed" => ~socket[w].known
=============================================================================
