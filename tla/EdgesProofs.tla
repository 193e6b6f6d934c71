----------------------------- MODULE EdgesProofs -----------------------------
(***************************************************************************)
(* Theorems about what the service hands out at its edges (MCEdges):       *)
(* requests and where they arrive, signed urls and the bytes behind them,  *)
(* the rows of the media library, the reads of pages, preview links and    *)
(* the collections an app registers.                                       *)
(***************************************************************************)
EXTENDS MCEdges, Sequences, FiniteSetTheorems, TLAPS

----------------------------------------------------------------------------
(* Proofs: for every set of deployments, tokens, handlers, tenants and     *)
(* partitions.                                                             *)

(* The session with D1: versions only grow, the client's bookmark is no    *)
(* older than what it was shown, and a call on its way took one along that *)
(* is no older than what the client had seen when it left.                 *)
SessionInv ==
  /\ primary \in Nat /\ bookmark \in Nat /\ seen \in Nat
  /\ seen <= bookmark /\ bookmark <= primary
  /\ \A a \in answers : a \in Nat /\ a <= primary
  /\ \A c \in sent :
       /\ c.bookmark \in Nat /\ c.floor \in Nat
       /\ c.floor <= c.bookmark /\ c.bookmark <= primary
  /\ staleRead = FALSE

(* A store that believes itself registered is.                             *)
ListedInv == meta \subseteq registry /\ serving \subseteq registry

ReachedInv == TenantsAreApart /\ PartitionsAreApart /\ NobodyPoses /\ SharedStaysMain

(* Where a request may end up, said of what it asks for.                   *)
Addressed(op, place, partition, roles) ==
  \/ op \in Routes /\ (partition \in Partitions \/ "admin" \in roles)
  \/ \E h \in Handlers : op = h.name /\ partition = IF place = "d1" THEN "default" ELSE h.partition

BoundInv == SessionInv /\ ListedInv /\ ReachedInv

-----------------------------------------------------------------------------
(* Where a step leaves what was reached.                                   *)

LEMMA NothingIsReached ==
  ASSUME reached' = Nothing
  PROVE  ReachedInv'
BY DEF ReachedInv, TenantsAreApart, PartitionsAreApart, NobodyPoses, SharedStaysMain, FromOutside,
       Happened

(* Who sent it: names are unique.                                          *)
LEMMA SenderIs ==
  ASSUME NEW token \in Tokens, reached'.token = token.name
  PROVE  Sender' = token
BY RequestsAssumption DEF RequestsAssumption, Sender

(* A token that is let in is alive, and of a signer this service trusts.   *)
LEMMA LetInIsAlive ==
  ASSUME NEW token \in Tokens, NEW host \in Hosts, authenticates(host, token)
  PROVE  /\ ~token.revoked /\ token.exp # "past"
         /\ token.signer \in {"nobody", "service", "published", "idp"}
         /\ token.signer = "published" => host # "public"
         /\ token.signer = "idp" => token.aud = "here"
<1>1. CASE token.signer = "nobody"
  BY <1>1, RequestsAssumption DEF RequestsAssumption
<1>2. CASE token.signer # "nobody"
  BY <1>2 DEF authenticates, verifyJwt, trusts, misconfiguration, unboundKeys, isLocalHost, Hosts
<1> QED  BY <1>1, <1>2

(* The roles a token acts with are its own, less those of the system, and  *)
(* a tenant it is let into is one of its own unless it is an admin's.      *)
LEMMA IdentityIsTheTokens ==
  ASSUME NEW token \in Tokens
  PROVE  /\ toIdentity(token).roles \subseteq token.roles \ SystemRoles
         /\ toIdentity(token).tenants \subseteq token.tenants
BY DEF toIdentity, Anonymous

LEMMA ProvenIsReached ==
  ASSUME NEW token \in Tokens, NEW host \in Hosts, authenticates(host, token),
         NEW op, NEW place, NEW tenant, NEW partition, NEW roles,
         roles \subseteq toIdentity(token).roles,
         authorizeTenant(toIdentity(token), tenant),
         place = "d1" /\ ~env.shared => tenant = "main",
         Addressed(op, place, partition, roles),
         env' = env,
         reached' = Op(op, place, tenant, partition, roles, token.name, host)
  PROVE  ReachedInv'
<1>1. /\ reached'.store = place /\ reached'.tenant = tenant /\ reached'.roles = roles
      /\ reached'.token = token.name /\ reached'.public = (host = "public")
      /\ reached'.op = op /\ reached'.partition = partition
  BY DEF Op
<1>2. Sender' = token  BY <1>1, SenderIs
<1>3. TenantsAreApart'
  BY <1>1, <1>2, IdentityIsTheTokens DEF TenantsAreApart, authorizeTenant, isAdmin
<1>4. NobodyPoses'
  BY <1>1, <1>2, IdentityIsTheTokens, LetInIsAlive DEF NobodyPoses
<1>5. SharedStaysMain'  BY <1>1 DEF SharedStaysMain
<1>6. PartitionsAreApart'
  <2>1. CASE op \in Routes /\ (partition \in Partitions \/ "admin" \in roles)
    <3>1. "admin" \in roles => "admin" \in token.roles  BY IdentityIsTheTokens
    <3> QED  BY <1>1, <1>2, <2>1, <3>1 DEF PartitionsAreApart
  <2>2. ASSUME NEW h \in Handlers, op = h.name,
               partition = IF place = "d1" THEN "default" ELSE h.partition
        PROVE  PartitionsAreApart'
    <3>1. op \notin Routes  BY <2>2, RequestsAssumption DEF RequestsAssumption
    <3>2. h.partition \in {g.partition : g \in {k \in Handlers : k.name = op}}  BY <2>2
    <3> QED  BY <1>1, <2>2, <3>1, <3>2 DEF PartitionsAreApart
  <2> QED  BY <2>1, <2>2 DEF Addressed
<1> QED  BY <1>3, <1>4, <1>5, <1>6 DEF ReachedInv

-----------------------------------------------------------------------------
(* What a Durable Object does before it serves keeps it listed.            *)

LEMMA ServesKeepsListed ==
  ASSUME ListedInv, NEW s, Serves(s)
  PROVE  ListedInv'
BY DEF ListedInv, Serves, ensureRegistered

LEMMA SessionKept ==
  ASSUME SessionInv, UNCHANGED d1Vars
  PROVE  SessionInv'
BY DEF SessionInv, d1Vars

LEMMA ListKept ==
  ASSUME ListedInv, UNCHANGED doVars
  PROVE  ListedInv'
BY DEF ListedInv, doVars

-----------------------------------------------------------------------------
(* The requests, one by one.                                               *)

LEMMA RpcOnDoKeeps ==
  ASSUME BoundInv, NEW host \in Hosts, NEW token \in Tokens, NEW tenant \in Tenants,
         NEW header, NEW h \in Handlers, NEW spoofed, rpcOnDo(host, token, tenant, header, h, spoofed)
  PROVE  BoundInv'
<1>1. SessionInv' /\ ListedInv'
  BY SessionKept, ServesKeepsListed DEF rpcOnDo, BoundInv
<1>2. ReachedInv'
  <2>1. CASE reached' = Nothing  BY <2>1, NothingIsReached
  <2>2. CASE reached' = Op(h.name, "do", tenant, h.partition, toIdentity(token).roles, token.name, host)
    <3>1. authenticates(host, token) /\ authorizeTenant(toIdentity(token), tenant) /\ env' = env
      BY DEF rpcOnDo
    <3>2. Addressed(h.name, "do", h.partition, toIdentity(token).roles)  BY DEF Addressed
    <3> QED  BY <2>2, <3>1, <3>2, ProvenIsReached
  <2> QED  BY <2>1, <2>2 DEF rpcOnDo, forwarded
<1> QED  BY <1>1, <1>2 DEF BoundInv

LEMMA LiveKeeps ==
  ASSUME BoundInv, NEW host \in Hosts, NEW token \in Tokens, NEW tenant \in Tenants,
         NEW partition, NEW spoofed, live(host, token, tenant, partition, spoofed)
  PROVE  BoundInv'
<1>1. SessionInv' /\ ListedInv'
  BY SessionKept, ServesKeepsListed DEF live, BoundInv
<1>2. ReachedInv'
  BY ProvenIsReached DEF live, forwarded, Addressed, Routes
<1> QED  BY <1>1, <1>2 DEF BoundInv

LEMMA AdminOnDoKeeps ==
  ASSUME BoundInv, NEW host \in Hosts, NEW token \in Tokens, NEW tenant \in Tenants,
         NEW partition, adminOnDo(host, token, tenant, partition)
  PROVE  BoundInv'
<1>1. SessionInv' /\ ListedInv'
  BY SessionKept, ServesKeepsListed DEF adminOnDo, BoundInv
<1>2. ReachedInv'
  BY ProvenIsReached DEF adminOnDo, authorizeTenant, isAdmin, Addressed, Routes
<1> QED  BY <1>1, <1>2 DEF BoundInv

LEMMA AdminProbesKeeps ==
  ASSUME BoundInv, NEW host \in Hosts, NEW token \in Tokens, NEW op \in Routes, NEW tenant,
         NEW partition, adminProbes(host, token, op, tenant, partition)
  PROVE  BoundInv'
<1>1. SessionInv' /\ ListedInv'
  BY SessionKept, ListKept DEF adminProbes, BoundInv
<1>2. ReachedInv'
  BY ProvenIsReached DEF adminProbes, authorizeTenant, isAdmin, Addressed
<1> QED  BY <1>1, <1>2 DEF BoundInv

LEMMA AdminOnD1Keeps ==
  ASSUME BoundInv, NEW host \in Hosts, NEW token \in Tokens, NEW op \in Routes, NEW tenant,
         adminOnD1(host, token, op, tenant)
  PROVE  BoundInv'
<1>1. SessionInv' /\ ListedInv'
  BY SessionKept, ListKept DEF adminOnD1, BoundInv
<1>2. ReachedInv'
  BY ProvenIsReached DEF adminOnD1, authorizeTenant, isAdmin, mayUseD1, Addressed
<1> QED  BY <1>1, <1>2 DEF BoundInv

LEMMA PrivilegedKeeps ==
  ASSUME BoundInv, NEW host \in Hosts, NEW header, NEW tenant, NEW partition, NEW h, NEW roles,
         privilegedCall(host, header, tenant, partition, h, roles)
  PROVE  BoundInv'
<1>1. SessionInv'
  BY SessionKept DEF privilegedCall, BoundInv
<1>2. ListedInv'
  BY ListKept, ServesKeepsListed DEF privilegedCall, BoundInv
<1>3. PICK place \in {"d1", "do"}, where \in {"default", partition} :
        /\ place = "d1" => mayUseD1(tenant)
        /\ reached' = Op(h.name, place, tenant, where, roles, "worker", host)
        /\ env' = env
  BY DEF privilegedCall
<1>4. reached'.store = place /\ reached'.tenant = tenant /\ reached'.token = "worker"
  BY <1>3 DEF Op
<1>5. ReachedInv'
  BY <1>3, <1>4
     DEF ReachedInv, TenantsAreApart, PartitionsAreApart, NobodyPoses, SharedStaysMain, FromOutside,
         mayUseD1
<1> QED  BY <1>1, <1>2, <1>5 DEF BoundInv

LEMMA CallsKeeps ==
  ASSUME BoundInv, calls
  PROVE  BoundInv'
<1>1. SessionInv'
  <2> DEFINE c == [bookmark |-> bookmark, floor |-> seen]
  <2>1. c.bookmark = bookmark /\ c.floor = seen /\ sent' = sent \cup {c}
    BY DEF calls
  <2> HIDE DEF c
  <2> QED  BY <2>1 DEF calls, BoundInv, SessionInv
<1>2. ListedInv'  BY ListKept DEF calls, BoundInv
<1>3. ReachedInv'  BY NothingIsReached DEF calls
<1> QED  BY <1>1, <1>2, <1>3 DEF BoundInv

LEMMA DispatchKeeps ==
  ASSUME BoundInv, NEW c \in sent, NEW host \in Hosts, NEW token \in Tokens, NEW tenant,
         NEW header, NEW h \in Handlers, dispatchD1(c, host, token, tenant, header, h)
  PROVE  BoundInv'
<1>1. ListedInv'  BY ListKept DEF dispatchD1, BoundInv
<1>2. CASE /\ reached' = Nothing
           /\ UNCHANGED <<primary, answers, staleRead>>
  <2>1. SessionInv'
    BY <1>2 DEF dispatchD1, BoundInv, SessionInv
  <2> QED  BY <1>1, <1>2, <2>1, NothingIsReached DEF BoundInv
<1>3. CASE /\ authenticates(host, token) /\ authorizeTenant(toIdentity(token), tenant)
           /\ mayUseD1(tenant)
           /\ reached' = Op(h.name, "d1", tenant, "default", toIdentity(token).roles, token.name, host)
           /\ \E read \in start(c, h) .. primary :
                /\ staleRead' = (staleRead \/ read < c.floor)
                /\ \/ /\ primary' = primary + 1
                      /\ answers' = answers \cup {primary + 1} \/ UNCHANGED answers
                   \/ answers' = answers \cup {read} /\ UNCHANGED primary
  <2>1. ReachedInv'
    BY <1>3, ProvenIsReached DEF dispatchD1, mayUseD1, Addressed
  <2>2. PICK read \in start(c, h) .. primary :
          /\ staleRead' = (staleRead \/ read < c.floor)
          /\ \/ /\ primary' = primary + 1
                /\ answers' = answers \cup {primary + 1} \/ UNCHANGED answers
             \/ answers' = answers \cup {read} /\ UNCHANGED primary
    BY <1>3
  <2>3. /\ c.floor \in Nat /\ c.bookmark \in Nat /\ c.floor <= c.bookmark
        /\ c.bookmark <= primary /\ primary \in Nat
    BY DEF BoundInv, SessionInv
  <2>4. start(c, h) \in Nat /\ c.floor <= start(c, h)
    BY <2>3 DEF start
  <2>5. read \in Nat /\ read <= primary /\ ~(read < c.floor)
    BY <2>3, <2>4
  <2>6. staleRead' = FALSE
    BY <2>2, <2>5, Zenon DEF BoundInv, SessionInv
  <2>7. sent' \subseteq sent /\ UNCHANGED <<bookmark, seen>>
    BY DEF dispatchD1
  <2>8. SessionInv'
    BY <2>2, <2>5, <2>6, <2>7 DEF BoundInv, SessionInv
  <2> QED  BY <1>1, <2>1, <2>8 DEF BoundInv
<1> QED  BY <1>2, <1>3 DEF dispatchD1

LEMMA AnsweredKeeps ==
  ASSUME BoundInv, NEW a \in answers, answered(a)
  PROVE  BoundInv'
<1>1. SessionInv'
  BY DEF answered, newest, BoundInv, SessionInv
<1>2. ListedInv'  BY ListKept DEF answered, BoundInv
<1>3. ReachedInv'  BY NothingIsReached DEF answered
<1> QED  BY <1>1, <1>2, <1>3 DEF BoundInv

LEMMA DiesKeeps ==
  ASSUME BoundInv, NEW s, dies(s) \/ Restored(s)
  PROVE  BoundInv'
<1>1. SessionInv'  BY SessionKept DEF dies, Restored, BoundInv
<1>2. ListedInv'  BY DEF dies, Restored, BoundInv, ListedInv
<1>3. ReachedInv'  BY NothingIsReached DEF dies, Restored
<1> QED  BY <1>1, <1>2, <1>3 DEF BoundInv

LEMMA RepliedKeeps ==
  ASSUME BoundInv, replied
  PROVE  BoundInv'
BY SessionKept, ListKept, NothingIsReached DEF replied, BoundInv

-----------------------------------------------------------------------------

LEMMA RequestsInit == Init => BoundInv
<1> SUFFICES ASSUME Init PROVE BoundInv
  OBVIOUS
<1>1. SessionInv /\ ListedInv  BY DEF Init, SessionInv, ListedInv
<1>2. ReachedInv
  BY DEF Init, ReachedInv, TenantsAreApart, PartitionsAreApart, NobodyPoses, SharedStaysMain,
         FromOutside, Happened
<1> QED  BY <1>1, <1>2 DEF BoundInv

LEMMA RequestsStep == BoundInv /\ [Next]_vars => BoundInv'
<1> SUFFICES ASSUME BoundInv, [Next]_vars PROVE BoundInv'
  OBVIOUS
<1>1. CASE UNCHANGED vars
  <2>1. SessionInv' /\ ListedInv'
    BY <1>1, SessionKept, ListKept DEF BoundInv, vars
  <2>2. reached' = reached /\ env' = env  BY <1>1 DEF vars
  <2>3. ReachedInv'
    BY <2>2 DEF BoundInv, ReachedInv, TenantsAreApart, PartitionsAreApart, NobodyPoses,
                SharedStaysMain, FromOutside, Happened, Sender
  <2> QED  BY <2>1, <2>3 DEF BoundInv
<1>2. CASE replied  BY <1>2, RepliedKeeps
<1>3. CASE Request
  <2>1. ASSUME NEW host \in Hosts, NEW token \in Tokens, NEW tenant \in Tenants,
               NEW header \in Headers, NEW h \in Handlers,
               rpcOnDo(host, token, tenant, header, h, Spoofed)
        PROVE  BoundInv'
    BY <2>1, RpcOnDoKeeps
  <2>2. ASSUME NEW host \in Hosts, NEW token \in Tokens, NEW tenant \in Tenants,
               NEW partition, live(host, token, tenant, partition, Spoofed)
        PROVE  BoundInv'
    BY <2>2, LiveKeeps
  <2>3. ASSUME NEW host \in Hosts, NEW token \in Tokens, NEW op \in Routes, NEW tenant, NEW partition,
               adminProbes(host, token, op, tenant, partition)
        PROVE  BoundInv'
    BY <2>3, AdminProbesKeeps
  <2>4. ASSUME NEW host \in Hosts, NEW token \in Tokens, NEW tenant \in Tenants, NEW partition,
               adminOnDo(host, token, tenant, partition)
        PROVE  BoundInv'
    BY <2>4, AdminOnDoKeeps
  <2>5. ASSUME NEW host \in Hosts, NEW token \in Tokens, NEW op \in Routes, NEW tenant,
               adminOnD1(host, token, op, tenant)
        PROVE  BoundInv'
    BY <2>5, AdminOnD1Keeps
  <2>6. ASSUME NEW host \in Hosts, NEW header, NEW tenant, NEW partition, NEW h, NEW roles,
               privilegedCall(host, header, tenant, partition, h, roles)
        PROVE  BoundInv'
    BY <2>6, PrivilegedKeeps
  <2>7. ASSUME NEW c \in sent, NEW host \in Hosts, NEW token \in Tokens, NEW tenant,
               NEW header, NEW h \in Handlers, dispatchD1(c, host, token, tenant, header, h)
        PROVE  BoundInv'
    BY <2>7, DispatchKeeps
  <2>8. ASSUME NEW a \in answers, answered(a) PROVE BoundInv'
    BY <2>8, AnsweredKeeps
  <2>9. ASSUME NEW s, dies(s) \/ Restored(s) PROVE BoundInv'
    BY <2>9, DiesKeeps
  <2> QED
    BY <1>3, <2>1, <2>2, <2>3, <2>4, <2>5, <2>6, <2>7, <2>8, <2>9, CallsKeeps DEF Request, Routes
<1> QED  BY <1>1, <1>2, <1>3 DEF Next

(***************************************************************************)
(* Whatever headers it sends and whichever deployment it meets, a request  *)
(* reaches no other tenant's store than its token allows and no partition  *)
(* but its handler's or, an administrator aside, the schema's, acts with   *)
(* no role its token does not grant and only while that token stands,      *)
(* keeps to the main tenant where D1 has no isolation, never reads less    *)
(* than its client was shown, and leaves no store unlisted.                *)
(***************************************************************************)
THEOREM RequestsStayInBounds == Spec => []RequestsAreBound
<1>1. BoundInv => RequestsAreBound
  BY DEF BoundInv, ReachedInv, SessionInv, ListedInv, RequestsAreBound, ReadsWhatItSaw, NothingIsHidden
<1> QED  BY RequestsInit, RequestsStep, <1>1, PTL DEF Spec
----------------------------------------------------------------------------
(* Reads of pages.  While a request runs, what its history says was public *)
(* or out of the trash covers what is so now, and what it has read was so. *)

ReadInv ==
  /\ answer # Reads!Silent => call = Reads!NoCall
  /\ call # Reads!NoCall =>
       /\ Reads!At(page, file).public \subseteq during.public
       /\ Reads!At(page, file).out \subseteq during.out
       /\ call.id \in during.out
       /\ call.route \in {"preview", "fileTerms", "translations"} => call.by # "anonymous"
       /\ call.route = "fileTerms" => call.id = File
       /\ call.route = "getPage" =>
            <<call.id, call.content>> \in during.public
       /\ call.route = "terms" /\ call.by = "anonymous" => <<call.id, 0>> \in during.public
  /\ Reads!PublicIsPublished
  /\ Reads!TrashStaysHidden

LEMMA NoCallIsNone == Reads!NoCall.route = "none"
BY DEF Reads!NoCall

LEMMA CoversWhatIs ==
  ASSUME NEW pg, NEW p \in Pages, Reads!notTrashed(pg[p]), NEW f
  PROVE  /\ p \in Reads!Out(pg, f)
         /\ Reads!published(pg[p]) =>
              <<p, 0>> \in Reads!Public(pg) /\ <<p, pg[p].revision>> \in Reads!Public(pg)
BY DEF Reads!Out, Reads!Public

(* An answer made of pages that are out of the trash, and published where  *)
(* the public asks, is one the invariant allows.                           *)
LEMMA AnswerKeeps ==
  ASSUME ReadInv, NEW by, NEW route, NEW given, Reads!Answers(by, route, given),
         \A s \in given : s[1] \in during'.out,
         route \in Reads!PublicRoutes \/ by = "anonymous" => given \subseteq during'.public
  PROVE  ReadInv'
<1>1. answer'.shown = given /\ answer'.route = route /\ answer'.to = by /\ call' = Reads!NoCall
  BY DEF Reads!Answers
<1> QED  BY <1>1 DEF ReadInv, Reads!PublicIsPublished, Reads!TrashStaysHidden

LEMMA AsksKeep ==
  ASSUME ReadInv, Reads!Idle, NEW by, NEW route, NEW id, NEW r, NEW content,
         Reads!Asks(by, route, id, r, content),
         id \in Reads!Out(page, file),
         route \in {"preview", "fileTerms", "translations"} => by # "anonymous",
         route = "fileTerms" => id = File,
         route = "getPage" => <<id, content>> \in Reads!Public(page),
         route = "terms" /\ by = "anonymous" => <<id, 0>> \in Reads!Public(page)
  PROVE  ReadInv'
<1>1. /\ call'.by = by /\ call'.route = route /\ call'.id = id /\ call'.content = content
      /\ during' = Reads!At(page, file) /\ UNCHANGED <<page, file, answer>>
  BY DEF Reads!Asks
<1>2. answer' = Reads!Silent  BY <1>1 DEF Reads!Idle
<1>3. /\ during'.public = Reads!Public(page) /\ during'.out = Reads!Out(page, file)
      /\ Reads!At(page, file)' = Reads!At(page, file)
  BY <1>1 DEF Reads!At, Reads!Public, Reads!Out
<1>4. Reads!PublicIsPublished' /\ Reads!TrashStaysHidden'
  BY <1>2 DEF Reads!PublicIsPublished, Reads!TrashStaysHidden, Reads!Silent
<1> QED  BY <1>1, <1>2, <1>3, <1>4 DEF ReadInv, Reads!At

(* What editors do meanwhile adds to the history.                          *)
LEMMA EditKeeps ==
  ASSUME ReadInv, answer = Reads!Silent, UNCHANGED <<call, answer>>,
         call # Reads!NoCall => during' = Reads!Also(during, Reads!At(page, file)')
  PROVE  ReadInv'
<1>1. Reads!PublicIsPublished' /\ Reads!TrashStaysHidden'
  BY DEF Reads!PublicIsPublished, Reads!TrashStaysHidden, Reads!Silent
<1>2. call # Reads!NoCall =>
        /\ during'.public = during.public \union Reads!At(page, file)'.public
        /\ during'.out = during.out \union Reads!At(page, file)'.out
  BY DEF Reads!Also
<1> QED  BY <1>1, <1>2 DEF ReadInv

LEMMA PageEditKeeps ==
  ASSUME ReadInv, NEW p, NEW r, Reads!Between, Reads!Becomes(p, r)
  PROVE  ReadInv'
<1>1. UNCHANGED <<call, answer, file>> /\ answer = Reads!Silent
  BY DEF Reads!Becomes, Reads!Between
<1>2. call # Reads!NoCall => during' = Reads!Also(during, Reads!At(page, file)')
  BY <1>1 DEF Reads!Becomes, Reads!At, Reads!Public, Reads!Out
<1> QED  BY <1>1, <1>2, EditKeeps

LEMMA FileEditKeeps ==
  ASSUME ReadInv, NEW f, Reads!FileBecomes(f)
  PROVE  ReadInv'
<1>1. UNCHANGED <<call, answer, page>> /\ answer = Reads!Silent
  BY DEF Reads!FileBecomes, Reads!Between
<1>2. call # Reads!NoCall => during' = Reads!Also(during, Reads!At(page, file)')
  BY <1>1 DEF Reads!FileBecomes, Reads!At, Reads!Public, Reads!Out
<1> QED  BY <1>1, <1>2, EditKeeps

(* An answer at the first read: the history is what is there now.          *)
LEMMA AtOnceKeeps ==
  ASSUME ReadInv, Reads!Idle, NEW by, NEW route, NEW given, Reads!Answers(by, route, given),
         \A s \in given : s[1] \in Reads!Out(page, file),
         route \in Reads!PublicRoutes \/ by = "anonymous" => given \subseteq Reads!Public(page)
  PROVE  ReadInv'
<1>1. during'.public = Reads!Public(page) /\ during'.out = Reads!Out(page, file)
  BY DEF Reads!Answers, Reads!Idle, Reads!At
<1> QED  BY <1>1, AnswerKeeps

(* An answer at a later one: what was read was so, and what is read now    *)
(* is covered.                                                             *)
LEMMA LaterKeeps ==
  ASSUME ReadInv, call # Reads!NoCall, NEW given, NEW route, Reads!Answers(call.by, route, given),
         \A s \in given : s[1] \in during.out,
         route \in Reads!PublicRoutes \/ call.by = "anonymous" => given \subseteq during.public
  PROVE  ReadInv'
<1>1. during' = during  BY DEF Reads!Answers
<1> QED  BY <1>1, AnswerKeeps

LEMMA SiblingsAreCovered ==
  ASSUME NEW by, NEW p, NEW r, NEW q \in Reads!siblingTranslations(by, p, r)
  PROVE  /\ q \in Reads!Out(page, file)
         /\ <<q, 0>> \in Reads!Public(page)
<1>1. q \in Pages /\ Reads!published(page[q]) /\ Reads!mayRead(by, page[q])
  BY DEF Reads!siblingTranslations
<1> QED  BY <1>1, CoversWhatIs DEF Reads!mayRead

LEMMA WaitingIsNoIdle ==
  ASSUME NEW route, route # "none", NEW step, Reads!Waits(route, step)
  PROVE  call # Reads!NoCall /\ call.route = route
BY NoCallIsNone DEF Reads!Waits

-----------------------------------------------------------------------------
(* The handlers, one by one.                                               *)

LEMMA GetPageKeeps ==
  ASSUME ReadInv, NEW by, NEW p \in Pages, Reads!getPage(by, p)
  PROVE  ReadInv'
<1>1. CASE Reads!Answers(by, "getPage", {})
  BY <1>1, AtOnceKeeps DEF Reads!getPage
<1>2. CASE /\ Reads!mayRead(by, page[p]) /\ Reads!serves(page[p])
           /\ Reads!Asks(by, "getPage", p, page[p], page[p].revision)
  <2>1. Reads!notTrashed(page[p]) /\ Reads!published(page[p])
    BY <1>2 DEF Reads!mayRead, Reads!serves
  <2>2. p \in Reads!Out(page, file) /\ <<p, page[p].revision>> \in Reads!Public(page)
    BY <2>1, CoversWhatIs
  <2>3. Reads!Idle  BY DEF Reads!getPage
  <2>4. PICK r, content : r = page[p] /\ content = page[p].revision
    OBVIOUS
  <2>5. Reads!Asks(by, "getPage", p, r, content) /\ <<p, content>> \in Reads!Public(page)
    BY <1>2, <2>2, <2>4, Zenon
  <2> QED  BY <2>2, <2>3, <2>5, AsksKeep
<1> QED  BY <1>1, <1>2 DEF Reads!getPage

LEMMA GetPageGoesOn ==
  ASSUME ReadInv, Reads!readsRevision \/ Reads!getPageAnswers
  PROVE  ReadInv'
<1>1. call # Reads!NoCall /\ call.route = "getPage"
  BY WaitingIsNoIdle DEF Reads!readsRevision, Reads!getPageAnswers
<1>2. CASE Reads!readsRevision
  <2>1. CASE Reads!Answers(call.by, "getPage", {})
    BY <1>1, <2>1, LaterKeeps
  <2>2. CASE /\ call' = [call EXCEPT !.step = 2]
             /\ UNCHANGED <<store, page, file, during, answer>>
    <3>1. answer = Reads!Silent  BY <1>1 DEF ReadInv
    <3>2. /\ call'.id = call.id /\ call'.content = call.content /\ call'.by = call.by
          /\ call'.route = call.route
      BY <2>2
    <3> QED
      BY <1>1, <2>2, <3>1, <3>2 DEF ReadInv, Reads!At, Reads!Public, Reads!Out, Reads!PublicIsPublished,
         Reads!TrashStaysHidden
  <2> QED  BY <1>2, <2>1, <2>2 DEF Reads!readsRevision
<1>3. CASE Reads!getPageAnswers
  <2> DEFINE siblings == Reads!siblingTranslations(call.by, call.id, call.row)
             given == {<<call.id, call.content>>} \union {<<q, 0>> : q \in siblings}
  <2>1. Reads!Answers(call.by, "getPage", given)  BY <1>3 DEF Reads!getPageAnswers
  <2>2. /\ Reads!Public(page) \subseteq during.public /\ Reads!Out(page, file) \subseteq during.out
        /\ call.id \in during.out /\ <<call.id, call.content>> \in during.public
    BY <1>1 DEF ReadInv, Reads!At
  <2>3. \A q \in siblings : q \in during.out /\ <<q, 0>> \in during.public
    BY <2>2, SiblingsAreCovered
  <2> HIDE DEF siblings
  <2>4. given \subseteq during.public /\ \A s \in given : s[1] \in during.out
    BY <2>2, <2>3
  <2> HIDE DEF given
  <2> QED  BY <1>1, <2>1, <2>4, LaterKeeps
<1> QED  BY <1>2, <1>3

LEMMA PreviewsKeep ==
  ASSUME ReadInv, \/ \E by \in Reads!Callers, p \in Pages : Reads!previewsPage(by, p)
                  \/ Reads!assembleLive
  PROVE  ReadInv'
<1>1. ASSUME NEW by, NEW p \in Pages, Reads!previewsPage(by, p)
      PROVE  ReadInv'
  <2>1. by # "anonymous" /\ Reads!Idle
    BY <1>1 DEF Reads!previewsPage, Reads!viewerRolesOf
  <2>2. CASE Reads!Answers(by, "preview", {})
    BY <2>1, <2>2, AtOnceKeeps
  <2>3. CASE Reads!mayRead(by, page[p]) /\ Reads!Asks(by, "preview", p, page[p], page[p].draft)
    <3>1. p \in Reads!Out(page, file)  BY <2>3, CoversWhatIs DEF Reads!mayRead
    <3>2. PICK r, content : r = page[p] /\ content = page[p].draft
      OBVIOUS
    <3>3. Reads!Asks(by, "preview", p, r, content)
      BY <2>3, <3>2, Zenon
    <3> QED  BY <2>1, <3>1, <3>3, AsksKeep
  <2> QED  BY <1>1, <2>2, <2>3 DEF Reads!previewsPage
<1>2. ASSUME Reads!assembleLive
      PROVE  ReadInv'
  <2>1. call # Reads!NoCall /\ call.route = "preview"
    BY <1>2, WaitingIsNoIdle DEF Reads!assembleLive
  <2> DEFINE siblings == Reads!siblingTranslations(call.by, call.id, call.row)
             given == {<<call.id, call.content>>} \union {<<q, 0>> : q \in siblings}
  <2>2. Reads!Answers(call.by, "preview", given)  BY <1>2 DEF Reads!assembleLive
  <2>3. /\ Reads!Out(page, file) \subseteq during.out
        /\ call.id \in during.out /\ call.by # "anonymous"
    BY <2>1 DEF ReadInv, Reads!At
  <2>4. \A q \in siblings : q \in during.out
    BY <2>3, SiblingsAreCovered
  <2> HIDE DEF siblings
  <2>5. \A s \in given : s[1] \in during.out
    BY <2>3, <2>4
  <2> HIDE DEF given
  <2> QED  BY <2>1, <2>2, <2>3, <2>5, LaterKeeps DEF Reads!PublicRoutes
<1> QED  BY <1>1, <1>2

LEMMA ListsKeep ==
  ASSUME ReadInv, NEW by, \/ Reads!listPublishedPages(by) \/ Reads!listPagesByTerm(by)
                          \/ Reads!listPages(by) \/ \E p \in Pages : Reads!getPageById(by, p)
  PROVE  ReadInv'
<1>1. Reads!Idle
  BY DEF Reads!listPublishedPages, Reads!listPagesByTerm, Reads!listPages, Reads!getPageById
<1>2. \A q \in Pages : Reads!mayRead(by, page[q]) =>
        q \in Reads!Out(page, file) /\ (Reads!published(page[q]) => <<q, 0>> \in Reads!Public(page))
  BY CoversWhatIs DEF Reads!mayRead
<1>3. CASE Reads!listPublishedPages(by)
  <2> DEFINE given == {<<p, 0>> : p \in {q \in Pages : Reads!published(page[q]) /\ Reads!mayRead(by, page[q])}}
  <2>1. given \subseteq Reads!Public(page) /\ \A s \in given : s[1] \in Reads!Out(page, file)
    BY <1>2
  <2>2. Reads!Answers(by, "list", given)  BY <1>3 DEF Reads!listPublishedPages
  <2> HIDE DEF given
  <2> QED  BY <1>1, <2>1, <2>2, AtOnceKeeps
<1>4. CASE Reads!listPagesByTerm(by)
  <2> DEFINE given == {<<p, 0>> : p \in {q \in Pages : Reads!serves(page[q]) /\ Reads!mayRead(by, page[q])}}
  <2>1. given \subseteq Reads!Public(page) /\ \A s \in given : s[1] \in Reads!Out(page, file)
    BY <1>2 DEF Reads!serves
  <2>2. Reads!Answers(by, "byTerm", given)  BY <1>4 DEF Reads!listPagesByTerm
  <2> HIDE DEF given
  <2> QED  BY <1>1, <2>1, <2>2, AtOnceKeeps
<1>5. CASE Reads!listPages(by)
  <2> DEFINE given == {<<p, page[p].draft>> : p \in {q \in Pages : Reads!mayRead(by, page[q])}}
  <2>1. ASSUME NEW s \in given PROVE s[1] \in Reads!Out(page, file)
    <3>1. PICK q \in Pages : Reads!mayRead(by, page[q]) /\ s = <<q, page[q].draft>>
      OBVIOUS
    <3>2. s[1] = q  BY <3>1, Zenon
    <3> QED  BY <1>2, <3>1, <3>2
  <2>2. Reads!Answers(by, "rows", given) /\ by # "anonymous"
    BY <1>5 DEF Reads!listPages, Reads!viewerRolesOf
  <2> HIDE DEF given
  <2> QED  BY <1>1, <2>1, <2>2, AtOnceKeeps DEF Reads!PublicRoutes
<1>6. ASSUME NEW p \in Pages, Reads!getPageById(by, p)
      PROVE  ReadInv'
  <2> DEFINE given == IF Reads!mayRead(by, page[p]) THEN {<<p, page[p].draft>>} ELSE {}
  <2>1. ASSUME NEW s \in given PROVE s[1] \in Reads!Out(page, file)
    <3>1. Reads!mayRead(by, page[p]) /\ s = <<p, page[p].draft>>
      OBVIOUS
    <3>2. s[1] = p  BY <3>1, Zenon
    <3> QED  BY <1>2, <3>1, <3>2
  <2>2. Reads!Answers(by, "row", given) /\ by # "anonymous"
    BY <1>6 DEF Reads!getPageById, Reads!viewerRolesOf
  <2> HIDE DEF given
  <2> QED  BY <1>1, <2>1, <2>2, AtOnceKeeps DEF Reads!PublicRoutes
<1> QED  BY <1>3, <1>4, <1>5, <1>6

LEMMA TermsKeep ==
  ASSUME ReadInv, \/ \E by \in Reads!Callers, p \in Pages : Reads!listPageTerms(by, p)
                  \/ \E by \in Reads!Callers : Reads!listMediaTerms(by) \/ Reads!signMediaDownload(by)
                  \/ Reads!pageTermsAnswer \/ Reads!mediaTermsAnswer
  PROVE  ReadInv'
<1>1. ASSUME NEW by, NEW p \in Pages, Reads!listPageTerms(by, p)
      PROVE  ReadInv'
  <2>1. CASE Reads!Answers(by, "terms", {})
    BY <1>1, <2>1, AtOnceKeeps DEF Reads!listPageTerms
  <2>2. CASE Reads!mayRead(by, page[p]) /\ Reads!Asks(by, "terms", p, page[p], 0)
    <3>1. /\ p \in Reads!Out(page, file)
          /\ by = "anonymous" => <<p, 0>> \in Reads!Public(page)
      BY <2>2, CoversWhatIs DEF Reads!mayRead
    <3> QED  BY <1>1, <2>2, <3>1, AsksKeep DEF Reads!listPageTerms
  <2> QED  BY <1>1, <2>1, <2>2 DEF Reads!listPageTerms
<1>2. Reads!mayReadFile => File \in Reads!Out(page, file)
  BY DEF Reads!mayReadFile, Reads!Out
<1>3. ASSUME NEW by, Reads!listMediaTerms(by)
      PROVE  ReadInv'
  <2>1. by # "anonymous" /\ Reads!Idle
    BY <1>3 DEF Reads!listMediaTerms, Reads!viewerRolesOf
  <2>2. CASE Reads!Answers(by, "fileTerms", {})
    BY <2>1, <2>2, AtOnceKeeps
  <2>3. CASE Reads!mayReadFile /\ Reads!Asks(by, "fileTerms", File, Reads!Gone, 0)
    BY <1>2, <2>1, <2>3, AsksKeep
  <2> QED  BY <1>3, <2>2, <2>3 DEF Reads!listMediaTerms
<1>4. ASSUME NEW by, Reads!signMediaDownload(by)
      PROVE  ReadInv'
  <2> DEFINE given == IF Reads!mayReadFile THEN {<<File, 0>>} ELSE {}
  <2>1. \A s \in given : s[1] \in Reads!Out(page, file)  BY <1>2
  <2>2. Reads!Answers(by, "download", given) /\ by # "anonymous" /\ Reads!Idle
    BY <1>4 DEF Reads!signMediaDownload, Reads!viewerRolesOf
  <2> HIDE DEF given
  <2> QED  BY <2>1, <2>2, AtOnceKeeps DEF Reads!PublicRoutes
<1>5. ASSUME Reads!pageTermsAnswer
      PROVE  ReadInv'
  <2>1. call # Reads!NoCall /\ call.route = "terms"
    BY <1>5, WaitingIsNoIdle DEF Reads!pageTermsAnswer
  <2> DEFINE given == IF Reads!Stored(page[call.id]) THEN {<<call.id, 0>>} ELSE {}
  <2>2. /\ \A s \in given : s[1] \in during.out
        /\ call.by = "anonymous" => given \subseteq during.public
    BY <2>1 DEF ReadInv
  <2>3. Reads!Answers(call.by, "terms", given)  BY <1>5 DEF Reads!pageTermsAnswer
  <2> HIDE DEF given
  <2> QED  BY <2>1, <2>2, <2>3, LaterKeeps DEF Reads!PublicRoutes
<1>6. ASSUME Reads!mediaTermsAnswer
      PROVE  ReadInv'
  <2>1. call # Reads!NoCall /\ call.route = "fileTerms"
    BY <1>6, WaitingIsNoIdle DEF Reads!mediaTermsAnswer
  <2> DEFINE given == IF file.there THEN {<<File, 0>>} ELSE {}
  <2>2. call.id = File /\ call.id \in during.out /\ call.by # "anonymous"
    BY <2>1 DEF ReadInv
  <2>3. \A s \in given : s[1] \in during.out  BY <2>2
  <2>4. Reads!Answers(call.by, "fileTerms", given)  BY <1>6 DEF Reads!mediaTermsAnswer
  <2> HIDE DEF given
  <2> QED  BY <2>1, <2>2, <2>3, <2>4, LaterKeeps DEF Reads!PublicRoutes
<1> QED  BY <1>1, <1>3, <1>4, <1>5, <1>6

LEMMA TranslationsKeep ==
  ASSUME ReadInv, \/ \E by \in Reads!Callers, p \in Pages : Reads!listTranslations(by, p)
                  \/ Reads!translationsAnswer
  PROVE  ReadInv'
<1>1. ASSUME NEW by, NEW p \in Pages, Reads!listTranslations(by, p)
      PROVE  ReadInv'
  <2>1. by # "anonymous" /\ Reads!Idle
    BY <1>1 DEF Reads!listTranslations, Reads!viewerRolesOf
  <2>2. CASE Reads!Answers(by, "translations", {})
    BY <2>1, <2>2, AtOnceKeeps
  <2>3. Reads!mayRead(by, page[p]) => p \in Reads!Out(page, file)
    BY CoversWhatIs DEF Reads!mayRead
  <2>4. CASE Reads!mayRead(by, page[p]) /\ Reads!Answers(by, "translations", {<<p, 0>>})
    BY <2>1, <2>3, <2>4, AtOnceKeeps DEF Reads!PublicRoutes
  <2>5. CASE Reads!mayRead(by, page[p]) /\ Reads!Asks(by, "translations", p, page[p], 0)
    BY <2>1, <2>3, <2>5, AsksKeep
  <2> QED  BY <1>1, <2>2, <2>4, <2>5 DEF Reads!listTranslations
<1>2. ASSUME Reads!translationsAnswer
      PROVE  ReadInv'
  <2>1. call # Reads!NoCall /\ call.route = "translations"
    BY <1>2, WaitingIsNoIdle DEF Reads!translationsAnswer
  <2> DEFINE given == {<<q, 0>> : q \in {r \in Pages : page[r].group = call.row.group
                                                       /\ Reads!mayRead(call.by, page[r])}}
  <2>2. call.by # "anonymous" /\ Reads!Out(page, file) \subseteq during.out
    BY <2>1 DEF ReadInv, Reads!At
  <2>3. \A q \in Pages : Reads!mayRead(call.by, page[q]) => q \in Reads!Out(page, file)
    BY CoversWhatIs DEF Reads!mayRead
  <2>4. \A s \in given : s[1] \in during.out  BY <2>2, <2>3
  <2>5. Reads!Answers(call.by, "translations", given)  BY <1>2 DEF Reads!translationsAnswer
  <2> HIDE DEF given
  <2> QED  BY <2>1, <2>2, <2>4, <2>5, LaterKeeps DEF Reads!PublicRoutes
<1> QED  BY <1>1, <1>2

LEMMA SeoKeeps ==
  ASSUME ReadInv, NEW p \in Pages, Reads!updatePageSeo(p)
  PROVE  ReadInv'
<1>1. call = Reads!NoCall /\ call' = Reads!NoCall
  BY DEF Reads!updatePageSeo, Reads!Idle
<1>2. p \in Reads!Out(page, file)
  BY CoversWhatIs DEF Reads!updatePageSeo, Reads!mayUpdate
<1>3. /\ answer'.shown = {<<p, 0>>} /\ answer'.route = "echo" /\ answer'.to = "editor"
      /\ during'.out = Reads!Out(page, file)
  BY DEF Reads!updatePageSeo, Reads!At
<1> QED
  BY <1>1, <1>2, <1>3 DEF ReadInv, Reads!PublicIsPublished, Reads!PublicRoutes, Reads!TrashStaysHidden

LEMMA ReadInit == Reads!Init => ReadInv
<1> SUFFICES ASSUME Reads!Init PROVE ReadInv
  OBVIOUS
<1>1. call = Reads!NoCall /\ answer = Reads!Silent  BY DEF Reads!Init
<1> QED  BY <1>1 DEF ReadInv, Reads!PublicIsPublished, Reads!TrashStaysHidden, Reads!Silent

LEMMA ReadStep == ReadInv /\ [Reads!Next]_readVars => ReadInv'
<1> SUFFICES ASSUME ReadInv, [Reads!Next]_readVars PROVE ReadInv'
  OBVIOUS
<1>1. CASE UNCHANGED readVars
  BY <1>1 DEF readVars, ReadInv, Reads!At, Reads!Public, Reads!Out, Reads!PublicIsPublished,
              Reads!TrashStaysHidden
<1>2. ASSUME NEW p \in Pages,
             \/ Reads!updatePage(p) \/ Reads!doPublish(p) \/ Reads!unpublishPage(p)
             \/ Reads!deletePage(p) \/ Reads!restorePage(p) \/ Reads!purgePage(p)
      PROVE  ReadInv'
  BY <1>2, PageEditKeeps DEF Reads!updatePage, Reads!doPublish, Reads!unpublishPage,
     Reads!deletePage, Reads!restorePage, Reads!purgePage
<1>3. CASE Reads!deleteMedia \/ Reads!restoreMedia \/ Reads!purgeMedia
  BY <1>3, FileEditKeeps DEF Reads!deleteMedia, Reads!restoreMedia, Reads!purgeMedia
<1>4. CASE Reads!replied
  BY <1>4 DEF Reads!replied, ReadInv, Reads!PublicIsPublished, Reads!TrashStaysHidden, Reads!Silent
<1>5. CASE Reads!sitemap  BY <1>5, ListsKeep DEF Reads!sitemap
<1> QED
  BY <1>1, <1>2, <1>3, <1>4, <1>5, GetPageKeeps, GetPageGoesOn, PreviewsKeep, ListsKeep, TermsKeep,
     TranslationsKeep, SeoKeeps DEF Reads!Next

----------------------------------------------------------------------------
(* Preview links.  What refuses a link whose minter was deactivated or     *)
(* changed credentials outlives the link, because no link outlives a       *)
(* session begun when it was signed, unless the deployment raised the      *)
(* ceiling.                                                                *)

Instants == Nat \cup {Never}
Accounts ==
  [active : BOOLEAN, roles : SUBSET Previews!Roles, iat : Instants, unstamped : BOOLEAN,
   deniedUntil : Nat, notBefore : Nat, notBeforeUntil : Nat]
Links ==
  [by : Users, iat : Instants, roles : SUBSET Previews!EditorRoles, row : Rows, exp : Nat,
   retired : BOOLEAN, late : BOOLEAN]
Mints == [by : Users, iat : Instants, roles : SUBSET Previews!Roles, overtaken : BOOLEAN]

AccountOk(a, t) ==
  /\ a.iat # Never => a.iat <= t
  /\ a.notBefore <= t
  /\ ~a.active => a.iat = Never \/ a.iat + SessionTtl <= a.deniedUntil

LinkOk(l, a, t) ==
  /\ l.exp <= t + SessionTtl
  /\ ~a.active => l.exp <= a.deniedUntil
  /\ l.retired => l.exp <= a.notBeforeUntil /\ (l.iat = Never \/ l.iat < a.notBefore)

PreviewInv ==
  /\ now \in Nat
  /\ user \in [Users -> Accounts]
  /\ links \subseteq Links
  /\ minting = Previews!NoMint \/ minting \in Mints
  /\ \A u \in Users : AccountOk(user[u], now)
  /\ minting # Previews!NoMint /\ ~minting.overtaken => user[minting.by].active
  /\ \A l \in links : ~raised /\ ~l.late => LinkOk(l, user[l.by], now)
  /\ Previews!RevokedLinksStayShut
  /\ Previews!LinksReadAsTheirMinter

LEMMA LargerOfTwo ==
  ASSUME NEW a \in Int, NEW b \in Int
  PROVE  Previews!Max({a, b}) = IF a >= b THEN a ELSE b
<1> DEFINE m == IF a >= b THEN a ELSE b
<1>1. m \in {a, b} /\ \A y \in {a, b} : m >= y
  OBVIOUS
<1>2. \A x \in {a, b} : (\A y \in {a, b} : x >= y) => x = m
  OBVIOUS
<1> HIDE DEF m
<1>3. (CHOOSE x \in {a, b} : \A y \in {a, b} : x >= y) = m
  BY <1>1, <1>2
<1> QED  BY <1>3 DEF Previews!Max, m

LEMMA SmallerOfTwo ==
  ASSUME NEW a \in Int, NEW b \in Int
  PROVE  Previews!Min({a, b}) = IF a <= b THEN a ELSE b
<1> DEFINE m == IF a <= b THEN a ELSE b
<1>1. m \in {a, b} /\ \A y \in {a, b} : m <= y
  OBVIOUS
<1>2. \A x \in {a, b} : (\A y \in {a, b} : x <= y) => x = m
  OBVIOUS
<1> HIDE DEF m
<1>3. (CHOOSE x \in {a, b} : \A y \in {a, b} : x <= y) = m
  BY <1>1, <1>2
<1> QED  BY <1>3 DEF Previews!Min, m

(* No link lives longer than a session, unless the ceiling was raised.     *)
LEMMA TtlIsBounded ==
  ASSUME NEW requested \in Nat
  PROVE  /\ Previews!previewTtlFor(requested) \in Nat
         /\ ~raised => Previews!previewTtlFor(requested) <= SessionTtl
<1>1. SessionTtl \in Nat /\ SessionTtl >= 1 /\ Cap \in Nat /\ RaisedTtl \in Nat
  BY PreviewConstants DEF Previews!PreviewAssumption
<1>2. PICK top \in Nat : top = IF raised THEN RaisedTtl ELSE SessionTtl
  BY <1>1
<1>3. PICK c \in Nat : c = Previews!ceiling /\ c <= top
  BY <1>1, <1>2, SmallerOfTwo DEF Previews!ceiling
<1>4. PICK m \in Nat : m = Previews!Min({requested, c}) /\ m <= c
  BY SmallerOfTwo
<1>5. Previews!previewTtlFor(requested) = IF 1 >= m THEN 1 ELSE m
  BY <1>3, <1>4, LargerOfTwo DEF Previews!previewTtlFor
<1> QED  BY <1>1, <1>2, <1>3, <1>4, <1>5

(* While nothing is shown, what is shown needs no looking at.              *)
LEMMA UnseenIsFine ==
  ASSUME shown' = Previews!Unseen
  PROVE  Previews!RevokedLinksStayShut' /\ Previews!LinksReadAsTheirMinter'
BY DEF Previews!RevokedLinksStayShut, Previews!LinksReadAsTheirMinter

LEMMA TickKeeps ==
  ASSUME PreviewInv, shown = Previews!Unseen, Previews!tick
  PROVE  PreviewInv'
<1>1. SessionTtl \in Nat  BY PreviewConstants DEF Previews!PreviewAssumption
<1>2. /\ now \in Nat /\ now' = now + 1 /\ shown' = Previews!Unseen
      /\ UNCHANGED <<raised, row, user, minting, links>>
  BY DEF Previews!tick, PreviewInv
<1>3. \A u \in Users : user[u] \in Accounts /\ AccountOk(user[u], now)  BY DEF PreviewInv
<1>4. \A u \in Users : AccountOk(user[u], now + 1)
  BY <1>1, <1>2, <1>3 DEF AccountOk, Accounts, Instants
<1>5. \A l \in links : l \in Links /\ (~raised /\ ~l.late => LinkOk(l, user[l.by], now))
  BY DEF PreviewInv
<1>6. \A l \in links : ~raised /\ ~l.late => LinkOk(l, user[l.by], now + 1)
  BY <1>1, <1>2, <1>5 DEF LinkOk, Links
<1> QED  BY <1>2, <1>4, <1>6, UnseenIsFine DEF PreviewInv

(* A change of an account that keeps to what the links were signed on.     *)
LEMMA AccountKeeps ==
  ASSUME PreviewInv, shown = Previews!Unseen, NEW u \in Users, NEW a \in Accounts,
         user' = [user EXCEPT ![u] = a], UNCHANGED <<now, raised, row, links, shown>>,
         AccountOk(a, now),
         a.notBefore = user[u].notBefore, a.notBeforeUntil = user[u].notBeforeUntil,
         a.active \/ a.deniedUntil = now + SessionTtl
           \/ (~user[u].active /\ a.deniedUntil = user[u].deniedUntil),
         \/ minting' = Previews!Overtaken(u)
         \/ minting' = minting /\ (a.active \/ ~user[u].active)
  PROVE  PreviewInv'
<1>1. /\ user \in [Users -> Accounts] /\ user'[u] = a /\ user' \in [Users -> Accounts]
      /\ \A v \in Users \ {u} : user'[v] = user[v]
  BY DEF PreviewInv
<1>2. \A v \in Users : AccountOk(user'[v], now)
  BY <1>1 DEF PreviewInv
<1>3. ASSUME NEW l \in links, ~raised, ~l.late
      PROVE  LinkOk(l, user'[l.by], now)
  <2>1. l \in Links /\ LinkOk(l, user[l.by], now)  BY <1>3 DEF PreviewInv
  <2>2. CASE l.by = u
    BY <1>1, <2>1, <2>2 DEF LinkOk
  <2>3. CASE l.by # u
    BY <1>1, <2>1, <2>3 DEF Links
  <2> QED  BY <2>2, <2>3
<1>4. /\ minting' = Previews!NoMint \/ minting' \in Mints
      /\ minting' # Previews!NoMint /\ ~minting'.overtaken => user'[minting'.by].active
  <2>1. Never \notin Users  BY PreviewConstants DEF Previews!PreviewAssumption
  <2>2. CASE minting = Previews!NoMint
    BY <2>1, <2>2 DEF Previews!Overtaken, Previews!NoMint
  <2>3. CASE minting # Previews!NoMint /\ minting' = minting
    <3>1. minting \in Mints /\ (~minting.overtaken => user[minting.by].active)
      BY <2>3 DEF PreviewInv
    <3>2. minting.by \in Users  BY <3>1 DEF Mints
    <3>3. ~minting.overtaken /\ minting.by = u => user'[minting.by].active
      BY <1>1, <2>3, <3>1, <3>2 DEF Previews!Overtaken, Mints
    <3> QED  BY <1>1, <2>3, <3>1, <3>2, <3>3
  <2>4. CASE minting # Previews!NoMint /\ minting' # minting
    <3>1. minting \in Mints  BY <2>4 DEF PreviewInv
    <3>2. minting' = [minting EXCEPT !.overtaken = TRUE]
      BY <2>4 DEF Previews!Overtaken
    <3> QED  BY <3>1, <3>2 DEF Mints
  <2> QED  BY <2>2, <2>3, <2>4
<1> QED  BY <1>1, <1>2, <1>3, <1>4, UnseenIsFine DEF PreviewInv

LEMMA LoginKeeps ==
  ASSUME PreviewInv, shown = Previews!Unseen, NEW u \in Users, Previews!login(u)
  PROVE  PreviewInv'
<1>1. user[u] \in Accounts /\ AccountOk(user[u], now) /\ now \in Nat /\ user[u].active
  BY DEF PreviewInv, Previews!login
<1>2. PICK a : a = [user[u] EXCEPT !.iat = now]
  OBVIOUS
<1>3. /\ a \in Accounts /\ a.iat = now /\ a.active
      /\ a.notBefore = user[u].notBefore /\ a.notBeforeUntil = user[u].notBeforeUntil
  BY <1>1, <1>2 DEF Accounts, Instants
<1>4. AccountOk(a, now)  BY <1>1, <1>3 DEF AccountOk
<1>5. /\ user' = [user EXCEPT ![u] = a] /\ UNCHANGED <<now, raised, row, links, shown>>
      /\ minting' = minting
  BY <1>2 DEF Previews!login, Previews!Account
<1> QED  BY <1>3, <1>4, <1>5, AccountKeeps

LEMMA DeactivateKeeps ==
  ASSUME PreviewInv, shown = Previews!Unseen, NEW u \in Users, Previews!deactivate(u)
  PROVE  PreviewInv'
<1>1. user[u] \in Accounts /\ AccountOk(user[u], now) /\ now \in Nat /\ SessionTtl \in Nat
  BY PreviewConstants DEF PreviewInv, Previews!PreviewAssumption
<1> PICK t \in Nat : t = now + SessionTtl  BY <1>1
<1>2. PICK a : a = [user[u] EXCEPT !.active = FALSE, !.deniedUntil = t]
  OBVIOUS
<1>3. /\ a \in Accounts /\ a.iat = user[u].iat /\ a.deniedUntil = t
      /\ a.notBefore = user[u].notBefore /\ a.notBeforeUntil = user[u].notBeforeUntil
  BY <1>1, <1>2 DEF Accounts
<1>4. AccountOk(a, now)  BY <1>1, <1>3 DEF AccountOk, Accounts, Instants
<1>5. /\ user' = [user EXCEPT ![u] = a] /\ UNCHANGED <<now, raised, row, links, shown>>
      /\ minting' = Previews!Overtaken(u)
  BY <1>2 DEF Previews!deactivate, Previews!Account
<1> QED  BY <1>3, <1>4, <1>5, AccountKeeps

LEMMA ReactivateKeeps ==
  ASSUME PreviewInv, shown = Previews!Unseen, NEW u \in Users, Previews!reactivate(u)
  PROVE  PreviewInv'
<1>1. user[u] \in Accounts /\ AccountOk(user[u], now)
  BY DEF PreviewInv
<1>2. PICK a : a = [user[u] EXCEPT !.active = TRUE, !.deniedUntil = 0]
  OBVIOUS
<1>3. /\ a \in Accounts /\ a.iat = user[u].iat /\ a.active
      /\ a.notBefore = user[u].notBefore /\ a.notBeforeUntil = user[u].notBeforeUntil
  BY <1>1, <1>2 DEF Accounts
<1>4. AccountOk(a, now)  BY <1>1, <1>3 DEF AccountOk
<1>5. /\ user' = [user EXCEPT ![u] = a] /\ UNCHANGED <<now, raised, row, links, shown>>
      /\ minting' = minting
  BY <1>2 DEF Previews!reactivate, Previews!Account
<1> QED  BY <1>3, <1>4, <1>5, AccountKeeps

LEMMA RolesKeep ==
  ASSUME PreviewInv, shown = Previews!Unseen, NEW u \in Users, Previews!setUserRoles(u)
  PROVE  PreviewInv'
<1>1. user[u] \in Accounts /\ AccountOk(user[u], now)
  BY DEF PreviewInv
<1>2. PICK a : a = [user[u] EXCEPT !.roles = IF "editor" \in @ THEN {"author"} ELSE {"editor"}]
  OBVIOUS
<1>3. /\ a \in Accounts /\ a.iat = user[u].iat /\ a.active = user[u].active
      /\ a.deniedUntil = user[u].deniedUntil
      /\ a.notBefore = user[u].notBefore /\ a.notBeforeUntil = user[u].notBeforeUntil
  BY <1>1, <1>2 DEF Accounts, Previews!Roles
<1>4. AccountOk(a, now)  BY <1>1, <1>3 DEF AccountOk
<1>5. /\ user' = [user EXCEPT ![u] = a] /\ UNCHANGED <<now, raised, row, links, shown>>
      /\ minting' = minting
  BY <1>2 DEF Previews!setUserRoles, Previews!Account
<1>6. a.active \/ (~user[u].active /\ a.deniedUntil = user[u].deniedUntil)
  BY <1>3
<1> QED  BY <1>3, <1>4, <1>5, <1>6, AccountKeeps

(* What a change of credentials retires was signed before it, and is dead  *)
(* by the time KV forgets.                                                 *)
LEMMA CredentialsKeep ==
  ASSUME PreviewInv, shown = Previews!Unseen, NEW u \in Users, Previews!changeCredentials(u)
  PROVE  PreviewInv'
<1>1. /\ user \in [Users -> Accounts] /\ AccountOk(user[u], now) /\ now \in Nat
      /\ SessionTtl \in Nat /\ Never \notin Users
  BY PreviewConstants DEF PreviewInv, Previews!PreviewAssumption
<1> PICK t \in Nat : t = now + SessionTtl  BY <1>1
<1>2. PICK a : a = [user[u] EXCEPT !.notBefore = now, !.notBeforeUntil = t]
  OBVIOUS
<1>3. /\ a \in Accounts /\ a.iat = user[u].iat /\ a.active = user[u].active
      /\ a.deniedUntil = user[u].deniedUntil
      /\ a.notBefore = now /\ a.notBeforeUntil = t
  BY <1>1, <1>2 DEF Accounts
<1>4. AccountOk(a, now)  BY <1>1, <1>3 DEF AccountOk
<1>5. /\ user' = [user EXCEPT ![u] = a] /\ UNCHANGED <<now, raised, row, shown>>
      /\ minting' = Previews!Overtaken(u) /\ links' = Previews!Retired(u)
  BY <1>2 DEF Previews!changeCredentials, Previews!Account
<1>6. /\ user'[u] = a /\ user' \in [Users -> Accounts]
      /\ \A v \in Users \ {u} : user'[v] = user[v]
  BY <1>1, <1>3, <1>5
<1>7. \A v \in Users : AccountOk(user'[v], now)
  BY <1>4, <1>6 DEF PreviewInv
<1>8. ASSUME NEW k \in links'
      PROVE  k \in Links /\ (~raised /\ ~k.late => LinkOk(k, user'[k.by], now))
  <2>1. PICK l \in links : k = [l EXCEPT !.retired = @ \/ Previews!Before(l, u)]
    BY <1>5 DEF Previews!Retired
  <2>2. l \in Links /\ (~raised /\ ~l.late => LinkOk(l, user[l.by], now))
    BY DEF PreviewInv
  <2>3. PICK r \in BOOLEAN : r = (l.retired \/ Previews!Before(l, u))
    BY Zenon
  <2>4. k = [l EXCEPT !.retired = r]  BY <2>1, <2>3, Zenon
  <2>5. /\ k \in Links /\ k.by = l.by /\ k.iat = l.iat /\ k.exp = l.exp /\ k.late = l.late
        /\ k.retired = r
    BY <2>2, <2>4 DEF Links
  <2>6. CASE l.by = u
    <3> SUFFICES ASSUME ~raised, ~l.late PROVE LinkOk(k, a, now)
      BY <1>6, <2>5, <2>6
    <3>1. LinkOk(l, user[u], now) /\ user[u] \in Accounts  BY <1>1, <2>2, <2>6
    <3>2. r => l.iat = Never \/ l.iat < now
      <4>1. CASE l.retired
        BY <1>1, <2>2, <3>1, <4>1 DEF LinkOk, AccountOk, Links, Instants, Accounts
      <4>2. CASE ~l.retired
        BY <2>3, <4>2 DEF Previews!Before
      <4> QED  BY <4>1, <4>2
    <3> QED  BY <1>3, <2>5, <3>1, <3>2 DEF LinkOk
  <2>7. CASE l.by # u
    <3>1. l.by \in Users /\ l.retired \in BOOLEAN  BY <2>2 DEF Links
    <3>2. r = l.retired  BY <2>3, <2>7, <3>1 DEF Previews!Before
    <3>3. user'[k.by] = user[l.by]  BY <1>6, <2>5, <2>7, <3>1
    <3> QED  BY <2>2, <2>5, <3>2, <3>3 DEF LinkOk
  <2> QED  BY <2>6, <2>7
<1>9. /\ minting' = Previews!NoMint \/ minting' \in Mints
      /\ minting' # Previews!NoMint /\ ~minting'.overtaken => user'[minting'.by].active
  <2>1. CASE minting = Previews!NoMint
    BY <1>1, <1>5, <2>1 DEF Previews!Overtaken, Previews!NoMint
  <2>2. CASE minting # Previews!NoMint
    <3>1. minting \in Mints /\ (~minting.overtaken => user[minting.by].active)
      BY <2>2 DEF PreviewInv
    <3>2. CASE minting.by = u
      BY <1>5, <3>1, <3>2 DEF Mints, Previews!Overtaken
    <3>3. CASE minting.by # u
      BY <1>5, <1>6, <3>1, <3>3 DEF Mints, Previews!Overtaken
    <3> QED  BY <3>2, <3>3
  <2> QED  BY <2>1, <2>2
<1> QED  BY <1>1, <1>5, <1>6, <1>7, <1>8, <1>9, UnseenIsFine DEF PreviewInv

LEMMA RowKeeps ==
  ASSUME PreviewInv, shown = Previews!Unseen, NEW r, Previews!rowChanges(r)
  PROVE  PreviewInv'
<1>1. shown' = Previews!Unseen /\ UNCHANGED <<now, raised, user, minting, links>>
  BY DEF Previews!rowChanges
<1> QED  BY <1>1, UnseenIsFine DEF PreviewInv

(* Who passes the Worker's check is not deactivated: the entry in KV lasts *)
(* longer than a session begun before it.                                  *)
LEMMA MintKeeps ==
  ASSUME PreviewInv, shown = Previews!Unseen, NEW u \in Users, Previews!signPagePreview(u)
  PROVE  PreviewInv'
<1>1. shown' = Previews!Unseen /\ UNCHANGED <<now, raised, user, links>>
  BY DEF Previews!signPagePreview
<1>2. /\ user[u] \in Accounts /\ AccountOk(user[u], now) /\ now \in Nat /\ SessionTtl \in Nat
  BY PreviewConstants DEF PreviewInv, Previews!PreviewAssumption
<1>3. user[u].active
  BY <1>2 DEF Previews!signPagePreview, Previews!HasSession, Previews!isIdentityRevoked,
              Previews!isSessionDenied, AccountOk, Accounts, Instants
<1>4. PICK iat \in Instants : iat = Previews!Iat(u)
  BY <1>2 DEF Previews!Iat, Accounts, Instants
<1>5. PICK roles \in SUBSET Previews!Roles : roles = user[u].roles
  BY <1>2 DEF Accounts
<1>6. minting' = [by |-> u, iat |-> iat, roles |-> roles, overtaken |-> FALSE]
  BY <1>4, <1>5, Zenon DEF Previews!signPagePreview
<1>7. minting' \in Mints /\ minting'.by = u
  BY <1>6 DEF Mints
<1> QED  BY <1>1, <1>3, <1>7, UnseenIsFine DEF PreviewInv

LEMMA SignKeeps ==
  ASSUME PreviewInv, shown = Previews!Unseen, NEW r \in Rows, NEW requested \in Nat,
         Previews!signs(r, requested)
  PROVE  PreviewInv'
<1>1. /\ shown' = Previews!Unseen /\ minting' = Previews!NoMint /\ UNCHANGED <<now, raised, user>>
      /\ minting # Previews!NoMint /\ minting \in Mints
  BY DEF Previews!signs, PreviewInv
<1>2. now \in Nat /\ SessionTtl \in Nat /\ user \in [Users -> Accounts]
  BY PreviewConstants DEF PreviewInv, Previews!PreviewAssumption
<1>3. PICK ttl \in Nat : ttl = Previews!previewTtlFor(requested) /\ (~raised => ttl <= SessionTtl)
  BY TtlIsBounded
<1>4. PICK exp \in Nat : exp = now + ttl  BY <1>2
<1>5. PICK roles \in SUBSET Previews!EditorRoles : roles = Previews!ownRoles(minting.roles)
  BY <1>1 DEF Previews!ownRoles, Previews!EditorRoles, Previews!Roles, Mints
<1>6. PICK l : l = [by |-> minting.by, iat |-> minting.iat, roles |-> roles, row |-> r,
                    exp |-> exp, retired |-> FALSE, late |-> minting.overtaken]
  OBVIOUS
<1>7. links' = links \union {l}
  BY <1>3, <1>4, <1>5, <1>6 DEF Previews!signs
<1>8. /\ l \in Links /\ l.by = minting.by /\ l.exp = exp /\ ~l.retired
      /\ l.late = minting.overtaken /\ l.by \in Users
  BY <1>1, <1>6 DEF Links, Mints
<1>9. ~raised /\ ~l.late => LinkOk(l, user[l.by], now)
  BY <1>1, <1>2, <1>3, <1>4, <1>8 DEF LinkOk, PreviewInv
<1> QED  BY <1>1, <1>7, <1>8, <1>9, UnseenIsFine DEF PreviewInv

LEMMA RedeemKeeps ==
  ASSUME PreviewInv, NEW l \in links, Previews!redeem(l)
  PROVE  PreviewInv'
<1>1. UNCHANGED <<now, raised, row, user, minting, links>>
  BY DEF Previews!redeem
<1>2. /\ l \in Links /\ (~raised /\ ~l.late => LinkOk(l, user[l.by], now)) /\ now \in Nat
      /\ user[l.by] \in Accounts
  BY DEF PreviewInv, Links
<1>3. shown'.link = l /\ shown'.row = l.row /\ shown'.as = l.roles
  BY DEF Previews!redeem, Previews!redeemerOf
<1>4. now < l.exp /\ ~Previews!isIdentityRevoked(l.by, l.iat)
  BY DEF Previews!redeem, Previews!redeemerOf
<1>5. ~raised /\ ~l.late => ~l.retired /\ user[l.by].active
  BY <1>2, <1>4 DEF Previews!isIdentityRevoked, Previews!isSessionDenied,
                    Previews!isIssuedBeforeNotBefore, LinkOk, Links, Accounts
<1>6. Previews!RevokedLinksStayShut'
  BY <1>1, <1>3, <1>5 DEF Previews!RevokedLinksStayShut
<1>7. Previews!mayRead(l.by, l.roles, l.row)
  BY DEF Previews!redeem, Previews!getPagePreview
<1>8. Previews!LinksReadAsTheirMinter'
  BY <1>1, <1>2, <1>3, <1>7 DEF Previews!LinksReadAsTheirMinter, Previews!mayRead, Links
<1> QED  BY <1>1, <1>6, <1>8 DEF PreviewInv

LEMMA PreviewInit == Previews!Init => PreviewInv
<1> SUFFICES ASSUME Previews!Init PROVE PreviewInv
  OBVIOUS
<1>1. now = 0 /\ minting = Previews!NoMint /\ links = {} /\ shown = Previews!Unseen
  BY DEF Previews!Init
<1>2. PICK unstamped \in SUBSET Users, roles \in [Users -> {{"editor", "__service"}, {"author"}}] :
        user = [u \in Users |-> [active |-> TRUE, roles |-> roles[u], iat |-> Never,
                                 unstamped |-> u \in unstamped, deniedUntil |-> 0,
                                 notBefore |-> 0, notBeforeUntil |-> 0]]
  BY Zenon DEF Previews!Init
<1>3. ASSUME NEW u \in Users
      PROVE  user[u] \in Accounts /\ AccountOk(user[u], now)
  <2>1. PICK old \in BOOLEAN : old = (u \in unstamped)
    <3>1. CASE u \in unstamped  BY <3>1
    <3>2. CASE u \notin unstamped
      <4>1. (u \in unstamped) = FALSE  BY <3>2
      <4> QED  BY <4>1
    <3> QED  BY <3>1, <3>2
  <2>2. PICK mine \in SUBSET Previews!Roles : mine = roles[u]
    <3>1. roles[u] \in {{"editor", "__service"}, {"author"}}  OBVIOUS
    <3> QED  BY <3>1 DEF Previews!Roles
  <2>3. user[u] = [active |-> TRUE, roles |-> mine, iat |-> Never, unstamped |-> old,
                   deniedUntil |-> 0, notBefore |-> 0, notBeforeUntil |-> 0]
    BY <1>2, <2>1, <2>2, Zenon
  <2>4. /\ user[u] \in Accounts /\ user[u].iat = Never /\ user[u].notBefore = 0
        /\ user[u].active = TRUE
    BY <2>3 DEF Accounts, Instants
  <2> QED  BY <1>1, <2>4 DEF AccountOk
<1>4. user \in [Users -> Accounts]
  <2>1. user = [u \in Users |-> user[u]]  BY <1>2
  <2> QED  BY <1>3, <2>1
<1>5. Previews!RevokedLinksStayShut /\ Previews!LinksReadAsTheirMinter
  BY <1>1 DEF Previews!RevokedLinksStayShut, Previews!LinksReadAsTheirMinter
<1> QED  BY <1>1, <1>3, <1>4, <1>5 DEF PreviewInv

LEMMA PreviewStep == PreviewInv /\ [Previews!Next]_previewVars => PreviewInv'
<1> SUFFICES ASSUME PreviewInv, [Previews!Next]_previewVars PROVE PreviewInv'
  OBVIOUS
<1>1. CASE UNCHANGED previewVars
  BY <1>1 DEF previewVars, PreviewInv, Previews!RevokedLinksStayShut, Previews!LinksReadAsTheirMinter
<1>2. CASE Previews!closed
  BY <1>2, UnseenIsFine DEF Previews!closed, PreviewInv
<1>3. ASSUME NEW r \in Rows, NEW requested \in {0, DefaultTtl, MaxTime}, Previews!signs(r, requested),
             shown = Previews!Unseen
      PROVE  PreviewInv'
  <2>1. requested \in Nat  BY PreviewConstants DEF Previews!PreviewAssumption
  <2> QED  BY <1>3, <2>1, SignKeeps
<1> QED
  BY <1>1, <1>2, <1>3, TickKeeps, LoginKeeps, DeactivateKeeps, ReactivateKeeps, CredentialsKeep,
     RolesKeep, MintKeeps, RowKeeps, RedeemKeeps DEF Previews!Next

----------------------------------------------------------------------------
(* The media library.  A purge past its first write has taken the bytes,   *)
(* so that what is under its key now was put again; a registration has its *)
(* id for itself; and in a Durable Object there is one call, which knows   *)
(* that nobody names its key.                                              *)

Named(i) == rows[i].state # "absent"
Calls ==
  [pc : {"idle", "checked", "purging", "half"} \cup MediaTypes, id : Ids \cup {0},
   key : BlobKeys \cup {"none"}]
MediaRows ==
  [state : {"absent", "live", "trashed"}, key : BlobKeys \cup {"none"}, type : MediaTypes]

CallOk(c) ==
  LET w == work[c] IN
  /\ w.pc = "idle" => w = Media!Idle
  /\ w.pc = "checked" => w.id = 0
  /\ w.pc \in MediaTypes =>
       w.id \in Ids \ {0} /\ ~Named(w.id) /\ \A d \in Uploaders \ {c} : work[d].id # w.id
  /\ w.pc \in {"purging", "half"} =>
       w.id \in Ids /\ w.key \in owned /\ (Named(w.id) => rows[w.id].key = w.key)
  /\ w.pc = "half" /\ w.key \in blobs => w.key \in again

CallAlone(c) ==
  LET w == work[c] IN
  /\ w.pc # "idle" => \A d \in Uploaders \ {c} : work[d].pc = "idle"
  /\ w.pc \in {"checked"} \cup MediaTypes => \A i \in Ids : Named(i) => rows[i].key # w.key
  /\ w.pc \in MediaTypes => w.key \in blobs
  /\ w.pc \in {"purging", "half"} => Named(w.id)

MediaTyped ==
  /\ rows \in [Ids -> MediaRows]
  /\ work \in [Uploaders -> Calls]
  /\ \A i \in Ids : Named(i) => rows[i].key \in owned

NoOrphans == \A k \in (blobs \cap owned) \ again : \E i \in Ids : Named(i) /\ rows[i].key = k
OneEach == \A i, j \in Ids : Named(i) /\ Named(j) /\ rows[i].key = rows[j].key => i = j
BytesBehind == \A i \in Ids : Named(i) => rows[i].key \in blobs \cup torn

MediaInv ==
  /\ MediaTyped
  /\ \A c \in Uploaders : CallOk(c)
  /\ NoOrphans
  /\ storage = "do" => (\A c \in Uploaders : CallAlone(c)) /\ OneEach /\ BytesBehind

LEMMA PhasesAreApart ==
  /\ MediaTypes \cap {"idle", "checked", "purging", "half"} = {}
  /\ "null" \in MediaTypes /\ IsFiniteSet(Ids)
BY MediaConstants DEF Media!MediaAssumption, Media!Null, Media!IsFiniteSet, IsFiniteSet

LEMMA NamedIsLiveOrTrashed ==
  ASSUME MediaTyped, NEW i \in Ids
  PROVE  Named(i) <=> i \in Media!Live \cup Media!Trashed
BY DEF MediaTyped, MediaRows, Named, Media!Live, Media!Trashed

(* Any type is under one of the filters, and under one only.               *)
LEMMA OneKindOfAType ==
  ASSUME NEW type
  PROVE  \E one \in Media!MEDIA_KINDS :
           \A kind \in Media!MEDIA_KINDS : Media!mediaKindWhere(kind, type) <=> kind = one
<1>1. CASE type = Media!Null
  <2>1. \A kind \in Media!MEDIA_KINDS : Media!mediaKindWhere(kind, type) <=> kind = "other"
    BY <1>1 DEF Media!MEDIA_KINDS, Media!mediaKindWhere, Media!startsWith, Media!other
  <2> QED  BY <2>1 DEF Media!MEDIA_KINDS
<1>2. CASE type # Media!Null /\ type \in {"image", "video", "audio"}
  <2>1. \A kind \in Media!MEDIA_KINDS : Media!mediaKindWhere(kind, type) <=> kind = type
    BY <1>2 DEF Media!MEDIA_KINDS, Media!mediaKindWhere, Media!startsWith, Media!other,
       Media!negated, Media!DOCUMENT_PREFIXES
  <2> QED  BY <1>2, <2>1 DEF Media!MEDIA_KINDS
<1>3. CASE type # Media!Null /\ type \in Media!DOCUMENT_PREFIXES
  <2>1. \A kind \in Media!MEDIA_KINDS : Media!mediaKindWhere(kind, type) <=> kind = "document"
    BY <1>3 DEF Media!MEDIA_KINDS, Media!mediaKindWhere, Media!startsWith, Media!other,
       Media!negated, Media!DOCUMENT_PREFIXES
  <2> QED  BY <2>1 DEF Media!MEDIA_KINDS
<1>4. CASE type # Media!Null /\ type \notin {"image", "video", "audio"} \cup Media!DOCUMENT_PREFIXES
  <2>1. \A kind \in Media!MEDIA_KINDS : Media!mediaKindWhere(kind, type) <=> kind = "other"
    BY <1>4 DEF Media!MEDIA_KINDS, Media!mediaKindWhere, Media!startsWith, Media!other,
       Media!negated, Media!DOCUMENT_PREFIXES
  <2> QED  BY <2>1 DEF Media!MEDIA_KINDS
<1> QED  BY <1>1, <1>2, <1>3, <1>4

LEMMA KindsAreOne == Media!OneKindEach
<1> SUFFICES ASSUME NEW i \in Media!Live
             PROVE  Cardinality({kind \in Media!MEDIA_KINDS : i \in Media!listMedia(kind)}) = 1
  BY DEF Media!OneKindEach, Media!Cardinality, Cardinality
<1>1. PICK type : type = rows[i].type
  OBVIOUS
<1>2. PICK one \in Media!MEDIA_KINDS :
        \A kind \in Media!MEDIA_KINDS : Media!mediaKindWhere(kind, type) <=> kind = one
  BY OneKindOfAType
<1>3. \A kind \in Media!MEDIA_KINDS : i \in Media!listMedia(kind) <=> kind = one
  BY <1>1, <1>2 DEF Media!listMedia
<1>4. {kind \in Media!MEDIA_KINDS : i \in Media!listMedia(kind)} = {one}
  BY <1>3
<1> QED  BY <1>4, FS_Singleton

LEMMA MediaGives ==
  ASSUME MediaInv
  PROVE  Media!OneRowPerBlob /\ Media!BytesBehindRows /\ Media!NothingIsOrphaned /\ Media!OneKindEach
<1>1. \A i \in Ids : Named(i) <=> i \in Media!Live \cup Media!Trashed
  BY NamedIsLiveOrTrashed DEF MediaInv
<1>2. Media!Live \cup Media!Trashed \subseteq Ids  BY DEF Media!Live, Media!Trashed
<1>3. Media!OneRowPerBlob  BY <1>1, <1>2 DEF MediaInv, OneEach, Media!OneRowPerBlob
<1>4. Media!BytesBehindRows  BY <1>1, <1>2 DEF MediaInv, BytesBehind, Media!BytesBehindRows
<1>5. Media!NothingIsOrphaned  BY <1>1, <1>2 DEF MediaInv, NoOrphans, Media!NothingIsOrphaned
<1> QED  BY <1>3, <1>4, <1>5, KindsAreOne

-----------------------------------------------------------------------------
(* A call goes on to w, and nothing else moves.                            *)

MayBecome(c, w) ==
  /\ w \in Calls
  /\ w.pc = "idle" => w = Media!Idle
  /\ w.pc = "checked" => w.id = 0
  /\ w.pc \in MediaTypes =>
       w.id \in Ids \ {0} /\ ~Named(w.id) /\ \A d \in Uploaders \ {c} : work[d].id # w.id
  /\ w.pc \in {"purging", "half"} =>
       w.id \in Ids /\ w.key \in owned /\ (Named(w.id) => rows[w.id].key = w.key)
  /\ w.pc = "half" /\ w.key \in blobs => w.key \in again
  /\ \A d \in Uploaders \ {c} : work[d].pc \in MediaTypes => w.id # work[d].id
  /\ storage = "do" =>
       /\ w.pc # "idle" => \A d \in Uploaders \ {c} : work[d].pc = "idle"
       /\ w.pc \in {"checked"} \cup MediaTypes => \A i \in Ids : Named(i) => rows[i].key # w.key
       /\ w.pc \in MediaTypes => w.key \in blobs
       /\ w.pc \in {"purging", "half"} => Named(w.id)

LEMMA CallMoves ==
  ASSUME MediaInv, NEW c \in Uploaders, NEW w, MayBecome(c, w), work' = [work EXCEPT ![c] = w],
         UNCHANGED <<storage, rows, owned, blobs, again, torn>>
  PROVE  MediaInv'
<1>1. /\ work'[c] = w /\ work' \in [Uploaders -> Calls]
      /\ \A d \in Uploaders \ {c} : work'[d] = work[d]
  BY DEF MediaInv, MediaTyped, MayBecome
<1>2. MediaTyped'  BY <1>1 DEF MediaInv, MediaTyped, Named
<1>3. ASSUME NEW d \in Uploaders PROVE CallOk(d)'
  <2>1. CASE d = c  BY <1>1, <2>1 DEF MayBecome, CallOk, Named
  <2>2. CASE d # c
    <3>1. CallOk(d)  BY DEF MediaInv
    <3>2. \A e \in Uploaders \ {d} : work[d].pc \in MediaTypes => work'[e].id # work[d].id
      BY <1>1, <2>2, <3>1 DEF CallOk, MayBecome
    <3> QED  BY <1>1, <2>2, <3>1, <3>2 DEF CallOk, Named
  <2> QED  BY <2>1, <2>2
<1>4. NoOrphans' /\ (storage = "do" => OneEach' /\ BytesBehind')
  BY DEF MediaInv, NoOrphans, OneEach, BytesBehind, Named
<1>5. ASSUME storage = "do", NEW d \in Uploaders PROVE CallAlone(d)'
  <2>1. CASE d = c  BY <1>1, <1>5, <2>1 DEF MayBecome, CallAlone, Named
  <2>2. CASE d # c
    <3>1. CallAlone(d) /\ CallAlone(c)  BY <1>5 DEF MediaInv
    <3>2. work[d].pc # "idle" => w.pc = "idle"
      BY <1>5, <2>2 DEF MayBecome
    <3> QED  BY <1>1, <2>2, <3>1, <3>2 DEF CallAlone, Named
  <2> QED  BY <2>1, <2>2
<1> QED  BY <1>2, <1>3, <1>4, <1>5 DEF MediaInv

LEMMA IdleIsACall ==
  Media!Idle \in Calls /\ Media!Idle.pc = "idle" /\ Media!Idle.id = 0
BY DEF Media!Idle, Calls

(* A call may end at any point of it.                                      *)
LEMMA MayEnd ==
  ASSUME MediaInv, NEW c \in Uploaders
  PROVE  MayBecome(c, Media!Idle)
<1>1. \A d \in Uploaders : work[d].pc \in MediaTypes => work[d].id # 0
  BY DEF MediaInv, CallOk
<1>2. "idle" \notin MediaTypes  BY PhasesAreApart
<1> QED  BY <1>1, <1>2, IdleIsACall DEF MayBecome

LEMMA FreeIsAlone ==
  ASSUME Media!free, storage = "do"
  PROVE  \A d \in Uploaders : work[d].pc = "idle"
BY DEF Media!free

LEMMA CreateKeeps ==
  ASSUME MediaInv, NEW c \in Uploaders, NEW k \in BlobKeys, Media!createMedia(c, k)
  PROVE  MediaInv'
<1>1. PICK w : w = Media!At("checked", 0, k)  OBVIOUS
<1>2. w \in Calls /\ w.pc = "checked" /\ w.id = 0 /\ w.key = k
  BY <1>1 DEF Media!At, Calls
<1>3. Media!names(k) = {} /\ Media!free /\ work' = [work EXCEPT ![c] = w]
      /\ UNCHANGED <<storage, rows, owned, blobs, again, torn>>
  BY <1>1 DEF Media!createMedia
<1>4. \A i \in Ids : Named(i) => rows[i].key # k
  BY <1>3 DEF Media!names, Named, Media!Absent
<1>5. \A d \in Uploaders : work[d].pc \in MediaTypes => work[d].id # 0
  BY DEF MediaInv, CallOk
<1>6. MayBecome(c, w)
  BY <1>2, <1>3, <1>4, <1>5, FreeIsAlone, PhasesAreApart DEF MayBecome
<1> QED  BY <1>3, <1>6, CallMoves

LEMMA HeadKeeps ==
  ASSUME MediaInv, NEW c \in Uploaders, Media!headMissing(c) \/ Media!headFound(c)
  PROVE  MediaInv'
<1>1. CASE Media!headMissing(c)
  BY <1>1, MayEnd, CallMoves DEF Media!headMissing
<1>2. CASE Media!headFound(c)
  <2>1. /\ work[c].pc = "checked" /\ work[c].key \in blobs /\ work[c] \in Calls
        /\ UNCHANGED <<storage, rows, owned, blobs, again, torn>>
    BY <1>2 DEF Media!headFound, MediaInv, MediaTyped
  <2>2. PICK i \in Ids, type \in MediaTypes :
          /\ rows[i] = Media!NoRow /\ \A d \in Uploaders : work[d].id # i
          /\ work' = [work EXCEPT ![c] = Media!At(type, i, work[c].key)]
    BY <1>2 DEF Media!headFound
  <2>3. PICK w : w = Media!At(type, i, work[c].key)  OBVIOUS
  <2>4. w \in Calls /\ w.pc = type /\ w.id = i /\ w.key = work[c].key
    BY <2>1, <2>3 DEF Media!At, Calls
  <2>5. ~Named(i)  BY <2>2 DEF Named, Media!NoRow, Media!Absent
  <2>6. storage = "do" =>
          /\ \A d \in Uploaders \ {c} : work[d].pc = "idle"
          /\ \A j \in Ids : Named(j) => rows[j].key # w.key
    BY <2>1, <2>4 DEF MediaInv, CallAlone
  <2>7. i # 0
    <3>1. work[c].id = 0  BY <2>1 DEF MediaInv, CallOk
    <3> QED  BY <2>2, <3>1
  <2>8. MayBecome(c, w)
    BY <2>1, <2>2, <2>4, <2>5, <2>6, <2>7, PhasesAreApart DEF MayBecome
  <2> QED  BY <2>1, <2>2, <2>3, <2>8, CallMoves
<1> QED  BY <1>1, <1>2

LEMMA PurgeKeeps ==
  ASSUME MediaInv, NEW c \in Uploaders, NEW i \in Ids, Media!purgeMedia(c, i)
  PROVE  MediaInv'
<1>1. /\ Media!free /\ i \in Media!Trashed
      /\ UNCHANGED <<storage, rows, owned, blobs, again, torn>>
      /\ work' = [work EXCEPT ![c] = Media!At("purging", i, rows[i].key)]
  BY DEF Media!purgeMedia
<1>2. Named(i) /\ rows[i] \in MediaRows /\ rows[i].key \in owned
  BY <1>1, NamedIsLiveOrTrashed DEF MediaInv, MediaTyped
<1>3. PICK w : w = Media!At("purging", i, rows[i].key)  OBVIOUS
<1>4. w \in Calls /\ w.pc = "purging" /\ w.id = i /\ w.key = rows[i].key
  BY <1>2, <1>3 DEF Media!At, Calls, MediaRows
<1>5. \A d \in Uploaders : work[d].pc \in MediaTypes => work[d].id # i
  BY <1>2 DEF MediaInv, CallOk
<1>6. MayBecome(c, w)
  BY <1>1, <1>2, <1>4, <1>5, FreeIsAlone, PhasesAreApart DEF MayBecome
<1> QED  BY <1>1, <1>3, <1>6, CallMoves

LEMMA DiesKeepsMedia ==
  ASSUME MediaInv, NEW c \in Uploaders, Media!dies(c)
  PROVE  MediaInv'
BY MayEnd, CallMoves DEF Media!dies

-----------------------------------------------------------------------------
(* Bytes come, and a registration ends.                                    *)

LEMMA UrlsKeep ==
  ASSUME MediaInv, UNCHANGED <<storage, rows, work, owned, blobs, again, torn>>
  PROVE  MediaInv'
<1>1. MediaTyped'  BY DEF MediaInv, MediaTyped, Named
<1>2. \A c \in Uploaders : CallOk(c)'  BY DEF MediaInv, CallOk, Named
<1>3. NoOrphans'  BY DEF MediaInv, NoOrphans, Named
<1>4. storage = "do" => (\A c \in Uploaders : CallAlone(c)') /\ OneEach' /\ BytesBehind'
  BY DEF MediaInv, CallAlone, OneEach, BytesBehind, Named
<1> QED  BY <1>1, <1>2, <1>3, <1>4 DEF MediaInv

LEMMA PutKeeps ==
  ASSUME MediaInv, NEW k \in BlobKeys, Media!put(k)
  PROVE  MediaInv'
<1>1. /\ blobs' = blobs \cup {k}
      /\ again' = IF k \in owned THEN again \cup {k} ELSE again
      /\ UNCHANGED <<storage, rows, work, owned, torn>>
  BY DEF Media!put
<1>2. MediaTyped'  BY <1>1 DEF MediaInv, MediaTyped, Named
<1>3. ASSUME NEW c \in Uploaders PROVE CallOk(c)'
  <2>1. CallOk(c)  BY DEF MediaInv
  <2> QED  BY <1>1, <2>1 DEF CallOk, Named
<1>4. NoOrphans'  BY <1>1 DEF MediaInv, NoOrphans, Named
<1>5. storage = "do" => (\A c \in Uploaders : CallAlone(c)') /\ OneEach' /\ BytesBehind'
  BY <1>1 DEF MediaInv, CallAlone, OneEach, BytesBehind, Named
<1> QED  BY <1>1, <1>2, <1>3, <1>4, <1>5 DEF MediaInv

LEMMA InsertKeeps ==
  ASSUME MediaInv, NEW c \in Uploaders, Media!insert(c)
  PROVE  MediaInv'
<1>1. PICK w, i, k, r :
        /\ w = work[c] /\ i = w.id /\ k = w.key
        /\ r = [state |-> "live", key |-> k, type |-> w.pc]
  OBVIOUS
<1>2. /\ w.pc \in MediaTypes /\ w \in Calls
      /\ rows' = [rows EXCEPT ![i] = r] /\ work' = [work EXCEPT ![c] = Media!Idle]
      /\ owned' = owned \cup {k} /\ UNCHANGED <<storage, blobs, again, torn>>
  BY <1>1, Zenon DEF Media!insert, MediaInv, MediaTyped
<1>3. CallOk(c) /\ i \in Ids \ {0} /\ ~Named(i) /\ \A d \in Uploaders \ {c} : work[d].id # i
  BY <1>1, <1>2 DEF MediaInv, CallOk
<1>4. r \in MediaRows /\ r.state = "live" /\ r.key = k
  BY <1>1, <1>2 DEF MediaRows, Calls
<1>5. /\ rows' \in [Ids -> MediaRows] /\ rows'[i] = r
      /\ \A j \in Ids \ {i} : rows'[j] = rows[j]
  BY <1>2, <1>3, <1>4 DEF MediaInv, MediaTyped
<1>6. /\ work' \in [Uploaders -> Calls] /\ work'[c] = Media!Idle
      /\ \A d \in Uploaders \ {c} : work'[d] = work[d]
  BY <1>2, IdleIsACall DEF MediaInv, MediaTyped
<1>7. Named(i)' /\ \A j \in Ids \ {i} : Named(j)' <=> Named(j)
  BY <1>4, <1>5 DEF Named
<1>8. MediaTyped'
  BY <1>2, <1>4, <1>5, <1>6, <1>7 DEF MediaInv, MediaTyped
<1>9. ASSUME NEW d \in Uploaders PROVE CallOk(d)'
  <2>1. CASE d = c
    BY <1>6, <2>1, IdleIsACall, PhasesAreApart DEF CallOk
  <2>2. CASE d # c
    <3>1. CallOk(d) /\ work'[d] = work[d] /\ work[d].id # i
      BY <1>3, <1>6, <2>2 DEF MediaInv
    <3>2. \A j \in Ids \ {i} : rows'[j] = rows[j] /\ (Named(j)' <=> Named(j))
      BY <1>5, <1>7
    <3>3. work[d].pc \in MediaTypes => \A e \in Uploaders \ {d} : work'[e].id # work[d].id
      BY <1>6, <3>1, IdleIsACall DEF CallOk
    <3> QED  BY <1>2, <3>1, <3>2, <3>3 DEF CallOk
  <2> QED  BY <2>1, <2>2
<1>10. NoOrphans'
  <2> SUFFICES ASSUME NEW l \in (blobs \cap owned') \ again
               PROVE  \E j \in Ids : Named(j)' /\ rows'[j].key = l
    BY <1>2 DEF NoOrphans
  <2>1. CASE l = k  BY <1>3, <1>4, <1>5, <1>7, <2>1
  <2>2. CASE l # k
    <3>1. PICK j \in Ids : Named(j) /\ rows[j].key = l
      BY <1>2, <2>2 DEF MediaInv, NoOrphans
    <3>2. j # i  BY <1>3, <3>1
    <3> QED  BY <1>5, <1>7, <3>1, <3>2
  <2> QED  BY <2>1, <2>2
<1>11. ASSUME storage = "do"
       PROVE  (\A d \in Uploaders : CallAlone(d)') /\ OneEach' /\ BytesBehind'
  <2>1. /\ CallAlone(c) /\ "idle" \notin MediaTypes
        /\ OneEach /\ BytesBehind
    BY <1>11, PhasesAreApart DEF MediaInv
  <2>2. /\ \A d \in Uploaders \ {c} : work[d].pc = "idle"
        /\ \A j \in Ids : Named(j) => rows[j].key # k
        /\ k \in blobs
    BY <1>1, <1>2, <2>1 DEF CallAlone
  <2>3. \A d \in Uploaders : work'[d].pc = "idle"
    BY <1>6, <2>2, IdleIsACall
  <2>4. \A d \in Uploaders : CallAlone(d)'
    BY <2>1, <2>3 DEF CallAlone
  <2>5. OneEach'
    BY <1>3, <1>4, <1>5, <1>7, <2>1, <2>2 DEF OneEach
  <2>6. BytesBehind'
    BY <1>2, <1>3, <1>4, <1>5, <1>7, <2>1, <2>2 DEF BytesBehind
  <2> QED  BY <2>4, <2>5, <2>6
<1> QED  BY <1>2, <1>8, <1>9, <1>10, <1>11 DEF MediaInv

(* Trash and restore change nobody's name.                                 *)
LEMMA TrashKeeps ==
  ASSUME MediaInv, NEW i \in Ids, Media!deleteMedia(i) \/ Media!restoreMedia(i)
  PROVE  MediaInv'
<1>1. PICK s \in {"live", "trashed"} : rows' = [rows EXCEPT ![i].state = s]
  BY DEF Media!deleteMedia, Media!restoreMedia
<1>2. UNCHANGED <<storage, work, owned, blobs, again, torn>>
  BY DEF Media!deleteMedia, Media!restoreMedia
<1>3. Named(i) /\ rows[i] \in MediaRows
  BY NamedIsLiveOrTrashed DEF MediaInv, MediaTyped, Media!deleteMedia, Media!restoreMedia
<1>4. /\ rows' \in [Ids -> MediaRows] /\ \A j \in Ids : rows'[j].key = rows[j].key
      /\ rows'[i].state = s /\ \A j \in Ids \ {i} : rows'[j] = rows[j]
  BY <1>1, <1>3 DEF MediaInv, MediaTyped, MediaRows
<1>5. \A j \in Ids : Named(j)' <=> Named(j)
  BY <1>3, <1>4 DEF Named
<1>6. MediaTyped'
  BY <1>2, <1>4, <1>5 DEF MediaInv, MediaTyped
<1>7. ASSUME NEW c \in Uploaders PROVE CallOk(c)'
  <2>1. CallOk(c)  BY DEF MediaInv
  <2> QED  BY <1>2, <1>4, <1>5, <2>1 DEF CallOk
<1>8. NoOrphans'
  BY <1>2, <1>4, <1>5 DEF MediaInv, NoOrphans
<1>9. storage = "do" => (\A c \in Uploaders : CallAlone(c)') /\ OneEach' /\ BytesBehind'
  <2>1. ASSUME storage = "do", NEW c \in Uploaders PROVE CallAlone(c)'
    <3>1. CallAlone(c) /\ CallOk(c)  BY <2>1 DEF MediaInv
    <3> QED  BY <1>2, <1>4, <1>5, <3>1 DEF CallAlone, CallOk
  <2>2. storage = "do" => OneEach' /\ BytesBehind'
    BY <1>2, <1>4, <1>5 DEF MediaInv, OneEach, BytesBehind
  <2> QED  BY <2>1, <2>2
<1> QED  BY <1>2, <1>6, <1>7, <1>8, <1>9 DEF MediaInv

LEMMA BytesGoFirst ==
  /\ Media!bytesFirst["purging"] = "bytes" /\ Media!bytesFirst["half"] = "row"
BY DEF Media!bytesFirst

(* The first write of a purge takes the bytes, of every version.           *)
LEMMA DeletesBytesKeeps ==
  ASSUME MediaInv, NEW c \in Uploaders, Media!deletesBytes(c)
  PROVE  MediaInv'
<1>1. PICK w, k, n : w = work[c] /\ k = w.key /\ n = Media!At("half", w.id, k)
  OBVIOUS
<1>2. /\ w.pc = "purging" /\ w \in Calls /\ work' = [work EXCEPT ![c] = n]
      /\ blobs' = blobs \ {k} /\ again' = again \ {k} /\ torn' = torn \cup {k}
      /\ UNCHANGED <<storage, rows, owned>>
  <2>1. w.pc = "purging"  BY <1>1, BytesGoFirst DEF Media!deletesBytes
  <2> QED  BY <1>1, <2>1 DEF Media!deletesBytes, MediaInv, MediaTyped
<1>3. /\ n \in Calls /\ n.pc = "half" /\ n.id = w.id /\ n.key = k
  BY <1>1, <1>2 DEF Media!At, Calls
<1>4. /\ work' \in [Uploaders -> Calls] /\ work'[c] = n
      /\ \A d \in Uploaders \ {c} : work'[d] = work[d]
  BY <1>2, <1>3 DEF MediaInv, MediaTyped
<1>5. CallOk(c) /\ "half" \notin MediaTypes  BY PhasesAreApart DEF MediaInv
<1>6. MediaTyped'  BY <1>2, <1>4 DEF MediaInv, MediaTyped, Named
<1>7. ASSUME NEW d \in Uploaders PROVE CallOk(d)'
  <2>1. CASE d = c
    BY <1>1, <1>2, <1>3, <1>4, <1>5, <2>1 DEF CallOk, Named
  <2>2. CASE d # c
    <3>1. CallOk(d) /\ work'[d] = work[d]  BY <1>4, <2>2 DEF MediaInv
    <3>2. \A e \in Uploaders : work'[e].id = work[e].id
      BY <1>1, <1>3, <1>4
    <3> QED  BY <1>2, <3>1, <3>2 DEF CallOk, Named
  <2> QED  BY <2>1, <2>2
<1>8. NoOrphans'  BY <1>2 DEF MediaInv, NoOrphans, Named
<1>9. ASSUME storage = "do"
      PROVE  (\A d \in Uploaders : CallAlone(d)') /\ OneEach' /\ BytesBehind'
  <2>1. \A d \in Uploaders \ {c} : work[d].pc = "idle"
    BY <1>1, <1>2, <1>9 DEF MediaInv, CallAlone
  <2>2. ASSUME NEW d \in Uploaders PROVE CallAlone(d)'
    <3>1. CASE d = c
      <4>1. Named(w.id)'  BY <1>1, <1>2, <1>9 DEF MediaInv, CallAlone, Named
      <4> QED  BY <1>3, <1>4, <1>5, <2>1, <3>1, <4>1, PhasesAreApart DEF CallAlone
    <3>2. CASE d # c
      BY <1>4, <2>1, <3>2, PhasesAreApart DEF CallAlone
    <3> QED  BY <3>1, <3>2
  <2>3. OneEach' /\ BytesBehind'
    BY <1>2, <1>9 DEF MediaInv, OneEach, BytesBehind, Named
  <2> QED  BY <2>2, <2>3
<1> QED  BY <1>2, <1>6, <1>7, <1>8, <1>9 DEF MediaInv

(* The second one takes a row whose bytes are gone, or were put again.     *)
LEMMA DeletesRowKeeps ==
  ASSUME MediaInv, NEW c \in Uploaders, Media!deletesRow(c)
  PROVE  MediaInv'
<1>1. PICK w, i, k : w = work[c] /\ i = w.id /\ k = w.key
  OBVIOUS
<1>2. /\ w.pc = "half" /\ w \in Calls /\ work' = [work EXCEPT ![c] = Media!Idle]
      /\ rows' = [rows EXCEPT ![i] = Media!NoRow] /\ torn' = torn \ {k}
      /\ UNCHANGED <<storage, blobs, owned, again>>
  <2>1. w.pc = "half"  BY <1>1, BytesGoFirst DEF Media!deletesRow
  <2> QED  BY <1>1, <2>1 DEF Media!deletesRow, MediaInv, MediaTyped
<1>3. CallOk(c) /\ i \in Ids /\ k \in owned /\ (Named(i) => rows[i].key = k)
      /\ (k \in blobs => k \in again)
  BY <1>1, <1>2 DEF MediaInv, CallOk
<1>4. Media!NoRow \in MediaRows /\ Media!NoRow.state = "absent"
  BY PhasesAreApart DEF Media!NoRow, Media!Absent, Media!Null, MediaRows
<1>5. /\ rows' \in [Ids -> MediaRows] /\ rows'[i] = Media!NoRow
      /\ \A j \in Ids \ {i} : rows'[j] = rows[j]
  BY <1>2, <1>3, <1>4 DEF MediaInv, MediaTyped
<1>6. /\ work' \in [Uploaders -> Calls] /\ work'[c] = Media!Idle
      /\ \A d \in Uploaders \ {c} : work'[d] = work[d]
  BY <1>2, IdleIsACall DEF MediaInv, MediaTyped
<1>7. ~Named(i)' /\ \A j \in Ids \ {i} : Named(j)' <=> Named(j)
  BY <1>4, <1>5 DEF Named
<1>8. MediaTyped'
  BY <1>2, <1>5, <1>6, <1>7 DEF MediaInv, MediaTyped
<1>9. ASSUME NEW d \in Uploaders PROVE CallOk(d)'
  <2>1. CASE d = c
    BY <1>6, <2>1, IdleIsACall, PhasesAreApart DEF CallOk
  <2>2. CASE d # c
    <3>1. CallOk(d) /\ work'[d] = work[d]  BY <1>6, <2>2 DEF MediaInv
    <3>2. \A j \in Ids : Named(j)' => Named(j) /\ rows'[j] = rows[j]
      BY <1>5, <1>7
    <3>3. work[d].pc \in MediaTypes => \A e \in Uploaders \ {d} : work'[e].id # work[d].id
      BY <1>6, <3>1, IdleIsACall DEF CallOk
    <3> QED  BY <1>2, <3>1, <3>2, <3>3 DEF CallOk
  <2> QED  BY <2>1, <2>2
<1>10. NoOrphans'
  <2> SUFFICES ASSUME NEW l \in (blobs \cap owned) \ again
               PROVE  \E j \in Ids : Named(j)' /\ rows'[j].key = l
    BY <1>2 DEF NoOrphans
  <2>1. PICK j \in Ids : Named(j) /\ rows[j].key = l
    BY DEF MediaInv, NoOrphans
  <2>2. j # i  BY <1>3, <2>1
  <2> QED  BY <1>5, <1>7, <2>1, <2>2
<1>11. ASSUME storage = "do"
       PROVE  (\A d \in Uploaders : CallAlone(d)') /\ OneEach' /\ BytesBehind'
  <2>1. CallAlone(c) /\ OneEach /\ BytesBehind  BY <1>11 DEF MediaInv
  <2>2. \A d \in Uploaders : work'[d].pc = "idle"
    BY <1>1, <1>2, <1>6, <2>1, IdleIsACall DEF CallAlone
  <2>3. \A d \in Uploaders : CallAlone(d)'
    BY <2>2, PhasesAreApart DEF CallAlone
  <2>4. OneEach'
    BY <1>5, <1>7, <2>1 DEF OneEach
  <2>5. BytesBehind'
    <3> SUFFICES ASSUME NEW j \in Ids, Named(j)' PROVE rows'[j].key \in blobs' \cup torn'
      BY DEF BytesBehind
    <3>1. j # i /\ Named(j) /\ rows'[j] = rows[j]  BY <1>5, <1>7
    <3>2. Named(i)  BY <1>1, <1>2, <2>1 DEF CallAlone
    <3>3. rows[j].key # k  BY <1>3, <2>1, <3>1, <3>2 DEF OneEach
    <3> QED  BY <1>2, <2>1, <3>1, <3>3 DEF BytesBehind
  <2> QED  BY <2>3, <2>4, <2>5
<1> QED  BY <1>2, <1>8, <1>9, <1>10, <1>11 DEF MediaInv

LEMMA MediaInit == Media!Init => MediaInv
<1> SUFFICES ASSUME Media!Init PROVE MediaInv
  OBVIOUS
<1>1. PICK legacy \in [Ids -> {Media!NoRow} \cup [state : {"live"}, key : BlobKeys, type : {Media!Null}]] :
        /\ Cardinality({i \in Ids : legacy[i] # Media!NoRow}) <= 1
        /\ rows = legacy
        /\ minted = {legacy[i].key : i \in {j \in Ids : legacy[j] # Media!NoRow}}
  BY Zenon DEF Media!Init, Media!Cardinality, Cardinality
<1>2. /\ owned = minted /\ blobs = minted /\ again = {} /\ torn = {}
      /\ work = [c \in Uploaders |-> Media!Idle]
  BY DEF Media!Init
<1>3. /\ Media!NoRow \in MediaRows /\ Media!NoRow.state = "absent"
      /\ [state : {"live"}, key : BlobKeys, type : {Media!Null}] \subseteq MediaRows
  BY PhasesAreApart DEF Media!NoRow, Media!Absent, Media!Null, MediaRows
<1>4. rows \in [Ids -> MediaRows]  BY <1>1, <1>3
<1>5. \A i \in Ids : Named(i) <=> rows[i] # Media!NoRow
  BY <1>1, <1>3 DEF Named
<1>6. \A i \in Ids : Named(i) => rows[i].key \in minted
  BY <1>1, <1>5
<1>7. \A k \in minted : \E i \in Ids : Named(i) /\ rows[i].key = k
  BY <1>1, <1>5
<1>8. \A c \in Uploaders : work[c] = Media!Idle  BY <1>2
<1>9. work \in [Uploaders -> Calls]  BY <1>2, IdleIsACall
<1>10. MediaTyped  BY <1>2, <1>4, <1>6, <1>9 DEF MediaTyped
<1>11. \A c \in Uploaders : CallOk(c) /\ CallAlone(c)
  BY <1>8, IdleIsACall, PhasesAreApart DEF CallOk, CallAlone
<1>12. NoOrphans /\ BytesBehind  BY <1>2, <1>6, <1>7 DEF NoOrphans, BytesBehind
<1>13. OneEach
  <2> SUFFICES ASSUME NEW i \in Ids, NEW j \in Ids, Named(i), Named(j), i # j PROVE FALSE
    BY DEF OneEach
  <2> DEFINE S == {l \in Ids : legacy[l] # Media!NoRow}
  <2>1. {i, j} \subseteq S  BY <1>1, <1>5
  <2>2. IsFiniteSet(S)  BY PhasesAreApart, FS_Subset
  <2>3. Cardinality({i, j}) <= Cardinality(S) /\ Cardinality(S) \in Nat
    BY <2>1, <2>2, FS_Subset, FS_CardinalityType
  <2>4. Cardinality({i, j}) = 2
    <3>1. IsFiniteSet({i}) /\ Cardinality({i}) = 1  BY FS_Singleton
    <3>2. Cardinality({i} \cup {j}) = Cardinality({i}) + 1
      BY <3>1, FS_AddElement
    <3>3. {i} \cup {j} = {i, j}  OBVIOUS
    <3> QED  BY <3>1, <3>2, <3>3
  <2> QED  BY <1>1, <2>3, <2>4
<1> QED  BY <1>10, <1>11, <1>12, <1>13 DEF MediaInv

LEMMA MediaStep == MediaInv /\ [Media!Next]_mediaVars => MediaInv'
<1> SUFFICES ASSUME MediaInv, [Media!Next]_mediaVars PROVE MediaInv'
  OBVIOUS
<1>1. CASE UNCHANGED mediaVars
  BY <1>1, UrlsKeep DEF mediaVars
<1>2. ASSUME NEW k \in BlobKeys, Media!signMediaUpload(k) \/ Media!expires(k)
      PROVE  MediaInv'
  BY <1>2, UrlsKeep DEF Media!signMediaUpload, Media!expires
<1> QED
  BY <1>1, <1>2, PutKeeps, CreateKeeps, HeadKeeps, InsertKeeps, TrashKeeps, PurgeKeeps,
     DeletesBytesKeeps, DeletesRowKeeps, DiesKeepsMedia DEF Media!Next

----------------------------------------------------------------------------
(* Files.  What a range resolves to is what its header asks for.           *)

RangeHeaders == Numbers \X Numbers
Kinds == {"none", "unsatisfiable", "from", "slice", "suffix"}
Ranges == [kind : Kinds, offset : Nat, length : Nat]

LEMMA HeaderNumbers ==
  ASSUME NEW h \in RangeHeaders
  PROVE  /\ MaxBytes \in Nat /\ Files!Blank = -1
         /\ h[1] \in Int /\ h[2] \in Int
         /\ h[1] # -1 => h[1] \in Nat
         /\ h[2] # -1 => h[2] \in Nat
<1>1. /\ MaxBytes \in Nat /\ Files!Blank = -1 /\ \A n \in Numbers : n \in Nat \/ n = Files!Blank
  BY FileConstants DEF Files!FilesAssumption, Files!Blank
<1>2. h[1] \in Numbers /\ h[2] \in Numbers  BY DEF RangeHeaders
<1>3. \A n \in Numbers : n \in Int /\ (n # -1 => n \in Nat)  BY <1>1
<1> QED  BY <1>1, <1>2, <1>3

(* The bytes first, ..., first + length - 1 of a range.                    *)
Covered(r) == r.offset .. (r.offset + r.length - 1)

Exact(h, size, r) ==
  /\ r.kind = "slice" /\ r.offset \in Nat /\ r.length \in Nat \ {0}
  /\ r.offset + r.length <= size
  /\ Covered(r) = Files!Asked(h, size)

LEMMA SliceIs ==
  ASSUME NEW o \in Nat, NEW l \in Nat
  PROVE  /\ Files!Slice(o, l) \in Ranges
         /\ Files!Slice(o, l).kind = "slice" /\ Files!Slice(o, l).offset = o
         /\ Files!Slice(o, l).length = l
BY DEF Files!Slice, Ranges, Kinds

LEMMA NoRangeIs ==
  /\ Files!NoRange \in Ranges /\ Files!NoRange.kind = "none"
  /\ Files!Unsatisfiable \in Ranges /\ Files!Unsatisfiable.kind = "unsatisfiable"
BY DEF Files!NoRange, Files!Unsatisfiable, Ranges, Kinds

LEMMA SliceIsExact ==
  ASSUME NEW h, NEW size, NEW o \in Nat, NEW l \in Nat \ {0}, o + l <= size,
         Files!Asked(h, size) = o .. (o + l - 1), NEW r, r = Files!Slice(o, l)
  PROVE  r \in Ranges /\ r # Files!NoRange /\ Exact(h, size, r)
<1>1. r \in Ranges /\ r.kind = "slice" /\ r.offset = o /\ r.length = l
  BY SliceIs
<1>2. Covered(r) = o .. (o + l - 1)  BY <1>1 DEF Covered
<1> QED  BY <1>1, <1>2, NoRangeIs DEF Exact

(* What a parsed header is, kind by kind.                                  *)
LEMMA ParsedIs ==
  ASSUME NEW h \in RangeHeaders
  PROVE  LET req == Files!parseRangeHeader(h) IN
         /\ req \in Ranges
         /\ req.kind = "unsatisfiable" => req = Files!Unsatisfiable
         /\ req.kind = "none" => req = Files!NoRange
         /\ req.kind = "unsatisfiable" => h[1] > MaxBytes \/ (h[1] = -1 /\ h[2] = 0)
         /\ req.kind = "suffix" => h[1] = -1 /\ h[2] \in Nat
                                   /\ req.length = IF h[2] < MaxBytes THEN h[2] ELSE MaxBytes
         /\ req.kind \in {"from", "slice"} => h[1] \in Nat /\ req.offset = h[1]
         /\ req.kind = "from" => h[2] = -1 \/ h[2] > MaxBytes
         /\ req.kind = "slice" => h[2] \in Nat /\ h[2] >= h[1] /\ req.length = h[2] - h[1] + 1
<1> DEFINE req == Files!parseRangeHeader(h)
<1>1. /\ MaxBytes \in Nat /\ Files!Blank = -1 /\ h[1] \in Int /\ h[2] \in Int
      /\ h[1] # -1 => h[1] \in Nat
      /\ h[2] # -1 => h[2] \in Nat
  BY HeaderNumbers
<1>2. CASE h[1] = -1 /\ h[2] = -1
  <2>1. req = Files!NoRange  BY <1>1, <1>2 DEF Files!parseRangeHeader
  <2> QED  BY <2>1, NoRangeIs
<1>3. CASE h[1] = -1 /\ h[2] = 0
  <2>1. req = Files!Unsatisfiable  BY <1>1, <1>3 DEF Files!parseRangeHeader
  <2> QED  BY <1>3, <2>1, NoRangeIs
<1>4. CASE h[1] = -1 /\ h[2] \in Nat \ {0}
  <2>1. PICK n \in Nat : n = IF h[2] < MaxBytes THEN h[2] ELSE MaxBytes  BY <1>1, <1>4
  <2>2. req = Files!Suffix(n)
    BY <1>1, <1>4, <2>1 DEF Files!parseRangeHeader, Files!Least
  <2>3. req \in Ranges /\ req.kind = "suffix" /\ req.length = n
    BY <2>2 DEF Files!Suffix, Ranges, Kinds
  <2> QED  BY <1>4, <2>1, <2>3
<1>5. CASE h[1] \in Nat /\ h[1] > MaxBytes
  <2>1. req = Files!Unsatisfiable  BY <1>1, <1>5 DEF Files!parseRangeHeader
  <2> QED  BY <1>5, <2>1, NoRangeIs
<1>6. CASE h[1] \in Nat /\ h[1] <= MaxBytes /\ (h[2] = -1 \/ h[2] > MaxBytes)
  <2>1. PICK n \in Nat : n = h[1]  BY <1>6
  <2>2. req = Files!From(n)
    BY <1>1, <1>6, <2>1 DEF Files!parseRangeHeader
  <2>3. req \in Ranges /\ req.kind = "from" /\ req.offset = n
    BY <2>2 DEF Files!From, Ranges, Kinds
  <2> QED  BY <1>6, <2>1, <2>3
<1>7. CASE h[1] \in Nat /\ h[1] <= MaxBytes /\ h[2] \in Nat /\ h[2] <= MaxBytes /\ h[2] < h[1]
  <2>1. req = Files!NoRange  BY <1>1, <1>7 DEF Files!parseRangeHeader
  <2> QED  BY <2>1, NoRangeIs
<1>8. CASE h[1] \in Nat /\ h[1] <= MaxBytes /\ h[2] \in Nat /\ h[2] <= MaxBytes /\ h[1] <= h[2]
  <2>1. PICK n \in Nat, l \in Nat : n = h[1] /\ l = h[2] - h[1] + 1  BY <1>8
  <2>2. req = Files!Slice(n, l)
    BY <1>1, <1>8, <2>1 DEF Files!parseRangeHeader
  <2>3. req \in Ranges /\ req.kind = "slice" /\ req.offset = n /\ req.length = l
    BY <2>2, SliceIs
  <2> QED  BY <1>8, <2>1, <2>3
<1> QED  BY <1>1, <1>2, <1>3, <1>4, <1>5, <1>6, <1>7, <1>8

LEMMA UnsatisfiableIsOutside ==
  ASSUME NEW h \in RangeHeaders, Files!parseRangeHeader(h) = Files!Unsatisfiable,
         NEW size \in 0 .. MaxBytes
  PROVE  Files!Asked(h, size) = {}
<1>1. MaxBytes \in Nat /\ Files!Blank = -1 /\ h[1] \in Int /\ h[2] \in Int  BY HeaderNumbers
<1>2. h[1] > MaxBytes \/ (h[1] = -1 /\ h[2] = 0)
  BY ParsedIs, NoRangeIs
<1>3. CASE h[1] = -1 /\ h[2] = 0  BY <1>1, <1>3 DEF Files!Asked
<1>4. CASE h[1] > MaxBytes  BY <1>1, <1>4 DEF Files!Asked
<1> QED  BY <1>2, <1>3, <1>4

LEMMA ResolvedIsAsked ==
  ASSUME NEW h \in RangeHeaders, NEW size \in 0 .. MaxBytes, NEW req, req = Files!parseRangeHeader(h),
         req \notin {Files!NoRange, Files!Unsatisfiable},
         NEW r, r = Files!resolveRange(req, size)
  PROVE  /\ r \in Ranges
         /\ r = Files!NoRange => Files!Asked(h, size) = {}
         /\ r # Files!NoRange => Exact(h, size, r)
<1>1. /\ MaxBytes \in Nat /\ Files!Blank = -1 /\ h[1] \in Int /\ h[2] \in Int /\ size \in Nat
  BY HeaderNumbers
<1>2. req \in Ranges /\ req.kind \in {"suffix", "from", "slice"}
  BY ParsedIs DEF Ranges, Kinds
<1>3. CASE req.kind = "suffix"
  <2>1. PICK m \in Nat : m = (IF req.length < size THEN req.length ELSE size)
    BY <1>1, <1>2 DEF Ranges
  <2>2. m = Files!Least(req.length, size)  BY <2>1 DEF Files!Least
  <2>3. h[1] = -1 /\ h[2] \in Nat /\ m = (IF h[2] < size THEN h[2] ELSE size)
    BY <1>1, <1>3, <2>1, ParsedIs
  <2>4. CASE m = 0
    <3>1. r = Files!NoRange  BY <1>3, <2>2, <2>4 DEF Files!resolveRange, Files!Outside
    <3>2. Files!Asked(h, size) = {}
      BY <1>1, <2>3, <2>4 DEF Files!Asked
    <3> QED  BY <3>1, <3>2, NoRangeIs
  <2>5. CASE m # 0
    <3>1. PICK o \in Nat : o = size - m  BY <1>1, <2>3
    <3>2. r = Files!Slice(o, m)  BY <1>3, <2>2, <2>5, <3>1 DEF Files!resolveRange, Files!Outside
    <3>3. Files!Asked(h, size) = o .. (o + m - 1)
      <4>1. Files!Asked(h, size) = {i \in 0 .. (size - 1) : i >= size - h[2]}
        BY <1>1, <2>3 DEF Files!Asked
      <4>2. \A i \in Int : i \in 0 .. (size - 1) /\ i >= size - h[2] <=> i \in o .. (o + m - 1)
        BY <1>1, <2>3, <2>5, <3>1
      <4> QED  BY <4>1, <4>2
    <3>4. m \in Nat \ {0} /\ o + m <= size  BY <1>1, <2>3, <2>5, <3>1
    <3> QED  BY <3>2, <3>3, <3>4, SliceIsExact
  <2> QED  BY <2>4, <2>5
<1>4. CASE req.kind \in {"from", "slice"}
  <2>1. h[1] \in Nat /\ req.offset = h[1]  BY <1>4, ParsedIs
  <2>2. CASE h[1] >= size
    <3>1. r = Files!NoRange  BY <1>4, <2>1, <2>2 DEF Files!resolveRange, Files!Outside
    <3>2. Files!Asked(h, size) = {}
      BY <1>1, <2>1, <2>2 DEF Files!Asked
    <3> QED  BY <3>1, <3>2, NoRangeIs
  <2>3. CASE h[1] < size /\ req.kind = "from"
    <3>1. PICK l \in Nat : l = size - h[1] /\ l # 0  BY <1>1, <2>1, <2>3
    <3>2. r = Files!Slice(h[1], l)
      BY <1>1, <2>1, <2>3, <3>1 DEF Files!resolveRange, Files!Outside
    <3>3. h[2] = -1 \/ h[2] > MaxBytes  BY <2>3, ParsedIs
    <3>4. Files!Asked(h, size) = h[1] .. (h[1] + l - 1)
      <4>1. CASE h[2] = -1
        <5>1. Files!Asked(h, size) = {i \in 0 .. (size - 1) : i >= h[1]}
          BY <1>1, <2>1, <4>1 DEF Files!Asked
        <5>2. \A i \in Int : i \in 0 .. (size - 1) /\ i >= h[1] <=> i \in h[1] .. (h[1] + l - 1)
          BY <1>1, <2>1, <3>1
        <5> QED  BY <5>1, <5>2
      <4>2. CASE h[2] > MaxBytes
        <5>1. Files!Asked(h, size) = {i \in 0 .. (size - 1) : i >= h[1] /\ i <= h[2]}
          BY <1>1, <2>1, <4>2 DEF Files!Asked
        <5>2. \A i \in Int : i \in 0 .. (size - 1) /\ i >= h[1] /\ i <= h[2]
                              <=> i \in h[1] .. (h[1] + l - 1)
          BY <1>1, <2>1, <3>1, <4>2
        <5> QED  BY <5>1, <5>2
      <4> QED  BY <3>3, <4>1, <4>2
    <3>5. l \in Nat \ {0} /\ h[1] + l <= size  BY <1>1, <2>1, <3>1
    <3> QED  BY <2>1, <3>2, <3>4, <3>5, SliceIsExact
  <2>4. CASE h[1] < size /\ req.kind = "slice"
    <3>1. h[2] \in Nat /\ h[2] >= h[1] /\ req.length = h[2] - h[1] + 1
      BY <2>4, ParsedIs
    <3>2. PICK l \in Nat : /\ l = (IF req.length < size - h[1] THEN req.length ELSE size - h[1])
                           /\ l # 0
      BY <1>1, <2>1, <2>4, <3>1
    <3>3. r = Files!Slice(h[1], l)
      BY <1>1, <2>1, <2>4, <3>2 DEF Files!resolveRange, Files!Outside, Files!Least
    <3>4. Files!Asked(h, size) = h[1] .. (h[1] + l - 1)
      <4>1. Files!Asked(h, size) = {i \in 0 .. (size - 1) : i >= h[1] /\ i <= h[2]}
        BY <1>1, <2>1, <3>1 DEF Files!Asked
      <4>2. \A i \in Int : i \in 0 .. (size - 1) /\ i >= h[1] /\ i <= h[2]
                            <=> i \in h[1] .. (h[1] + l - 1)
        BY <1>1, <2>1, <2>4, <3>1, <3>2
      <4> QED  BY <4>1, <4>2
    <3>5. l \in Nat \ {0} /\ h[1] + l <= size  BY <1>1, <2>1, <2>4, <3>1, <3>2
    <3> QED  BY <2>1, <3>3, <3>4, <3>5, SliceIsExact
  <2> QED  BY <1>1, <1>4, <2>1, <2>2, <2>3, <2>4
<1> QED  BY <1>2, <1>3, <1>4

(* The rest of what is asked of a reader: the second range it asks the     *)
(* bucket for begins what its header names, and what it got lies within.   *)
RetryOk(h, t) ==
  /\ t.kind = "slice" /\ t.offset \in Nat /\ t.length \in Nat \ {0}
  /\ h[1] # -1 => t.offset = h[1] /\ (h[2] # -1 => t.offset + t.length - 1 <= h[2])

Begins(h, size, r, t) ==
  /\ RetryOk(h, t)
  /\ r.kind = "slice" /\ r.offset = t.offset /\ r.length \in Nat \ {0}
  /\ r.length <= t.length /\ r.offset + r.length <= size

Got(h, size, r, t) ==
  \/ r = Files!NoRange
  \/ t = Files!NoRange /\ Exact(h, size, r)
  \/ t # Files!NoRange /\ Begins(h, size, r, t)

LEMMA ExactIsRetry ==
  ASSUME NEW h \in RangeHeaders, NEW size \in Nat, NEW r, Exact(h, size, r)
  PROVE  RetryOk(h, r)
<1>1. PICK a \in Int, b \in Int : /\ a = h[1] /\ b = h[2] /\ Files!Blank = -1
                                  /\ a # -1 => a \in Nat
  BY HeaderNumbers
<1>2. PICK o \in Nat, l \in Nat \ {0} : /\ o = r.offset /\ l = r.length /\ o + l <= size
                                        /\ Files!Asked(h, size) = o .. (o + l - 1)
  BY DEF Exact, Covered
<1>3. o \in Files!Asked(h, size) /\ o + l - 1 \in Files!Asked(h, size)
  <2>1. o \in o .. (o + l - 1) /\ o + l - 1 \in o .. (o + l - 1)  BY <1>2
  <2> QED  BY <1>2, <2>1
<1>4. CASE a = -1  BY <1>1, <1>4 DEF Exact, RetryOk
<1>5. CASE a # -1 /\ b = -1
  <2>1. \A i \in Int : i \in Files!Asked(h, size) <=> i \in 0 .. (size - 1) /\ i >= a
    BY <1>1, <1>5 DEF Files!Asked
  <2>2. o >= a /\ a \in Nat  BY <1>1, <1>2, <1>3, <1>5, <2>1
  <2>3. a \in Files!Asked(h, size)
    <3>1. a \in 0 .. (size - 1) /\ a >= a  BY <1>2, <2>2
    <3> QED  BY <1>1, <2>1, <3>1
  <2>4. a >= o  BY <1>1, <1>2, <2>3
  <2> QED  BY <1>1, <1>2, <1>5, <2>2, <2>4 DEF Exact, RetryOk
<1>6. CASE a # -1 /\ b # -1
  <2>1. \A i \in Int : i \in Files!Asked(h, size) <=>
                         i \in 0 .. (size - 1) /\ i >= a /\ i <= b
    BY <1>1, <1>6 DEF Files!Asked
  <2>2. o >= a /\ a \in Nat /\ o <= b
    <3>1. o \in Int  BY <1>2
    <3> QED  BY <1>1, <1>3, <1>6, <2>1, <3>1
  <2>3. o + l - 1 <= b
    <3>1. o + l - 1 \in Int  BY <1>2
    <3> QED  BY <1>3, <2>1, <3>1
  <2>4. a \in Files!Asked(h, size)
    <3>1. a \in 0 .. (size - 1) /\ a >= a  BY <1>2, <2>2
    <3>2. a <= b
      <4>1. o \in Int /\ a <= o /\ o <= b  BY <1>2, <2>2
      <4> QED  BY <1>1, <4>1
    <3> QED  BY <1>1, <2>1, <3>1, <3>2
  <2>5. a >= o  BY <1>1, <1>2, <2>4
  <2> QED  BY <1>1, <1>2, <1>6, <2>2, <2>3, <2>5 DEF Exact, RetryOk
<1> QED  BY <1>4, <1>5, <1>6

LEMMA RetriedBegins ==
  ASSUME NEW h, NEW size \in Nat, NEW t \in Ranges, RetryOk(h, t),
         NEW r, r = Files!resolveRange(t, size), r # Files!NoRange
  PROVE  r \in Ranges /\ Begins(h, size, r, t)
<1>1. t.kind = "slice" /\ t.offset \in Nat /\ t.length \in Nat \ {0}  BY DEF RetryOk
<1>2. CASE t.offset >= size
  BY <1>1, <1>2 DEF Files!resolveRange, Files!Outside
<1>3. CASE t.offset < size
  <2>1. PICK l \in Nat \ {0} :
          l = (IF t.length < size - t.offset THEN t.length ELSE size - t.offset)
    BY <1>1, <1>3
  <2>2. r = Files!Slice(t.offset, l)
    BY <1>1, <1>3, <2>1 DEF Files!resolveRange, Files!Outside, Files!Least
  <2>3. r \in Ranges /\ r.kind = "slice" /\ r.offset = t.offset /\ r.length = l
    BY <1>1, <2>2, SliceIs
  <2>4. l <= t.length /\ t.offset + l <= size  BY <1>1, <1>3, <2>1
  <2> QED  BY <2>3, <2>4 DEF Begins
<1> QED  BY <1>1, <1>2, <1>3

(* What a partial answer made of such a range carries.                     *)
Carries(h, size, first, length, t) ==
  LET body == first .. (first + length - 1)
      asked == Files!Asked(h, size)
  IN /\ body # {} /\ body \subseteq 0 .. (size - 1)
     /\ t = Files!NoRange => body = asked
     /\ IF t # Files!NoRange /\ h[1] = Files!Blank
        THEN first = t.offset
        ELSE body \subseteq asked /\ \A i \in asked : i >= first

LEMMA GotCarries ==
  ASSUME NEW h \in RangeHeaders, NEW size \in Nat, NEW r, r # Files!NoRange, NEW t, Got(h, size, r, t)
  PROVE  Carries(h, size, r.offset, r.length, t)
<1>1. Files!Blank = -1 /\ h[1] \in Int /\ h[2] \in Int  BY HeaderNumbers
<1>2. PICK o \in Nat, l \in Nat \ {0} : o = r.offset /\ l = r.length /\ o + l <= size
  <2>1. CASE Exact(h, size, r)  BY <2>1 DEF Exact
  <2>2. CASE Begins(h, size, r, t)  BY <2>2 DEF Begins, RetryOk
  <2> QED  BY <2>1, <2>2 DEF Got
<1> DEFINE body == o .. (o + l - 1)
<1>3. body # {} /\ body \subseteq 0 .. (size - 1)
  <2>1. o \in body  BY <1>2
  <2> QED  BY <1>2, <2>1
<1>4. CASE t = Files!NoRange
  <2>1. body = Files!Asked(h, size)  BY <1>2, <1>4 DEF Got, Exact, Covered, Begins
  <2>2. \A i \in body : i >= o  BY <1>2
  <2> QED  BY <1>2, <1>3, <1>4, <2>1, <2>2 DEF Carries
<1>5. CASE t # Files!NoRange /\ h[1] = Files!Blank
  <2>1. o = t.offset  BY <1>2, <1>5 DEF Got, Begins
  <2> QED  BY <1>2, <1>3, <1>5, <2>1 DEF Carries
<1>6. CASE t # Files!NoRange /\ h[1] # Files!Blank
  <2>1. PICK k \in Nat \ {0} : k = t.length /\ l <= k /\ o = h[1]
                               /\ (h[2] # -1 => o + k - 1 <= h[2])
    BY <1>1, <1>2, <1>6 DEF Got, Begins, RetryOk
  <2>2. CASE h[2] = -1
    <3>1. \A i \in Int : i \in Files!Asked(h, size) <=> i \in 0 .. (size - 1) /\ i >= h[1]
      BY <1>1, <1>6, <2>2 DEF Files!Asked
    <3>2. Files!Asked(h, size) \subseteq Int  BY <1>1, <1>6, <2>2 DEF Files!Asked
    <3>3. body \subseteq Files!Asked(h, size)  BY <1>1, <1>2, <2>1, <3>1
    <3>4. \A i \in Files!Asked(h, size) : i >= o  BY <2>1, <3>1, <3>2
    <3> QED  BY <1>2, <1>3, <1>6, <3>3, <3>4 DEF Carries
  <2>3. CASE h[2] # -1
    <3>1. \A i \in Int : i \in Files!Asked(h, size) <=>
                           i \in 0 .. (size - 1) /\ i >= h[1] /\ i <= h[2]
      BY <1>1, <1>6, <2>3 DEF Files!Asked
    <3>2. Files!Asked(h, size) \subseteq Int  BY <1>1, <1>6, <2>3 DEF Files!Asked
    <3>3. body \subseteq Files!Asked(h, size)  BY <1>1, <1>2, <2>1, <2>3, <3>1
    <3>4. \A i \in Files!Asked(h, size) : i >= o  BY <2>1, <3>1, <3>2
    <3> QED  BY <1>2, <1>3, <1>6, <3>3, <3>4 DEF Carries
  <2> QED  BY <2>2, <2>3
<1> QED  BY <1>4, <1>5, <1>6

LEMMA RunsIsActive ==
  ASSUME NEW type, Files!Runs(type)
  PROVE  Files!isActiveType(type)
<1>1. PICK i \in DOMAIN type : type[i] = "active"  BY DEF Files!Runs, Files!Understood
<1>2. "active" \in Files!Members(type)  BY <1>1 DEF Files!Members
<1>3. type # <<>>
  <2>1. DOMAIN <<>> = {}  OBVIOUS
  <2> QED  BY <1>1, <2>1
<1> QED  BY <1>2, <1>3 DEF Files!isActiveType

-----------------------------------------------------------------------------
(* The reader.  What each phase knows of its header, of the ranges made of *)
(* it and of the object it saw.                                            *)

Objects == [version : Nat, size : 0 .. MaxBytes, type : FileTypes \cup {<<>>}]
Phases == {"head", "get", "got", "refused", "outside", "getResolved", "getWhole", "getAfresh",
           "answered"}
Readers ==
  [pc : Phases, public : BOOLEAN, isHead : BOOLEAN, header : RangeHeaders, ifRange : Nat,
   req : Ranges, object : Objects, range : Ranges, retry : Ranges]

Bare(req) == req \in {Files!NoRange, Files!Unsatisfiable}
ReaderOk(r) ==
  /\ r \in Readers
  /\ r.public => folder = "media"
  /\ r.ifRange <= writes
  /\ r.req \in {Files!NoRange, Files!parseRangeHeader(r.header)}
  /\ r.pc = "get" => r.req # Files!Unsatisfiable
  /\ r.pc = "refused" => ~Bare(r.req)
  /\ r.pc \in {"head", "get", "refused"} => r.retry = Files!NoRange
  /\ r.pc = "getResolved" => r.retry # Files!NoRange /\ RetryOk(r.header, r.retry)
  /\ r.pc = "got" => Got(r.header, r.object.size, r.range, r.retry)
  /\ r.pc \in {"outside", "getWhole"} =>
       /\ Files!Asked(r.header, r.object.size) = {}
       /\ r.ifRange # 0 /\ stored.version = r.ifRange => stored = r.object

FileTyped ==
  /\ stored \in Objects /\ writes \in Nat /\ stored.version <= writes
  /\ \A url \in urls : url.type \in FileTypes \cup {<<>>}

(* Nothing but whole objects of media is ever offered to a shared cache.   *)
SharedOk ==
  Files!Answered /\ reply.shared => folder = "media" /\ reply.status = 200

FileInv ==
  /\ FileTyped
  /\ reader = Files!Idle \/ ReaderOk(reader)
  /\ SharedOk
  /\ Files!BytesAreTrue
  /\ Files!NoSplice
  /\ Files!RefusedIsOutside
  /\ Files!ActiveIsSandboxed
  /\ Files!PrivateStaysSigned

LEMMA IdleIsNoReader == Files!Idle.pc = "idle" /\ \A r : ReaderOk(r) => r # Files!Idle
<1>1. Files!Idle.pc = "idle"  BY DEF Files!Idle
<1> QED  BY <1>1 DEF ReaderOk, Readers, Phases

LEMMA GoneIsAnObject == Files!Gone \in Objects /\ Files!Gone.version = 0 /\ Files!Gone.type = <<>>
BY HeaderNumbers, FileConstants DEF Files!Gone, Objects, Files!FilesAssumption

(* A reader that has not been answered may move, and the invariant holds.  *)
LEMMA ReaderMoves ==
  ASSUME FileInv, UNCHANGED <<folder, stored, urls, writes, cache>>,
         NEW r, ReaderOk(r), reader' = r, r.pc # "answered"
  PROVE  FileInv'
<1>1. FileTyped'  BY DEF FileInv, FileTyped
<1>2. ReaderOk(reader)'  BY DEF ReaderOk, Bare
<1>3. ~Files!Answered'  BY DEF Files!Answered
<1>4. Files!PrivateStaysSigned'
  <2>1. r.public => folder = "media"  BY DEF ReaderOk
  <2> QED  BY <2>1 DEF FileInv, Files!PrivateStaysSigned
<1> QED
  BY <1>1, <1>2, <1>3, <1>4
  DEF FileInv, SharedOk, Files!BytesAreTrue, Files!NoSplice, Files!RefusedIsOutside,
      Files!ActiveIsSandboxed

(* An upload or a deletion does not concern it: what it saw of the version *)
(* it names is still what there is of that version.                        *)
LEMMA StoreMoves ==
  ASSUME FileInv, UNCHANGED <<folder, reader, reply, cache>>, FileTyped', writes <= writes',
         \A v \in Nat : v # 0 /\ v <= writes /\ stored'.version = v => stored' = stored
  PROVE  FileInv'
<1>1. CASE reader = Files!Idle
  <2>1. ~Files!Answered /\ ~Files!Answered'  BY <1>1 DEF Files!Answered
  <2> QED
    BY <1>1, <2>1
    DEF FileInv, SharedOk, Files!BytesAreTrue, Files!NoSplice, Files!RefusedIsOutside,
        Files!ActiveIsSandboxed, Files!PrivateStaysSigned
<1>2. CASE ReaderOk(reader)
  <2>1. reader.ifRange \in Nat /\ reader.ifRange <= writes /\ writes \in Nat /\ writes' \in Nat
    BY <1>2 DEF FileInv, FileTyped, ReaderOk, Readers
  <2>2. reader.ifRange <= writes'  BY <2>1
  <2>3. reader.ifRange # 0 /\ stored'.version = reader.ifRange => stored' = stored
    BY <2>1
  <2>4. ReaderOk(reader)'  BY <1>2, <2>2, <2>3 DEF ReaderOk, Bare
  <2> QED
    BY <2>4
    DEF FileInv, SharedOk, Files!BytesAreTrue, Files!NoSplice, Files!RefusedIsOutside,
        Files!ActiveIsSandboxed, Files!PrivateStaysSigned, Files!Answered, Files!Body
<1> QED  BY <1>1, <1>2 DEF FileInv

(* An answer that is what the five properties ask of one.                  *)
AnswerOk(r, status, object, first, length, sandboxed, shared) ==
  /\ shared => r.public /\ status = 200
  /\ status = 206 => Carries(r.header, object.size, first, length, r.retry)
  /\ status = 200 => first = 0 /\ length = object.size
  /\ status = 206 /\ r.ifRange # 0 => object.version = r.ifRange
  /\ status = 416 =>
       /\ Files!Asked(r.header, object.size) = {} /\ object.size # 0
       /\ r.ifRange # 0 => r.ifRange = object.version
  /\ status \in {200, 206} /\ Files!Runs(object.type) => sandboxed

LEMMA AnswersKeepFiles ==
  ASSUME FileInv, UNCHANGED <<folder, stored, urls, writes, cache>>, ReaderOk(reader),
         NEW status, NEW object, NEW first, NEW length, NEW measured,
         NEW sandboxed \in BOOLEAN, NEW shared \in BOOLEAN,
         Files!answers([status |-> status, object |-> object, first |-> first,
                        length |-> length, measured |-> measured, sandboxed |-> sandboxed,
                        shared |-> shared]),
         AnswerOk(reader, status, object, first, length, sandboxed, shared)
  PROVE  FileInv'
<1>1. /\ reply' = [status |-> status, object |-> object, first |-> first,
                   length |-> length, measured |-> measured, sandboxed |-> sandboxed,
                   shared |-> shared]
      /\ reader' = [reader EXCEPT !.pc = "answered"]
  BY DEF Files!answers
<1>2. PICK r : r = [reader EXCEPT !.pc = "answered"]  OBVIOUS
<1>3. reader \in Readers  BY DEF ReaderOk
<1>4. /\ r \in Readers /\ r.pc = "answered" /\ r.public = reader.public /\ r.header = reader.header
      /\ r.ifRange = reader.ifRange /\ r.req = reader.req /\ r.retry = reader.retry
  BY <1>2, <1>3 DEF Readers, Phases
<1>5. ReaderOk(r)'
  <2>1. UNCHANGED <<folder, writes>>  OBVIOUS
  <2> QED  BY <1>4, <2>1 DEF ReaderOk
<1>6. reader' = r  BY <1>1, <1>2
<1>7. FileTyped'  BY DEF FileInv, FileTyped
<1>8. Files!PrivateStaysSigned'
  <2>1. reader.public => folder = "media"  BY DEF ReaderOk
  <2> QED  BY <1>4, <1>6, <2>1 DEF FileInv, Files!PrivateStaysSigned
<1>9. /\ reply'.status = status /\ reply'.object = object /\ reply'.first = first
      /\ reply'.length = length
  BY <1>1
<1>10. SharedOk'
  <2>1. reader.public => folder = "media"  BY DEF ReaderOk
  <2>2. CASE shared = TRUE  BY <1>9, <2>1, <2>2 DEF SharedOk, AnswerOk
  <2>3. CASE shared = FALSE
    <3>1. ~reply'.shared  BY <1>1, <2>3
    <3> QED  BY <3>1 DEF SharedOk
  <2> QED  BY <2>2, <2>3
<1>11. Files!BytesAreTrue'
  BY <1>4, <1>6, <1>9 DEF AnswerOk, Carries, Files!BytesAreTrue, Files!Body
<1>12. Files!NoSplice' /\ Files!RefusedIsOutside'
  BY <1>4, <1>6, <1>9 DEF AnswerOk, Files!NoSplice, Files!RefusedIsOutside
<1>13. Files!ActiveIsSandboxed'
  <2>1. CASE sandboxed = TRUE
    <3>1. reply'.sandboxed  BY <1>1, <2>1
    <3> QED  BY <3>1 DEF Files!ActiveIsSandboxed
  <2>2. CASE sandboxed = FALSE
    <3>1. ~(status \in {200, 206} /\ Files!Runs(object.type))  BY <2>2 DEF AnswerOk
    <3> QED  BY <1>9, <3>1 DEF Files!ActiveIsSandboxed
  <2> QED  BY <2>1, <2>2
<1> QED
  BY <1>5, <1>6, <1>7, <1>8, <1>10, <1>11, <1>12, <1>13 DEF FileInv

-----------------------------------------------------------------------------
(* The answers.                                                            *)

LEMMA AnswerIs ==
  ASSUME NEW status, NEW object, NEW first, NEW length, NEW measured
  PROVE  \E sandboxed \in BOOLEAN, shared \in BOOLEAN :
           /\ Files!Answer(status, object, first, length, measured)
                = [status |-> status, object |-> object, first |-> first, length |-> length,
                   measured |-> measured, sandboxed |-> sandboxed, shared |-> shared]
           /\ Files!Runs(object.type) => sandboxed
           /\ shared => reader.public /\ status = 200
<1>1. PICK s \in BOOLEAN : s = Files!isActiveType(object.type)
  BY DEF Files!isActiveType
<1>2. PICK h \in BOOLEAN : h = (reader.public /\ status = 200 /\ measured)
  OBVIOUS
<1>3. Files!Answer(status, object, first, length, measured)
        = [status |-> status, object |-> object, first |-> first, length |-> length,
           measured |-> measured, sandboxed |-> s, shared |-> h]
  BY <1>1, <1>2, Zenon DEF Files!Answer
<1>4. Files!Runs(object.type) => s  BY <1>1, RunsIsActive
<1>5. h => reader.public /\ status = 200  BY <1>2
<1> QED  BY <1>3, <1>4, <1>5

LEMMA WholeKeeps ==
  ASSUME FileInv, UNCHANGED <<folder, stored, urls, writes, cache>>, ReaderOk(reader),
         NEW object, Files!whole(object)
  PROVE  FileInv'
<1>1. PICK status, size, measured : status = 200 /\ size = object.size /\ measured = TRUE
  OBVIOUS
<1>2. PICK sandboxed \in BOOLEAN, shared \in BOOLEAN :
        /\ Files!Answer(status, object, 0, size, measured)
             = [status |-> status, object |-> object, first |-> 0, length |-> size,
                measured |-> measured, sandboxed |-> sandboxed, shared |-> shared]
        /\ Files!Runs(object.type) => sandboxed
        /\ shared => reader.public /\ status = 200
  BY AnswerIs, Zenon
<1>3. AnswerOk(reader, status, object, 0, size, sandboxed, shared)
  BY <1>1, <1>2 DEF AnswerOk
<1>4. Files!answers([status |-> status, object |-> object, first |-> 0, length |-> size,
                     measured |-> measured, sandboxed |-> sandboxed, shared |-> shared])
  BY <1>1, <1>2, Zenon DEF Files!whole
<1> QED  BY <1>3, <1>4, AnswersKeepFiles, Zenon

LEMMA PartialKeeps ==
  ASSUME FileInv, UNCHANGED <<folder, stored, urls, writes, cache>>, ReaderOk(reader),
         NEW object \in Objects, NEW r, Files!partial(r, object), r # Files!NoRange,
         Got(reader.header, object.size, r, reader.retry),
         reader.ifRange # 0 => object.version = reader.ifRange
  PROVE  FileInv'
<1>1. PICK status, first, length, measured :
        status = 206 /\ first = r.offset /\ length = r.length /\ measured = TRUE
  OBVIOUS
<1>2. PICK sandboxed \in BOOLEAN, shared \in BOOLEAN :
        /\ Files!Answer(status, object, first, length, measured)
             = [status |-> status, object |-> object, first |-> first, length |-> length,
                measured |-> measured, sandboxed |-> sandboxed, shared |-> shared]
        /\ Files!Runs(object.type) => sandboxed
        /\ shared => reader.public /\ status = 200
  BY AnswerIs, Zenon
<1>3. Carries(reader.header, object.size, first, length, reader.retry)
  BY <1>1, GotCarries DEF ReaderOk, Readers, Objects
<1>4. AnswerOk(reader, status, object, first, length, sandboxed, shared)
  BY <1>1, <1>2, <1>3 DEF AnswerOk
<1>5. Files!answers([status |-> status, object |-> object, first |-> first, length |-> length,
                     measured |-> measured, sandboxed |-> sandboxed, shared |-> shared])
  BY <1>1, <1>2, Zenon DEF Files!partial
<1> QED  BY <1>4, <1>5, AnswersKeepFiles, Zenon

LEMMA UnsatisfiableKeeps ==
  ASSUME FileInv, UNCHANGED <<folder, stored, urls, writes, cache>>, ReaderOk(reader),
         NEW object, Files!unsatisfiable(object),
         Files!Asked(reader.header, object.size) = {}, object.size # 0,
         reader.ifRange # 0 => reader.ifRange = object.version
  PROVE  FileInv'
<1>1. PICK status, measured : status = 416 /\ measured = FALSE
  OBVIOUS
<1>2. PICK sandboxed \in BOOLEAN, shared \in BOOLEAN :
        /\ Files!Answer(status, object, 0, 0, measured)
             = [status |-> status, object |-> object, first |-> 0, length |-> 0,
                measured |-> measured, sandboxed |-> sandboxed, shared |-> shared]
        /\ Files!Runs(object.type) => sandboxed
        /\ shared => reader.public /\ status = 200
  BY AnswerIs, Zenon
<1>3. [Files!Answer(status, object, 0, 0, measured) EXCEPT !.sandboxed = FALSE]
        = [status |-> status, object |-> object, first |-> 0, length |-> 0,
           measured |-> measured, sandboxed |-> FALSE, shared |-> shared]
  <2>1. [[status |-> status, object |-> object, first |-> 0, length |-> 0,
          measured |-> measured, sandboxed |-> sandboxed, shared |-> shared]
          EXCEPT !.sandboxed = FALSE]
        = [status |-> status, object |-> object, first |-> 0, length |-> 0,
           measured |-> measured, sandboxed |-> FALSE, shared |-> shared]
    <3>1. PICK s, h, x : s = sandboxed /\ h = shared /\ x = FALSE  OBVIOUS
    <3>2. [[status |-> status, object |-> object, first |-> 0, length |-> 0,
            measured |-> measured, sandboxed |-> s, shared |-> h] EXCEPT !.sandboxed = x]
          = [status |-> status, object |-> object, first |-> 0, length |-> 0,
             measured |-> measured, sandboxed |-> x, shared |-> h]
      OBVIOUS
    <3> QED  BY <3>1, <3>2, Zenon
  <2> QED  BY <1>2, <2>1, Zenon
<1>4. AnswerOk(reader, status, object, 0, 0, FALSE, shared)  BY <1>1, <1>2 DEF AnswerOk
<1>5. Files!answers([status |-> status, object |-> object, first |-> 0, length |-> 0,
                     measured |-> measured, sandboxed |-> FALSE, shared |-> shared])
  BY <1>1, <1>3, Zenon DEF Files!unsatisfiable
<1> QED  BY <1>4, <1>5, AnswersKeepFiles, Zenon

LEMMA FailedKeeps ==
  ASSUME FileInv, UNCHANGED <<folder, stored, urls, writes, cache>>, ReaderOk(reader),
         Files!notFound \/ Files!errs
  PROVE  FileInv'
<1>1. PICK status \in {404, 500} : Files!answers([Files!NoReply EXCEPT !.status = status])
  BY DEF Files!notFound, Files!errs
<1>2. [Files!NoReply EXCEPT !.status = status]
        = [status |-> status, object |-> Files!Gone, first |-> 0, length |-> 0,
           measured |-> FALSE, sandboxed |-> FALSE, shared |-> FALSE]
  <2>1. PICK x, gone : x = FALSE /\ gone = Files!Gone  OBVIOUS
  <2>2. [[status |-> 0, object |-> gone, first |-> 0, length |-> 0, measured |-> x,
          sandboxed |-> x, shared |-> x] EXCEPT !.status = status]
        = [status |-> status, object |-> gone, first |-> 0, length |-> 0, measured |-> x,
           sandboxed |-> x, shared |-> x]
    OBVIOUS
  <2> QED  BY <2>1, <2>2, Zenon DEF Files!NoReply
<1>3. AnswerOk(reader, status, Files!Gone, 0, 0, FALSE, FALSE)  BY <1>1 DEF AnswerOk
<1>4. Files!answers([status |-> status, object |-> Files!Gone, first |-> 0, length |-> 0,
                     measured |-> FALSE, sandboxed |-> FALSE, shared |-> FALSE])
  BY <1>1, <1>2, Zenon
<1> QED  BY <1>3, <1>4, AnswersKeepFiles

-----------------------------------------------------------------------------
(* The steps of a request.                                                 *)

LEMMA ReaderIs ==
  ASSUME FileInv, NEW pc, pc # "idle", reader.pc = pc
  PROVE  /\ ReaderOk(reader) /\ reader \in Readers
         /\ stored \in Objects /\ stored.size \in 0 .. MaxBytes /\ stored.size \in Nat
<1>1. reader # Files!Idle  BY IdleIsNoReader
<1>2. MaxBytes \in Nat  BY HeaderNumbers, FileConstants DEF Files!FilesAssumption
<1> QED  BY <1>1, <1>2 DEF FileInv, ReaderOk, FileTyped, Objects

LEMMA RequestKeeps ==
  ASSUME FileInv, NEW public \in BOOLEAN, NEW isHead \in BOOLEAN,
         NEW header \in RangeHeaders, NEW validator \in 0 .. writes,
         Files!requests(public, isHead, header, validator)
  PROVE  FileInv'
<1>1. PICK req : req = Files!parseRangeHeader(header)  OBVIOUS
<1>2. req \in Ranges  BY <1>1, ParsedIs
<1>3. PICK pc \in {"head", "get"} :
        pc = (IF isHead \/ req = Files!Unsatisfiable THEN "head" ELSE "get")
  OBVIOUS
<1>4. PICK r : r = [pc |-> pc, public |-> public, isHead |-> isHead, header |-> header,
                    ifRange |-> validator, req |-> req, object |-> Files!Gone,
                    range |-> Files!NoRange, retry |-> Files!NoRange]
  OBVIOUS
<1>5. /\ reader' = r /\ UNCHANGED <<folder, stored, urls, writes, cache>>
      /\ public => folder = "media"
  BY <1>1, <1>3, <1>4 DEF Files!requests, Files!Free, Files!Asks, Files!servesMedia
<1>6. validator \in Nat /\ validator <= writes  BY DEF FileInv, FileTyped
<1>7. r \in Readers
  BY <1>2, <1>4, <1>6, GoneIsAnObject, NoRangeIs DEF Readers, Phases
<1>8. ReaderOk(r)
  <2>1. /\ r.pc = pc /\ r.ifRange = validator /\ r.req = req /\ r.header = header
        /\ r.retry = Files!NoRange
    BY <1>4
  <2>2. r.public => folder = "media"  BY <1>4, <1>5
  <2> QED  BY <1>1, <1>3, <1>6, <1>7, <2>1, <2>2 DEF ReaderOk
<1>9. r.pc # "answered"  BY <1>3, <1>4
<1> QED  BY <1>5, <1>8, <1>9, ReaderMoves

LEMMA HeadServes ==
  ASSUME FileInv, Files!serveHead
  PROVE  FileInv'
<1>1. reader.pc = "head" /\ UNCHANGED <<folder, stored, urls, writes, cache>>
  BY DEF Files!serveHead
<1>2. /\ ReaderOk(reader) /\ reader \in Readers
      /\ stored \in Objects /\ stored.size \in 0 .. MaxBytes /\ stored.size \in Nat
  BY <1>1, ReaderIs
<1>3. PICK voided \in BOOLEAN :
        voided = (\/ reader.ifRange # 0 /\ ~Files!ifRangeMatches(reader.ifRange, stored)
                  \/ stored.size = 0)
  OBVIOUS
<1>4. PICK req : req = IF reader.req # Files!NoRange /\ voided THEN Files!NoRange ELSE reader.req
  OBVIOUS
<1>5. PICK r : r = Files!resolveRange(req, stored.size)  OBVIOUS
<1>6. req # Files!NoRange =>
        /\ req = Files!parseRangeHeader(reader.header) /\ stored.size # 0
        /\ reader.ifRange # 0 => reader.ifRange = stored.version
  BY <1>2, <1>3, <1>4 DEF ReaderOk, Files!ifRangeMatches
<1>7. reader.retry = Files!NoRange /\ reader.header \in RangeHeaders
  BY <1>1, <1>2 DEF ReaderOk, Readers
<1>8. \/ Files!notFound
      \/ req = Files!Unsatisfiable /\ Files!unsatisfiable(stored)
      \/ Files!whole(stored)
      \/ /\ req \notin {Files!NoRange, Files!Unsatisfiable}
         /\ \/ r = Files!NoRange /\ Files!unsatisfiable(stored)
            \/ r # Files!NoRange /\ Files!partial(r, stored)
      \/ reader' = [reader EXCEPT !.pc = "get", !.req = Files!NoRange]
  BY <1>3, <1>4, <1>5 DEF Files!serveHead, Files!continues
<1>9. CASE Files!notFound  BY <1>1, <1>2, <1>9, FailedKeeps
<1>10. CASE req = Files!Unsatisfiable /\ Files!unsatisfiable(stored)
  <2>1. req # Files!NoRange  BY <1>10, NoRangeIs
  <2>2. Files!Asked(reader.header, stored.size) = {}
    BY <1>2, <1>6, <1>7, <1>10, <2>1, UnsatisfiableIsOutside
  <2> QED  BY <1>1, <1>2, <1>6, <1>10, <2>1, <2>2, UnsatisfiableKeeps
<1>11. CASE Files!whole(stored)  BY <1>1, <1>2, <1>11, WholeKeeps
<1>12. CASE req \notin {Files!NoRange, Files!Unsatisfiable} /\ r = Files!NoRange
            /\ Files!unsatisfiable(stored)
  <2>1. Files!Asked(reader.header, stored.size) = {}
    BY <1>2, <1>5, <1>6, <1>7, <1>12, ResolvedIsAsked
  <2> QED  BY <1>1, <1>2, <1>6, <1>12, <2>1, UnsatisfiableKeeps
<1>13. CASE req \notin {Files!NoRange, Files!Unsatisfiable} /\ r # Files!NoRange
            /\ Files!partial(r, stored)
  <2>1. Exact(reader.header, stored.size, r)
    BY <1>2, <1>5, <1>6, <1>7, <1>13, ResolvedIsAsked
  <2>2. Got(reader.header, stored.size, r, reader.retry)  BY <1>7, <2>1 DEF Got
  <2>3. reader.ifRange # 0 => stored.version = reader.ifRange  BY <1>6, <1>13
  <2> QED  BY <1>1, <1>2, <1>13, <2>2, <2>3, PartialKeeps
<1>14. CASE reader' = [reader EXCEPT !.pc = "get", !.req = Files!NoRange]
  <2>1. PICK n : n = [reader EXCEPT !.pc = "get", !.req = Files!NoRange]  OBVIOUS
  <2>2. ReaderOk(n) /\ n.pc = "get"
    BY <1>1, <1>2, <2>1, NoRangeIs DEF ReaderOk, Readers, Phases
  <2> QED  BY <1>1, <1>14, <2>1, <2>2, ReaderMoves
<1> QED  BY <1>8, <1>9, <1>10, <1>11, <1>12, <1>13, <1>14

LEMMA GetServes ==
  ASSUME FileInv, Files!adapterGet
  PROVE  FileInv'
<1>1. reader.pc = "get" /\ UNCHANGED <<folder, stored, urls, writes, cache>>
  BY DEF Files!adapterGet
<1>2. /\ ReaderOk(reader) /\ reader \in Readers
      /\ stored \in Objects /\ stored.size \in 0 .. MaxBytes /\ stored.size \in Nat
  BY <1>1, ReaderIs
<1>3. PICK req, r : req = reader.req /\ r = Files!resolveRange(req, stored.size)  OBVIOUS
<1>4. /\ reader.retry = Files!NoRange /\ reader.header \in RangeHeaders
      /\ req # Files!NoRange => /\ req = Files!parseRangeHeader(reader.header)
                                /\ req \notin {Files!NoRange, Files!Unsatisfiable}
  BY <1>1, <1>2, <1>3 DEF ReaderOk, Readers
<1>5. req # Files!NoRange =>
        r \in Ranges /\ (r # Files!NoRange => Exact(reader.header, stored.size, r))
  BY <1>2, <1>3, <1>4, ResolvedIsAsked
<1>6. \/ Files!notFound
      \/ \E x : /\ x = Files!NoRange \/ (req # Files!NoRange /\ x = r /\ r # Files!NoRange)
                /\ reader' = [reader EXCEPT !.pc = "got", !.object = stored, !.range = x]
      \/ req # Files!NoRange /\ reader' = [reader EXCEPT !.pc = "refused"]
  <2>1. PICK o : o = stored  OBVIOUS
  <2>2. ASSUME NEW x
        PROVE  [[reader EXCEPT !.pc = "got", !.object = o] EXCEPT !.range = x]
                 = [reader EXCEPT !.pc = "got", !.object = o, !.range = x]
    BY <1>2 DEF Readers
  <2> QED  BY <1>3, <2>1, <2>2 DEF Files!adapterGet, Files!continues
<1>7. CASE Files!notFound  BY <1>1, <1>2, <1>7, FailedKeeps
<1>8. ASSUME NEW x, x = Files!NoRange \/ (req # Files!NoRange /\ x = r /\ r # Files!NoRange),
             reader' = [reader EXCEPT !.pc = "got", !.object = stored, !.range = x]
      PROVE  FileInv'
  <2>1. PICK n : n = [reader EXCEPT !.pc = "got", !.object = stored, !.range = x]  OBVIOUS
  <2>2. x \in Ranges  BY <1>5, <1>8, NoRangeIs
  <2>3. Got(reader.header, stored.size, x, reader.retry)  BY <1>4, <1>5, <1>8 DEF Got
  <2>4. /\ n \in Readers /\ n.pc = "got" /\ n.object = stored /\ n.range = x
        /\ n.public = reader.public /\ n.ifRange = reader.ifRange /\ n.req = reader.req
        /\ n.header = reader.header /\ n.retry = reader.retry
    BY <1>2, <2>1, <2>2 DEF Readers, Phases
  <2>5. ReaderOk(n)  BY <1>2, <2>3, <2>4 DEF ReaderOk
  <2> QED  BY <1>1, <1>8, <2>1, <2>4, <2>5, ReaderMoves
<1>9. CASE req # Files!NoRange /\ reader' = [reader EXCEPT !.pc = "refused"]
  <2>1. PICK n : n = [reader EXCEPT !.pc = "refused"]  OBVIOUS
  <2>2. /\ n \in Readers /\ n.pc = "refused"
        /\ n.public = reader.public /\ n.ifRange = reader.ifRange /\ n.req = reader.req
        /\ n.header = reader.header /\ n.retry = reader.retry
    BY <1>2, <2>1 DEF Readers, Phases
  <2>3. ReaderOk(n)  BY <1>2, <1>3, <1>4, <1>9, <2>2 DEF ReaderOk, Bare
  <2> QED  BY <1>1, <1>9, <2>1, <2>2, <2>3, ReaderMoves
<1> QED  BY <1>6, <1>7, <1>8, <1>9

(* What a phase leaves of the reader but for its place.                    *)
LEMMA SamePlace ==
  ASSUME reader \in Readers, NEW pc \in Phases, NEW n, n = [reader EXCEPT !.pc = pc]
  PROVE  /\ n \in Readers /\ n.pc = pc
         /\ n.public = reader.public /\ n.ifRange = reader.ifRange /\ n.req = reader.req
         /\ n.header = reader.header /\ n.retry = reader.retry /\ n.object = reader.object
BY DEF Readers

LEMMA SecondReadServes ==
  ASSUME FileInv, Files!adapterHead
  PROVE  FileInv'
<1>1. reader.pc = "refused" /\ UNCHANGED <<folder, stored, urls, writes, cache>>
  BY DEF Files!adapterHead
<1>2. /\ ReaderOk(reader) /\ reader \in Readers
      /\ stored \in Objects /\ stored.size \in 0 .. MaxBytes /\ stored.size \in Nat
  BY <1>1, ReaderIs
<1>3. PICK req, r : req = reader.req /\ r = Files!resolveRange(req, stored.size)  OBVIOUS
<1>4. /\ reader.retry = Files!NoRange /\ reader.header \in RangeHeaders
      /\ req = Files!parseRangeHeader(reader.header)
      /\ req \notin {Files!NoRange, Files!Unsatisfiable}
  BY <1>1, <1>2, <1>3 DEF ReaderOk, Readers, Bare
<1>5. /\ r \in Ranges
      /\ r = Files!NoRange => Files!Asked(reader.header, stored.size) = {}
      /\ r # Files!NoRange => Exact(reader.header, stored.size, r)
  BY <1>2, <1>3, <1>4, ResolvedIsAsked
<1>6. \/ Files!notFound
      \/ r = Files!NoRange /\ reader' = [reader EXCEPT !.pc = "outside", !.object = stored]
      \/ r # Files!NoRange /\ reader' = [reader EXCEPT !.pc = "getResolved", !.retry = r]
  BY <1>3 DEF Files!adapterHead, Files!continues
<1>7. CASE Files!notFound  BY <1>1, <1>2, <1>7, FailedKeeps
<1>8. CASE r = Files!NoRange /\ reader' = [reader EXCEPT !.pc = "outside", !.object = stored]
  <2>1. PICK n : n = [reader EXCEPT !.pc = "outside", !.object = stored]  OBVIOUS
  <2>2. /\ n \in Readers /\ n.pc = "outside" /\ n.object = stored
        /\ n.public = reader.public /\ n.ifRange = reader.ifRange /\ n.req = reader.req
        /\ n.header = reader.header
    BY <1>2, <2>1 DEF Readers, Phases
  <2>3. ReaderOk(n)  BY <1>2, <1>5, <1>8, <2>2 DEF ReaderOk
  <2> QED  BY <1>1, <1>8, <2>1, <2>2, <2>3, ReaderMoves
<1>9. CASE r # Files!NoRange /\ reader' = [reader EXCEPT !.pc = "getResolved", !.retry = r]
  <2>1. PICK n : n = [reader EXCEPT !.pc = "getResolved", !.retry = r]  OBVIOUS
  <2>2. /\ n \in Readers /\ n.pc = "getResolved" /\ n.retry = r
        /\ n.public = reader.public /\ n.ifRange = reader.ifRange /\ n.req = reader.req
        /\ n.header = reader.header
    BY <1>2, <1>5, <2>1 DEF Readers, Phases
  <2>3. RetryOk(reader.header, r)  BY <1>2, <1>4, <1>5, <1>9, ExactIsRetry
  <2>4. ReaderOk(n)  BY <1>2, <1>9, <2>2, <2>3 DEF ReaderOk
  <2> QED  BY <1>1, <1>9, <2>1, <2>2, <2>4, ReaderMoves
<1> QED  BY <1>6, <1>7, <1>8, <1>9

LEMMA ResolvedServes ==
  ASSUME FileInv, Files!adapterGetResolved
  PROVE  FileInv'
<1>1. reader.pc = "getResolved" /\ UNCHANGED <<folder, stored, urls, writes, cache>>
  BY DEF Files!adapterGetResolved
<1>2. /\ ReaderOk(reader) /\ reader \in Readers
      /\ stored \in Objects /\ stored.size \in 0 .. MaxBytes /\ stored.size \in Nat
  BY <1>1, ReaderIs
<1>3. PICK t, r : t = reader.retry /\ r = Files!resolveRange(t, stored.size)  OBVIOUS
<1>4. t \in Ranges /\ t # Files!NoRange /\ RetryOk(reader.header, t)
  BY <1>1, <1>2, <1>3 DEF ReaderOk, Readers
<1>5. r # Files!NoRange => r \in Ranges /\ Begins(reader.header, stored.size, r, t)
  BY <1>2, <1>3, <1>4, RetriedBegins
<1>6. \/ Files!notFound \/ Files!errs
      \/ /\ stored # Files!Gone => r # Files!NoRange
         /\ stored # Files!Gone
         /\ reader' = [reader EXCEPT !.pc = "got", !.object = stored, !.range = r]
  BY <1>3 DEF Files!adapterGetResolved, Files!continues
<1>7. CASE Files!notFound \/ Files!errs  BY <1>1, <1>2, <1>7, FailedKeeps
<1>8. CASE r # Files!NoRange
           /\ reader' = [reader EXCEPT !.pc = "got", !.object = stored, !.range = r]
  <2>1. PICK n : n = [reader EXCEPT !.pc = "got", !.object = stored, !.range = r]  OBVIOUS
  <2>2. Got(reader.header, stored.size, r, reader.retry)  BY <1>3, <1>4, <1>5, <1>8 DEF Got
  <2>3. /\ n \in Readers /\ n.pc = "got" /\ n.object = stored /\ n.range = r
        /\ n.public = reader.public /\ n.ifRange = reader.ifRange /\ n.req = reader.req
        /\ n.header = reader.header /\ n.retry = reader.retry
    BY <1>2, <1>5, <1>8, <2>1 DEF Readers, Phases
  <2>4. ReaderOk(n)  BY <1>2, <2>2, <2>3 DEF ReaderOk
  <2> QED  BY <1>1, <1>8, <2>1, <2>3, <2>4, ReaderMoves
<1> QED  BY <1>6, <1>7, <1>8

LEMMA OutsideServes ==
  ASSUME FileInv, Files!serveOutside
  PROVE  FileInv'
<1>1. reader.pc = "outside" /\ UNCHANGED <<folder, stored, urls, writes, cache>>
  BY DEF Files!serveOutside
<1>2. ReaderOk(reader) /\ reader \in Readers  BY <1>1, ReaderIs
<1>3. /\ Files!Asked(reader.header, reader.object.size) = {}
      /\ reader.ifRange # 0 /\ stored.version = reader.ifRange => stored = reader.object
  BY <1>1, <1>2 DEF ReaderOk
<1>4. PICK object : object = reader.object  OBVIOUS
<1>5. CASE object.size # 0 /\ reader.ifRange = 0
  <2>1. Files!unsatisfiable(object)  BY <1>4, <1>5 DEF Files!serveOutside
  <2> QED  BY <1>1, <1>2, <1>3, <1>4, <1>5, <2>1, UnsatisfiableKeeps
<1>6. CASE ~(object.size # 0 /\ reader.ifRange = 0)
  <2>1. PICK n : n = [reader EXCEPT !.pc = "getWhole"]  OBVIOUS
  <2>2. reader' = n  BY <1>4, <1>6, <2>1 DEF Files!serveOutside, Files!continues
  <2>3. /\ n \in Readers /\ n.pc = "getWhole" /\ n.object = reader.object
        /\ n.public = reader.public /\ n.ifRange = reader.ifRange /\ n.req = reader.req
        /\ n.header = reader.header
    BY <1>2, <2>1, SamePlace DEF Phases
  <2>4. ReaderOk(n)  BY <1>2, <1>3, <2>3 DEF ReaderOk
  <2> QED  BY <1>1, <2>2, <2>3, <2>4, ReaderMoves
<1> QED  BY <1>5, <1>6

LEMMA WholeServes ==
  ASSUME FileInv, Files!serveWhole
  PROVE  FileInv'
<1>1. reader.pc = "getWhole" /\ UNCHANGED <<folder, stored, urls, writes, cache>>
  BY DEF Files!serveWhole
<1>2. ReaderOk(reader) /\ reader \in Readers  BY <1>1, ReaderIs
<1>3. /\ Files!Asked(reader.header, reader.object.size) = {}
      /\ reader.ifRange # 0 /\ stored.version = reader.ifRange => stored = reader.object
  BY <1>1, <1>2 DEF ReaderOk
<1>4. \/ /\ stored.size # 0 /\ reader.ifRange # 0 /\ reader.ifRange = stored.version
         /\ Files!unsatisfiable(stored)
      \/ Files!notFound \/ Files!whole(stored)
  BY DEF Files!serveWhole, Files!ifRangeMatches
<1>5. CASE /\ stored.size # 0 /\ reader.ifRange # 0 /\ reader.ifRange = stored.version
           /\ Files!unsatisfiable(stored)
  <2>1. Files!Asked(reader.header, stored.size) = {}  BY <1>3, <1>5
  <2> QED  BY <1>1, <1>2, <1>5, <2>1, UnsatisfiableKeeps
<1>6. CASE Files!notFound \/ Files!whole(stored)
  BY <1>1, <1>2, <1>6, FailedKeeps, WholeKeeps
<1> QED  BY <1>4, <1>5, <1>6

LEMMA ObjectServes ==
  ASSUME FileInv, Files!serveObject
  PROVE  FileInv'
<1>1. reader.pc = "got" /\ UNCHANGED <<folder, stored, urls, writes, cache>>
  BY DEF Files!serveObject
<1>2. ReaderOk(reader) /\ reader \in Readers  BY <1>1, ReaderIs
<1>3. PICK r, object : r = reader.range /\ object = reader.object  OBVIOUS
<1>4. Got(reader.header, object.size, r, reader.retry) /\ object \in Objects
  BY <1>1, <1>2, <1>3 DEF ReaderOk, Readers
<1>5. \/ reader' = [reader EXCEPT !.pc = "getAfresh"]
      \/ r # Files!NoRange /\ (reader.ifRange # 0 => object.version = reader.ifRange)
         /\ Files!partial(r, object)
      \/ Files!whole(object)
  BY <1>3 DEF Files!serveObject, Files!stale, Files!ifRangeMatches, Files!continues
<1>6. CASE reader' = [reader EXCEPT !.pc = "getAfresh"]
  <2>1. PICK n : n = [reader EXCEPT !.pc = "getAfresh"]  OBVIOUS
  <2>2. /\ n \in Readers /\ n.pc = "getAfresh"
        /\ n.public = reader.public /\ n.ifRange = reader.ifRange /\ n.req = reader.req
        /\ n.header = reader.header
    BY <1>2, <2>1, SamePlace DEF Phases
  <2>3. ReaderOk(n)  BY <1>2, <2>2 DEF ReaderOk
  <2> QED  BY <1>1, <1>6, <2>1, <2>2, <2>3, ReaderMoves
<1>7. CASE r # Files!NoRange /\ (reader.ifRange # 0 => object.version = reader.ifRange)
           /\ Files!partial(r, object)
  BY <1>1, <1>2, <1>4, <1>7, PartialKeeps
<1>8. CASE Files!whole(object)  BY <1>1, <1>2, <1>8, WholeKeeps
<1> QED  BY <1>5, <1>6, <1>7, <1>8

LEMMA AfreshServes ==
  ASSUME FileInv, Files!serveAfresh
  PROVE  FileInv'
<1>1. reader.pc = "getAfresh" /\ UNCHANGED <<folder, stored, urls, writes, cache>>
  BY DEF Files!serveAfresh
<1>2. ReaderOk(reader) /\ reader \in Readers  BY <1>1, ReaderIs
<1>3. Files!notFound \/ Files!whole(stored)  BY DEF Files!serveAfresh
<1> QED  BY <1>1, <1>2, <1>3, FailedKeeps, WholeKeeps

-----------------------------------------------------------------------------
(* Urls, uploads and caches.                                               *)

LEMMA UrlsMove ==
  ASSUME FileInv, UNCHANGED <<folder, stored, writes, reader, reply, cache>>,
         \A url \in urls' : url.type \in FileTypes \cup {<<>>}
  PROVE  FileInv'
<1>1. FileTyped' /\ writes <= writes'  BY DEF FileInv, FileTyped
<1> QED  BY <1>1, StoreMoves

LEMMA SigningKeeps ==
  ASSUME FileInv, Files!signDownload \/ (\E type \in FileTypes : Files!signUpload(type))
                  \/ (\E url \in urls : Files!expires(url))
  PROVE  FileInv'
<1>1. \A url \in urls : url.type \in FileTypes \cup {<<>>}  BY DEF FileInv, FileTyped
<1>2. ASSUME NEW type \in FileTypes, Files!signUpload(type) PROVE FileInv'
  <2>1. PICK max \in Sizes : urls' = urls \cup {[op |-> "put", type |-> type, max |-> max]}
    BY <1>2 DEF Files!signUpload
  <2>2. \A url \in urls' : url.type \in FileTypes \cup {<<>>}  BY <1>1, <2>1
  <2> QED  BY <1>2, <2>2, UrlsMove DEF Files!signUpload
<1>3. CASE Files!signDownload
  <2>1. \A url \in urls' : url.type \in FileTypes \cup {<<>>}
    BY <1>1, <1>3 DEF Files!signDownload
  <2> QED  BY <1>3, <2>1, UrlsMove DEF Files!signDownload
<1>4. ASSUME NEW url \in urls, Files!expires(url) PROVE FileInv'
  BY <1>1, <1>4, UrlsMove DEF Files!expires
<1> QED  BY <1>2, <1>3, <1>4

LEMMA StoringKeeps ==
  ASSUME FileInv, NEW size \in Sizes, NEW type \in FileTypes \cup {<<>>},
         Files!Stored(size, type), UNCHANGED <<folder, urls, reader, reply, cache>>
  PROVE  FileInv'
<1>1. writes \in Nat /\ size \in 0 .. MaxBytes
  BY FileConstants DEF Files!FilesAssumption, FileInv, FileTyped
<1>2. PICK v \in Nat : v = writes + 1  BY <1>1
<1>3. stored' = [version |-> v, size |-> size, type |-> type] /\ writes' = v
  BY <1>2 DEF Files!Stored
<1>4. stored' \in Objects /\ stored'.version = v  BY <1>1, <1>3 DEF Objects
<1>5. writes <= writes'  BY <1>1, <1>2, <1>3
<1>6. FileTyped'  BY <1>2, <1>3, <1>4 DEF FileInv, FileTyped
<1>7. \A w \in Nat : w <= writes => stored'.version # w  BY <1>1, <1>2, <1>4
<1> QED  BY <1>5, <1>6, <1>7, StoreMoves

LEMMA DeletingKeeps ==
  ASSUME FileInv, Files!deletes
  PROVE  FileInv'
<1>1. stored' = Files!Gone /\ UNCHANGED <<folder, urls, writes, reader, reply, cache>>
  BY DEF Files!deletes
<1>2. stored' \in Objects /\ stored'.version = 0  BY <1>1, GoneIsAnObject
<1>3. writes \in Nat /\ writes' = writes  BY <1>1 DEF FileInv, FileTyped
<1>4. FileTyped'  BY <1>1, <1>2, <1>3 DEF FileInv, FileTyped
<1> QED  BY <1>1, <1>2, <1>3, <1>4, StoreMoves

LEMMA LeavingKeeps ==
  ASSUME FileInv, Files!leaves \/ Files!ages
  PROVE  FileInv'
<1>1. UNCHANGED <<folder, stored, urls, writes>>  BY DEF Files!leaves, Files!ages
<1>2. FileTyped'  BY <1>1 DEF FileInv, FileTyped
<1>3. CASE Files!ages
  <2>1. UNCHANGED <<reader, reply>> /\ cache' = "nothing"  BY <1>3 DEF Files!ages
  <2> QED
    BY <1>1, <1>2, <2>1
    DEF FileInv, ReaderOk, SharedOk, Files!BytesAreTrue, Files!NoSplice, Files!RefusedIsOutside,
        Files!ActiveIsSandboxed, Files!PrivateStaysSigned, Files!Answered, Files!Body
<1>4. CASE Files!leaves
  <2>1. reader' = Files!Idle /\ reader.pc = "answered"  BY <1>4 DEF Files!leaves
  <2>2. ~Files!Answered'  BY <2>1 DEF Files!Answered
  <2>3. Files!Answered  BY <2>1, IdleIsNoReader DEF Files!Answered
  <2>4. UNCHANGED cache \/ (folder = "media" /\ cache' = "whole")
    <3>1. CASE UNCHANGED cache  BY <3>1
    <3>2. CASE /\ reply.shared
               /\ cache' = IF reply.first = 0 /\ reply.length = reply.object.size
                           THEN "whole" ELSE "slice"
      <4>1. folder = "media" /\ reply.status = 200  BY <2>3, <3>2 DEF FileInv, SharedOk
      <4>2. reply.first = 0 /\ reply.length = reply.object.size
        BY <2>3, <4>1 DEF FileInv, Files!BytesAreTrue
      <4> QED  BY <3>2, <4>1, <4>2
    <3> QED  BY <1>4, <3>1, <3>2 DEF Files!leaves, Files!kept
  <2>5. Files!PrivateStaysSigned'
    BY <1>1, <2>1, <2>4 DEF FileInv, Files!PrivateStaysSigned
  <2> QED
    BY <1>2, <2>1, <2>2, <2>5
    DEF FileInv, SharedOk, Files!BytesAreTrue, Files!NoSplice, Files!RefusedIsOutside,
        Files!ActiveIsSandboxed
<1> QED  BY <1>3, <1>4

LEMMA FileInit == Files!Init => FileInv
<1> SUFFICES ASSUME Files!Init PROVE FileInv
  OBVIOUS
<1>1. /\ stored = Files!Gone /\ urls = {} /\ writes = 0 /\ reader = Files!Idle
      /\ cache = "nothing"
  BY DEF Files!Init
<1>2. FileTyped  BY <1>1, GoneIsAnObject DEF FileTyped
<1>3. ~Files!Answered  BY <1>1 DEF Files!Answered
<1> QED
  BY <1>1, <1>2, <1>3
  DEF FileInv, SharedOk, Files!BytesAreTrue, Files!NoSplice, Files!RefusedIsOutside,
      Files!ActiveIsSandboxed, Files!PrivateStaysSigned

LEMMA FileStep == FileInv /\ [Files!Next]_fileVars => FileInv'
<1> SUFFICES ASSUME FileInv, [Files!Next]_fileVars PROVE FileInv'
  OBVIOUS
<1>1. CASE UNCHANGED fileVars
  <2>1. UNCHANGED <<folder, stored, urls, writes, reader, reply, cache>>
    BY <1>1 DEF fileVars
  <2>2. \A url \in urls' : url.type \in FileTypes \cup {<<>>}
    BY <2>1 DEF FileInv, FileTyped
  <2> QED  BY <2>1, <2>2, UrlsMove
<1>2. ASSUME NEW type \in FileTypes, NEW size \in Sizes, Files!puts(size, type)
      PROVE  FileInv'
  BY <1>2, StoringKeeps DEF Files!puts
<1>3. ASSUME NEW url \in urls, NEW size \in Sizes, Files!uploads(url, size)
      PROVE  FileInv'
  <2>1. PICK type \in FileTypes \cup {<<>>} : type = url.type  BY DEF FileInv, FileTyped
  <2> QED  BY <1>3, <2>1, StoringKeeps DEF Files!uploads
<1>4. ASSUME NEW public \in BOOLEAN, NEW isHead \in BOOLEAN, NEW a \in Numbers, NEW b \in Numbers,
             NEW validator \in 0 .. writes, Files!requests(public, isHead, <<a, b>>, validator)
      PROVE  FileInv'
  <2>1. PICK header \in RangeHeaders : header = <<a, b>>  BY DEF RangeHeaders
  <2> QED  BY <1>4, <2>1, RequestKeeps
<1> QED
  BY <1>1, <1>2, <1>3, <1>4, SigningKeeps, DeletingKeeps, LeavingKeeps, HeadServes, GetServes,
     SecondReadServes, ResolvedServes, OutsideServes, WholeServes, ObjectServes, AfreshServes
  DEF Files!Next

----------------------------------------------------------------------------
(* The theorems.  First each component by itself, with all its steps.      *)

(***************************************************************************)
(* However often the object under a key is replaced or deleted between the *)
(* reads of one request, whoever asks for a range gets bytes of it, never  *)
(* bytes of two versions, and is refused one only when there is none; what *)
(* a browser would run is sandboxed; and nothing but whole objects of      *)
(* media leaves without a url or stays in a shared cache.                  *)
(***************************************************************************)
THEOREM FilesAreServedTrue ==
  Files!Spec => [](/\ Files!BytesAreTrue /\ Files!NoSplice /\ Files!RefusedIsOutside
                   /\ Files!ActiveIsSandboxed /\ Files!PrivateStaysSigned)
<1> DEFINE Served == /\ Files!BytesAreTrue /\ Files!NoSplice /\ Files!RefusedIsOutside
                     /\ Files!ActiveIsSandboxed /\ Files!PrivateStaysSigned
<1>1. FileInv => Served  BY DEF FileInv
<1>2. FileInv /\ [Files!Next]_(Files!vars) => FileInv'
  BY FileStep DEF fileVars, Files!vars
<1> HIDE DEF Served
<1>3. Files!Spec => []Served  BY FileInit, <1>1, <1>2, PTL DEF Files!Spec
<1> QED  BY <1>3 DEF Served

(***************************************************************************)
(* Every row of the media library stands for bytes of its own, bytes with  *)
(* no row are only those a failed or overtaken call left, and each file is *)
(* under one filter, whatever calls run side by side and wherever one dies.*)
(***************************************************************************)
THEOREM MediaIsAccountedFor ==
  Media!Spec => [](/\ Media!OneRowPerBlob /\ Media!BytesBehindRows
                   /\ Media!NothingIsOrphaned /\ Media!OneKindEach)
<1> DEFINE Kept == /\ Media!OneRowPerBlob /\ Media!BytesBehindRows
                   /\ Media!NothingIsOrphaned /\ Media!OneKindEach
<1>1. MediaInv => Kept  BY MediaGives
<1>2. MediaInv /\ [Media!Next]_(Media!vars) => MediaInv'
  BY MediaStep DEF mediaVars, Media!vars
<1> HIDE DEF Kept
<1>3. Media!Spec => []Kept  BY MediaInit, <1>1, <1>2, PTL DEF Media!Spec
<1> QED  BY <1>3 DEF Kept

(***************************************************************************)
(* What the public reads of a page was published while the request ran,    *)
(* and what anyone reads was out of the trash, however editors interleave. *)
(***************************************************************************)
THEOREM PagesAreReadAsPublished ==
  Reads!Spec => [](Reads!PublicIsPublished /\ Reads!TrashStaysHidden)
<1> DEFINE Read == Reads!PublicIsPublished /\ Reads!TrashStaysHidden
<1>1. ReadInv => Read  BY DEF ReadInv
<1>2. ReadInv /\ [Reads!Next]_(Reads!vars) => ReadInv'
  BY ReadStep DEF readVars, Reads!vars
<1> HIDE DEF Read
<1>3. Reads!Spec => []Read  BY ReadInit, <1>1, <1>2, PTL DEF Reads!Spec
<1> QED  BY <1>3 DEF Read

(***************************************************************************)
(* A preview link opens what it was minted for, with the roles its minter  *)
(* had, and, unless the cap on links was raised or the minting overtaken,  *)
(* not after its minter was deactivated or its sessions were revoked.      *)
(***************************************************************************)
THEOREM LinksEndWithTheirMinter ==
  Previews!Spec => [](Previews!RevokedLinksStayShut /\ Previews!LinksReadAsTheirMinter)
<1> DEFINE Linked == Previews!RevokedLinksStayShut /\ Previews!LinksReadAsTheirMinter
<1>1. PreviewInv => Linked  BY DEF PreviewInv
<1>2. PreviewInv /\ [Previews!Next]_(Previews!vars) => PreviewInv'
  BY PreviewStep DEF previewVars, Previews!vars
<1> HIDE DEF Linked
<1>3. Previews!Spec => []Linked  BY PreviewInit, <1>1, <1>2, PTL DEF Previews!Spec
<1> QED  BY <1>3 DEF Linked

-----------------------------------------------------------------------------
(* And side by side, as the run checks them.                               *)

EdgesInv == BoundInv /\ FileInv /\ MediaInv /\ ReadInv /\ PreviewInv

LEMMA EdgesStart == EdgesInit => EdgesInv
BY RequestsInit, FileInit, MediaInit, ReadInit, PreviewInit DEF EdgesInit, EdgesInv

LEMMA EdgesStep == EdgesInv /\ [EdgesNext]_edgeVars => EdgesInv'
<1> SUFFICES ASSUME EdgesInv, [EdgesNext]_edgeVars PROVE EdgesInv'
  OBVIOUS
<1>1. [Next]_vars /\ [Files!Next]_fileVars /\ [Media!Next]_mediaVars /\ [Reads!Next]_readVars
      /\ [Previews!Next]_previewVars
  <2>1. CASE UNCHANGED edgeVars  BY <2>1 DEF edgeVars
  <2>2. CASE EdgesNext  BY <2>2 DEF EdgesNext
  <2> QED  BY <2>1, <2>2
<1> QED
  BY <1>1, RequestsStep, FileStep, MediaStep, ReadStep, PreviewStep DEF EdgesInv

(* The bytes and the rows of the composition are kept: Files and the media *)
(* library keep their promises in every behaviour of the run.              *)
THEOREM EdgesKeepBytes == EdgesSpec => []BytesAreKept
<1>1. EdgesInv => BytesAreKept
  BY MediaGives DEF EdgesInv, FileInv, BytesAreKept
<1> QED  BY EdgesStart, EdgesStep, <1>1, PTL DEF EdgesSpec

(* Pages and links of the composition are read by those who may.           *)
THEOREM EdgesLicenseReads == EdgesSpec => []ReadsAreLicensed
<1>1. EdgesInv => ReadsAreLicensed
  BY DEF EdgesInv, ReadInv, PreviewInv, ReadsAreLicensed
<1> QED  BY EdgesStart, EdgesStep, <1>1, PTL DEF EdgesSpec

-----------------------------------------------------------------------------
(* Collections: what boot's check of a registry is worth.                  *)

Cols == Registry!columns0
Fields == Registry!Declared(Registry!c0)
Managed == Registry!Managed(Registry!c0)
IdField == Registry!c0.idField
Has(feature) == Registry!has(Registry!c0, feature)
Accepted == Registry!validateCollections(conf.registry, conf.schema)

(* Two things boot does not check: that no field, and no feature, is given *)
(* the entity's primary key, and that whoever publishes may read when the  *)
(* row is to come down.                                                    *)
KeysAreNotFields ==
  \A k \in Configs : LET c == k.registry[1] IN
    c.idField \notin Registry!Declared(c) \cup Registry!Managed(c)
TakedownsAreRead == \A caller \in Viewers : caller = {} \/ "unpublishAt" \in caller

(* A value that may be written to its column, and what a row's fields hold.*)
Sound(n, v) == v \in Registry!Cells /\ ~v.quoted /\ Registry!binds(n, v)
Contents == {f \in [Fields -> Registry!Cells] : \A n \in Fields : Sound(n, f[n])}
Trails == [content : Contents \cup {<< >>}, past : Seq(Contents)]
Wants == [up : BOOLEAN, until : Int]

(* A stored row is under its own id, holds the content of its history, and *)
(* its managed columns say what its editors asked for.                     *)
IsTyped(i, r) == r \in [DOMAIN Cols -> Registry!Cells] /\ r[IdField] = Registry!Cell("id", "", i)
Holds(r, t) ==
  t.content \in Contents /\ \A n \in Fields : Registry!decode(n, r[n]) = t.content[n]
Stands(r, w, time) ==
  /\ Has("drafts") => r.status = IF w.up THEN Registry!Published ELSE Registry!Draft
  /\ Has("scheduling") =>
       /\ w.until = -1 => r.unpublishAt = Registry!Null
       /\ w.until # -1 => w.until \in 0..MaxSchedule /\ r.unpublishAt = Registry!Instant(w.until)
       /\ r.publishedAt = Registry!Null \/ \E s \in 0..time : r.publishedAt = Registry!Instant(s)
  /\ ~Has("scheduling") => w.until = -1
RowIs(i, r, h, t, w, time) ==
  /\ r # << >> => IsTyped(i, r) /\ Holds(r, t) /\ Stands(r, w, time)
  /\ r = << >> => t = Registry!NoTrail /\ w = Registry!NoWant
  /\ Has("revisions") => h = t.past
RowAt(i) == RowIs(i, cRows[i], revs[i], trail[i], want[i], cNow)

RegistryTyped ==
  /\ conf \in Configs
  /\ phase \in {"new", "up", "refused"}
  /\ cNow \in 0..MaxInstant
  /\ cRows = [i \in Ids |-> cRows[i]]
  /\ revs \in [Ids -> Seq(Contents)]
  /\ trail \in [Ids -> Trails]
  /\ want \in [Ids -> Wants]

RegistryInv ==
  /\ RegistryTyped
  /\ ~failed
  /\ phase = "up" => Accepted
  /\ phase # "up" => said = Registry!NoAnswer /\ \A i \in Ids : cRows[i] = << >>
  /\ \A i \in Ids : RowAt(i)
  /\ said.kind = "history" => said.shown \subseteq said.to
  /\ Registry!ListsAreOrdered

LEMMA RegistryParts ==
  ASSUME RegistryInv, NEW i \in Ids
  PROVE  /\ conf \in Configs /\ cNow \in Nat /\ cNow <= MaxInstant /\ MaxInstant <= MaxSchedule
         /\ cNow \in 0..MaxSchedule
         /\ MaxSchedule \in Nat /\ MaxDate \in Nat /\ MaxSchedule < MaxDate
         /\ RowAt(i) /\ revs[i] \in Seq(Contents)
         /\ trail[i] \in Trails /\ want[i] \in Wants
  BY RegistryConstants DEF RegistryInv, RegistryTyped, Registry!RegistryAssumption

(* What the check leaves standing of the first collection.                 *)
LEMMA AcceptedIs ==
  ASSUME conf \in Configs, Accepted
  PROVE  /\ Registry!Reachable
         /\ IdField \in DOMAIN Cols /\ Registry!PrimaryKey(Cols) = IdField
         /\ Fields \subseteq DOMAIN Cols /\ Managed \subseteq DOMAIN Cols
         /\ \A f \in Registry!c0.fields : Cols[f.name].type \in Registry!fieldColumnTypes(f)
         /\ \A n \in Fields : ~Cols[n].hidden /\ n \notin Managed
         /\ \A n \in Managed : Cols[n].type = "text" /\ ~Cols[n].notNull /\ ~Cols[n].hidden
         /\ Registry!c0.orderBy \in DOMAIN Cols \cup {""}
<1> DEFINE c == Registry!c0
<1>1. 1 \in DOMAIN conf.registry
  BY RegistryConstants DEF Registry!RegistryAssumption
<1>2. /\ Registry!featuresStand(c)
      /\ conf.schema[c.entity].partition = "default"
      /\ Registry!keyed(c, Cols)
      /\ Registry!fieldsFit(c, Cols)
      /\ Registry!ordered(c, Cols)
      /\ Registry!managedFit(c, Cols)
  BY <1>1 DEF Accepted, Registry!validateCollections, Cols, Registry!columns0, Registry!c0
<1> HIDE DEF c
<1>3. Registry!Reachable  BY <1>2 DEF c, Registry!Reachable
<1>4. IdField \in DOMAIN Cols /\ Registry!PrimaryKey(Cols) = IdField
  BY <1>2 DEF c, IdField, Registry!keyed
<1>5. \A f \in Registry!c0.fields : /\ f.name \in DOMAIN Cols /\ ~Cols[f.name].hidden
                                    /\ Cols[f.name].type \in Registry!fieldColumnTypes(f)
  BY <1>2 DEF c, Registry!fieldsFit
<1>6. \A n \in Managed : /\ n \in DOMAIN Cols /\ n \notin Fields
                         /\ Cols[n].type = "text" /\ ~Cols[n].notNull /\ ~Cols[n].hidden
  BY <1>2 DEF c, Managed, Fields, Registry!managedFit
<1>7. \A n \in Fields : \E f \in Registry!c0.fields : f.name = n
  BY DEF Fields, Registry!Declared
<1>8. Registry!c0.orderBy \in DOMAIN Cols \cup {""}
  BY <1>2 DEF c, Registry!ordered
<1> QED  BY <1>3, <1>4, <1>5, <1>6, <1>7, <1>8

LEMMA FeatureColumns ==
  ASSUME conf \in Configs, Accepted
  PROVE  /\ Has("drafts") => "status" \in Managed
         /\ Has("scheduling") =>
              Has("drafts") /\ {"publishedAt", "scheduledAt", "unpublishAt"} \subseteq Managed
         /\ \A n \in Managed : n \in {"status", "publishedAt", "scheduledAt", "unpublishAt"}
         /\ "status" \in Managed => Has("drafts")
<1>1. 1 \in DOMAIN conf.registry
  BY RegistryConstants DEF Registry!RegistryAssumption
<1>2. Registry!featuresStand(Registry!c0)
  BY <1>1 DEF Accepted, Registry!validateCollections, Registry!c0
<1>3. Has("scheduling") => Has("drafts")
  BY <1>2 DEF Has, Registry!has, Registry!featuresStand, Registry!FEATURE_REQUIRES
<1>4. /\ Registry!FEATURE_COLUMNS("drafts") = {"status"}
      /\ Registry!FEATURE_COLUMNS("scheduling") = {"publishedAt", "scheduledAt", "unpublishAt"}
      /\ \A feature : feature \notin {"drafts", "scheduling"} => Registry!FEATURE_COLUMNS(feature) = {}
  BY DEF Registry!FEATURE_COLUMNS
<1>5. \A n : n \in Managed <=> \E feature \in Registry!c0.supports : n \in Registry!FEATURE_COLUMNS(feature)
  BY DEF Managed, Registry!Managed
<1>6. \A feature : Has(feature) <=> feature \in Registry!c0.supports
  BY DEF Has, Registry!has
<1> QED  BY <1>3, <1>4, <1>5, <1>6

(* What is stored of a value reads back as the value.                      *)
LEMMA EncodedIs ==
  ASSUME NEW n, NEW v, Sound(n, v)
  PROVE  /\ Registry!encode(n, v) \in Registry!Cells
         /\ Registry!decode(n, Registry!encode(n, v)) = v
         /\ Cols[n].type # "json" => Registry!encode(n, v) = v
  BY DEF Sound, Registry!encode, Registry!decode, Registry!Cells, Cols

LEMMA CellIs ==
  ASSUME NEW k \in {"null", "word", "instant", "document", "id"},
         NEW w \in Words \cup {"", "draft", "published"}, NEW s \in Int
  PROVE  /\ Registry!Cell(k, w, s) \in Registry!Cells
         /\ Registry!Cell(k, w, s).kind = k /\ Registry!Cell(k, w, s).word = w
         /\ Registry!Cell(k, w, s).at = s /\ ~Registry!Cell(k, w, s).quoted
BY DEF Registry!Cell, Registry!Cells

LEMMA NoneIsSeq == ASSUME NEW S PROVE << >> \in Seq(S)
OBVIOUS

LEMMA WordsAreCells ==
  /\ \A v \in {Registry!Null, Registry!Draft, Registry!Published} :
       v \in Registry!Cells /\ ~v.quoted /\ v.kind # "document"
  /\ \A s \in Int : /\ Registry!Instant(s) \in Registry!Cells
                    /\ ~Registry!Instant(s).quoted /\ Registry!Instant(s).kind = "instant"
                    /\ Registry!Instant(s).at = s /\ Registry!Instant(s) # Registry!Null
  /\ Registry!Null.kind = "null" /\ Registry!Draft # Registry!Published
<1>1. /\ Registry!Null \in Registry!Cells /\ Registry!Null.kind = "null" /\ ~Registry!Null.quoted
  BY DEF Registry!Null, Registry!Cell, Registry!Cells
<1>2. /\ Registry!Draft \in Registry!Cells /\ Registry!Draft.kind = "word" /\ ~Registry!Draft.quoted
      /\ Registry!Draft.word = "draft"
  BY DEF Registry!Draft, Registry!Cell, Registry!Cells
<1>3. /\ Registry!Published \in Registry!Cells /\ Registry!Published.kind = "word"
      /\ ~Registry!Published.quoted /\ Registry!Published.word = "published"
  BY DEF Registry!Published, Registry!Cell, Registry!Cells
<1>4. ASSUME NEW s \in Int
      PROVE  /\ Registry!Instant(s) \in Registry!Cells /\ ~Registry!Instant(s).quoted
             /\ Registry!Instant(s).kind = "instant" /\ Registry!Instant(s).at = s
  BY DEF Registry!Instant, Registry!Cell, Registry!Cells
<1> QED  BY <1>1, <1>2, <1>3, <1>4

LEMMA WordsAreSound ==
  ASSUME conf \in Configs, Accepted, NEW n \in Managed
  PROVE  /\ \A v \in {Registry!Null, Registry!Draft, Registry!Published} :
              Sound(n, v) /\ Registry!encode(n, v) = v
         /\ \A s \in Int : Sound(n, Registry!Instant(s))
              /\ Registry!encode(n, Registry!Instant(s)) = Registry!Instant(s)
<1>1. n \in DOMAIN Cols /\ Cols[n].type = "text" /\ ~Cols[n].notNull  BY AcceptedIs
<1>2. \A v \in Registry!Cells : ~v.quoted /\ v.kind # "document" =>
        Sound(n, v) /\ Registry!encode(n, v) = v
  BY <1>1 DEF Sound, Registry!binds, Registry!encode, Cols
<1> QED  BY <1>2, WordsAreCells

LEMMA SentIsSound ==
  ASSUME conf \in Configs, Accepted, NEW bag \in Registry!Bags, NEW n \in Fields, n \in DOMAIN bag,
         bag[n] = Registry!Null => ~Cols[n].notNull
  PROVE  Sound(n, bag[n])
<1>1. PICK f \in Registry!c0.fields : f.name = n  BY DEF Fields, Registry!Declared
<1>2. Registry!Fills(bag[n], f)
  BY <1>1, RegistryConstants DEF Registry!RegistryAssumption, Registry!Bags, Registry!c0
<1>3. n \in DOMAIN Cols /\ Cols[n].type \in Registry!fieldColumnTypes(f)  BY AcceptedIs, <1>1
<1>4. bag[n].kind = "document" => Cols[n].type = "json"
  BY <1>2, <1>3 DEF Registry!Fills
<1> QED  BY <1>2, <1>3, <1>4 DEF Sound, Registry!Fills, Registry!binds, Cols

(* A write finds its row, and only that one, and puts what was sent.       *)
LEMMA WrittenIs ==
  ASSUME RegistryInv, phase = "up", NEW i \in Ids, cRows[i] # << >>
  PROVE  Registry!Written(i) = {i}
<1>1. \A j \in Ids : cRows[j] # << >> => cRows[j][IdField] = Registry!Cell("id", "", j)
  BY RegistryParts DEF RowAt, RowIs, IsTyped
<1>2. Registry!PrimaryKey(Cols) = IdField  BY AcceptedIs, RegistryParts DEF RegistryInv
<1>3. Registry!Written(i) = {j \in Ids : cRows[j] # << >> /\ cRows[j][IdField] = cRows[i][IdField]}
  BY <1>2 DEF Registry!Written, Registry!Stored, Registry!NoRow, Registry!idOf, IdField, Cols
<1>4. \A j \in Ids : Registry!Cell("id", "", j) = Registry!Cell("id", "", i) => j = i
  BY DEF Registry!Cell
<1> QED  BY <1>1, <1>3, <1>4

Patch(i, patch) ==
  [n \in DOMAIN Cols |-> IF n \in DOMAIN patch THEN Registry!encode(n, patch[n]) ELSE cRows[i][n]]
Patches(patch) ==
  /\ DOMAIN patch \subseteq DOMAIN Cols \ {IdField}
  /\ \A n \in DOMAIN patch : Sound(n, patch[n])

LEMMA PatchIs ==
  ASSUME RegistryInv, phase = "up", NEW i \in Ids, cRows[i] # << >>, NEW patch, Patches(patch)
  PROVE  /\ Registry!mayWrite(i, patch)
         /\ Registry!Put(i, patch) = [cRows EXCEPT ![i] = Patch(i, patch)]
         /\ IsTyped(i, Patch(i, patch))
<1>1. IsTyped(i, cRows[i])  BY RegistryParts DEF RowAt, RowIs
<1>2. Registry!Fits(patch)  BY DEF Patches, Registry!Fits, Sound
<1>3. Registry!mayWrite(i, patch)
  BY <1>2, WrittenIs, AcceptedIs, RegistryParts DEF Registry!mayWrite, RegistryInv
<1>4. DOMAIN Registry!Encoded(patch) = DOMAIN patch
      /\ \A n \in DOMAIN patch : Registry!Encoded(patch)[n] = Registry!encode(n, patch[n])
  BY DEF Registry!Encoded
<1>5. DOMAIN patch \cup DOMAIN cRows[i] = DOMAIN Cols
  BY <1>1 DEF IsTyped, Patches
<1>6. Registry!Merge(Registry!Encoded(patch), cRows[i]) = Patch(i, patch)
  BY <1>4, <1>5 DEF Registry!Merge, Patch
<1>7. Registry!Put(i, patch) = [cRows EXCEPT ![i] = Patch(i, patch)]
  BY <1>6 DEF Registry!Put
<1>8. \A n \in DOMAIN Cols : Patch(i, patch)[n] \in Registry!Cells
  BY <1>1, EncodedIs DEF IsTyped, Patch, Patches
<1>9. IdField \in DOMAIN Cols  BY AcceptedIs, RegistryParts DEF RegistryInv
<1>10. IsTyped(i, Patch(i, patch))
  BY <1>1, <1>8, <1>9 DEF IsTyped, Patch, Patches
<1> QED  BY <1>3, <1>7, <1>10

(* What a step leaves of the registry, it leaves of everything said by it. *)
LEMMA SameConf ==
  ASSUME conf' = conf
  PROVE  /\ Cols' = Cols /\ Fields' = Fields /\ IdField' = IdField /\ Contents' = Contents
         /\ Registry!c0' = Registry!c0 /\ (Accepted' <=> Accepted)
         /\ \A feature : Has(feature)' <=> Has(feature)
         /\ \A n, v : Registry!decode(n, v)' = Registry!decode(n, v)
<1>1. Registry!c0' = Registry!c0  BY DEF Registry!c0
<1>2. Registry!columns0' = Registry!columns0  BY <1>1 DEF Registry!columns0
<1>3. Cols' = Cols  BY <1>2 DEF Cols
<1>4. Fields' = Fields /\ IdField' = IdField  BY <1>1 DEF Fields, IdField
<1>5. \A n, v : Sound(n, v)' <=> Sound(n, v)
  BY <1>2 DEF Sound, Registry!binds
<1>6. Contents' = Contents  BY <1>4, <1>5 DEF Contents
<1>7. \A feature : Has(feature)' <=> Has(feature)  BY <1>1 DEF Has
<1>8. \A n, v : Registry!decode(n, v)' = Registry!decode(n, v)  BY <1>2 DEF Registry!decode
<1>9. Accepted' <=> Accepted  BY DEF Accepted
<1> QED  BY <1>1, <1>3, <1>4, <1>6, <1>7, <1>8, <1>9

LEMMA SameRow ==
  ASSUME conf' = conf, NEW i \in Ids, RowIs(i, cRows'[i], revs'[i], trail'[i], want'[i], cNow')
  PROVE  RowAt(i)'
BY SameConf DEF RowAt, RowIs, IsTyped, Holds, Stands

LEMMA SameList ==
  ASSUME Registry!ListsAreOrdered, conf' = conf, cRows' = cRows, said' = said
  PROVE  Registry!ListsAreOrdered'
<1>1. Registry!columns0' = Registry!columns0 /\ Registry!c0' = Registry!c0
  BY DEF Registry!columns0, Registry!c0
<1> QED  BY <1>1 DEF Registry!ListsAreOrdered, Registry!Stored

LEMMA NoAnswerIs ==
  Registry!NoAnswer.kind # "list" /\ Registry!NoAnswer.kind # "history"
BY DEF Registry!NoAnswer

(* A step of one row.                                                      *)
LEMMA RowMoves ==
  ASSUME RegistryInv, phase = "up", said = Registry!NoAnswer, NEW i \in Ids,
         NEW r, NEW h \in Seq(Contents), NEW t \in Trails, NEW w \in Wants,
         RowIs(i, r, h, t, w, cNow),
         cRows' = [cRows EXCEPT ![i] = r], revs' = [revs EXCEPT ![i] = h],
         trail' = [trail EXCEPT ![i] = t], want' = [want EXCEPT ![i] = w],
         failed' = failed, UNCHANGED <<conf, phase, cNow, said>>
  PROVE  RegistryInv'
<1>1. /\ Contents' = Contents /\ Trails' = Trails /\ (Accepted' <=> Accepted)
  BY SameConf DEF Trails
<1>2. /\ cRows = [j \in Ids |-> cRows[j]] /\ revs \in [Ids -> Seq(Contents)]
      /\ trail \in [Ids -> Trails] /\ want \in [Ids -> Wants]
  BY DEF RegistryInv, RegistryTyped
<1>3. cRows' = [j \in Ids |-> cRows'[j]]  BY <1>2
<1>4. revs' \in [Ids -> Seq(Contents)] /\ trail' \in [Ids -> Trails] /\ want' \in [Ids -> Wants]
  BY <1>2
<1>5. RegistryTyped'  BY <1>1, <1>3, <1>4 DEF RegistryInv, RegistryTyped, Wants
<1>6. ASSUME NEW j \in Ids PROVE RowAt(j)'
  <2>1. CASE j = i
    <3>1. cRows'[j] = r /\ revs'[j] = h /\ trail'[j] = t /\ want'[j] = w  BY <1>2, <2>1
    <3> QED  BY <2>1, <3>1, SameRow
  <2>2. CASE j # i
    <3>1. /\ cRows'[j] = cRows[j] /\ revs'[j] = revs[j]
          /\ trail'[j] = trail[j] /\ want'[j] = want[j]
      BY <1>2, <2>2
    <3>2. RowIs(j, cRows[j], revs[j], trail[j], want[j], cNow)  BY RegistryParts DEF RowAt
    <3> QED  BY <3>1, <3>2, SameRow
  <2> QED  BY <2>1, <2>2
<1>7. Registry!ListsAreOrdered'  BY NoAnswerIs DEF Registry!ListsAreOrdered
<1> QED  BY <1>1, <1>5, <1>6, <1>7, NoAnswerIs DEF RegistryInv

(* A step that writes no row.                                              *)
LEMMA RowsRest ==
  ASSUME RegistryInv, UNCHANGED <<conf, cRows, revs, trail, want, failed>>,
         phase' = phase, cNow' \in cNow..MaxInstant,
         phase # "up" => said' = said,
         said'.kind = "history" => said'.shown \subseteq said'.to,
         Registry!ListsAreOrdered'
  PROVE  RegistryInv'
<1>1. Contents' = Contents /\ Trails' = Trails /\ (Accepted' <=> Accepted)
  BY SameConf DEF Trails
<1>2. cNow \in Nat /\ MaxInstant \in Nat
  BY RegistryConstants DEF RegistryInv, RegistryTyped, Registry!RegistryAssumption
<1>3. cNow' \in 0..MaxInstant /\ cNow' >= cNow  BY <1>2
<1>4. RegistryTyped'  BY <1>1, <1>3 DEF RegistryInv, RegistryTyped, Wants
<1>5. ASSUME NEW i \in Ids PROVE RowAt(i)'
  <2>1. RowIs(i, cRows[i], revs[i], trail[i], want[i], cNow)  BY RegistryParts DEF RowAt
  <2>2. \A r, w : Stands(r, w, cNow) => Stands(r, w, cNow')
    BY <1>2, <1>3 DEF Stands
  <2>3. RowIs(i, cRows[i], revs[i], trail[i], want[i], cNow')  BY <2>1, <2>2 DEF RowIs
  <2> QED  BY <2>3, SameRow
<1> QED  BY <1>1, <1>4, <1>5 DEF RegistryInv, Registry!NoAnswer

-----------------------------------------------------------------------------
(* The handlers, one at a time.                                            *)

LEMMA KeyStays ==
  ASSUME RegistryInv, KeysAreNotFields
  PROVE  IdField \notin Fields /\ IdField \notin Managed
BY DEF KeysAreNotFields, RegistryInv, RegistryTyped, IdField, Fields, Managed, Registry!c0

LEMMA StoredIs == \A i \in Ids : Registry!Stored(i) <=> cRows[i] # << >>
BY DEF Registry!Stored, Registry!NoRow

(* A write of managed columns.                                             *)
LEMMA MovesKeeps ==
  ASSUME RegistryInv, KeysAreNotFields, phase = "up", said = Registry!NoAnswer,
         NEW i \in Ids, cRows[i] # << >>, NEW patch, NEW w \in Wants,
         DOMAIN patch \subseteq Managed, \A n \in DOMAIN patch : Sound(n, patch[n]),
         Stands(Patch(i, patch), w, cNow), Registry!Moves(i, patch, w)
  PROVE  RegistryInv'
<1>1. conf \in Configs /\ Accepted  BY RegistryParts DEF RegistryInv
<1>2. Patches(patch)  BY <1>1, KeyStays, AcceptedIs DEF Patches
<1>3. /\ Registry!mayWrite(i, patch)
      /\ Registry!Put(i, patch) = [cRows EXCEPT ![i] = Patch(i, patch)]
      /\ IsTyped(i, Patch(i, patch))
  BY <1>2, PatchIs
<1>4. /\ cRows' = [cRows EXCEPT ![i] = Patch(i, patch)] /\ want' = [want EXCEPT ![i] = w]
      /\ UNCHANGED <<revs, failed, trail, conf, phase, cNow, said>>
  BY <1>3, WrittenIs DEF Registry!Moves
<1>5. RowIs(i, cRows[i], revs[i], trail[i], want[i], cNow)  BY RegistryParts DEF RowAt
<1>6. Holds(Patch(i, patch), trail[i])
  BY <1>1, <1>5, AcceptedIs DEF RowIs, Holds, Patch
<1>7. Patch(i, patch) # << >>
  <2>1. IdField \in DOMAIN Patch(i, patch)  BY <1>1, AcceptedIs DEF Patch
  <2> QED  BY <2>1
<1>8. RowIs(i, Patch(i, patch), revs[i], trail[i], w, cNow)
  BY <1>3, <1>5, <1>6, <1>7 DEF RowIs
<1>9. revs' = [revs EXCEPT ![i] = revs[i]] /\ trail' = [trail EXCEPT ![i] = trail[i]]
  BY <1>4 DEF RegistryInv, RegistryTyped
<1>10. revs[i] \in Seq(Contents) /\ trail[i] \in Trails  BY RegistryParts
<1> QED  BY <1>4, <1>8, <1>9, <1>10, RowMoves

(* Whoever may act on a schedule reads when the row comes down.            *)
LEMMA TakedownIsRead ==
  ASSUME RegistryInv, TakedownsAreRead, phase = "up", NEW i \in Ids, cRows[i] # << >>,
         Has("scheduling"), NEW caller \in Viewers, caller # {}
  PROVE  /\ "unpublishAt" \in Registry!Readable(caller)
         /\ Registry!Read(i, caller).unpublishAt = cRows[i].unpublishAt
         /\ Registry!spent(i, caller) <=> want[i].until # -1 /\ want[i].until <= cNow
<1>1. conf \in Configs /\ Accepted  BY RegistryParts DEF RegistryInv
<1>2. "unpublishAt" \in Managed  BY <1>1, FeatureColumns
<1>3. /\ "unpublishAt" \in DOMAIN Cols /\ Cols["unpublishAt"].type = "text"
      /\ ~Cols["unpublishAt"].hidden
  BY <1>1, <1>2, AcceptedIs
<1>4. "unpublishAt" \in Registry!Readable(caller)
  BY <1>3 DEF TakedownsAreRead, Registry!Readable, Cols
<1>5. Registry!Read(i, caller).unpublishAt = cRows[i].unpublishAt
  BY <1>3, <1>4 DEF Registry!Read, Registry!decode, Cols
<1>6. Stands(cRows[i], want[i], cNow)  BY RegistryParts DEF RowAt, RowIs
<1>7. /\ want[i].until = -1 => cRows[i].unpublishAt = Registry!Null
      /\ want[i].until # -1 => /\ want[i].until \in 0..MaxSchedule
                               /\ cRows[i].unpublishAt = Registry!Instant(want[i].until)
  BY <1>6 DEF Stands
<1>8. cNow \in 0..MaxSchedule /\ MaxSchedule \in Nat  BY RegistryParts
<1>9. CASE want[i].until = -1
  BY <1>4, <1>5, <1>7, <1>9, WordsAreCells DEF Registry!spent
<1>10. CASE want[i].until # -1
  <2>1. /\ cRows[i].unpublishAt.kind = "instant" /\ cRows[i].unpublishAt.at = want[i].until
        /\ want[i].until \in 0..MaxSchedule
    BY <1>7, <1>8, <1>10, WordsAreCells
  <2>2. Registry!Before(cNow, want[i].until) <=> cNow < want[i].until
    BY <1>8, <2>1 DEF Registry!Before
  <2> QED  BY <1>4, <1>5, <1>8, <1>10, <2>1, <2>2 DEF Registry!spent
<1> QED  BY <1>4, <1>5, <1>9, <1>10

LEMMA StoredStands ==
  ASSUME RegistryInv, NEW i \in Ids, cRows[i] # << >>
  PROVE  IsTyped(i, cRows[i]) /\ Holds(cRows[i], trail[i]) /\ Stands(cRows[i], want[i], cNow)
BY RegistryParts DEF RowAt, RowIs

(* Columns that are written hold what was written, the others what was.    *)
LEMMA PatchHas ==
  ASSUME conf \in Configs, Accepted, NEW i, NEW patch, NEW n \in Managed
  PROVE  Patch(i, patch)[n] = IF n \in DOMAIN patch THEN Registry!encode(n, patch[n]) ELSE cRows[i][n]
BY AcceptedIs DEF Patch

LEMMA PublishKeeps ==
  ASSUME RegistryInv, KeysAreNotFields, TakedownsAreRead, phase = "up",
         NEW i \in Ids, NEW caller \in Viewers, Registry!collectionPublish(i, caller)
  PROVE  RegistryInv'
<1> DEFINE patch ==
      [n \in {"status"} \cup (IF Has("scheduling") THEN {"publishedAt", "scheduledAt"} ELSE {})
               \cup (IF Has("scheduling") /\ Registry!spent(i, caller) THEN {"unpublishAt"} ELSE {})
         |-> CASE n = "status" -> Registry!Published
               [] n = "publishedAt" -> Registry!Instant(cNow) [] OTHER -> Registry!Null]
           w == [up |-> TRUE, until |-> IF want[i].until <= cNow THEN -1 ELSE want[i].until]
<1>1. /\ said = Registry!NoAnswer /\ cRows[i] # << >> /\ caller # {} /\ Has("drafts")
      /\ Registry!Moves(i, patch, w)
  BY StoredIs DEF Registry!collectionPublish, Registry!Edit, Registry!Serves, Has
<1>2. conf \in Configs /\ Accepted  BY RegistryParts DEF RegistryInv
<1>3. Stands(cRows[i], want[i], cNow)  BY <1>1, StoredStands
<1>4. cNow \in Nat /\ want[i] \in Wants  BY RegistryParts
<1>5. w \in Wants  BY <1>4 DEF Wants
<1>6. /\ "status" \in Managed
      /\ Has("scheduling") => {"publishedAt", "scheduledAt", "unpublishAt"} \subseteq Managed
  BY <1>1, <1>2, FeatureColumns
<1>7. DOMAIN patch \subseteq Managed  BY <1>6
<1>8. ASSUME NEW n \in DOMAIN patch PROVE Sound(n, patch[n]) /\ Registry!encode(n, patch[n]) = patch[n]
  <2>1. n \in Managed  BY <1>7
  <2>2. patch[n] \in {Registry!Null, Registry!Published, Registry!Instant(cNow)}  OBVIOUS
  <2> QED  BY <1>2, <1>4, <2>1, <2>2, WordsAreSound
<1>9. Stands(Patch(i, patch), w, cNow)
  <2>1. Patch(i, patch).status = Registry!Published
    <3>1. "status" \in DOMAIN patch /\ patch["status"] = Registry!Published  OBVIOUS
    <3> HIDE DEF patch
    <3> QED  BY <1>2, <1>6, <1>8, <3>1, PatchHas
  <2>2. ASSUME Has("scheduling") PROVE Patch(i, patch).publishedAt = Registry!Instant(cNow)
    <3>1. "publishedAt" \in DOMAIN patch /\ patch["publishedAt"] = Registry!Instant(cNow)  BY <2>2
    <3> HIDE DEF patch
    <3> QED  BY <1>2, <1>6, <1>8, <2>2, <3>1, PatchHas
  <2>3. ASSUME Has("scheduling")
        PROVE  /\ w.until = -1 => Patch(i, patch).unpublishAt = Registry!Null
               /\ w.until # -1 => w.until \in 0..MaxSchedule
                    /\ Patch(i, patch).unpublishAt = Registry!Instant(w.until)
    <3>1. Registry!spent(i, caller) <=> want[i].until # -1 /\ want[i].until <= cNow
      BY <1>1, <2>3, TakedownIsRead
    <3>2. CASE Registry!spent(i, caller)
      <4>1. "unpublishAt" \in DOMAIN patch /\ patch["unpublishAt"] = Registry!Null  BY <2>3, <3>2
      <4> HIDE DEF patch
      <4>2. Patch(i, patch).unpublishAt = Registry!Null  BY <1>2, <1>6, <1>8, <2>3, <4>1, PatchHas
      <4> QED  BY <3>1, <3>2, <4>2
    <3>3. CASE ~Registry!spent(i, caller)
      <4>1. "unpublishAt" \notin DOMAIN patch  BY <3>3
      <4>2. Patch(i, patch).unpublishAt = cRows[i].unpublishAt  BY <1>2, <1>6, <2>3, <4>1, PatchHas
      <4>3. w.until = want[i].until  BY <1>4, <3>1, <3>3 DEF Wants
      <4> QED  BY <1>3, <2>3, <4>2, <4>3 DEF Stands
    <3> QED  BY <3>2, <3>3
  <2>4. ~Has("scheduling") => w.until = -1  BY <1>3, <1>4 DEF Stands
  <2>5. w.up  OBVIOUS
  <2> HIDE DEF patch, w
  <2> QED  BY <1>4, <2>1, <2>2, <2>3, <2>4, <2>5 DEF Stands
<1> HIDE DEF patch, w
<1> QED  BY <1>1, <1>5, <1>7, <1>8, <1>9, MovesKeeps

LEMMA UnpublishKeeps ==
  ASSUME RegistryInv, KeysAreNotFields, phase = "up",
         NEW i \in Ids, NEW caller, Registry!collectionUnpublish(i, caller)
  PROVE  RegistryInv'
<1> DEFINE patch ==
      [n \in {"status"} \cup (IF Has("scheduling") THEN Registry!FEATURE_COLUMNS("scheduling") ELSE {})
         |-> IF n = "status" THEN Registry!Draft ELSE Registry!Null]
           w == Registry!NoWant
<1>1. /\ said = Registry!NoAnswer /\ cRows[i] # << >> /\ Has("drafts")
      /\ Registry!Moves(i, patch, w)
  BY StoredIs DEF Registry!collectionUnpublish, Registry!Edit, Registry!Serves, Has
<1>2. conf \in Configs /\ Accepted  BY RegistryParts DEF RegistryInv
<1>3. Registry!FEATURE_COLUMNS("scheduling") = {"publishedAt", "scheduledAt", "unpublishAt"}
  BY DEF Registry!FEATURE_COLUMNS
<1>4. w \in Wants /\ w.until = -1 /\ ~w.up  BY DEF Wants, Registry!NoWant
<1>5. /\ "status" \in Managed
      /\ Has("scheduling") => {"publishedAt", "scheduledAt", "unpublishAt"} \subseteq Managed
  BY <1>1, <1>2, FeatureColumns
<1>6. DOMAIN patch \subseteq Managed  BY <1>3, <1>5
<1>7. ASSUME NEW n \in DOMAIN patch PROVE Sound(n, patch[n]) /\ Registry!encode(n, patch[n]) = patch[n]
  <2>1. n \in Managed  BY <1>6
  <2>2. patch[n] \in {Registry!Null, Registry!Draft}  OBVIOUS
  <2> QED  BY <1>2, <2>1, <2>2, WordsAreSound
<1>8. Stands(Patch(i, patch), w, cNow)
  <2>1. Patch(i, patch).status = Registry!Draft
    <3>1. "status" \in DOMAIN patch /\ patch["status"] = Registry!Draft  OBVIOUS
    <3> QED  BY <1>2, <1>5, <1>7, <3>1, PatchHas
  <2>2. ASSUME Has("scheduling"), NEW n \in {"publishedAt", "unpublishAt"}
        PROVE  Patch(i, patch)[n] = Registry!Null
    <3>1. n \in DOMAIN patch /\ patch[n] = Registry!Null  BY <1>3, <2>2
    <3> HIDE DEF patch
    <3> QED  BY <1>2, <1>5, <1>7, <2>2, <3>1, PatchHas
  <2> HIDE DEF patch, w
  <2> QED  BY <1>4, <2>1, <2>2 DEF Stands
<1> HIDE DEF patch, w
<1> QED  BY <1>1, <1>4, <1>6, <1>7, <1>8, MovesKeeps

LEMMA ScheduleKeeps ==
  ASSUME RegistryInv, KeysAreNotFields, TakedownsAreRead, phase = "up",
         NEW i \in Ids, NEW caller \in Viewers,
         NEW at \in -1..(MaxDate + 1), NEW takedown \in -2..(MaxDate + 1),
         Registry!collectionSchedule(i, at, takedown, caller)
  PROVE  RegistryInv'
<1> DEFINE standing == IF "unpublishAt" \in Registry!Readable(caller)
                       THEN Registry!Read(i, caller).unpublishAt ELSE Registry!Null
           effective == CASE takedown = -1 -> standing [] takedown = -2 -> Registry!Null
                          [] OTHER -> Registry!Instant(takedown)
           patch == [n \in {"scheduledAt"} \cup (IF takedown = -1 THEN {} ELSE {"unpublishAt"})
                       |-> IF n = "scheduledAt" THEN Registry!Instant(at) ELSE effective]
           w == [want[i] EXCEPT !.until =
                   CASE takedown = -1 -> @ [] takedown = -2 -> -1 [] OTHER -> takedown]
<1>1. /\ said = Registry!NoAnswer /\ cRows[i] # << >> /\ Has("scheduling")
      /\ Registry!epochInput(at) /\ (takedown >= 0 => Registry!epochInput(takedown))
      /\ \/ Registry!Moves(i, patch, w)
         \/ at > MaxDate \/ takedown > MaxDate
  BY StoredIs DEF Registry!collectionSchedule, Registry!Edit, Registry!Serves, Has
<1>2. conf \in Configs /\ Accepted  BY RegistryParts DEF RegistryInv
<1>3. /\ MaxDate \in Nat /\ MaxSchedule \in Nat /\ MaxSchedule < MaxDate
      /\ cNow \in Nat /\ want[i] \in Wants
  BY RegistryParts
<1>4. at \in 0..MaxSchedule /\ (takedown >= 0 => takedown \in 0..MaxSchedule)
  BY <1>1, <1>3 DEF Registry!epochInput
<1>5. Registry!Moves(i, patch, w)  BY <1>1, <1>3, <1>4
<1>6. Stands(cRows[i], want[i], cNow)  BY <1>1, StoredStands
<1>7. w \in Wants  BY <1>3 DEF Wants
<1>8. {"scheduledAt", "unpublishAt", "publishedAt"} \subseteq Managed /\ "status" \in Managed
  BY <1>1, <1>2, FeatureColumns
<1>9. DOMAIN patch \subseteq Managed  BY <1>8
<1>10. ASSUME NEW n \in DOMAIN patch
       PROVE  Sound(n, patch[n]) /\ Registry!encode(n, patch[n]) = patch[n]
  <2>1. n \in Managed  BY <1>9
  <2>2. CASE n = "scheduledAt"
    BY <1>2, <1>4, <2>1, <2>2, WordsAreSound
  <2>3. CASE n # "scheduledAt" /\ takedown = -2
    BY <1>2, <2>1, <2>3, WordsAreSound
  <2>4. CASE n # "scheduledAt" /\ takedown >= 0
    BY <1>2, <2>1, <2>4, WordsAreSound
  <2>5. CASE n # "scheduledAt" /\ takedown = -1
    BY <2>5
  <2> QED  BY <1>3, <2>2, <2>3, <2>4, <2>5
<1>11. Stands(Patch(i, patch), w, cNow)
  <2>1. /\ Patch(i, patch).status = cRows[i].status
        /\ Patch(i, patch).publishedAt = cRows[i].publishedAt
    <3>1. "status" \notin DOMAIN patch /\ "publishedAt" \notin DOMAIN patch  OBVIOUS
    <3> QED  BY <1>2, <1>8, <3>1, PatchHas
  <2>2. w.up = want[i].up  BY <1>3 DEF Wants
  <2>3. CASE takedown = -1
    <3>1. "unpublishAt" \notin DOMAIN patch  BY <2>3
    <3>2. Patch(i, patch).unpublishAt = cRows[i].unpublishAt  BY <1>2, <1>8, <3>1, PatchHas
    <3>3. w.until = want[i].until  BY <1>3, <2>3 DEF Wants
    <3> HIDE DEF patch, w
    <3> QED  BY <1>1, <1>6, <2>1, <2>2, <3>2, <3>3 DEF Stands
  <2>4. CASE takedown = -2
    <3>1. "unpublishAt" \in DOMAIN patch /\ patch["unpublishAt"] = Registry!Null  BY <2>4
    <3>2. Patch(i, patch).unpublishAt = Registry!Null  BY <1>2, <1>8, <1>10, <3>1, PatchHas
    <3>3. w.until = -1  BY <1>3, <2>4 DEF Wants
    <3> HIDE DEF patch, w
    <3> QED  BY <1>1, <1>6, <2>1, <2>2, <3>2, <3>3 DEF Stands
  <2>5. CASE takedown >= 0
    <3>1. "unpublishAt" \in DOMAIN patch /\ patch["unpublishAt"] = Registry!Instant(takedown)
      BY <2>5
    <3>2. Patch(i, patch).unpublishAt = Registry!Instant(takedown)
      BY <1>2, <1>8, <1>10, <3>1, PatchHas
    <3>3. w.until = takedown  BY <1>3, <2>5 DEF Wants
    <3> HIDE DEF patch, w
    <3> QED  BY <1>1, <1>4, <1>6, <2>1, <2>2, <2>5, <3>2, <3>3 DEF Stands
  <2> QED  BY <1>3, <2>3, <2>4, <2>5
<1> HIDE DEF patch, w, effective, standing
<1> QED  BY <1>1, <1>5, <1>7, <1>9, <1>10, <1>11, MovesKeeps

(* A write that a gap stops.                                               *)
LEMMA GapKeeps ==
  ASSUME RegistryInv, phase = "up", Registry!StopsAtGap, UNCHANGED <<conf, phase, cNow>>
  PROVE  RegistryInv'
<1>1. said'.kind = "gap" /\ UNCHANGED <<cRows, revs, failed, trail, want>>
  BY DEF Registry!StopsAtGap, Registry!NoAnswer
<1>2. Registry!ListsAreOrdered'  BY <1>1 DEF Registry!ListsAreOrdered
<1>3. cNow \in Nat /\ cNow <= MaxInstant /\ MaxInstant \in Nat
  BY RegistryConstants DEF RegistryInv, RegistryTyped, Registry!RegistryAssumption
<1> QED  BY <1>1, <1>2, <1>3, RowsRest

(* What the schema puts into a column that was not sent.                   *)
LEMMA UnwrittenIs ==
  ASSUME cNow \in Nat, NEW i \in Ids, NEW n \in DOMAIN Cols, n # Registry!PrimaryKey(Cols)
  PROVE  LET v == Registry!decode(n, Registry!unwritten(i)[n]) IN
           /\ Registry!unwritten(i)[n] \in Registry!Cells
           /\ v \in Registry!Cells /\ ~v.quoted /\ v.kind # "document"
           /\ v = Registry!Null => Registry!unwritten(i)[n] = Registry!Null
<1> DEFINE u == Registry!unwritten(i)[n]
<1>1. u = Registry!Null \/ u = Registry!Instant(cNow) \/ u = Registry!encode(n, Registry!Default)
  BY DEF Registry!unwritten, Cols
<1> HIDE DEF u
<1>2. CASE u = Registry!Null
  BY <1>2, WordsAreCells DEF Registry!decode, Registry!Cells, u
<1>3. CASE u = Registry!Instant(cNow)
  <2>1. Registry!decode(n, u) = u
    <3>1. u \in Registry!Cells /\ ~u.quoted  BY <1>3, WordsAreCells
    <3>2. [u EXCEPT !.quoted = FALSE] = u  BY <3>1 DEF Registry!Cells
    <3> QED  BY <3>2 DEF Registry!decode
  <2> QED  BY <1>3, <2>1, WordsAreCells DEF u
<1>4. CASE u = Registry!encode(n, Registry!Default)
  <2>1. /\ Registry!Default \in Registry!Cells /\ Registry!Default.kind = "word"
        /\ ~Registry!Default.quoted
    BY DEF Registry!Default, Registry!Cell, Registry!Cells
  <2>2. Registry!Default # Registry!Null  BY <2>1, WordsAreCells
  <2>3. Sound(n, Registry!Default)  BY <2>1, <2>2 DEF Sound, Registry!binds, Cols
  <2> QED  BY <1>4, <2>1, <2>2, <2>3, EncodedIs DEF u
<1> QED  BY <1>1, <1>2, <1>3, <1>4 DEF u

LEMMA CreatedKeeps ==
  ASSUME RegistryInv, KeysAreNotFields, phase = "up",
         NEW i \in Ids, NEW bag \in Registry!Bags, Registry!collectionCreate(i, bag)
  PROVE  RegistryInv'
<1> DEFINE given == Registry!toColumns(bag)
           values == Registry!Merge(Registry!managedSeed, given)
           written == Registry!Merge(values, Registry!unwritten(i))
           r == Registry!Merge(Registry!Encoded(values), Registry!unwritten(i))
           content == [n \in Fields |->
             IF n \in DOMAIN bag THEN bag[n] ELSE Registry!decode(n, Registry!unwritten(i)[n])]
           t == [trail[i] EXCEPT !.content = content]
<1> SUFFICES ASSUME ~Registry!StopsAtGap PROVE RegistryInv'
  BY GapKeeps DEF Registry!collectionCreate
<1>1. /\ said = Registry!NoAnswer /\ cRows[i] = << >> /\ Registry!Gaps(written) = {}
      /\ UNCHANGED <<conf, phase, cNow>>
      /\ \/ /\ cRows' = [cRows EXCEPT ![i] = r]
            /\ trail' = [trail EXCEPT ![i].content = content]
            /\ UNCHANGED <<revs, said, failed, want>>
         \/ ~(Registry!Reachable /\ Registry!Fits(values))
  BY StoredIs DEF Registry!collectionCreate, Registry!Edit, Registry!Serves, Fields
<1>2. conf \in Configs /\ Accepted /\ RowAt(i) /\ trail[i] \in Trails /\ revs[i] \in Seq(Contents)
      /\ want[i] \in Wants /\ cNow \in Nat
  BY RegistryParts DEF RegistryInv
<1>3. /\ trail[i] = Registry!NoTrail /\ want[i] = Registry!NoWant
      /\ Has("revisions") => revs[i] = << >>
  BY <1>1, <1>2 DEF RowAt, RowIs, Registry!NoTrail
<1> DEFINE Sent == Fields \cap DOMAIN bag
<1>4. /\ DOMAIN given = Sent /\ \A n \in Sent : given[n] = bag[n]
  BY DEF Registry!toColumns, Fields
<1>5. /\ DOMAIN Registry!managedSeed = Managed
      /\ \A n \in Managed : Registry!managedSeed[n] =
           IF n = "status" THEN Registry!Draft ELSE Registry!Null
  BY DEF Registry!managedSeed, Managed
<1>6. /\ Fields \subseteq DOMAIN Cols /\ Managed \subseteq DOMAIN Cols
      /\ \A n \in Fields : n \notin Managed
      /\ IdField \in DOMAIN Cols /\ Registry!PrimaryKey(Cols) = IdField /\ Registry!Reachable
  BY <1>2, AcceptedIs
<1>7. /\ DOMAIN values = Managed \cup Sent
      /\ \A n \in Managed : values[n] = IF n = "status" THEN Registry!Draft ELSE Registry!Null
      /\ \A n \in Sent : values[n] = bag[n]
  BY <1>4, <1>5, <1>6 DEF Registry!Merge
<1>8. \A n \in Managed : Sound(n, values[n]) /\ Registry!encode(n, values[n]) = values[n]
  BY <1>2, <1>7, WordsAreSound
<1> HIDE DEF values, given
<1>9. DOMAIN Registry!unwritten(i) = DOMAIN Cols  BY DEF Registry!unwritten, Cols
<1>10. ASSUME NEW n \in Fields
       PROVE  /\ n \in DOMAIN Cols /\ n # Registry!PrimaryKey(Cols)
              /\ n \in Sent /\ bag[n] = Registry!Null => ~Cols[n].notNull
              /\ n \notin Sent /\ Registry!unwritten(i)[n] = Registry!Null => ~Cols[n].notNull
  <2>1. n \in DOMAIN Cols /\ n # Registry!PrimaryKey(Cols) /\ n \notin Managed  BY <1>6, KeyStays
  <2>2. n \in DOMAIN written
        /\ written[n] = IF n \in Sent THEN bag[n] ELSE Registry!unwritten(i)[n]
    BY <1>7, <1>9, <2>1 DEF Registry!Merge
  <2>3. n \notin Registry!Gaps(written)  BY <1>1
  <2>4. written[n] = Registry!Null => ~Cols[n].notNull
    BY <2>1, <2>2, <2>3 DEF Registry!Gaps, Cols, Managed
  <2> QED  BY <2>1, <2>2, <2>4
<1>11. /\ \A n \in Sent : Sound(n, values[n])
       /\ \A n \in Fields : Sound(n, content[n])
  <2>1. ASSUME NEW n \in Sent PROVE Sound(n, bag[n])  BY <1>2, <1>10, SentIsSound
  <2>2. ASSUME NEW n \in Fields, n \notin Sent
        PROVE  Sound(n, Registry!decode(n, Registry!unwritten(i)[n]))
    BY <1>2, <1>10, <2>2, UnwrittenIs DEF Sound, Registry!binds, Cols
  <2> QED  BY <1>7, <2>1, <2>2
<1>12. Registry!Fits(values)  BY <1>7, <1>8, <1>11 DEF Registry!Fits, Sound
<1>13. /\ DOMAIN Registry!Encoded(values) = Managed \cup Sent
       /\ \A n \in Managed \cup Sent : Registry!Encoded(values)[n] = Registry!encode(n, values[n])
  BY <1>7 DEF Registry!Encoded
<1>14. /\ DOMAIN r = DOMAIN Cols /\ r = [n \in DOMAIN Cols |-> r[n]]
       /\ \A n \in Managed : r[n] = values[n]
       /\ \A n \in Sent : r[n] = Registry!encode(n, values[n])
       /\ \A n \in DOMAIN Cols : n \notin Managed \cup Sent => r[n] = Registry!unwritten(i)[n]
  BY <1>6, <1>8, <1>9, <1>13 DEF Registry!Merge
<1> HIDE DEF r, written
<1>15. IsTyped(i, r)
  <2>1. Registry!unwritten(i)[IdField] = Registry!Cell("id", "", i)
    BY <1>6 DEF Registry!unwritten, Cols
  <2>2. i \in Int  BY RegistryConstants DEF Registry!RegistryAssumption
  <2>3. r[IdField] = Registry!Cell("id", "", i) /\ r[IdField] \in Registry!Cells
    <3>1. r[IdField] = Registry!unwritten(i)[IdField]  BY <1>6, <1>14, KeyStays
    <3>2. Registry!Cell("id", "", i) \in Registry!Cells  BY <2>2, CellIs
    <3> QED  BY <2>1, <3>1, <3>2
  <2>4. \A n \in Sent : r[n] \in Registry!Cells  BY <1>11, <1>14, EncodedIs
  <2>5. \A n \in Managed : r[n] \in Registry!Cells  BY <1>8, <1>14 DEF Sound
  <2>6. \A n \in DOMAIN Cols : n \notin Managed \cup Sent /\ n # IdField => r[n] \in Registry!Cells
    BY <1>2, <1>6, <1>14, UnwrittenIs
  <2>7. \A n \in DOMAIN Cols : r[n] \in Registry!Cells  BY <2>3, <2>4, <2>5, <2>6
  <2> QED  BY <1>14, <2>3, <2>7 DEF IsTyped
<1>16. content \in Contents
  <2>1. \A n \in Fields : content[n] \in Registry!Cells  BY <1>11 DEF Sound
  <2> QED  BY <1>11, <2>1 DEF Contents
<1>17. t.content = content /\ t.past = << >> /\ t \in Trails
  <2> HIDE DEF content
  <2>1. t = [content |-> content, past |-> << >>]  BY <1>3 DEF Registry!NoTrail
  <2>2. << >> \in Seq(Contents)  BY NoneIsSeq
  <2> QED  BY <1>16, <2>1, <2>2 DEF Trails
<1>18. Holds(r, t)
  <2>1. ASSUME NEW n \in Sent PROVE Registry!decode(n, r[n]) = content[n]
    BY <1>7, <1>11, <1>14, EncodedIs
  <2>2. ASSUME NEW n \in Fields, n \notin Sent PROVE Registry!decode(n, r[n]) = content[n]
    BY <1>6, <1>14, <2>2
  <2> HIDE DEF content
  <2>3. \A n \in Fields : Registry!decode(n, r[n]) = content[n]  BY <2>1, <2>2
  <2> QED  BY <1>16, <1>17, <2>3 DEF Holds
<1>19. Stands(r, want[i], cNow)
  <2>1. ~want[i].up /\ want[i].until = -1  BY <1>3 DEF Registry!NoWant
  <2>2. /\ Has("drafts") => r.status = Registry!Draft
        /\ Has("scheduling") => r.unpublishAt = Registry!Null /\ r.publishedAt = Registry!Null
    BY <1>2, <1>7, <1>14, FeatureColumns
  <2> QED  BY <2>1, <2>2 DEF Stands
<1>20. r # << >>  BY <1>6, <1>14
<1>21. RowIs(i, r, revs[i], t, want[i], cNow)
  BY <1>3, <1>15, <1>17, <1>18, <1>19, <1>20 DEF RowIs
<1>22. /\ cRows' = [cRows EXCEPT ![i] = r] /\ trail' = [trail EXCEPT ![i] = t]
       /\ UNCHANGED <<revs, said, failed, want>>
  BY <1>1, <1>6, <1>12
<1>23. revs' = [revs EXCEPT ![i] = revs[i]] /\ want' = [want EXCEPT ![i] = want[i]]
  BY <1>22 DEF RegistryInv, RegistryTyped
<1> HIDE DEF t
<1> QED  BY <1>1, <1>2, <1>17, <1>21, <1>22, <1>23, RowMoves

LEMMA DeleteKeeps ==
  ASSUME RegistryInv, phase = "up", NEW i \in Ids, Registry!collectionDelete(i)
  PROVE  RegistryInv'
<1> DEFINE h == IF Has("revisions") THEN << >> ELSE revs[i]
<1>1. said = Registry!NoAnswer /\ cRows[i] # << >>
  BY StoredIs DEF Registry!collectionDelete, Registry!Edit, Registry!Serves
<1>2. Registry!mayWrite(i, << >>)
  <2>1. Patches(<< >>)  BY DEF Patches
  <2> QED  BY <1>1, <2>1, PatchIs
<1>3. /\ cRows' = [cRows EXCEPT ![i] = << >>]
      /\ revs' = IF Has("revisions") THEN [revs EXCEPT ![i] = << >>] ELSE revs
      /\ trail' = [trail EXCEPT ![i] = Registry!NoTrail]
      /\ want' = [want EXCEPT ![i] = Registry!NoWant]
      /\ UNCHANGED <<failed, conf, phase, cNow, said>>
  BY <1>1, <1>2, WrittenIs DEF Registry!collectionDelete, Registry!NoRow, Has
<1>4. revs' = [revs EXCEPT ![i] = h]  BY <1>3 DEF RegistryInv, RegistryTyped
<1>5. /\ h \in Seq(Contents) /\ Registry!NoTrail \in Trails /\ Registry!NoWant \in Wants
  BY RegistryParts DEF Trails, Wants, Registry!NoTrail, Registry!NoWant
<1>6. RowIs(i, << >>, h, Registry!NoTrail, Registry!NoWant, cNow)
  BY DEF RowIs, Registry!NoTrail
<1> HIDE DEF h
<1> QED  BY <1>1, <1>3, <1>4, <1>5, <1>6, RowMoves

(* A write of fields.                                                      *)
LEMMA FieldsKeep ==
  ASSUME RegistryInv, KeysAreNotFields, phase = "up", said = Registry!NoAnswer,
         NEW i \in Ids, cRows[i] # << >>, NEW patch,
         DOMAIN patch \subseteq Fields, \A n \in DOMAIN patch : Sound(n, patch[n]),
         NEW h \in Seq(Contents), NEW content, NEW past \in Seq(Contents),
         content = [n \in Fields |-> IF n \in DOMAIN patch THEN patch[n] ELSE trail[i].content[n]],
         Has("revisions") => h = past,
         Registry!mayWrite(i, patch) =>
           /\ \E j \in Registry!Written(i) : cRows' = Registry!Put(j, patch)
           /\ revs' = [revs EXCEPT ![i] = h]
           /\ trail' = [trail EXCEPT ![i] = [content |-> content, past |-> past]]
           /\ UNCHANGED <<said, failed, want>>,
         UNCHANGED <<conf, phase, cNow>>
  PROVE  RegistryInv'
<1> DEFINE t == [content |-> content, past |-> past]
<1>1. conf \in Configs /\ Accepted  BY RegistryParts DEF RegistryInv
<1>2. /\ Fields \subseteq DOMAIN Cols /\ Managed \subseteq DOMAIN Cols
      /\ \A n \in Fields : n \notin Managed
      /\ IdField \in DOMAIN Cols
  BY <1>1, AcceptedIs
<1>3. Patches(patch)  BY <1>2, KeyStays DEF Patches
<1>4. /\ Registry!mayWrite(i, patch)
      /\ Registry!Put(i, patch) = [cRows EXCEPT ![i] = Patch(i, patch)]
      /\ IsTyped(i, Patch(i, patch))
  BY <1>3, PatchIs
<1>5. /\ cRows' = [cRows EXCEPT ![i] = Patch(i, patch)] /\ revs' = [revs EXCEPT ![i] = h]
      /\ trail' = [trail EXCEPT ![i] = t] /\ UNCHANGED <<said, failed, want>>
  BY <1>4, WrittenIs
<1>6. IsTyped(i, cRows[i]) /\ Holds(cRows[i], trail[i]) /\ Stands(cRows[i], want[i], cNow)
  BY StoredStands
<1>7. ASSUME NEW n \in Fields
      PROVE  Sound(n, content[n]) /\ Registry!decode(n, Patch(i, patch)[n]) = content[n]
  <2>1. CASE n \in DOMAIN patch  BY <1>2, <2>1, EncodedIs DEF Patch
  <2>2. CASE n \notin DOMAIN patch  BY <1>2, <1>6, <2>2 DEF Patch, Holds, Contents
  <2> QED  BY <2>1, <2>2
<1>8. content \in Contents
  <2>1. \A n \in Fields : content[n] \in Registry!Cells  BY <1>7 DEF Sound
  <2> QED  BY <1>7, <2>1 DEF Contents
<1>9. t \in Trails  BY <1>8 DEF Trails
<1>10. Holds(Patch(i, patch), t)  BY <1>7, <1>8 DEF Holds
<1>11. Stands(Patch(i, patch), want[i], cNow)
  <2>1. \A n \in Managed : Patch(i, patch)[n] = cRows[i][n]
    BY <1>1, <1>2, PatchHas
  <2>2. /\ Has("drafts") => Patch(i, patch).status = cRows[i].status
        /\ Has("scheduling") => /\ Patch(i, patch).unpublishAt = cRows[i].unpublishAt
                                /\ Patch(i, patch).publishedAt = cRows[i].publishedAt
    BY <1>1, <2>1, FeatureColumns
  <2> QED  BY <1>6, <2>2 DEF Stands
<1>12. Patch(i, patch) # << >>  BY <1>2 DEF Patch
<1>13. RowIs(i, Patch(i, patch), h, t, want[i], cNow)
  BY <1>4, <1>10, <1>11, <1>12 DEF RowIs
<1>14. want' = [want EXCEPT ![i] = want[i]] /\ want[i] \in Wants
  BY <1>5, RegistryParts DEF RegistryInv, RegistryTyped
<1> HIDE DEF t
<1> QED  BY <1>5, <1>9, <1>13, <1>14, RowMoves

LEMMA RawIs ==
  ASSUME RegistryInv, NEW i \in Ids, cRows[i] # << >>, NEW caller
  PROVE  /\ trail[i].content \in Contents
         /\ Registry!snapshotRow(i, caller) =
              IF Has("revisions") THEN [revs EXCEPT ![i] = Append(@, trail[i].content)] ELSE revs
<1>1. Holds(cRows[i], trail[i])  BY StoredStands
<1>2. Registry!rawFieldValues(i, caller) = trail[i].content
  BY <1>1 DEF Holds, Contents, Registry!rawFieldValues, Fields
<1> QED  BY <1>1, <1>2 DEF Holds, Registry!snapshotRow, Has

LEMMA UpdateKeeps ==
  ASSUME RegistryInv, KeysAreNotFields, phase = "up",
         NEW i \in Ids, NEW bag \in Registry!Bags, NEW caller, Registry!collectionUpdate(i, bag, caller)
  PROVE  RegistryInv'
<1> DEFINE patch == Registry!toColumns(bag)
           kept == caller # {} /\ Has("revisions")
           h == IF kept THEN Append(revs[i], trail[i].content) ELSE revs[i]
           past == IF kept THEN Append(trail[i].past, trail[i].content) ELSE trail[i].past
           content == [n \in Fields |-> IF n \in DOMAIN patch THEN patch[n] ELSE trail[i].content[n]]
           moved == [n \in Fields |-> IF n \in DOMAIN bag THEN bag[n] ELSE trail[i].content[n]]
<1> SUFFICES ASSUME ~Registry!StopsAtGap PROVE RegistryInv'
  BY GapKeeps DEF Registry!collectionUpdate
<1>1. /\ said = Registry!NoAnswer /\ cRows[i] # << >> /\ UNCHANGED <<conf, phase, cNow>>
      /\ Registry!mayWrite(i, patch) \/ Registry!Gaps(patch) = {}
      /\ Registry!mayWrite(i, patch) =>
           /\ \E j \in Registry!Written(i) : cRows' = Registry!Put(j, patch)
           /\ revs' = IF caller # {} THEN Registry!snapshotRow(i, caller) ELSE revs
           /\ trail' = Registry!Onward(i, moved, kept)
           /\ UNCHANGED <<said, failed, want>>
  BY StoredIs DEF Registry!collectionUpdate, Registry!Edit, Registry!Serves, Fields, Has
<1>2. conf \in Configs /\ Accepted /\ RowAt(i) /\ trail[i] \in Trails /\ revs[i] \in Seq(Contents)
  BY RegistryParts DEF RegistryInv
<1>3. DOMAIN patch \subseteq Fields /\ (\A n \in Fields : n \in DOMAIN patch <=> n \in DOMAIN bag)
      /\ \A n \in DOMAIN patch : patch[n] = bag[n] /\ n \in DOMAIN bag
  BY DEF Registry!toColumns, Fields
<1>4. \A n \in DOMAIN patch : Sound(n, patch[n])
  <2> SUFFICES ASSUME NEW n \in DOMAIN patch PROVE Sound(n, patch[n])
    OBVIOUS
  <2>1. n \in DOMAIN Cols /\ n \notin Managed /\ n # Registry!PrimaryKey(Cols)
    BY <1>2, <1>3, AcceptedIs, KeyStays
  <2>2. patch[n] = Registry!Null => ~Cols[n].notNull
    BY <1>1, <2>1
    DEF Registry!Gaps, Registry!mayWrite, Registry!Fits, Registry!binds, Cols, Managed
  <2> QED  BY <1>2, <1>3, <2>2, SentIsSound
<1> HIDE DEF patch
<1>5. moved = content  BY <1>3
<1>6. revs \in [Ids -> Seq(Contents)] /\ trail \in [Ids -> Trails]
  BY DEF RegistryInv, RegistryTyped
<1>7. trail[i].content \in Contents  BY <1>1, RawIs
<1>8. h \in Seq(Contents) /\ past \in Seq(Contents)  BY <1>2, <1>7 DEF Trails
<1>9. Has("revisions") => h = past  BY <1>2 DEF RowAt, RowIs
<1>10. (IF caller # {} THEN Registry!snapshotRow(i, caller) ELSE revs) = [revs EXCEPT ![i] = h]
  BY <1>1, <1>6, RawIs
<1>11. Registry!Onward(i, content, kept) = [trail EXCEPT ![i] = [content |-> content, past |-> past]]
  BY <1>6 DEF Registry!Onward
<1> HIDE DEF h, past, kept, moved
<1> QED
  <2>1. Registry!mayWrite(i, patch) =>
           /\ \E j \in Registry!Written(i) : cRows' = Registry!Put(j, patch)
           /\ revs' = [revs EXCEPT ![i] = h]
           /\ trail' = [trail EXCEPT ![i] = [content |-> content, past |-> past]]
           /\ UNCHANGED <<said, failed, want>>
    BY <1>1, <1>5, <1>10, <1>11
  <2> QED  BY <1>1, <1>3, <1>4, <1>8, <1>9, <2>1, FieldsKeep

LEMMA RestoreKeeps ==
  ASSUME RegistryInv, KeysAreNotFields, phase = "up",
         NEW i \in Ids, NEW k \in DOMAIN revs[i], NEW caller,
         Registry!collectionRestoreRevision(i, k, caller)
  PROVE  RegistryInv'
<1> DEFINE patch == Registry!toColumns(Registry!projectSnapshot(revs[i][k], caller))
           h == Append(revs[i], trail[i].content)
           past == Append(trail[i].past, trail[i].content)
           content == [n \in Fields |-> IF n \in DOMAIN patch THEN patch[n] ELSE trail[i].content[n]]
           moved == [n \in Fields |->
                       IF n \in caller THEN trail[i].past[k][n] ELSE trail[i].content[n]]
<1>1. /\ said = Registry!NoAnswer /\ cRows[i] # << >> /\ Has("revisions")
      /\ UNCHANGED <<conf, phase, cNow>>
      /\ Registry!mayWrite(i, patch) =>
           /\ \E j \in Registry!Written(i) : cRows' = Registry!Put(j, patch)
           /\ revs' = Registry!snapshotRow(i, caller)
           /\ trail' = Registry!Onward(i, moved, TRUE)
           /\ UNCHANGED <<said, failed, want>>
  BY StoredIs DEF Registry!collectionRestoreRevision, Registry!Edit, Registry!Serves, Fields, Has
<1>2. conf \in Configs /\ Accepted /\ RowAt(i) /\ trail[i] \in Trails /\ revs[i] \in Seq(Contents)
  BY RegistryParts DEF RegistryInv
<1>3. revs[i] = trail[i].past  BY <1>1, <1>2 DEF RowAt, RowIs
<1>4. revs[i][k] \in Contents  BY <1>2
<1>5. DOMAIN revs[i][k] = Fields /\ \A n \in Fields : Sound(n, revs[i][k][n])
  BY <1>4 DEF Contents
<1>6. \A n \in Fields : n \in Registry!Readable(caller) <=> n \in caller
  BY <1>2, AcceptedIs DEF Registry!Readable, Cols
<1>7. /\ DOMAIN patch \subseteq Fields
      /\ \A n \in Fields : n \in DOMAIN patch <=> n \in caller
      /\ \A n \in DOMAIN patch : patch[n] = revs[i][k][n]
  BY <1>5, <1>6 DEF Registry!toColumns, Registry!projectSnapshot, Fields
<1>8. \A n \in DOMAIN patch : Sound(n, patch[n])  BY <1>5, <1>7
<1> HIDE DEF patch
<1>9. moved = content  BY <1>3, <1>7
<1>10. revs \in [Ids -> Seq(Contents)] /\ trail \in [Ids -> Trails]
  BY DEF RegistryInv, RegistryTyped
<1>11. trail[i].content \in Contents  BY <1>1, RawIs
<1>12. h \in Seq(Contents) /\ past \in Seq(Contents)  BY <1>2, <1>11 DEF Trails
<1>13. h = past  BY <1>3
<1>14. Registry!snapshotRow(i, caller) = [revs EXCEPT ![i] = h]
  BY <1>1, <1>10, RawIs
<1>15. Registry!Onward(i, content, TRUE) = [trail EXCEPT ![i] = [content |-> content, past |-> past]]
  BY <1>10 DEF Registry!Onward
<1> HIDE DEF h, past, moved
<1> QED
  <2>1. Registry!mayWrite(i, patch) =>
           /\ \E j \in Registry!Written(i) : cRows' = Registry!Put(j, patch)
           /\ revs' = [revs EXCEPT ![i] = h]
           /\ trail' = [trail EXCEPT ![i] = [content |-> content, past |-> past]]
           /\ UNCHANGED <<said, failed, want>>
    BY <1>1, <1>9, <1>14, <1>15
  <2> QED  BY <1>1, <1>7, <1>8, <1>12, <1>13, <2>1, FieldsKeep

-----------------------------------------------------------------------------
(* Lists and histories.                                                    *)

LEMMA CellsHaveInstants ==
  ASSUME RegistryInv, NEW i \in Ids, cRows[i] # << >>, NEW n \in DOMAIN Cols
  PROVE  cRows[i][n].at \in Int
BY StoredStands DEF IsTyped, Registry!Cells

LEMMA ListKeeps ==
  ASSUME RegistryInv, phase = "up", NEW limit \in Limits, NEW caller,
         Registry!collectionList(limit, caller)
  PROVE  RegistryInv'
<1> DEFINE n == Registry!clamped(limit)
           column == Registry!orderByOf
           present == {i \in Ids : Registry!Stored(i)}
           size == IF n < Cardinality(present) THEN n ELSE Cardinality(present)
<1>1. conf \in Configs /\ Accepted /\ cNow \in Nat /\ cNow <= MaxInstant
  BY RegistryConstants DEF RegistryInv, RegistryTyped, Registry!RegistryAssumption
<1>2. PICK s \in Registry!PagesOf(n, column) :
        said' = [Registry!NoAnswer EXCEPT !.kind = "list", !.to = caller, !.listed = s]
  BY <1>1, AcceptedIs DEF Registry!collectionList
<1>3. UNCHANGED <<conf, cRows, revs, trail, want, failed, phase, cNow>>
  BY <1>1, AcceptedIs DEF Registry!collectionList
<1>4. said'.kind = "list" /\ said'.listed = s  BY <1>2 DEF Registry!NoAnswer
<1>5. n \in Nat /\ n <= MaxListed /\ MaxListed \in Nat
  BY RegistryConstants DEF Registry!RegistryAssumption, Registry!clamped
<1>6. Cardinality(present) \in Nat
  <2>1. IsFiniteSet(Ids)
    BY RegistryConstants DEF Registry!RegistryAssumption, Registry!IsFiniteSet, IsFiniteSet
  <2>2. IsFiniteSet(present)  BY <2>1, FS_Subset
  <2> QED  BY <2>2, FS_CardinalityType
<1>7. size \in Nat /\ size <= MaxListed  BY <1>5, <1>6
<1>8. /\ s \in [1..size -> present]
      /\ \A a, b \in 1..size : a < b => ~Registry!Above(s[b], s[a], column)
      /\ \A i \in present : (\E a \in 1..size : Registry!Above(i, s[a], column)) =>
           \E a \in 1..size : s[a] = i
  BY DEF Registry!PagesOf, Registry!Cardinality, Cardinality
<1> HIDE DEF size, n
<1>9. s \in Seq(present) /\ Len(s) = size  BY <1>7, <1>8
<1>10. DOMAIN s = 1..size  BY <1>8
<1>11. Registry!c0.orderBy \in DOMAIN Cols \cup {""}  BY <1>1, AcceptedIs
<1>12. ASSUME NEW i \in present PROVE ~Registry!Above(i, i, column)
  BY <1>12, StoredIs, CellsHaveInstants DEF Registry!Above, Cols
<1>13. ASSUME NEW i \in present, NEW a \in 1..size, Registry!Above(i, s[a], column)
       PROVE  \E b \in 1..(a - 1) : s[b] = i
  <2>1. PICK b \in 1..size : s[b] = i  BY <1>8, <1>13
  <2>2. s[a] \in present  BY <1>8
  <2>3. b # a  BY <1>12, <1>13, <2>1, <2>2
  <2>4. ~(a < b)  BY <1>8, <1>13, <2>1
  <2> QED  BY <1>7, <2>1, <2>3, <2>4
<1>14. Registry!columns0' = Registry!columns0 /\ Registry!c0' = Registry!c0
       /\ \A i : (Registry!Stored(i))' <=> Registry!Stored(i)
  BY <1>3 DEF Registry!columns0, Registry!c0, Registry!Stored
<1>15. ASSUME NEW i \in Ids, NEW a \in DOMAIN s, Registry!Stored(i),
              IF Registry!c0.orderBy # ""
              THEN cRows[i][Registry!c0.orderBy].at > cRows[s[a]][Registry!c0.orderBy].at
              ELSE "createdAt" \in DOMAIN Registry!columns0
                   /\ cRows[i].createdAt.at > cRows[s[a]].createdAt.at
       PROVE  \E b \in 1..(a - 1) : s[b] = i
  <2>1. Registry!Above(i, s[a], column)
    BY <1>11, <1>15 DEF Registry!Above, Registry!orderByOf, Cols
  <2> QED  BY <1>10, <1>13, <1>15, <2>1
<1>16. Registry!ListsAreOrdered'
  BY <1>3, <1>4, <1>7, <1>9, <1>11, <1>14, <1>15 DEF Registry!ListsAreOrdered, Cols
<1> QED  BY <1>1, <1>3, <1>4, <1>16, RowsRest

LEMMA HistoryKeeps ==
  ASSUME RegistryInv, phase = "up", NEW i, NEW caller, Registry!collectionListRevisions(i, caller)
  PROVE  RegistryInv'
<1>1. UNCHANGED <<conf, cRows, revs, trail, want, failed, phase, cNow>>
  BY DEF Registry!collectionListRevisions
<1>2. /\ said'.kind = "history" /\ said'.to = caller
      /\ said'.shown = UNION {DOMAIN Registry!projectSnapshot(revs[i][k], caller) : k \in DOMAIN revs[i]}
  BY DEF Registry!collectionListRevisions, Registry!NoAnswer
<1>3. \A k \in DOMAIN revs[i] : DOMAIN Registry!projectSnapshot(revs[i][k], caller) \subseteq caller
  BY DEF Registry!projectSnapshot, Registry!Readable
<1>4. said'.shown \subseteq said'.to  BY <1>2, <1>3
<1>5. Registry!ListsAreOrdered'  BY <1>2 DEF Registry!ListsAreOrdered
<1>6. cNow \in Nat /\ cNow <= MaxInstant
  BY RegistryConstants DEF RegistryInv, RegistryTyped, Registry!RegistryAssumption
<1> QED  BY <1>1, <1>4, <1>5, <1>6, RowsRest

LEMMA RegistryInit == Registry!Init => RegistryInv
<1> SUFFICES ASSUME Registry!Init PROVE RegistryInv
  OBVIOUS
<1>1. /\ conf \in Configs /\ phase = "new" /\ cNow = 0 /\ ~failed /\ said = Registry!NoAnswer
      /\ cRows = [i \in Ids |-> << >>] /\ revs = [i \in Ids |-> << >>]
      /\ trail = [i \in Ids |-> Registry!NoTrail] /\ want = [i \in Ids |-> Registry!NoWant]
  BY DEF Registry!Init, Registry!NoRow
<1>2. MaxInstant \in Nat  BY RegistryConstants DEF Registry!RegistryAssumption
<1>3. Registry!NoTrail \in Trails /\ Registry!NoWant \in Wants /\ << >> \in Seq(Contents)
  BY DEF Trails, Wants, Registry!NoTrail, Registry!NoWant
<1>4. RegistryTyped  BY <1>1, <1>2, <1>3 DEF RegistryTyped
<1>5. \A i \in Ids : RowAt(i)  BY <1>1 DEF RowAt, RowIs, Registry!NoTrail
<1>6. Registry!ListsAreOrdered  BY <1>1, NoAnswerIs DEF Registry!ListsAreOrdered
<1> QED  BY <1>1, <1>4, <1>5, <1>6, NoAnswerIs DEF RegistryInv

LEMMA BootKeeps ==
  ASSUME RegistryInv, Registry!createCollectionHandlers
  PROVE  RegistryInv'
<1>1. /\ phase = "new" /\ phase' \in {"up", "refused"} /\ (phase' = "up" => Accepted)
      /\ UNCHANGED <<conf, cNow, cRows, revs, said, failed, trail, want>>
  BY DEF Registry!createCollectionHandlers, Accepted
<1>2. Contents' = Contents /\ Trails' = Trails /\ (Accepted' <=> Accepted)
  BY <1>1, SameConf DEF Trails
<1>3. RegistryTyped'  BY <1>1, <1>2 DEF RegistryInv, RegistryTyped, Wants
<1>4. ASSUME NEW i \in Ids PROVE RowAt(i)'
  <2>1. RowIs(i, cRows[i], revs[i], trail[i], want[i], cNow)  BY RegistryParts DEF RowAt
  <2> QED  BY <1>1, <2>1, SameRow
<1>5. Registry!ListsAreOrdered'  BY <1>1, SameList DEF RegistryInv
<1>6. said = Registry!NoAnswer /\ \A i \in Ids : cRows[i] = << >>  BY <1>1 DEF RegistryInv
<1> QED  BY <1>1, <1>2, <1>3, <1>4, <1>5, <1>6, NoAnswerIs DEF RegistryInv, Registry!NoAnswer

LEMMA RegistryStep ==
  ASSUME KeysAreNotFields, TakedownsAreRead
  PROVE  RegistryInv /\ [Registry!Next]_registryVars => RegistryInv'
<1> SUFFICES ASSUME RegistryInv, [Registry!Next]_registryVars PROVE RegistryInv'
  OBVIOUS
<1>1. cNow \in 0..MaxInstant /\ MaxInstant \in Nat
  BY RegistryConstants DEF RegistryInv, RegistryTyped, Registry!RegistryAssumption
<1>2. CASE UNCHANGED registryVars
  <2>1. UNCHANGED <<conf, phase, cNow, cRows, revs, said, failed, trail, want>>
    BY <1>2 DEF registryVars
  <2>2. Registry!ListsAreOrdered'  BY <2>1, SameList DEF RegistryInv
  <2> QED  BY <1>1, <2>1, <2>2, RowsRest DEF RegistryInv
<1>3. CASE Registry!createCollectionHandlers  BY <1>3, BootKeeps
<1>4. CASE Registry!tick
  <2>1. /\ phase = "up" /\ cNow < MaxInstant /\ cNow' = cNow + 1
        /\ UNCHANGED <<conf, phase, cRows, revs, said, failed, trail, want>>
    BY <1>4 DEF Registry!tick
  <2>2. Registry!ListsAreOrdered'  BY <2>1, SameList DEF RegistryInv
  <2> QED  BY <1>1, <2>1, <2>2, RowsRest DEF RegistryInv
<1>5. CASE Registry!heard
  <2>1. /\ said # Registry!NoAnswer /\ said' = Registry!NoAnswer
        /\ UNCHANGED <<conf, phase, cNow, cRows, revs, failed, trail, want>>
    BY <1>5 DEF Registry!heard
  <2>2. Registry!ListsAreOrdered'  BY <2>1, NoAnswerIs DEF Registry!ListsAreOrdered
  <2>3. phase = "up"  BY <2>1 DEF RegistryInv
  <2> QED  BY <1>1, <2>1, <2>2, <2>3, NoAnswerIs, RowsRest
<1>6. ASSUME NEW limit \in Limits, NEW caller \in Viewers, Registry!collectionList(limit, caller)
      PROVE  RegistryInv'
  BY <1>6, ListKeeps DEF Registry!collectionList, Registry!Serves
<1>7. ASSUME NEW i \in Ids, NEW bag \in Registry!Bags, Registry!collectionCreate(i, bag)
      PROVE  RegistryInv'
  BY <1>7, CreatedKeeps DEF Registry!collectionCreate, Registry!Edit, Registry!Serves
<1>8. ASSUME NEW i \in Ids, Registry!collectionDelete(i) PROVE RegistryInv'
  BY <1>8, DeleteKeeps DEF Registry!collectionDelete, Registry!Edit, Registry!Serves
<1>9. ASSUME NEW i \in Ids, NEW caller \in Viewers, NEW bag \in Registry!Bags,
             Registry!collectionUpdate(i, bag, caller)
      PROVE  RegistryInv'
  BY <1>9, UpdateKeeps DEF Registry!collectionUpdate, Registry!Edit, Registry!Serves
<1>10. ASSUME NEW i \in Ids, NEW caller \in Viewers, Registry!collectionPublish(i, caller)
       PROVE  RegistryInv'
  BY <1>10, PublishKeeps DEF Registry!collectionPublish, Registry!Edit, Registry!Serves
<1>11. ASSUME NEW i \in Ids, NEW caller \in Viewers, Registry!collectionUnpublish(i, caller)
       PROVE  RegistryInv'
  BY <1>11, UnpublishKeeps DEF Registry!collectionUnpublish, Registry!Edit, Registry!Serves
<1>12. ASSUME NEW i \in Ids, NEW caller \in Viewers,
              NEW at \in -1..(MaxDate + 1), NEW until \in -2..(MaxDate + 1),
              Registry!collectionSchedule(i, at, until, caller)
       PROVE  RegistryInv'
  BY <1>12, ScheduleKeeps DEF Registry!collectionSchedule, Registry!Edit, Registry!Serves
<1>13. ASSUME NEW i \in Ids, NEW caller \in Viewers, Registry!collectionListRevisions(i, caller)
       PROVE  RegistryInv'
  BY <1>13, HistoryKeeps DEF Registry!collectionListRevisions, Registry!Serves
<1>14. ASSUME NEW i \in Ids, NEW caller \in Viewers, NEW k \in DOMAIN revs[i],
              Registry!collectionRestoreRevision(i, k, caller)
       PROVE  RegistryInv'
  BY <1>14, RestoreKeeps DEF Registry!collectionRestoreRevision, Registry!Edit, Registry!Serves
<1> QED
  BY <1>2, <1>3, <1>4, <1>5, <1>6, <1>7, <1>8, <1>9, <1>10, <1>11, <1>12, <1>13, <1>14
  DEF Registry!Next

-----------------------------------------------------------------------------
(* What the invariant says of the public scope: it is that of the one      *)
(* collection of the entity, and the workflow's columns say what was asked.*)
LEMMA PublicIs ==
  ASSUME RegistryInv, phase = "up", NEW i \in Ids
  PROVE  Registry!PublicSees(i) <=>
           /\ Registry!Stored(i) /\ Registry!has(Registry!c0, "drafts") /\ want[i].up
           /\ want[i].until = -1 \/ want[i].until > cNow
<1>1. conf \in Configs /\ Accepted  BY RegistryParts DEF RegistryInv
<1>2. 1 \in DOMAIN conf.registry  BY <1>1, RegistryConstants DEF Registry!RegistryAssumption
<1>3. \A k \in DOMAIN conf.registry : conf.registry[k].entity = Registry!c0.entity => k = 1
  BY <1>1, <1>2 DEF Accepted, Registry!validateCollections, Registry!ownEntity, Registry!c0
<1>4. (\E k \in DOMAIN conf.registry : Registry!grants(conf.registry[k], cRows[i]))
        <=> Registry!grants(Registry!c0, cRows[i])
  BY <1>2, <1>3 DEF Registry!grants, Registry!c0
<1>5. CASE cRows[i] = << >>  BY <1>5, StoredIs DEF Registry!PublicSees
<1>6. CASE cRows[i] # << >>
  <2>1. Stands(cRows[i], want[i], cNow)  BY <1>6, StoredStands
  <2>2. cNow \in 0..MaxSchedule /\ MaxSchedule \in Nat  BY RegistryParts
  <2>3. Has("scheduling") => Has("drafts")  BY <1>1, FeatureColumns
  <2>4. Has("drafts") => (cRows[i].status = Registry!Published <=> want[i].up)
    BY <2>1, WordsAreCells DEF Stands
  <2>5. ASSUME Has("scheduling") PROVE Registry!MayHaveBegun(cRows[i].publishedAt)
    <3>1. CASE cRows[i].publishedAt = Registry!Null  BY <3>1 DEF Registry!MayHaveBegun
    <3>2. CASE cRows[i].publishedAt # Registry!Null
      <4>1. PICK s \in 0..cNow : cRows[i].publishedAt = Registry!Instant(s)
        BY <2>1, <2>5, <3>2 DEF Stands
      <4>2. cRows[i].publishedAt.at = s  BY <2>2, <4>1, WordsAreCells
      <4>3. ~Registry!Before(cNow, s)  BY <2>2 DEF Registry!Before
      <4> QED  BY <4>2, <4>3 DEF Registry!MayHaveBegun
    <3> QED  BY <3>1, <3>2
  <2>6. ASSUME Has("scheduling")
        PROVE  Registry!IsNotOver(cRows[i].unpublishAt) <=> want[i].until = -1 \/ want[i].until > cNow
    <3>1. CASE want[i].until = -1  BY <2>1, <2>6, <3>1 DEF Stands, Registry!IsNotOver
    <3>2. CASE want[i].until # -1
      <4>1. want[i].until \in 0..MaxSchedule /\ cRows[i].unpublishAt = Registry!Instant(want[i].until)
        BY <2>1, <2>6, <3>2 DEF Stands
      <4>2. /\ cRows[i].unpublishAt.at = want[i].until /\ cRows[i].unpublishAt # Registry!Null
            /\ ~cRows[i].unpublishAt.quoted
        BY <2>2, <4>1, WordsAreCells
      <4>3. Registry!Before(cNow, want[i].until) <=> cNow < want[i].until
        BY <2>2, <4>1 DEF Registry!Before
      <4> QED  BY <2>2, <3>2, <4>1, <4>2, <4>3 DEF Registry!IsNotOver
    <3> QED  BY <3>1, <3>2
  <2>7. ~Has("scheduling") => want[i].until = -1  BY <2>1 DEF Stands
  <2> QED
    BY <1>4, <1>6, <2>3, <2>4, <2>5, <2>6, <2>7, StoredIs
    DEF Registry!PublicSees, Registry!grants, Has
<1> QED  BY <1>5, <1>6

LEMMA RegistryGives == RegistryInv => CollectionsKeepTheirWord
<1> SUFFICES ASSUME RegistryInv PROVE CollectionsKeepTheirWord
  OBVIOUS
<1>1. Registry!AcceptedWorks  BY DEF RegistryInv, Registry!AcceptedWorks
<1>2. Registry!PublicSeesPublished  BY PublicIs DEF Registry!PublicSeesPublished
<1>3. \A i \in Ids : Registry!Stored(i) =>
        \A n \in Fields : Registry!decode(n, cRows[i][n]) = trail[i].content[n]
  BY StoredIs, StoredStands DEF Holds
<1>4. Registry!HistoryIsWhole  BY <1>3 DEF RegistryInv, Registry!HistoryIsWhole, Fields
<1>5. Registry!ListsAreOrdered  BY DEF RegistryInv
<1> QED  BY <1>1, <1>2, <1>4, <1>5 DEF CollectionsKeepTheirWord

(* A registry that boots keeps its word to editors and to the public, for  *)
(* any schema and collections, rows, values and callers, if who publishes  *)
(* may read the takedown and no collection's primary key is a field.  A    *)
(* key that callers choose is one, and outside this theorem.               *)
THEOREM CollectionsDoAsTold ==
  ASSUME KeysAreNotFields, TakedownsAreRead
  PROVE  EdgesSpec => []CollectionsKeepTheirWord
<1>1. EdgesInit => RegistryInv  BY RegistryInit DEF EdgesInit
<1>2. RegistryInv /\ [EdgesNext]_edgeVars => RegistryInv'
  <2> SUFFICES ASSUME RegistryInv, [EdgesNext]_edgeVars PROVE RegistryInv'
    OBVIOUS
  <2>1. [Registry!Next]_registryVars
    <3>1. CASE UNCHANGED edgeVars  BY <3>1 DEF edgeVars
    <3>2. CASE EdgesNext  BY <3>2 DEF EdgesNext
    <3> QED  BY <3>1, <3>2
  <2> QED  BY <2>1, RegistryStep
<1> QED  BY <1>1, <1>2, RegistryGives, PTL DEF EdgesSpec
=============================================================================
