----------------------------- MODULE PreviewLinks -----------------------------
(***************************************************************************)
(* Signed preview links: signPagePreview and signCollectionPreview mint    *)
(* one, GET /cms/preview and GET /cms/preview/collection redeem it with    *)
(* no session (packages/cms/src/index.ts; isIdentityRevoked of             *)
(* @pramen/server's runtime/kv.ts; the accounts of @pramen/auth).          *)
(*                                                                         *)
(* A link is never stored, so it cannot be deleted: it dies by its expiry, *)
(* by the row leaving what its minter may read, or because the minter's    *)
(* session is found revoked.  The KV entries that say so expire too.  The  *)
(* clock counts in the least time to live that KV takes.                   *)
(*                                                                         *)
(* Abstracted: the signature (a link is redeemed as it was signed), the    *)
(* tenant in it, and the columns getCollectionPreview projects.  A session *)
(* belongs to a user, who holds one at a time.                             *)
(***************************************************************************)
EXTENDS Integers, FiniteSetsExt

CONSTANTS
  Users, Rows,
  Never,         \* no instant, nobody
  SessionTtl, DefaultTtl, Cap, RaisedTtl,
  MaxTime, MaxLinks    \* bounds

PreviewAssumption ==
  /\ Users # {} /\ Never \notin Users
  /\ SessionTtl \in Nat \ {0} /\ {DefaultTtl, Cap, RaisedTtl, MaxTime, MaxLinks} \subseteq Nat

VARIABLES
  now, raised,   \* maxPreviewTtlSeconds is set, to RaisedTtl
  row,           \* a page or a collection row: its owner, whether a read finds it
  user,          \* the account, its roles, its session, and KV's two entries
  minting,       \* the mint past the Worker's check
  links,
  shown

vars == <<now, raised, row, user, minting, links, shown>>

Roles == {"editor", "author", "__service"}
EditorRoles == {"editor", "author"}
Unseen == [link |-> Never, row |-> Never, as |-> {}]
NoMint == [by |-> Never, overtaken |-> FALSE]

----------------------------------------------------------------------------
(* The session a request presents, and isIdentityRevoked.                  *)

HasSession(u) == user[u].iat # Never /\ now < user[u].iat + SessionTtl
Iat(u) == IF user[u].unstamped THEN Never ELSE user[u].iat
isSessionDenied(u) == now < user[u].deniedUntil
isIssuedBeforeNotBefore(u, iat) ==
  now < user[u].notBeforeUntil /\ (iat = Never \/ iat < user[u].notBefore)
isIdentityRevoked(u, iat) == isSessionDenied(u) \/ isIssuedBeforeNotBefore(u, iat)

(* The row ACL of an app: an editor reads every row that is not in the     *)
(* trash, an author the rows that are theirs.                              *)
mayRead(u, roles, r) ==
  /\ row[r].found
  /\ "editor" \in roles \/ ("author" \in roles /\ row[r].owner = u)
mayCall(roles) == roles \intersect EditorRoles # {}

(* previewTtlFor.                                                          *)
asAsked(requested) == requested      \* a mutant
ceiling == Min({IF raised THEN RaisedTtl ELSE SessionTtl, Cap})
previewTtlFor(requested) == Max({1, Min({requested, ceiling})})

(* previewMinter.                                                          *)
ownRoles(roles) == roles \ {"__service"}

----------------------------------------------------------------------------
Init ==
  /\ now = 0
  /\ raised \in BOOLEAN
  /\ row = [r \in Rows |-> [found |-> TRUE, owner |-> CHOOSE u \in Users : TRUE]]
  /\ \E unstamped \in SUBSET Users, roles \in [Users -> {{"editor", "__service"}, {"author"}}] :
       user = [u \in Users |-> [active |-> TRUE, roles |-> roles[u], iat |-> Never, unstamped |-> u \in unstamped,
                                deniedUntil |-> 0, notBefore |-> 0, notBeforeUntil |-> 0]]
  /\ minting = NoMint
  /\ links = {}
  /\ shown = Unseen

tick ==
  /\ now < MaxTime
  /\ now' = now + 1
  /\ UNCHANGED <<raised, row, user, minting, links, shown>>

(* What a revocation does to the links signed before it.                   *)
Before(l, u) == l.by = u /\ (l.iat = Never \/ l.iat < now)
Retired(u) == {[l EXCEPT !.retired = @ \/ Before(l, u)] : l \in links}
Overtaken(u) == IF minting.by = u THEN [minting EXCEPT !.overtaken = TRUE] ELSE minting
Account(u, account) ==
  /\ user' = [user EXCEPT ![u] = account]
  /\ UNCHANGED <<now, raised, row, shown>>

login(u) ==
  /\ user[u].active
  /\ Account(u, [user[u] EXCEPT !.iat = now])
  /\ UNCHANGED <<minting, links>>

(* setUserActive: denySession, allowSession.                               *)
deactivate(u) ==
  /\ user[u].active
  /\ Account(u, [user[u] EXCEPT !.active = FALSE, !.deniedUntil = now + SessionTtl])
  /\ minting' = Overtaken(u)
  /\ UNCHANGED links

reactivate(u) ==
  /\ ~user[u].active
  /\ Account(u, [user[u] EXCEPT !.active = TRUE, !.deniedUntil = 0])
  /\ UNCHANGED <<minting, links>>

(* changePassword, resetPassword: setSessionNotBefore.  A link signed in   *)
(* the same second as the change, or later, is not issued before it.       *)
changeCredentials(u) ==
  /\ Account(u, [user[u] EXCEPT !.notBefore = now, !.notBeforeUntil = now + SessionTtl])
  /\ minting' = Overtaken(u)
  /\ links' = Retired(u)

setUserRoles(u) ==
  /\ Account(u, [user[u] EXCEPT !.roles = IF "editor" \in @ THEN {"author"} ELSE {"editor"}])
  /\ UNCHANGED <<minting, links>>

(* The row is trashed, restored, or given to somebody else.                *)
rowChanges(r) ==
  /\ \/ row' = [row EXCEPT ![r].found = ~@]
     \/ \E u \in Users \union {Never} : row' = [row EXCEPT ![r].owner = u]
  /\ UNCHANGED <<now, raised, user, minting, links, shown>>

----------------------------------------------------------------------------
(* signPagePreview, signCollectionPreview: the Worker checks the session,  *)
(* then the handler reads the row and signs.                               *)
signPagePreview(u) ==
  /\ minting = NoMint
  /\ Cardinality(links) < MaxLinks
  /\ HasSession(u)
  /\ ~isIdentityRevoked(u, Iat(u))
  /\ mayCall(user[u].roles)
  /\ minting' = [by |-> u, iat |-> Iat(u), roles |-> user[u].roles, overtaken |-> FALSE]
  /\ UNCHANGED <<now, raised, row, user, links, shown>>

signs(r, requested) ==
  /\ minting # NoMint
  /\ mayRead(minting.by, minting.roles, r)
  /\ links' = links \union
       {[by |-> minting.by, iat |-> minting.iat, roles |-> ownRoles(minting.roles), row |-> r,
         exp |-> now + previewTtlFor(requested),
         retired |-> FALSE, late |-> minting.overtaken]}
  /\ minting' = NoMint
  /\ UNCHANGED <<now, raised, row, user, shown>>

(* redeemerOf: whom a link reads as.                                       *)
sessionless(l) == [as |-> l.roles, refused |-> FALSE]        \* a mutant
redeemerOf(l) == [as |-> l.roles, refused |-> isIdentityRevoked(l.by, l.iat)]

(* getPagePreview and getCollectionPreview, called with the minter's roles *)
(* and id.                                                                 *)
readUnscoped(l) == row[l.row].found                          \* a mutant
getPagePreview(l) == mayCall(l.roles) /\ mayRead(l.by, l.roles, l.row)

redeem(l) ==
  /\ shown = Unseen
  /\ now < l.exp
  /\ ~redeemerOf(l).refused
  /\ getPagePreview(l)
  /\ shown' = [link |-> l, row |-> l.row, as |-> redeemerOf(l).as]
  /\ UNCHANGED <<now, raised, row, user, minting, links>>

closed ==
  /\ shown # Unseen
  /\ shown' = Unseen
  /\ UNCHANGED <<now, raised, row, user, minting, links>>

(* An answer is at once on the screen: nothing comes between.              *)
Next ==
  \/ /\ shown = Unseen
     /\ \/ tick
        \/ \E u \in Users : login(u) \/ deactivate(u) \/ reactivate(u) \/ changeCredentials(u)
                            \/ setUserRoles(u) \/ signPagePreview(u)
        \/ \E r \in Rows : rowChanges(r) \/ \E requested \in {0, DefaultTtl, MaxTime} : signs(r, requested)
  \/ \E l \in links : redeem(l)
  \/ closed

Spec == Init /\ [][Next]_vars

----------------------------------------------------------------------------
(* A link shows nothing once its minter is deactivated, or once the        *)
(* session it was minted from is retired by a credential change, however   *)
(* long ago the entry in KV that says so has expired; unless the           *)
(* deployment raised the ceiling, or the mint was already past the         *)
(* Worker's check when its user was revoked.                               *)
RevokedLinksStayShut ==
  shown # Unseen /\ ~raised /\ ~shown.link.late =>
    ~shown.link.retired /\ user[shown.link.by].active

(* What a link shows is a row its minter could read, had they asked now    *)
(* with the roles they signed with, and no role of the system is used.     *)
LinksReadAsTheirMinter ==
  shown # Unseen =>
    /\ row[shown.row].found
    /\ shown.as \subseteq EditorRoles
    /\ "editor" \in shown.as \/ row[shown.row].owner = shown.link.by

=============================================================================
