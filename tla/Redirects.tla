----------------------------- MODULE Redirects -----------------------------
(***************************************************************************)
(* URL redirects of the CMS (packages/cms/src/index.ts): the editor stores *)
(* a source and a target, a front end asks on a 404 whether the path that  *)
(* missed has a redirect.                                                  *)
(*                                                                         *)
(* A path is a name, whether it is percent-encoded, and how it ends:       *)
(* "plain" is /old, "slash" is /old/, "dot" is /old/. as typed.            *)
(***************************************************************************)
EXTENDS Integers, FiniteSets

CONSTANTS
  RowIds,
  PathNames

VARIABLES redirects   \* cms_redirects: a row, or None, for every id

Paths == [name : PathNames, encoded : BOOLEAN, end : {"plain", "slash", "dot"}]
Elsewhere == [name |-> 0, encoded |-> TRUE, end |-> "plain"]   \* an absolute url
None == [from |-> Elsewhere, to |-> Elsewhere, enabled |-> FALSE]
Stored == {r \in RowIds : redirects[r] # None}

(* new URL(path).pathname: encodes, and resolves the dot segment to a slash. *)
urlPathname(p) ==
  [name |-> p.name, encoded |-> TRUE, end |-> IF p.end = "dot" THEN "slash" ELSE p.end]

(* Trailing slashes off first, the URL parser after.                       *)
normalizeRedirectPath(p) ==
  urlPathname(IF p.end = "slash" THEN [p EXCEPT !.end = "plain"] ELSE p)

rawSelfRedirect(from, to) == from = to   \* a mutant
isSelfRedirect(from, to) ==
  /\ to # Elsewhere
  /\ normalizeRedirectPath(to) = from

taken(from) == \E r \in Stored : redirects[r].from = from

----------------------------------------------------------------------------

Init == redirects = [r \in RowIds |-> None]

createRedirect(r) ==
  /\ redirects[r] = None
  /\ \E raw \in Paths, to \in Paths \union {Elsewhere}, enabled \in BOOLEAN :
       LET from == normalizeRedirectPath(raw) IN
         /\ ~isSelfRedirect(from, to)
         /\ ~taken(from)
         /\ redirects' = [redirects EXCEPT ![r] =
              [from |-> from, to |-> to, enabled |-> enabled]]

(* updateRedirect: the ends the patch leaves out are those of the row.     *)
anyPatch(from, to, row) ==   \* a mutant: looks at the patch alone
  ~(from # row.from /\ to # row.to /\ isSelfRedirect(from, to))
mayBecome(from, to, row) ==
  /\ ~isSelfRedirect(from, to)
  /\ from # row.from => ~taken(from)

updateRedirect(r) ==
  /\ r \in Stored
  /\ \E from \in {redirects[r].from} \union {normalizeRedirectPath(p) : p \in Paths},
        to \in {redirects[r].to, Elsewhere} \union Paths, enabled \in BOOLEAN :
       /\ mayBecome(from, to, redirects[r])
       /\ redirects' = [redirects EXCEPT ![r] =
            [from |-> from, to |-> to, enabled |-> enabled]]

deleteRedirect(r) ==
  /\ r \in Stored
  /\ redirects' = [redirects EXCEPT ![r] = None]

Next == \E r \in RowIds : createRedirect(r) \/ updateRedirect(r) \/ deleteRedirect(r)

Spec == Init /\ [][Next]_redirects

----------------------------------------------------------------------------

(* resolveRedirect and redirectResponse: the rows a request is answered    *)
(* with, a request being an address the browser has parsed.                *)
resolveRedirect(address) ==
  {r \in Stored : /\ redirects[r].from = normalizeRedirectPath(address)
                  /\ redirects[r].enabled}

SendsBack(r) ==
  redirects[r].to # Elsewhere /\ r \in resolveRedirect(urlPathname(redirects[r].to))

(***************************************************************************)
(* The site never sends a visitor back to the address it was asked for:    *)
(* what a redirect points at is not answered by the same redirect, however *)
(* the two ends were typed, whichever end was edited last.  A target that  *)
(* ends in a dot segment is the one exception (see NoRedirectSendsBack).   *)
(***************************************************************************)
NoRedirectReturns ==
  \A r \in Stored : redirects[r].to.end # "dot" => ~SendsBack(r)

(***************************************************************************)
(* What the comment above isSelfRedirect says of the guard: a redirect     *)
(* whose destination resolves back to its own source is refused.  The code *)
(* lets one through: the slash is stripped before the URL parser turns     *)
(* "/old/." into "/old/", so that target is compared as "/old/".           *)
(***************************************************************************)
NoRedirectSendsBack == \A r \in Stored : ~SendsBack(r)
=============================================================================
