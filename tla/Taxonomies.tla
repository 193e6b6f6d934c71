----------------------------- MODULE Taxonomies -----------------------------
(***************************************************************************)
(* Vocabularies of the CMS and their terms (packages/cms/src/index.ts):    *)
(* term hierarchies kept by parent pointers, what a vocabulary applies to, *)
(* and the assignments of terms to pages and media through two junctions,  *)
(* whose rows go with their ends by foreign keys.                          *)
(*                                                                         *)
(* A handler is one atomic step, as on the Durable Object store.  Labels,  *)
(* slugs and positions of terms are left out.                              *)
(***************************************************************************)
EXTENDS Integers, FiniteSets

CONSTANTS
  TaxIds,
  TermIds,
  Targets,     \* TAXONOMY_TARGETS: one thing of each to classify
  MAX_TERM_DEPTH

VARIABLES
  tax,       \* cms_taxonomies
  term,      \* cms_terms
  thing,     \* the page and the media row: "live", "trashed", "gone"
  assigned   \* cms_page_terms and cms_media_terms: <<target, term>>

vars == <<tax, term, thing, assigned>>

None == 0

TaxonomiesAssumption ==
  /\ MAX_TERM_DEPTH \in Nat \ {0}
  /\ IsFiniteSet(TermIds)
  /\ None \notin TaxIds \cup TermIds

NoTax == [state |-> "none", hierarchical |-> FALSE, appliesTo |-> {}]
NoTerm == [tax |-> None, parent |-> None]

Terms(t) == {m \in TermIds : term[m].tax = t}
Stored == {m \in TermIds : term[m].tax # None}
Children(m) == {n \in Stored : term[n].parent = m}

(* taxonomyApplies: what is stored as NULL means every target; here it is  *)
(* the set of them all.                                                    *)
Applies(t, target) == target \in tax[t].appliesTo

----------------------------------------------------------------------------

Init ==
  /\ tax = [t \in TaxIds |-> NoTax]
  /\ term = [m \in TermIds |-> NoTerm]
  /\ thing = [g \in Targets |-> "live"]
  /\ assigned = {}

createTaxonomy(t) ==
  /\ tax[t].state = "none"
  /\ \E hierarchical \in BOOLEAN, appliesTo \in SUBSET Targets \ {{}} :
       tax' = [tax EXCEPT ![t] = [state |-> "stored", hierarchical |-> hierarchical,
                                  appliesTo |-> appliesTo]]
  /\ UNCHANGED <<term, thing, assigned>>

(* updateTaxonomy: no flattening while a term has a parent, no narrowing   *)
(* away from a target that still carries one of the terms.                 *)
anyFlat(t, hierarchical) == TRUE   \* a mutant
mayBe(t, hierarchical) ==
  tax[t].hierarchical /\ ~hierarchical => \A m \in Terms(t) : term[m].parent = None

pagesOnly(t, appliesTo) ==   \* a mutant: asks one junction
  \A m \in Terms(t) : <<"page", m>> \in assigned => "page" \in appliesTo
mayApplyTo(t, appliesTo) ==
  \A target \in Targets \ appliesTo :
    Applies(t, target) => \A m \in Terms(t) : <<target, m>> \notin assigned

updateTaxonomy(t) ==
  /\ tax[t].state = "stored"
  /\ \E hierarchical \in BOOLEAN, appliesTo \in SUBSET Targets \ {{}} :
       /\ mayBe(t, hierarchical)
       /\ mayApplyTo(t, appliesTo)
       /\ tax' = [tax EXCEPT ![t].hierarchical = hierarchical,
                             ![t].appliesTo = appliesTo]
  /\ UNCHANGED <<term, thing, assigned>>

(* Rows that go take with them, by their foreign keys, the terms, the      *)
(* assignments, and the parent pointers that named them.                   *)
Delete(gone) ==
  /\ term' = [m \in TermIds |->
       IF m \in gone THEN NoTerm
       ELSE IF term[m].parent \in gone THEN [term[m] EXCEPT !.parent = None]
       ELSE term[m]]
  /\ assigned' = {a \in assigned : a[2] \notin gone}

deleteTaxonomy(t) ==
  /\ tax[t].state = "stored"
  /\ tax' = [tax EXCEPT ![t] = NoTax]
  /\ Delete(Terms(t))
  /\ UNCHANGED thing

----------------------------------------------------------------------------

(* The ancestors met on the way up, the first one at level 1.              *)
Up(p) ==
  LET at[n \in 1..(Cardinality(TermIds) + 1)] ==
        IF n = 1 THEN p
        ELSE IF at[n - 1] = None THEN None ELSE term[at[n - 1]].parent
  IN at
Ancestors(p) == {Up(p)[n] : n \in DOMAIN Up(p)} \ {None}

(* subtreeHeight: the levels a term's own subtree occupies.                *)
subtreeHeight(m) ==
  LET below[n \in 1..(MAX_TERM_DEPTH + 2)] ==
        IF n = 1 THEN {m} ELSE UNION {Children(k) : k \in below[n - 1]}
  IN Cardinality({n \in DOMAIN below : below[n] # {}})

(* assertTermParent.  m is None for a new term.                            *)
parentAloneCounts(t, p, m) ==   \* a mutant: the subtree is not counted
  \/ p = None
  \/ /\ tax[t].hierarchical
     /\ Cardinality(Ancestors(p)) + 1 <= MAX_TERM_DEPTH
     /\ \A a \in Ancestors(p) : term[a].tax = t /\ a # m
mayHaveParent(t, p, m) ==
  \/ p = None
  \/ /\ tax[t].hierarchical
     /\ LET moving == IF m = None THEN 1 ELSE subtreeHeight(m)
        IN Cardinality(Ancestors(p)) + moving <= MAX_TERM_DEPTH
     /\ \A a \in Ancestors(p) : term[a].tax = t /\ a # m

createTerm(t, m) ==
  /\ tax[t].state = "stored"
  /\ m \notin Stored
  /\ \E p \in Stored \cup {None} :
       /\ mayHaveParent(t, p, None)
       /\ term' = [term EXCEPT ![m] = [tax |-> t, parent |-> p]]
  /\ UNCHANGED <<tax, thing, assigned>>

updateTerm(m) ==
  /\ m \in Stored
  /\ \E p \in Stored \cup {None} :
       /\ mayHaveParent(term[m].tax, p, m)
       /\ term' = [term EXCEPT ![m].parent = p]
  /\ UNCHANGED <<tax, thing, assigned>>

deleteTerm(m) ==
  /\ m \in Stored
  /\ Delete({m})
  /\ UNCHANGED <<tax, thing>>

(* setPageTerms, setMediaTerms: the whole selection, from vocabularies     *)
(* that apply.                                                             *)
anyTerms(wanted, target) == TRUE   \* a mutant
assertTermsApplyTo(wanted, target) ==
  \A m \in wanted : Applies(term[m].tax, target)

setTerms(target) ==
  /\ thing[target] = "live"
  /\ \E wanted \in SUBSET Stored :
       /\ assertTermsApplyTo(wanted, target)
       /\ assigned' = {a \in assigned : a[1] # target}
                        \cup {<<target, m>> : m \in wanted}
  /\ UNCHANGED <<tax, term, thing>>

(* Trashing keeps the assignments, purging cascades.                       *)
trash(target) ==
  /\ thing[target] \in {"live", "trashed"}
  /\ thing' = [thing EXCEPT ![target] = IF @ = "live" THEN "trashed" ELSE "live"]
  /\ UNCHANGED <<tax, term, assigned>>

purge(target) ==
  /\ thing[target] = "trashed"
  /\ thing' = [thing EXCEPT ![target] = "gone"]
  /\ assigned' = {a \in assigned : a[1] # target}
  /\ UNCHANGED <<tax, term>>

Next ==
  \/ \E t \in TaxIds :
       \/ createTaxonomy(t) \/ updateTaxonomy(t) \/ deleteTaxonomy(t)
       \/ \E m \in TermIds : createTerm(t, m)
  \/ \E m \in TermIds : updateTerm(m) \/ deleteTerm(m)
  \/ \E target \in Targets : setTerms(target) \/ trash(target) \/ purge(target)

Spec == Init /\ [][Next]_vars

----------------------------------------------------------------------------

(* buildTermTree: what hangs under the roots, level by level.              *)
Level(t) ==
  LET at[n \in 1..MAX_TERM_DEPTH] ==
        IF n = 1 THEN {m \in Terms(t) : term[m].parent \notin Terms(t) \ {m}}
        ELSE UNION {Children(m) \cap Terms(t) : m \in at[n - 1]}
  IN at

(* Every term of a vocabulary is in its tree, within the depth the code    *)
(* allows, under parents of the same vocabulary, and in a flat vocabulary  *)
(* at the top: no sequence of moves makes a cycle, a branch no listing     *)
(* reaches, or a level too many.                                           *)
TermsFormATree ==
  \A t \in TaxIds :
    /\ Terms(t) = UNION {Level(t)[n] : n \in 1..MAX_TERM_DEPTH}
    /\ \A m \in Terms(t) : term[m].parent \in Terms(t) \cup {None}
    /\ tax[t].state = "stored" /\ ~tax[t].hierarchical => Level(t)[1] = Terms(t)

(* Whatever is assigned can be seen and taken away in a panel: its term is *)
(* there and its vocabulary applies to what carries it, however the        *)
(* vocabulary was narrowed, and for what waits in the trash too.           *)
AssignmentsApply ==
  \A a \in assigned :
    /\ a[2] \in Stored
    /\ thing[a[1]] # "gone"
    /\ Applies(term[a[2]].tax, a[1])

============================================================================
