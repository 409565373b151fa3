------------------------- MODULE PolicyResolution -------------------------
(***************************************************************************)
(* policy/rag.py: the vector index every process keeps in one file, the    *)
(* resolver that accepts only canonical clauses of the deployed corpus,    *)
(* and the policy binding a Proposal carries until it is confirmed.        *)
(*                                                                         *)
(* A corpus is a set of clauses and changes with a deployment.  A content  *)
(* hash is the content itself, so an index entry is the clause it was      *)
(* built from.  Which clauses a query ranks first is left open.            *)
(***************************************************************************)
EXTENDS Integers, FiniteSets

CONSTANTS
    Services,     \* processes that share the index directory
    Corpora,      \* corpora that may be deployed, sets of clauses
    Scopes,       \* issue type, service level and region of a query
    TopK,         \* candidates of one query
    MaxTime,      \* the clock
    MaxDeploys

ASSUME PolicyConstants ==
    /\ TopK \in Nat \ {0} /\ MaxTime \in Nat /\ MaxDeploys \in Nat
    /\ \A corpus \in Corpora : IsFiniteSet(corpus) /\ corpus # {}
    \* PolicyCorpus.validate_corpus refuses ambiguous references.
    /\ \A corpus \in Corpora : \A c, d \in corpus :
         c.version = d.version /\ c.id = d.id => c = d

VARIABLES
    deployed,   \* the corpus a process was started with
    builder,    \* where a process is in build_or_load
    cached,     \* the index a process holds, NoIndex before
    indexFile,  \* the index file
    tmpFile,    \* the .tmp file that replaces it
    now,
    answer,     \* the last search, with what it was answered from
    binding,    \* the policy binding of the last proposed clause
    deploys

policyVars == <<deployed, builder, cached, indexFile, tmpFile, now, answer, binding, deploys>>

AbsentIndex == [clauses |-> {}, whole |-> FALSE, exists |-> FALSE]
TornIndex == [clauses |-> {}, whole |-> FALSE, exists |-> TRUE]
Index(corpus) == [clauses |-> corpus, whole |-> TRUE, exists |-> TRUE]
NoIndex == AbsentIndex

Clause(version, id, text, scope, from, until, poisoned) ==
    [version |-> version, id |-> id, text |-> text, scope |-> scope,
     from |-> from, until |-> until, poisoned |-> poisoned]
NoClause == Clause("none", "none", 0, "none", 0, 0, TRUE)

NoAnswer == [kind |-> "none", corpus |-> {}, scope |-> "none", time |-> 0,
             status |-> "none", clause |-> NoClause]

PolicyInit ==
    /\ deployed \in [Services -> Corpora]
    /\ builder = [s \in Services |-> "idle"]
    /\ cached = [s \in Services |-> NoIndex]
    /\ indexFile = AbsentIndex /\ tmpFile = AbsentIndex
    /\ now = 0 /\ answer = NoAnswer /\ binding = NoClause /\ deploys = 0

-----------------------------------------------------------------------------
(* LocalPolicyIndexStore                                                   *)

Reference(clause) == <<clause.version, clause.id>>

(* Variant: an index of the same clauses counts as current, whatever text it
   was built from. *)
MatchesSameClauses(index, corpus) ==
    index.whole /\ {Reference(c) : c \in index.clauses} = {Reference(c) : c \in corpus}

(* _load_if_current, _matches_current: a file that does not parse, or that was
   built from another corpus, is not loaded. *)
MatchesCurrent(index, corpus) == index.whole /\ index.clauses = corpus

LoadOrBuild(s) ==
    /\ builder[s] = "idle" /\ cached[s] = NoIndex
    /\ IF MatchesCurrent(indexFile, deployed[s])
       THEN cached' = [cached EXCEPT ![s] = indexFile] /\ UNCHANGED builder
       ELSE builder' = [builder EXCEPT ![s] = "build"] /\ UNCHANGED cached
    /\ UNCHANGED <<deployed, indexFile, tmpFile, now, answer, binding, deploys>>

(* write_text opens the shared .tmp and truncates it ... *)
OpenTmp(s) ==
    /\ builder[s] = "build"
    /\ builder' = [builder EXCEPT ![s] = "in_tmp"]
    /\ tmpFile' = TornIndex
    /\ UNCHANGED <<deployed, cached, indexFile, now, answer, binding, deploys>>

(* ... and writes it; two writers of one file may leave a mixture.  A file
   renamed by the other process meanwhile is written under its new name. *)
WriteTmp(s) ==
    /\ builder[s] \in {"in_tmp", "in_file"}
    /\ LET target == IF builder[s] = "in_tmp" THEN tmpFile ELSE indexFile
           alone == target = TornIndex /\ \A t \in Services \ {s} : builder[t] # builder[s]
       IN  \E content \in {Index(deployed[s])} \cup (IF alone THEN {} ELSE {TornIndex}) :
             IF builder[s] = "in_tmp" THEN tmpFile' = content /\ UNCHANGED indexFile
             ELSE indexFile' = content /\ UNCHANGED tmpFile
    /\ builder' = [builder EXCEPT ![s] = "replace"]
    /\ UNCHANGED <<deployed, cached, now, answer, binding, deploys>>

(* temporary.replace fails when the other process has renamed the file. *)
ReplaceIndex(s) ==
    /\ builder[s] = "replace"
    /\ IF tmpFile.exists
       THEN /\ indexFile' = tmpFile /\ tmpFile' = AbsentIndex
            /\ cached' = [cached EXCEPT ![s] = Index(deployed[s])]
            /\ builder' = [t \in Services |-> IF t = s THEN "idle"
                              ELSE IF builder[t] = "in_tmp" THEN "in_file" ELSE builder[t]]
       ELSE /\ builder' = [builder EXCEPT ![s] = "idle"]
            /\ UNCHANGED <<indexFile, tmpFile, cached>>
    /\ UNCHANGED <<deployed, now, answer, binding, deploys>>

(* A process ends at any point and starts again, with this corpus or another. *)
Deploy(s, corpus) ==
    /\ deploys < MaxDeploys
    /\ deploys' = deploys + 1
    /\ deployed' = [deployed EXCEPT ![s] = corpus]
    /\ builder' = [builder EXCEPT ![s] = "idle"]
    /\ cached' = [cached EXCEPT ![s] = NoIndex]
    /\ UNCHANGED <<indexFile, tmpFile, now, answer, binding>>

-----------------------------------------------------------------------------
(* PolicyResolver                                                          *)

WithinEffectiveWindow(clause, time) == clause.from <= time /\ time < clause.until

IsActiveAuthorityClause(clause, scope, time) ==
    /\ ~clause.poisoned /\ clause.scope = scope
    /\ WithinEffectiveWindow(clause, time)

AuthoritySet(corpus, scope, time) ==
    {c \in corpus : IsActiveAuthorityClause(c, scope, time)}

Lookup(corpus, reference) == {c \in corpus : Reference(c) = reference}

Resolved(status, clause) == [status |-> status, clause |-> clause]

Resolve(corpus, candidates, scope, time) ==
    LET authority == AuthoritySet(corpus, scope, time)
    IN  IF \E c \in candidates : Lookup(corpus, Reference(c)) = {}
        THEN Resolved("citation_not_found", NoClause)
        ELSE IF \E c \in candidates : Lookup(corpus, Reference(c)) # {c}
        THEN Resolved("citation_hash_mismatch", NoClause)
        ELSE IF Cardinality({c.version : c \in authority}) > 1
        THEN Resolved("VERSION_CONFLICT", NoClause)
        ELSE IF Cardinality(authority) > 1 THEN Resolved("duplicate_active_clause", NoClause)
        ELSE IF authority = {} THEN Resolved("NOT_APPLICABLE", NoClause)
        ELSE IF authority \subseteq candidates
        THEN Resolved("APPLICABLE", CHOOSE c \in authority : TRUE)
        ELSE Resolved("NO_HIT", NoClause)

(* _search: the best candidate may stay below minimum_similarity. *)
Search(s, scope) ==
    /\ cached[s] # NoIndex
    /\ \E candidates \in SUBSET cached[s].clauses :
         /\ Cardinality(candidates) <= TopK
         /\ candidates # cached[s].clauses => Cardinality(candidates) = TopK
         /\ \E result \in {Resolved("NO_HIT", NoClause),
                           Resolve(deployed[s], candidates, scope, now)} :
              /\ answer' = [kind |-> "search", corpus |-> deployed[s], scope |-> scope,
                            time |-> now, status |-> result.status, clause |-> result.clause]
              /\ binding' = IF result.status = "APPLICABLE" THEN result.clause ELSE binding
    /\ UNCHANGED <<deployed, builder, cached, indexFile, tmpFile, now, deploys>>

(* validate_policy_binding, when the Proposal is confirmed *)
BindingHolds(corpus, scope, time) ==
    /\ Lookup(corpus, Reference(binding)) = {binding}
    /\ IsActiveAuthorityClause(binding, scope, time)

ValidateBinding(s, scope) ==
    /\ binding # NoClause
    /\ answer' = [kind |-> "validation", corpus |-> deployed[s], scope |-> scope, time |-> now,
                  status |-> IF BindingHolds(deployed[s], scope, now) THEN "valid" ELSE "invalid",
                  clause |-> binding]
    /\ UNCHANGED <<deployed, builder, cached, indexFile, tmpFile, now, binding, deploys>>

Tick ==
    /\ now < MaxTime /\ now' = now + 1
    /\ UNCHANGED <<deployed, builder, cached, indexFile, tmpFile, answer, binding, deploys>>

PolicyNext ==
    \/ \E s \in Services :
         LoadOrBuild(s) \/ OpenTmp(s) \/ WriteTmp(s) \/ ReplaceIndex(s)
    \/ \E s \in Services, corpus \in Corpora : Deploy(s, corpus)
    \/ \E s \in Services, scope \in Scopes : Search(s, scope) \/ ValidateBinding(s, scope)
    \/ Tick

PolicySpec == PolicyInit /\ [][PolicyNext]_policyVars

-----------------------------------------------------------------------------
(* Properties                                                              *)

(* LocalPolicyIndexStore and PolicyResolver: whatever the processes that share
   the index directory write, crash over or deploy, an index that is loaded
   never makes a citation fail, APPLICABLE cites the one active clause of the
   deployed corpus, the other statuses say the corpus has none or several,
   and a binding that is accepted is, unchanged, an active clause of the
   corpus deployed by then. *)
ResolvesTheAuthority ==
    LET authority == AuthoritySet(answer.corpus, answer.scope, answer.time)
    IN  /\ answer.status \notin {"citation_not_found", "citation_hash_mismatch"}
        /\ answer.status = "APPLICABLE" => authority = {answer.clause}
        /\ answer.status = "NOT_APPLICABLE" => authority = {}
        /\ answer.status = "VERSION_CONFLICT" => Cardinality(authority) > 1
        /\ answer.status = "valid" => answer.clause \in authority
=============================================================================
