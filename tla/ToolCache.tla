----------------------------- MODULE ToolCache -----------------------------
(***************************************************************************)
(* CaseToolCache and the ways it is filled: by governed executions, and    *)
(* after a restart from the Case's persisted tool rows.                    *)
(*                                                                         *)
(* A query is a tool with its arguments; its cache key adds the revision   *)
(* of the source.  The history is the set of the Case's actual reads, each *)
(*   [run, tool, issue, source, attempt, status, value]                    *)
(* where issue is the issue argument (or "none") and attempt counts the    *)
(* calls of this tool in this Run.                                         *)
(***************************************************************************)
EXTENDS ObservationCore

Key(tool, issue, source) == <<tool, IssueArgument(tool, issue), source>>

NoEntry == [attempts |-> 0, status |-> "not_queried", value |-> NONE]

Entry(cache, key) == IF key \in DOMAIN cache THEN cache[key] ELSE NoEntry

(* CaseToolCache.get: completed evidence and final errors are reusable. *)
Reusable(cache, key) ==
    Entry(cache, key).status \in {"success", "non_retryable_error"}

(* Variant: one failed attempt already exhausts the retry. *)
RetryExhaustedAtOnce(cache, key) ==
    Entry(cache, key).status = "retryable_error"

(* Variant: a third attempt is let through. *)
RetryExhaustedTooLate(cache, key) ==
    Entry(cache, key).status = "retryable_error" /\ Entry(cache, key).attempts >= 3

(* CaseToolCache.retry_exhausted *)
RetryExhausted(cache, key) ==
    Entry(cache, key).status = "retryable_error" /\ Entry(cache, key).attempts >= 2

(* record_actual_attempt, then store. *)
Store(cache, key, status, value) ==
    [k \in DOMAIN cache \cup {key} |->
        IF k = key
          THEN [attempts |-> Entry(cache, key).attempts + 1,
                status |-> status, value |-> value]
          ELSE cache[k]]

(* _load_case_cache: every persisted read counts as an attempt under the
   current revision, its result is stored only if it was read there. *)
RebuildCache(history, source) ==
    LET keys == {<<h.tool, h.issue, source[h.tool]>> : h \in history}
        asked(key) == {h \in history : h.tool = key[1] /\ h.issue = key[2]}
        read(key) == {h \in asked(key) : h.source = key[3]}
        settled(key) == {h \in read(key) : h.status # "retryable_error"}
        latest(key) ==
            IF settled(key) # {} THEN CHOOSE h \in settled(key) : TRUE
            ELSE IF read(key) # {} THEN CHOOSE h \in read(key) : TRUE
            ELSE NoEntry
    IN  [key \in keys |-> [attempts |-> Cardinality(asked(key)),
                           status |-> latest(key).status,
                           value |-> latest(key).value]]
=============================================================================
