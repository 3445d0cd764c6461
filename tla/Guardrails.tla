----------------------------- MODULE Guardrails -----------------------------
(***************************************************************************)
(* GuardrailRegistry (guardrails.rs): every statement may refresh the      *)
(* allowlist from its file, is counted in a bounded table of observed      *)
(* fingerprints and is allowed or denied.  Evaluators run on several       *)
(* threads; the file, the allowlist and the time it was loaded are read    *)
(* and written one at a time, each step below being one such access.       *)
(***************************************************************************)
EXTENDS Naturals, FiniteSets

CONSTANTS
    Evaluator,        \* sessions that evaluate a statement
    Fingerprints,     \* fingerprints of statements; Empty is no fingerprint
    Empty,
    Statements,       \* statements: kind "dml", "ddl" or "other", and fingerprint
    Files,            \* contents of the file: sets of entries, or Invalid
    Invalid,          \* a file too large, too long or with a control character
    Modes,            \* the configured modes
    MAX_OBSERVATIONS, \* entries of the observation table
    MaxEdits,         \* bound: edits of the file
    MaxStatements     \* bound: statements evaluated

NoStatement == [kind |-> "none", fingerprint |-> Empty]

VARIABLES
    config,        \* mode and the two hard rules
    file,          \* the file: its entries and modification time
    allowlist,     \* the entries in force
    loaded_mtime,  \* the modification time they were loaded with
    observations,  \* how often each fingerprint was seen
    eval,          \* where each evaluator is, and what it has read
    used           \* edits and statements so far

vars == <<config, file, allowlist, loaded_mtime, observations, eval, used>>

Resting ==
    [at |-> "idle", statement |-> NoStatement, content |-> {}, mtime |-> 0, decision |-> "none"]

Init ==
    /\ config \in [mode : Modes, block_unqualified_dml : BOOLEAN, block_ddl : BOOLEAN]
    /\ file \in [content : Files \ {Invalid}, mtime : {1}]
    /\ allowlist = file.content
    /\ loaded_mtime = 1
    /\ observations = [f \in {} |-> 0]
    /\ eval = [e \in Evaluator |-> Resting]
    /\ used = [edits |-> 0, statements |-> 0]

(* The file is replaced; its modification time moves. *)
Edit(c) ==
    /\ used.edits < MaxEdits
    /\ c # file.content
    /\ file' = [content |-> c, mtime |-> file.mtime + 1]
    /\ used' = [used EXCEPT !.edits = @ + 1]
    /\ UNCHANGED <<config, allowlist, loaded_mtime, observations, eval>>

Sets(e, r) == eval' = [eval EXCEPT ![e] = r]
Registry == <<config, file, allowlist, loaded_mtime, observations>>

(* evaluate: mode Off allows at once. *)
Begin(e, s) ==
    /\ eval[e].at = "idle"
    /\ used.statements < MaxStatements
    /\ used' = [used EXCEPT !.statements = @ + 1]
    /\ Sets(e, IF config.mode = "off"
               THEN [Resting EXCEPT !.decision = "allow"]
               ELSE [Resting EXCEPT !.at = "stat", !.statement = s])
    /\ UNCHANGED Registry

(* refresh_allowlist_if_changed: the modification time is compared with    *)
(* the one the allowlist was loaded with.                                  *)
Stat(e) ==
    /\ eval[e].at = "stat"
    /\ Sets(e, [eval[e] EXCEPT !.at = IF file.mtime # loaded_mtime THEN "read" ELSE "count"])
    /\ UNCHANGED <<Registry, used>>

(* load_allowlist: the content is read, then the modification time, then   *)
(* the content is checked.                                                 *)
ReadContent(e) ==
    /\ eval[e].at = "read"
    /\ Sets(e, [eval[e] EXCEPT !.at = "mtime", !.content = file.content])
    /\ UNCHANGED <<Registry, used>>

ReadMtime(e) ==
    /\ eval[e].at = "mtime"
    /\ Sets(e, IF eval[e].content = Invalid
               THEN [eval[e] EXCEPT !.at = "count"]
               ELSE [eval[e] EXCEPT !.at = "replace", !.mtime = file.mtime])
    /\ UNCHANGED <<Registry, used>>

(* reload_allowlist: the entries and then the time, under separate locks. *)
Replace(e) ==
    /\ eval[e].at = "replace"
    /\ allowlist' = eval[e].content
    /\ Sets(e, [eval[e] EXCEPT !.at = "stamp"])
    /\ UNCHANGED <<config, file, loaded_mtime, observations, used>>

Stamp(e) ==
    /\ eval[e].at = "stamp"
    /\ loaded_mtime' = eval[e].mtime
    /\ Sets(e, [eval[e] EXCEPT !.at = "count"])
    /\ UNCHANGED <<config, file, allowlist, observations, used>>

Seen == DOMAIN observations
Incremented(table, f) ==
    [g \in DOMAIN table \cup {f} |->
        (IF g \in DOMAIN table THEN table[g] ELSE 0) + (IF g = f THEN 1 ELSE 0)]
Without(table, f) == [g \in DOMAIN table \ {f} |-> table[g]]

(* The fingerprint is counted under the lock of the table; a full table    *)
(* gives up some other fingerprint first.                                  *)
Count(e) ==
    LET f == eval[e].statement.fingerprint IN
    /\ eval[e].at = "count"
    /\ \/ /\ f = Empty
          /\ UNCHANGED observations
       \/ /\ f # Empty
          /\ f \in Seen \/ Cardinality(Seen) < MAX_OBSERVATIONS
          /\ observations' = Incremented(observations, f)
       \/ /\ f # Empty
          /\ f \notin Seen /\ Cardinality(Seen) >= MAX_OBSERVATIONS
          /\ \E oldest \in Seen :
                observations' = Incremented(Without(observations, oldest), f)
    /\ Sets(e, [eval[e] EXCEPT !.at = "decide"])
    /\ UNCHANGED <<config, file, allowlist, loaded_mtime, used>>

(* The rules in the order evaluate tries them. *)
Verdict(s) ==
    IF config.mode # "enforce" THEN "allow"
    ELSE IF config.block_unqualified_dml /\ s.kind = "dml" THEN "unqualified_dml"
    ELSE IF config.block_ddl /\ s.kind = "ddl" THEN "ddl"
    ELSE IF s.fingerprint \notin allowlist THEN "unknown_fingerprint"
    ELSE "allow"

Decide(e) ==
    /\ eval[e].at = "decide"
    /\ Sets(e, [Resting EXCEPT !.decision = Verdict(eval[e].statement)])
    /\ UNCHANGED <<Registry, used>>

Step(e) ==
    \/ Stat(e) \/ ReadContent(e) \/ ReadMtime(e) \/ Replace(e) \/ Stamp(e)
    \/ Count(e) \/ Decide(e)

Next ==
    \/ \E c \in Files : Edit(c)
    \/ \E e \in Evaluator, s \in Statements : Begin(e, s)
    \/ \E e \in Evaluator : Step(e)

Spec == Init /\ [][Next]_vars

-----------------------------------------------------------------------------
(* The shapes of the registry and of the evaluations. *)
TypeOK ==
    /\ file.content \in Files /\ file.mtime \in Nat
    /\ allowlist \in Files
    /\ Seen \subseteq Fingerprints
    /\ \A e \in Evaluator :
          eval[e].at \in {"idle", "stat", "read", "mtime", "replace", "stamp", "count", "decide"}

(* "invalid files leave the previous snapshot active": whatever the        *)
(* evaluators and the editor do, the entries in force are those of a valid *)
(* file, whole.                                                            *)
AllowlistIsWhole == allowlist \in Files \ {Invalid}

(* The observation table stays within MAX_OBSERVATIONS although every      *)
(* session adds to it.                                                     *)
ObservationsBounded == Cardinality(Seen) <= MAX_OBSERVATIONS

(* "New files replace the bounded allowlist": once no evaluation is        *)
(* refreshing, an allowlist that counts as loaded from the present file    *)
(* has the entries of that file.                                           *)
LoadedIsCurrent ==
    ( /\ \A e \in Evaluator : eval[e].at \in {"idle", "stat", "count", "decide"}
      /\ loaded_mtime = file.mtime )
        => allowlist = file.content
=============================================================================
