----------------------------- MODULE ShardRules -----------------------------
(***************************************************************************)
(* The shard rules of pg-kinetic-core (traffic/sharding.rs): keys, the     *)
(* range, list and hash rules built from them, what their constructors     *)
(* refuse, and which rule a key belongs to; and how a key and a hint are   *)
(* read out of a statement.  The operators are pure: ShardRouting runs     *)
(* them and ShardRoutingProofs proves what validation buys, that a key     *)
(* belongs to one rule at most, so the first match that the lookups return *)
(* does not depend on the order of the rules.                              *)
(*                                                                         *)
(* A key is its type and a place in the order of that type: text, integers *)
(* and byte strings are totally ordered and never compared across types.   *)
(***************************************************************************)
EXTENDS Integers, Sequences, FiniteSets

KeyTypes == {"text", "integer", "bytes"}

ShardKey == [type : KeyTypes, value : Int]

(* compare_shard_keys: None for keys of two types. *)
Below(k, l) == k.type = l.type /\ k.value < l.value

(* A range has a lower and an upper bound, each included (li, ui) or not.  *)
RangeShardRule == [lower : ShardKey, li : BOOLEAN, upper : ShardKey, ui : BOOLEAN]

(* RangeShardRule::with_bounds refuses bounds of two types, bounds out of  *)
(* order and an empty point.                                               *)
WithBounds(r) ==
    /\ r.lower.type = r.upper.type
    /\ ~Below(r.upper, r.lower)
    /\ r.lower = r.upper => r.li /\ r.ui

(* range_rule_matches, through boundary_satisfies_lower and _upper.        *)
RangeRuleMatches(r, k) ==
    /\ k.type = r.lower.type
    /\ Below(r.lower, k) \/ (k = r.lower /\ r.li)
    /\ Below(k, r.upper) \/ (k = r.upper /\ r.ui)

(* A slip at the boundary: two ranges that share their bound pass.         *)
TouchingIsBefore(l, r) ==
    \/ Below(l.upper, r.lower)
    \/ l.upper = r.lower

(* range_is_before: the first range ends where the second has not begun.   *)
RangeIsBefore(l, r) ==
    \/ Below(l.upper, r.lower)
    \/ l.upper = r.lower /\ ~(l.ui /\ r.li)

RangesOverlap(l, r) == ~RangeIsBefore(l, r) /\ ~RangeIsBefore(r, l)

(* validate_range_rules: some rule, one key type, no two rules that overlap. *)
ValidateRangeRules(rules) ==
    /\ rules # <<>>
    /\ \A i \in DOMAIN rules : rules[i].lower.type = rules[1].lower.type
    /\ \A i, j \in DOMAIN rules : i < j => ~RangesOverlap(rules[i], rules[j])

(* A list rule is the set of its values: ListShardRule::new refuses none   *)
(* and values of two types.                                                *)
NewListRule(values) ==
    /\ values # {}
    /\ \A v, w \in values : v.type = w.type

(* validate_list_rules: some rule, one key type, no value in two rules.    *)
ValidateListRules(rules) ==
    /\ rules # <<>>
    /\ \A i, j \in DOMAIN rules : \A v \in rules[i], w \in rules[j] :
          /\ v.type = w.type
          /\ v = w => i = j

(* The first index with the property, or 0: Iterator::position.            *)
Position(n, Is(_)) ==
    IF \E i \in 1 .. n : Is(i)
      THEN CHOOSE i \in 1 .. n : Is(i) /\ \A j \in 1 .. n : Is(j) => i <= j
      ELSE 0

RangeLookup(rules, k) == Position(Len(rules), LAMBDA i : RangeRuleMatches(rules[i], k))

ListLookup(rules, k) == Position(Len(rules), LAMBDA i : k \in rules[i])

(* ShardStrategyEvaluator::hash: the bucket of a key.                      *)
HashBucket(hash, buckets) == hash % buckets

----------------------------------------------------------------------------
(* Shard hints and shard keys read out of SQL text                         *)
(* (traffic/shard_extract.rs).                                             *)
(*                                                                         *)
(* A statement is a record: its verb, the table it names, the tokens of    *)
(* its SET and WHERE clauses, and for an INSERT the columns and the rows.  *)
(* A WHERE clause runs to the end of the text, as the parser's slice does. *)
(* Tokens are strings; "key" is the shard key column of the table, "col"   *)
(* any other column, "u" another relation, and the quoted literals are     *)
(* text.  The comments in front of a statement are a sequence of what      *)
(* parse_hint_comment makes of each.                                       *)

Key(t, n) == [type |-> t, value |-> n]

NoKey == Key("none", 0)

Identifiers == {"key", "col", "u", "and", "or", "not", "null", "returning"}

Literals == {"1", "2", "'1'", "'2'"}

(* parse_literal: a number, a string; NULL and a parameter are no literal. *)
ParseLiteral(token) ==
    CASE token = "1"   -> Key("integer", 1)
      [] token = "2"   -> Key("integer", 2)
      [] token = "'1'" -> Key("text", 1)
      [] token = "'2'" -> Key("text", 2)
      [] OTHER         -> NoKey

TokenAt(tokens, i) == IF i \in DOMAIN tokens THEN tokens[i] ELSE "end"

(* is_literal_terminator, of the keywords these clauses hold.              *)
IsLiteralTerminator(token) == token \in {"end", ",", ")", ";", "and", "or", "returning"}

(* parse_column_equality: [qualifier .] key = literal, then a terminator;  *)
(* the qualifier may be any identifier.  The value, and where it ends.     *)
ParseColumnEquality(tokens, start) ==
    LET column == IF TokenAt(tokens, start + 1) = "." THEN start + 2 ELSE start
        value  == ParseLiteral(TokenAt(tokens, column + 2))
    IN  IF /\ tokens[start] \in Identifiers
           /\ TokenAt(tokens, column) = "key"
           /\ TokenAt(tokens, column + 1) = "="
           /\ value # NoKey
           /\ IsLiteralTerminator(TokenAt(tokens, column + 3))
          THEN [value |-> value, next |-> column + 3]
          ELSE [value |-> NoKey, next |-> start + 1]

(* collect_key_values: every value the key is compared with, left to       *)
(* right; an OR where the scan stands gives the clause up (Ambiguous).     *)
Ambiguous == [ok |-> FALSE, values |-> {}]

CollectKeyValues(tokens) ==
    LET scan[i \in 1 .. Len(tokens) + 1] ==
          IF i = Len(tokens) + 1
            THEN [ok |-> TRUE, values |-> {}]
            ELSE IF tokens[i] = "or"
              THEN Ambiguous
              ELSE LET here == ParseColumnEquality(tokens, i)
                       rest == scan[here.next]
                   IN  [rest EXCEPT !.values = @ \cup ({here.value} \ {NoKey})]
    IN  scan[1]

(* extract_combined_key: SET and WHERE both speak of the key.              *)
CombinedKey(set, where) ==
    LET s == CollectKeyValues(set)
        w == CollectKeyValues(where)
    IN  IF s.ok /\ w.ok THEN [ok |-> TRUE, values |-> s.values \cup w.values] ELSE Ambiguous

(* extract_insert_values: the key's place in the column list, and a        *)
(* literal at every place of every row.                                    *)
InsertValues(columns, rows) ==
    LET place == Position(Len(columns), LAMBDA i : columns[i] = "key")
    IN  IF /\ place # 0
           /\ \A r \in DOMAIN rows : \A i \in DOMAIN rows[r] : ParseLiteral(rows[r][i]) # NoKey
           /\ \A r \in DOMAIN rows : place \in DOMAIN rows[r]
          THEN [ok |-> TRUE, values |-> {ParseLiteral(rows[r][place]) : r \in DOMAIN rows}]
          ELSE Ambiguous

(* resolve_table: exactly one sharded table of that name.  Names carry     *)
(* their schema, and a definition is matched whether enabled or not.       *)
ResolveTable(table, tables) == Cardinality({i \in DOMAIN tables : tables[i] = table}) = 1

(* build_extraction: one distinct value, or nothing.                       *)
BuildExtraction(found) ==
    IF found.ok /\ Cardinality(found.values) = 1
      THEN CHOOSE k \in found.values : TRUE
      ELSE NoKey

(* extract_shard_key, through parse_select, parse_insert, parse_update and *)
(* parse_delete.  An UPDATE needs a WHERE as a SELECT and a DELETE do.     *)
ExtractShardKey(stmt, tables) ==
    IF ~ResolveTable(stmt.table, tables)
      THEN NoKey
      ELSE BuildExtraction(
             CASE stmt.verb = "insert" -> InsertValues(stmt.columns, stmt.rows)
               [] stmt.where = <<>>    -> Ambiguous
               [] stmt.verb = "update" -> CombinedKey(stmt.set, stmt.where)
               [] OTHER                -> CollectKeyValues(stmt.where))

(* parse_hint_comment of one comment: a directive with a kind and a value, *)
(* a directive that names neither ("bad"), or no directive at all: another *)
(* text ("plain") or one without an equals sign ("bare").                  *)
HintKinds == {"shard", "tenant", "route"}

Hint(kind, value) == [kind |-> kind, value |-> value]

(* extract_shard_hint: the first comment that is a directive decides; a    *)
(* comment that is not leaves the hint unknown rather than absent.         *)
ExtractShardHint(comments) ==
    LET first == Position(Len(comments), LAMBDA i : comments[i].kind \in HintKinds \cup {"bad"})
    IN  IF first # 0
          THEN IF comments[first].kind = "bad" THEN Hint("unknown", 0) ELSE comments[first]
          ELSE Hint(IF comments = <<>> THEN "none" ELSE "unknown", 0)

(* sql.contains("pg-kinetic:"), of a text that mentions it in comments only. *)
MentionsProxy(comments) == \E i \in DOMAIN comments : comments[i].kind # "plain"
=============================================================================
