------------------------------- MODULE SqlText -------------------------------
(***************************************************************************)
(* What the proxy reads out of the text of a query: its statements         *)
(* (for_each_top_level_statement), its class (classify_sql), its routing   *)
(* hint (extract_routing_hint), its tokens (tokenize_sql), whether it      *)
(* changes every row (is_unqualified_dml), and its fingerprint             *)
(* (fingerprint_sql).                                                      *)
(*                                                                         *)
(* A text is a sequence of lexemes: words, blanks, quotes, the two ends of *)
(* a comment, punctuation.  Each of the functions finds its own way        *)
(* through quotes and comments.  They are checked on texts composed from   *)
(* fragments (a word, a literal, a comment, ...) whose meaning is known.   *)
(***************************************************************************)
EXTENDS Integers, Sequences, FiniteSets, SequencesExt

CONSTANTS
    Queries,        \* queries: statements (their fragments, and what they do), a closing semicolon
    MaxFingerprint  \* MAX_FINGERPRINT_BYTES, in tokens

VARIABLE query

Blank == {"sp", "nl"}
Separators == Blank \cup {"--", "/*"}
Digits == {"1", "2"}
Symbols == {"(", ")", ",", ";", "=", "*"}
(* "pg-kinetic: primary" and so on, a lexeme each. *)
Hints == {"primary hint", "replica hint", "stale-ok hint", "strict-fresh hint"}

From(s, i) == SubSeq(s, i, Len(s))

(* Where one of the lexemes first is from i on; 0 where none is. *)
Find(s, i, lexemes) ==
    LET at == {j \in i..Len(s) : s[j] \in lexemes}
    IN  IF at = {} THEN 0 ELSE CHOOSE j \in at : \A k \in at : j <= k

(* What follows it: nothing where none is. *)
After(s, i, lexeme) ==
    IF Find(s, i, {lexeme}) = 0 THEN << >> ELSE From(s, Find(s, i, {lexeme}) + 1)

HasRun(s, words) == \E i \in 0..(Len(s) - Len(words)) : SubSeq(s, i + 1, i + Len(words)) = words

(* str::trim. *)
Trim(s) ==
    LET solid == {i \in DOMAIN s : s[i] \notin Blank} IN
    IF solid = {} THEN << >>
    ELSE SubSeq(s, CHOOSE i \in solid : \A j \in solid : i <= j,
                   CHOOSE i \in solid : \A j \in solid : j <= i)

(* normalize: runs of blanks become one space. *)
Normalize(sql) ==
    LET t == Trim(sql)
        kept == SelectSeq([i \in DOMAIN t |-> i], LAMBDA i : t[i] \notin Blank \/ t[i - 1] \notin Blank)
    IN  [n \in DOMAIN kept |-> IF t[kept[n]] \in Blank THEN "sp" ELSE t[kept[n]]]

(* strip_leading_comments_and_whitespace, strip_token_separators. *)
RECURSIVE Strip(_)
Strip(sql) ==
    CASE sql = << >> -> << >>
      [] Len(sql) > 0 /\ sql[1] \in Blank -> Strip(Tail(sql))
      [] Len(sql) > 0 /\ sql[1] = "--" -> Strip(After(sql, 2, "nl"))
      [] Len(sql) > 0 /\ sql[1] = "/*" -> Strip(After(sql, 2, "*/"))
      [] OTHER -> sql

-----------------------------------------------------------------------------
(* Statements.                                                             *)

ScanNext(state, lexeme) ==
    CASE state = "normal" ->
           (CASE lexeme = "'" -> "single" [] lexeme = "dq" -> "double"
              [] lexeme = "--" -> "line" [] lexeme = "/*" -> "block" [] OTHER -> "normal")
      [] state = "single" -> IF lexeme = "'" THEN "normal" ELSE "single"
      [] state = "double" -> IF lexeme = "dq" THEN "normal" ELSE "double"
      [] state = "line" -> IF lexeme = "nl" THEN "normal" ELSE "line"
      [] state = "block" -> IF lexeme = "*/" THEN "normal" ELSE "block"

(* A doubled quote inside quotes is not the end. *)
Doubled(state, lexeme, next) ==
    lexeme = next /\ <<state, lexeme>> \in {<<"single", "'">>, <<"double", "dq">>}

(* The lexemes that a scan sees in ScanState::Normal. *)
Normal(s) ==
    LET scan[i \in 1..(Len(s) + 1)] ==
          IF i = 1 THEN [state |-> "normal", skip |-> FALSE]
          ELSE LET at == scan[i - 1]
                   d == i <= Len(s) /\ Doubled(at.state, s[i - 1], s[i])
               IN IF at.skip THEN [at EXCEPT !.skip = FALSE]
                  ELSE [state |-> IF d THEN at.state ELSE ScanNext(at.state, s[i - 1]), skip |-> d]
    IN {i \in DOMAIN s : scan[i].state = "normal"}

(* The pieces of s between the given places. *)
Between(s, places) ==
    LET cuts == SetToSortSeq(places \cup {0, Len(s) + 1}, <)
    IN  [n \in 1..(Len(cuts) - 1) |-> SubSeq(s, cuts[n] + 1, cuts[n + 1] - 1)]

(* for_each_top_level_statement. *)
Statements(sql) ==
    LET ends == {i \in Normal(sql) : sql[i] = ";"}
        pieces == Between(sql, ends)
    IN  SelectSeq([n \in DOMAIN pieces |-> Trim(pieces[n])], LAMBDA s : s # << >>)

(* find_matching_paren, of a text that opens one. *)
MatchingParen(s) ==
    LET code == Normal(s)
        depth(i) == Cardinality({j \in code : j <= i /\ s[j] = "("})
                    - Cardinality({j \in code : j <= i /\ s[j] = ")"})
        at == {i \in code : s[i] = ")" /\ depth(i) <= 0}
    IN  IF at = {} THEN 0 ELSE CHOOSE i \in at : \A j \in at : i <= j

-----------------------------------------------------------------------------
(* The class of a query.                                                   *)

(* starts_with_words_ignore_ascii_case. *)
RECURSIVE StartsWith(_, _)
StartsWith(sql, words) ==
    LET s == Strip(sql) IN
    /\ s # << >> /\ s[1] = words[1]
    /\ IF Len(words) = 1 THEN Len(s) = 1 \/ s[2] \in Separators
       ELSE Len(s) > 1 /\ s[2] \in Separators /\ StartsWith(Tail(s), Tail(words))

Keyword(sql, words) == \E w \in words : StartsWith(sql, <<w>>)

(* keyword_is_exact, keyword_is_followed_by_more. *)
Alone(sql, words) == LET s == Strip(sql) IN s # << >> /\ s[1] \in words /\ Strip(Tail(s)) = << >>
WithMore(sql, words) ==
    LET s == Strip(sql)
    IN  Len(s) > 1 /\ s[1] \in words /\ s[2] \in Separators /\ Strip(Tail(s)) # << >>

(* contains_words_ignore_ascii_case. *)
RECURSIVE HasWords(_, _)
HasWords(sql, words) ==
    LET s == Strip(sql)
        end == Find(s, 1, Separators)
    IN  /\ s # << >>
        /\ StartsWith(s, words) \/ (end # 0 /\ HasWords(From(s, end), words))

IsTransactionControl(sql) ==
    \/ Keyword(sql, {"begin"})
    \/ Alone(sql, {"commit", "rollback", "abort", "end"})
    \/ \E words \in {<<"start", "transaction">>, <<"set", "transaction">>,
                     <<"release", "savepoint">>, <<"rollback", "to">>} : StartsWith(sql, words)
    \/ WithMore(sql, {"savepoint"})

IsSessionMutation(sql) ==
    WithMore(sql, {"set", "reset", "discard", "listen", "unlisten", "notify", "lock", "declare"})

IsWriteStatement(sql) ==
    Keyword(sql, {"insert", "update", "delete", "merge", "truncate", "create", "alter", "drop", "call",
                  "do", "vacuum", "analyze", "reindex", "grant", "revoke"})

(* contains_select_side_effects, of a normalized text. *)
SelectSideEffects(n) ==
    \/ HasRun(n, <<"sp", "into", "sp">>)
    \/ \E clause \in {<<"update">>, <<"no", "sp", "key", "sp", "update">>, <<"share">>,
                      <<"key", "sp", "share">>} : HasRun(n, <<"sp", "for", "sp">> \o clause)
    \/ HasRun(n, <<"sp", "lock", "sp", "in", "sp", "share", "sp", "mode">>)
    \/ \E f \in {"pg_advisory_lock", "pg_try_advisory_lock", "set_config"} : HasRun(n, <<f, "(">>)

(* contains_data_modifying_cte_normalized. *)
ModifyingCte(n) ==
    /\ n # << >> /\ n[1] = "with"
    /\ \E w \in {"insert", "update", "delete", "merge"} : HasRun(n, <<"sp", "as", "sp", "(", w>>)

ClassifyCopy(sql) ==
    IF HasWords(sql, <<"from", "stdin">>) THEN "write"
    ELSE IF HasWords(sql, <<"to", "stdout">>) THEN "read" ELSE "write"

(* classify_single_statement and, for the statement it explains,           *)
(* classify_explain.                                                       *)
RECURSIVE ClassifySingle(_)
ClassifySingle(text) ==
    LET sql == Strip(text)
        explained == Strip(Tail(sql))
        paren == MatchingParen(explained)
        plain == explained # << >> /\ explained[1] # "("
        analyzed == IF plain THEN explained[1] = "analyze"
                    ELSE HasRun(SubSeq(explained, 1, paren), <<"analyze">>)
        target == IF plain THEN explained ELSE Strip(From(explained, paren + 1))
    IN
    CASE sql = << >> -> "unknown"
      [] Keyword(sql, {"explain"}) ->
           IF explained # << >> /\ (plain \/ paren # 0) /\ ~analyzed /\ ClassifySingle(target) = "read"
           THEN "read" ELSE "unknown"
      [] Keyword(sql, {"with"}) -> IF ModifyingCte(Normalize(sql)) THEN "write" ELSE "unknown"
      [] sql # << >> /\ ~Keyword(sql, {"explain", "with"}) ->
           CASE IsTransactionControl(sql) -> "transaction"
             [] ~IsTransactionControl(sql) /\ IsSessionMutation(sql) -> "session"
             [] Keyword(sql, {"copy"}) -> ClassifyCopy(sql)
             [] Keyword(sql, {"select"}) ->
                  IF SelectSideEffects(Normalize(sql)) THEN "write" ELSE "read"
             [] Keyword(sql, {"values", "table", "show"}) -> "read"
             [] IsWriteStatement(sql) -> "write"
             [] OTHER -> "unknown"

(* A text taken for what its first statement is. *)
ClassifyFirst(classes) == classes[1]

(* classify_multi_statement: the first class that is neither a read nor    *)
(* transaction control decides.                                            *)
ClassifyMulti(classes) ==
    LET other == {i \in DOMAIN classes : classes[i] \notin {"read", "transaction"}} IN
    IF other # {} THEN classes[CHOOSE i \in other : \A j \in other : i <= j]
    ELSE IF \E i \in DOMAIN classes : classes[i] = "read" THEN "read" ELSE "transaction"

(* classify_sql. *)
Classify(text) ==
    LET sql == Strip(text)
        statements == Statements(sql)
    IN  IF Len(statements) > 1
        THEN ClassifyMulti([i \in DOMAIN statements |-> ClassifySingle(statements[i])])
        ELSE ClassifySingle(sql)

-----------------------------------------------------------------------------
(* The routing hint.                                                       *)

(* A comment is a hint when it is nothing else: the set of its hint, or none. *)
HintOf(comment) ==
    LET c == Trim(comment) IN IF Len(c) = 1 THEN {c[1]} \cap Hints ELSE {}

(* extract_routing_hint. *)
RECURSIVE RoutingHint(_)
RoutingHint(sql) ==
    LET end == Find(sql, 2, {"*/"})
        hint == HintOf(SubSeq(sql, 2, end - 1))
    IN
    CASE sql = << >> -> {}
      [] Len(sql) > 0 /\ sql[1] \in Blank -> RoutingHint(Tail(sql))
      [] Len(sql) > 0 /\ sql[1] = "--" -> RoutingHint(After(sql, 2, "nl"))
      [] Len(sql) > 0 /\ sql[1] = "/*" ->
           IF end = 0 THEN {} ELSE IF hint # {} THEN hint ELSE RoutingHint(From(sql, end + 1))
      [] OTHER -> {}

-----------------------------------------------------------------------------
(* Tokens.                                                                 *)

Token(kind, text) == [kind |-> kind, text |-> text]

(* What follows a quoted text, a doubled quote being part of it. *)
RECURSIVE AfterQuote(_, _)
AfterQuote(s, q) ==
    LET end == Find(s, 1, {q}) IN
    IF end = 0 THEN << >>
    ELSE IF end < Len(s) /\ s[end + 1] = q THEN AfterQuote(From(s, end + 2), q)
    ELSE From(s, end + 1)

(* What follows a text between dollar delimiters, the text from the first  *)
(* dollar to the second being the delimiter; or NoEnd.                     *)
NoEnd == <<"no end">>
AfterDollar(s) ==
    LET second == Find(s, 2, {"$"})
        ends == {i \in (second + 1)..(Len(s) - second + 1) : SubSeq(s, i, i + second - 1) = SubSeq(s, 1, second)}
    IN  IF second = 0 \/ ends = {} THEN NoEnd
        ELSE From(s, (CHOOSE i \in ends : \A j \in ends : i <= j) + second)

(* tokenize_sql. *)
RECURSIVE Tokenize(_)
Tokenize(s) ==
    IF s = << >> THEN << >>
    ELSE LET first == s[1]
             rest == Tail(s)
    IN
    CASE first \in Blank -> Tokenize(rest)
      [] first = "--" -> <<Token("comment", "")>> \o Tokenize(After(s, 2, "nl"))
      [] first = "/*" -> IF Find(s, 2, {"*/"}) = 0 THEN << >>
                         ELSE <<Token("comment", "")>> \o Tokenize(After(s, 2, "*/"))
      [] first \in {"'", "dq"} -> <<Token("literal", "")>> \o Tokenize(AfterQuote(rest, first))
      [] first = "$" -> <<Token("literal", "")>> \o
                        Tokenize(IF AfterDollar(s) # NoEnd THEN AfterDollar(s)
                                 ELSE IF rest # << >> /\ rest[1] \in Digits THEN Tail(rest) ELSE rest)
      [] first \in Digits -> <<Token("literal", "")>> \o Tokenize(rest)
      [] first \in Symbols -> <<Token("symbol", first)>> \o Tokenize(rest)
      [] OTHER -> <<Token("word", first)>> \o Tokenize(rest)

(* contains_top_level_word: the depth does not go below zero. *)
TopLevelWord(tokens, word) ==
    LET depth[i \in 0..Len(tokens)] ==
          IF i = 0 THEN 0
          ELSE CASE tokens[i] = Token("symbol", "(") -> depth[i - 1] + 1
                 [] tokens[i] = Token("symbol", ")") -> IF depth[i - 1] = 0 THEN 0 ELSE depth[i - 1] - 1
                 [] OTHER -> depth[i - 1]
    IN \E i \in DOMAIN tokens : tokens[i] = Token("word", word) /\ depth[i] = 0

(* The first word of a text; is_unqualified_dml; is_ddl. *)
Command(tokens) ==
    LET words == SelectSeq(tokens, LAMBDA t : t.kind = "word") IN IF words = << >> THEN "" ELSE words[1].text

IsUnqualifiedDml(sql) ==
    LET tokens == Tokenize(sql) IN
    /\ \/ Command(tokens) = "delete" /\ TopLevelWord(tokens, "from")
       \/ Command(tokens) = "update" /\ TopLevelWord(tokens, "set")
    /\ ~TopLevelWord(tokens, "where")

(* A literal is shown as a question mark, in a list once. *)
LiteralShown(at) == ~at.list \/ at.values = 0

(* One token of fingerprint_sql. *)
FingerprintToken(at, token) ==
    LET out(text) == [at EXCEPT !.out = Append(@, text)]
        opens == token.text = "(" /\ Len(at.out) > 1 /\ Last(at.out) = "in"
    IN
    CASE token.kind = "comment" -> at
      [] token.kind = "literal" ->
           [(IF LiteralShown(at) THEN out("?") ELSE at) EXCEPT !.values = @ + 1]
      [] token.kind = "word" -> out(token.text)
      [] token.kind = "symbol" /\ opens -> [out("(") EXCEPT !.list = TRUE, !.values = 0]
      [] token.kind = "symbol" /\ ~opens /\ at.list /\ token.text = ")" -> [out(")") EXCEPT !.list = FALSE]
      [] token.kind = "symbol" /\ ~opens /\ at.list /\ token.text = "," -> [at EXCEPT !.values = @ + 1]
      [] OTHER -> out(token.text)

(* fingerprint_sql. *)
Fingerprint(sql) ==
    FoldLeft(LAMBDA at, token : IF Len(at.out) >= MaxFingerprint THEN at ELSE FingerprintToken(at, token),
             [out |-> << >>, list |-> FALSE, values |-> 0], Tokenize(sql)).out

-----------------------------------------------------------------------------
(* Queries whose meaning is known.  A fragment is a word, a literal, a     *)
(* symbol, a comment or a text in dollar quotes, and its lexemes.          *)

Remark(f) == f.kind \in {"comment", "hint"}
Spaced(f) == f.kind \in {"word", "literal", "param", "dollar"}

(* Its text, with blanks where two fragments would run together. *)
Text(fragments) ==
    FlattenSeq([i \in DOMAIN fragments |->
        IF i > 1 /\ Spaced(fragments[i]) /\ Spaced(fragments[i - 1])
        THEN <<"sp">> \o fragments[i].lex ELSE fragments[i].lex])

Semicolon == [kind |-> "symbol", lex |-> <<";">>]

(* All fragments of a query. *)
Fragments(q) ==
    FlattenSeq([i \in DOMAIN q.statements |->
        IF i < Len(q.statements) \/ q.closed
        THEN Append(q.statements[i].fragments, Semicolon) ELSE q.statements[i].fragments])

Sql == Text(Fragments(query))

NoQuery == [statements |-> << >>, closed |-> FALSE]

SqlInit == query = NoQuery

SqlNext == query = NoQuery /\ query' \in Queries

-----------------------------------------------------------------------------
Kinds == {"read", "write", "transaction", "session"}
SqlTypeOK == \A i \in DOMAIN query.statements : query.statements[i].does \in Kinds

Uses(kind) == \E i \in DOMAIN Fragments(query) : Fragments(query)[i].kind = kind

(* No comment stands inside a statement (before one it may).               *)
CommentsLead ==
    \A n \in DOMAIN query.statements :
        LET f == query.statements[n].fragments IN
        \A i \in 2..Len(f) : Remark(f[i]) => Remark(f[i - 1])

(* A query is split exactly where its statements end, whatever semicolons, *)
(* quotes and comment marks stand in its literals, names and comments;     *)
(* dollar quotes, which the scanner does not know, left aside.             *)
SplitExact ==
    ~Uses("dollar") =>
        LET texts == [n \in DOMAIN query.statements |-> Trim(Text(query.statements[n].fragments))]
        IN  Statements(Sql) = texts

(* Some statement reads, and none writes, locks rows or changes the        *)
(* session; transaction control only stands beside a read.                 *)
OnlyReads ==
    /\ \E n \in DOMAIN query.statements : query.statements[n].does = "read"
    /\ \A n \in DOMAIN query.statements : query.statements[n].does \in {"read", "transaction"}

(* A query that is classified as a read only reads, wherever in the query  *)
(* its statements stand and whatever literals they have.  That is less     *)
(* than docs/read-routing.md says of COPY and mixed texts: StaysOnPrimary. *)
ReadsAreReads == (~Uses("dollar") /\ CommentsLead /\ Classify(Sql) = "read") => OnlyReads

(* The same with comments anywhere. *)
CommentedReadsAreReads == (~Uses("dollar") /\ Classify(Sql) = "read") => OnlyReads

(* COPY, and transaction control even among reads, stay on the primary.    *)
(* docs/read-routing.md:37: "writes, DDL, and transaction control stay on  *)
(* the primary", then "COPY" and "unknown or mixed statements" likewise.   *)
StaysOnPrimary ==
    Classify(Sql) = "read" =>
        \A n \in DOMAIN query.statements :
            query.statements[n].does = "read" /\ Command(Tokenize(Text(query.statements[n].fragments))) # "copy"

(* The hint is the first comment before the query that is nothing but a    *)
(* hint: not one that mentions a hint, stands in a literal or comes later. *)
HintLeads ==
    LET f == Fragments(query)
        leading == {i \in DOMAIN f : f[i].kind = "hint" /\ \A j \in 1..i : Remark(f[j])}
    IN  RoutingHint(Sql) =
          IF leading = {} THEN {}
          ELSE LET i == CHOOSE i \in leading : \A j \in leading : i <= j IN Range(f[i].lex) \cap Hints

(* A single DELETE or UPDATE counts as unqualified exactly when it has no  *)
(* WHERE of its own: one in a subquery, a comment or a literal is none.    *)
UnqualifiedExact ==
    Len(query.statements) = 1 => (IsUnqualifiedDml(Sql) <=> query.statements[1].open)

(* Fragment i is behind the first value of a list: IN ( value , ...        *)
Further(f, i) ==
    \E j \in 2..(i - 2) :
        /\ f[j - 1].lex = <<"in">> /\ f[j].lex = <<"(">>
        /\ \A k \in (j + 1)..i : f[k].lex # <<")">> /\ f[k].kind # "word"

(* Whether the fingerprint is that of the query with every literal         *)
(* replaced by a number, every list cut to its first value and every       *)
(* comment taken out.                                                      *)
SameFingerprint ==
    LET f == Fragments(query)
        bare == SelectSeq(f, LAMBDA x : ~Remark(x))
        kept == SelectSeq([i \in DOMAIN bare |-> i], LAMBDA i : ~Further(bare, i))
        plain == [n \in DOMAIN kept |->
                    LET x == bare[kept[n]] IN
                    IF x.kind \in {"literal", "param", "dollar"} THEN [x EXCEPT !.lex = <<"1">>] ELSE x]
    IN  Fingerprint(Sql) = Fingerprint(Text(plain))

(* The fingerprint of a query does not depend on what literals and         *)
(* comments it has, on the length of its lists, nor on its parameter; a    *)
(* query with several parameters, whose dollar signs may be taken for      *)
(* delimiters, left aside.                                                 *)
FingerprintStable ==
    Cardinality({i \in DOMAIN Fragments(query) : Fragments(query)[i].kind = "param"}) <= 1 => SameFingerprint

(* The same of every query. *)
AllFingerprintsStable == SameFingerprint
=============================================================================
