------------------------------ MODULE SqlText ------------------------------
(***************************************************************************)
(* How the raw SQL rules find the index statements of a script             *)
(* (src/ast/operations.rs): strip_sql_noise takes out comments and strings,*)
(* sql_statements cuts what is left at the semicolons, sql_tokens cuts a   *)
(* statement into words -- beside the one pass of PostgreSQL's lexer.      *)
(*                                                                         *)
(* The script is read symbol by symbol and all of them advance together,   *)
(* so scripts of every length are covered.  A peek at the next character   *)
(* is a mode that waits for it.                                            *)
(***************************************************************************)
CONSTANT Names   \* identifiers and numbers that are no keyword

Keywords == {"CREATE", "UNIQUE", "INDEX", "DROP", "REINDEX", "CONCURRENTLY"}
Words == Keywords \cup Names
Marks == {"'", "\"", "-", "/", "*", "newline", ";", "other"}
Nothing == "nothing"
Merged == "merged"

ASSUME NamesAreNew == Names \cap (Keywords \cup Marks \cup {Nothing, Merged}) = {}

VARIABLES
    last,     \* the symbol of the script that was read last
    strip,    \* where strip_sql_noise is
    cut,      \* where sql_statements is: "out" of or "in" a quoted identifier
    token,    \* the word sql_tokens is reading
    stage, concurrently,   \* what the tokens of the statement have shown
    found,    \* the index statements found: [verb, concurrently]
    lexer,    \* PostgreSQL: [mode, armed], armed may open or close a comment
    real, realConcurrently, actual   \* stage, concurrently and found of PostgreSQL

vars == <<last, strip, cut, token, stage, concurrently, found, lexer, real, realConcurrently, actual>>
code == <<strip, cut, token, stage, concurrently, found>>

Verbs == {"create index", "drop index", "reindex"}
Decided == Verbs \cup {"other"}
Stages == Decided \cup {"start", "CREATE", "CREATE UNIQUE", "DROP"}

\* sql_statement_contains_create_index and the like look at leading tokens.
StageAfter(s, word) ==
    CASE s \in Decided -> s
      [] s = "start" /\ word \in {"CREATE", "DROP"} -> word
      [] s = "start" /\ word = "REINDEX" -> "reindex"
      [] s = "CREATE" /\ word = "UNIQUE" -> "CREATE UNIQUE"
      [] s \in {"CREATE", "CREATE UNIQUE"} /\ word = "INDEX" -> "create index"
      [] s = "DROP" /\ word = "INDEX" -> "drop index"
      [] OTHER -> "other"
Statement(s, c) == IF s \in Verbs THEN {[verb |-> s, concurrently |-> c]} ELSE {}

-----------------------------------------------------------------------------
(* strip_sql_noise: the mode after a symbol, and at most two symbols out:  *)
(* the one whose successor was awaited, and what becomes of this one.      *)

FromPlain(c) ==
    CASE c = "\"" -> "ident" [] c = "-" -> "dash" [] c = "/" -> "slash" [] c = "'" -> "string" [] OTHER -> "plain"
FromPlainOut(c) == IF c \in {"-", "/"} THEN Nothing ELSE IF c = "'" THEN "other" ELSE c

StripMode(c) ==
    CASE strip = "dash" /\ c = "-" -> "line"
      [] strip = "slash" /\ c = "*" -> "block"
      [] strip = "line" -> IF c = "newline" THEN "plain" ELSE "line"
      [] strip = "block" -> IF c = "*" THEN "star" ELSE "block"
      [] strip = "star" -> IF c = "/" THEN "plain" ELSE IF c = "*" THEN "star" ELSE "block"
      [] strip = "string" -> IF c = "'" THEN "string end" ELSE "string"
      [] strip = "string end" /\ c = "'" -> "string"
      [] strip = "ident" -> IF c = "\"" THEN "ident end" ELSE "ident"
      [] strip = "ident end" /\ c = "\"" -> "ident"
      [] OTHER -> FromPlain(c)
\* The character that turned out to be no delimiter.
Held(c) ==
    CASE strip = "dash" /\ c # "-" -> "-"
      [] strip = "slash" /\ c # "*" -> "/"
      [] OTHER -> Nothing
\* Mutant: a comment vanishes, and the words around it meet.
StrippedBare(c) ==
    CASE strip = "dash" /\ c = "-" -> Nothing
      [] strip = "slash" /\ c = "*" -> Nothing
      [] strip \in {"block", "string", "line", "star"} -> Nothing
      [] strip = "string end" /\ c = "'" -> Nothing
      [] strip = "ident" -> c
      [] OTHER -> FromPlainOut(c)
Stripped(c) ==
    CASE strip = "dash" /\ c = "-" -> Nothing
      [] strip = "slash" /\ c = "*" -> Nothing
      [] strip \in {"block", "string"} -> Nothing
      [] strip = "line" -> IF c = "newline" THEN "newline" ELSE Nothing
      [] strip = "star" -> IF c = "/" THEN "other" ELSE Nothing
      [] strip = "string end" /\ c = "'" -> Nothing
      [] strip = "ident" -> c
      [] OTHER -> FromPlainOut(c)

-----------------------------------------------------------------------------
(* sql_statements, sql_tokens and the predicates, on a stripped symbol.    *)

CutAfter(s) ==
    CASE s = Nothing -> cut
      [] s = "\"" -> IF cut = "in" THEN "in end" ELSE "in"
      [] OTHER -> IF cut = "in" THEN "in" ELSE "out"
\* Mutant: a semicolon in a quoted identifier ends the statement.
EndsAnywhere(s) == s = ";"
EndsStatement(s) == s = ";" /\ cut # "in"

Token(s) ==
    CASE s = Nothing -> token
      [] s \in Words -> IF token = Nothing THEN s ELSE Merged
      [] OTHER -> Nothing
TokenEnds(s) == s # Nothing /\ s \notin Words /\ token # Nothing
StageNow == IF token = Nothing THEN stage ELSE StageAfter(stage, token)
ConcurrentlyNow == concurrently \/ token = "CONCURRENTLY"

\* The two symbols are never both words: Held is none.
Feed(held, s) ==
    /\ cut' = CutAfter(s)
    /\ token' = IF held # Nothing /\ s \in Words THEN s ELSE IF held # Nothing THEN Nothing ELSE Token(s)
    /\ LET closes == held # Nothing \/ TokenEnds(s)
           st == IF closes THEN StageNow ELSE stage
           co == IF closes THEN ConcurrentlyNow ELSE concurrently
       IN  IF EndsStatement(s)
           THEN stage' = "start" /\ concurrently' = FALSE /\ found' = found \cup Statement(st, co)
           ELSE stage' = st /\ concurrently' = co /\ UNCHANGED found

-----------------------------------------------------------------------------
(* PostgreSQL: comments, strings and quoted identifiers hold no keyword    *)
(* and no end of a statement.                                              *)

LexerAfter(c) ==
    LET m == lexer.mode
        opens == m = "code" /\ <<lexer.armed, c>> \in {<<"-", "-">>, <<"/", "*">>}
        closes == <<m, lexer.armed, c>> = <<"block", "*", "/">>
    IN  [mode |-> CASE opens -> IF c = "-" THEN "line" ELSE "block"
                    [] closes -> "code"
                    [] m = "code" /\ c = "'" -> "string"
                    [] m = "code" /\ c = "\"" -> "ident"
                    [] m = "string" /\ c = "'" -> "code"
                    [] m = "ident" /\ c = "\"" -> "code"
                    [] m = "line" /\ c = "newline" -> "code"
                    [] OTHER -> m,
         armed |-> IF ~opens /\ ~closes /\ c \in {"-", "/", "*"} THEN c ELSE Nothing]

Lex(c) ==
    /\ lexer' = LexerAfter(c)
    /\ CASE lexer.mode = "code" /\ c \in Words ->
              /\ real' = StageAfter(real, c)
              /\ realConcurrently' = (realConcurrently \/ c = "CONCURRENTLY")
              /\ UNCHANGED actual
         [] lexer.mode = "code" /\ c = ";" ->
              /\ real' = "start" /\ realConcurrently' = FALSE
              /\ actual' = actual \cup Statement(real, realConcurrently)
         [] OTHER -> UNCHANGED <<real, realConcurrently, actual>>

-----------------------------------------------------------------------------
\* What a script may hold: a word is a whole run of letters; no identifier
\* stands in front of or inside the words that name a statement, and none
\* spells CONCURRENTLY; no comment lies inside a comment.  The last two are
\* gaps strip_sql_noise documents, like dollar quotes, which have no symbol.
Allowed(c) ==
    /\ ~(c \in Words /\ last \in Words)
    /\ lexer.mode = "code" /\ c = "\"" => real \in Decided
    /\ ~(lexer.mode = "ident" /\ c = "CONCURRENTLY")
    /\ ~(lexer.mode = "block" /\ lexer.armed = "/" /\ c = "*")

Init ==
    /\ last = "other" /\ strip = "plain" /\ cut = "out" /\ token = Nothing
    /\ stage = "start" /\ concurrently = FALSE /\ found = {}
    /\ lexer = [mode |-> "code", armed |-> Nothing]
    /\ real = "start" /\ realConcurrently = FALSE /\ actual = {}

Read(c) ==
    /\ Allowed(c)
    /\ last' = c
    /\ strip' = StripMode(c) /\ Feed(Held(c), Stripped(c))
    /\ Lex(c)

Next == \E c \in Words \cup Marks : Read(c)
Spec == Init /\ [][Next]_vars

-----------------------------------------------------------------------------
\* The types; tokens never merge.
TypeOK ==
    /\ last \in Words \cup Marks
    /\ strip \in {"plain", "dash", "slash", "line", "block", "star", "string", "string end", "ident", "ident end"}
    /\ cut \in {"out", "in", "in end"} /\ token \in Words \cup {Nothing}
    /\ stage \in Stages /\ concurrently \in BOOLEAN
    /\ lexer \in [mode : {"code", "line", "block", "string", "ident"}, armed : {Nothing, "-", "/", "*"}]
    /\ real \in Stages /\ realConcurrently \in BOOLEAN
    /\ found \cup actual \subseteq [verb : Verbs, concurrently : BOOLEAN]

\* R003 and R004 judge every script, cut off anywhere, by the statements
\* PostgreSQL would run: none hidden by a comment, string, quoted identifier
\* or neighbouring statement, none made up from their contents.
StatementsSeen == found \cup Statement(StageNow, ConcurrentlyNow) = actual \cup Statement(real, realConcurrently)
=============================================================================
