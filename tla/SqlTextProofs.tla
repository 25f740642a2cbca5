--------------------------- MODULE SqlTextProofs ---------------------------
(***************************************************************************)
(* For every set of names and scripts of every length: the two passes of   *)
(* the code stay in step with PostgreSQL's lexer, so they see the same     *)
(* statements.                                                             *)
(***************************************************************************)
EXTENDS SqlText, TLAPS

\* Where the code is in a script is where PostgreSQL is.
InStep ==
    /\ strip = "plain" => lexer.mode = "code" /\ lexer.armed \notin {"-", "/"}
    /\ strip = "dash" => lexer.mode = "code" /\ lexer.armed = "-"
    /\ strip = "slash" => lexer.mode = "code" /\ lexer.armed = "/"
    /\ strip \in {"string end", "ident end"} => lexer.mode = "code" /\ lexer.armed = Nothing
    /\ strip = "line" => lexer.mode = "line"
    /\ strip = "block" => lexer.mode = "block" /\ lexer.armed # "*"
    /\ strip = "star" => lexer.mode = "block" /\ lexer.armed = "*"
    /\ strip = "string" => lexer.mode = "string"
    /\ strip = "ident" => lexer.mode = "ident"

\* The second pass is inside a quoted identifier when the first one is.
CutInStep ==
    /\ cut = "in" <=> strip = "ident"
    /\ strip = "ident end" => cut = "in end"

\* A word is still open only where no other word can follow it.
TokenOpen ==
    token # Nothing =>
        /\ strip \notin {"string", "string end", "ident end"}
        /\ strip \in {"plain", "ident"} => last \in Words

\* What is known of the statement and of those before it is the same.
Alike ==
    /\ found = actual /\ StageNow = real /\ ConcurrentlyNow = realConcurrently
    /\ strip = "ident" => real \in Decided

IInv == TypeOK /\ InStep /\ CutInStep /\ TokenOpen /\ Alike

USE DEF Keywords, Words, Marks, Nothing, Merged, Verbs, Decided, Stages

\* What a word does to a statement, whatever the word.
LEMMA StageTypes ==
    ASSUME NEW s \in Stages, NEW word
    PROVE  /\ StageAfter(s, word) \in Stages
           /\ s \in Decided => StageAfter(s, word) = s
BY DEF StageAfter

\* Only finished statements of a known kind are collected.
LEMMA StatementTypes ==
    ASSUME NEW s \in Stages, NEW c \in BOOLEAN
    PROVE  Statement(s, c) \subseteq [verb : Verbs, concurrently : BOOLEAN]
<1>1. CASE s \in Verbs
  <2>1. Statement(s, c) = {[verb |-> s, concurrently |-> c]} BY <1>1 DEF Statement
  <2>2. [verb |-> s, concurrently |-> c] \in [verb : Verbs, concurrently : BOOLEAN] BY <1>1
  <2>3. QED BY <2>1, <2>2
<1>2. CASE s \notin Verbs
  <2>1. Statement(s, c) = {} BY <1>2 DEF Statement
  <2>2. QED BY <2>1
<1>3. QED BY <1>1, <1>2

LEMMA InitInvariant == Init => IInv
BY DEF Init, IInv, TypeOK, InStep, CutInStep, TokenOpen, Alike, StageNow, ConcurrentlyNow

\* The modes: no statement is looked at.
LEMMA ModesInStep ==
    ASSUME TypeOK, InStep, NEW c \in Words \cup Marks, Read(c)
    PROVE  InStep' /\ strip' \in {"plain", "dash", "slash", "line", "block", "star", "string", "string end", "ident", "ident end"}
<1> USE NamesAreNew DEF TypeOK, InStep, Read, Lex, LexerAfter, StripMode, FromPlain
<1>1. CASE strip = "plain" BY <1>1
<1>2. CASE strip = "dash" BY <1>2
<1>3. CASE strip = "slash" BY <1>3
<1>4. CASE strip \in {"string end", "ident end"} BY <1>4
<1>5. CASE strip \in {"line", "block", "star"} BY <1>5
<1>6. CASE strip \in {"string", "ident"} BY <1>6
<1>7. QED BY <1>1, <1>2, <1>3, <1>4, <1>5, <1>6
\* What the step shows of the statement, for both: the words and the ends of
\* statements outside of comments, strings and quoted identifiers.
Word(c) == lexer.mode = "code" /\ c \in Words
End(c) == lexer.mode = "code" /\ c = ";"

\* The stripped text has the words and the ends of statements, nothing else
\* that counts, and something between any two words.
LEMMA StrippedSymbols ==
    ASSUME IInv, NEW c \in Words \cup Marks, Read(c)
    PROVE  /\ Word(c) => Stripped(c) = c
           /\ EndsStatement(Stripped(c)) <=> End(c)
           /\ Stripped(c) \in Words => Stripped(c) = c /\ (Word(c) \/ strip = "ident")
           /\ Held(c) \in {Nothing, "-", "/"}
<1> USE NamesAreNew DEF IInv, TypeOK, InStep, CutInStep, Word, End, Read, Stripped, FromPlainOut, Held, EndsStatement
<1>1. CASE strip \in {"plain", "dash", "slash"} BY <1>1
<1>2. CASE strip \in {"string end", "ident end"} BY <1>2
<1>3. CASE strip \in {"line", "block", "star"} BY <1>3
<1>4. CASE strip \in {"string", "ident"} BY <1>4
<1>5. QED BY <1>1, <1>2, <1>3, <1>4
\* PostgreSQL's half of a step.
LEMMA RealStatement ==
    ASSUME IInv, NEW c \in Words \cup Marks, Read(c)
    PROVE  /\ Word(c) => /\ real' = StageAfter(real, c)
                         /\ realConcurrently' = (realConcurrently \/ c = "CONCURRENTLY")
                         /\ actual' = actual
           /\ End(c) => /\ real' = "start" /\ realConcurrently' = FALSE
                        /\ actual' = actual \cup Statement(real, realConcurrently)
           /\ ~Word(c) /\ ~End(c) => UNCHANGED <<real, realConcurrently, actual>>
<1>1. c = ";" => c \notin Words BY NamesAreNew
<1>2. Lex(c) BY DEF Read
<1>3. CASE Word(c) BY <1>1, <1>2, <1>3 DEF Lex, Word, End
<1>4. CASE End(c) BY <1>1, <1>2, <1>4 DEF Lex, Word, End
<1>5. CASE ~Word(c) /\ ~End(c) BY <1>2, <1>5 DEF Lex, Word, End
<1>6. QED BY <1>3, <1>4, <1>5
\* A word is never read while another is open, so none merge.
LEMMA WordsStandApart ==
    ASSUME IInv, NEW c \in Words \cup Marks, Read(c), Stripped(c) \in Words, Held(c) = Nothing
    PROVE  token = Nothing /\ token' = c /\ stage' = stage /\ concurrently' = concurrently /\ found' = found
<1>1. Stripped(c) = c /\ c \in Words /\ c # ";" /\ c # Nothing BY StrippedSymbols, NamesAreNew
<1>2. strip \in {"plain", "ident", "string end", "ident end"}
  BY <1>1, NamesAreNew DEF IInv, TypeOK, Held, Stripped
<1>3. token = Nothing BY <1>1, <1>2 DEF IInv, TokenOpen, Read, Allowed
<1>4. ~EndsStatement(Stripped(c)) /\ ~TokenEnds(Stripped(c)) BY <1>1 DEF EndsStatement, TokenEnds
<1>5. Feed(Nothing, Stripped(c)) BY DEF Read
<1>6. Token(Stripped(c)) = c BY <1>1, <1>3 DEF Token
<1>7. QED BY <1>1, <1>3, <1>4, <1>5, <1>6 DEF Feed

\* What is known after the symbols between words and ends.
LEMMA BetweenWords ==
    ASSUME IInv, NEW c \in Words \cup Marks, Read(c), Stripped(c) \notin Words, ~EndsStatement(Stripped(c))
    PROVE  StageNow' = StageNow /\ ConcurrentlyNow' = ConcurrentlyNow /\ found' = found /\ token' \in {token, Nothing}
<1> DEFINE s == Stripped(c)
<1>1. Feed(Held(c), s) BY DEF Read
<1>2. CASE Held(c) = Nothing /\ s = Nothing
  <2>1. token' = token /\ stage' = stage /\ concurrently' = concurrently /\ found' = found
    BY <1>1, <1>2, NamesAreNew DEF Feed, Token, TokenEnds
  <2>2. QED BY <2>1 DEF StageNow, ConcurrentlyNow
<1>3. CASE Held(c) # Nothing \/ s # Nothing
  <2>1. token' = Nothing BY <1>1, <1>3 DEF Feed, Token
  <2>2. stage' = StageNow
    BY <1>1, <1>3 DEF Feed, TokenEnds, StageNow
  <2>3. concurrently' = ConcurrentlyNow
    <3>1. CASE Held(c) # Nothing \/ TokenEnds(s) BY <1>1, <3>1 DEF Feed
    <3>2. CASE Held(c) = Nothing /\ ~TokenEnds(s)
      <4>1. token = Nothing BY <1>3, <3>2 DEF TokenEnds
      <4>2. concurrently' = concurrently BY <1>1, <3>2 DEF Feed
      <4>3. QED BY <4>1, <4>2, NamesAreNew DEF ConcurrentlyNow, IInv, TypeOK
    <3>3. QED BY <3>1, <3>2
  <2>4. found' = found BY <1>1 DEF Feed
  <2>5. QED BY <2>1, <2>2, <2>3, <2>4 DEF StageNow, ConcurrentlyNow, IInv, TypeOK
<1>4. QED BY <1>2, <1>3

\* The code's half of a step.
LEMMA CodeStatement ==
    ASSUME IInv, NEW c \in Words \cup Marks, Read(c)
    PROVE  /\ Word(c) => /\ StageNow' = StageAfter(StageNow, c)
                         /\ ConcurrentlyNow' = (ConcurrentlyNow \/ c = "CONCURRENTLY")
                         /\ found' = found
           /\ End(c) => /\ StageNow' = "start" /\ ConcurrentlyNow' = FALSE
                        /\ found' = found \cup Statement(StageNow, ConcurrentlyNow)
           /\ ~Word(c) /\ ~End(c) => /\ StageNow' = StageNow /\ ConcurrentlyNow' = ConcurrentlyNow
                                     /\ found' = found
           /\ token' \in Words \cup {Nothing}
<1> DEFINE s == Stripped(c)
<1>1. Feed(Held(c), s) BY DEF Read
<1>2. CASE s \in Words
  <2>1. s = c /\ c \in Words /\ c # ";" /\ c # Nothing /\ ~End(c) /\ (Word(c) \/ strip = "ident")
    <3>1. s = c /\ (Word(c) \/ strip = "ident") BY <1>2, StrippedSymbols
    <3>2. QED BY <1>2, <3>1, NamesAreNew DEF End
  <2>2. StageNow' = StageAfter(StageNow, c) /\ token' = c /\ found' = found
    <3>1. CASE Held(c) = Nothing
      BY <1>2, <2>1, <3>1, WordsStandApart DEF StageNow
    <3>2. CASE Held(c) # Nothing
      BY <1>1, <2>1, <3>2 DEF Feed, StageNow, EndsStatement
    <3>3. QED BY <3>1, <3>2
  <2>3. ConcurrentlyNow' = (ConcurrentlyNow \/ c = "CONCURRENTLY")
    <3>1. CASE Held(c) = Nothing
      <4>1. token = Nothing /\ token' = c /\ concurrently' = concurrently BY <1>2, <3>1, WordsStandApart
      <4>2. QED BY <4>1, NamesAreNew DEF ConcurrentlyNow
    <3>2. CASE Held(c) # Nothing
      <4>1. ~EndsStatement(s) BY <2>1 DEF EndsStatement
      <4>2. concurrently' = ConcurrentlyNow BY <1>1, <3>2, <4>1 DEF Feed
      <4>3. QED BY <2>2, <4>2 DEF ConcurrentlyNow
    <3>3. QED BY <3>1, <3>2
  <2>4. CASE strip = "ident"
    <3>1. StageNow \in Decided /\ StageNow \in Stages BY <2>4 DEF IInv, Alike
    <3>2. ~Word(c) /\ c # "CONCURRENTLY" BY <2>4 DEF IInv, InStep, Word, Read, Allowed
    <3>3. StageNow' = StageNow BY <2>2, <3>1, StageTypes
    <3>4. ConcurrentlyNow' = ConcurrentlyNow BY <2>3, <3>2 DEF ConcurrentlyNow, IInv, TypeOK
    <3>5. QED BY <2>1, <2>2, <3>2, <3>3, <3>4
  <2>5. QED BY <2>1, <2>2, <2>3, <2>4
<1>3. CASE s \notin Words /\ EndsStatement(s)
  <2>1. End(c) /\ ~Word(c) BY <1>3, StrippedSymbols, NamesAreNew DEF End, Word
  <2>2. s = ";" /\ s # Nothing BY <1>3 DEF EndsStatement
  <2>3. stage' = "start" /\ concurrently' = FALSE /\ token' = Nothing BY <1>1, <1>3, <2>2 DEF Feed, Token
  <2>4. StageNow' = "start" /\ ConcurrentlyNow' = FALSE BY <2>3 DEF StageNow, ConcurrentlyNow
  <2>5. found' = found \cup Statement(StageNow, ConcurrentlyNow)
    <3>1. CASE Held(c) # Nothing \/ TokenEnds(s) BY <1>1, <1>3, <3>1 DEF Feed
    <3>2. CASE Held(c) = Nothing /\ ~TokenEnds(s)
      <4>1. token = Nothing BY <1>3, <2>2, <3>2 DEF TokenEnds
      <4>2. found' = found \cup Statement(stage, concurrently) BY <1>1, <1>3, <3>2 DEF Feed
      <4>3. (ConcurrentlyNow = concurrently) /\ StageNow = stage
        BY <4>1 DEF ConcurrentlyNow, StageNow, IInv, TypeOK
      <4>4. QED BY <4>2, <4>3
    <3>3. QED BY <3>1, <3>2
  <2>6. QED BY <2>1, <2>3, <2>4, <2>5
<1>4. CASE s \notin Words /\ ~EndsStatement(s)
  <2>1. ~Word(c) /\ ~End(c) BY <1>4, StrippedSymbols DEF Word
  <2>2. QED BY <1>4, <2>1, BetweenWords DEF IInv, TypeOK
<1>5. QED BY <1>2, <1>3, <1>4
LEMMA StepInvariant ==
    ASSUME IInv, NEW c \in Words \cup Marks, Read(c)
    PROVE  IInv'
<1>1. InStep' /\ strip' \in {"plain", "dash", "slash", "line", "block", "star", "string", "string end", "ident", "ident end"}
  BY ModesInStep DEF IInv
<1>2. CutInStep'
  <2>1. cut' = CutAfter(Stripped(c)) BY DEF Read, Feed
  <2> USE NamesAreNew DEF IInv, TypeOK, InStep, CutInStep, Read, StripMode, FromPlain, FromPlainOut, Stripped, CutAfter
  <2>2. CASE strip = "ident"
    <3>1. Stripped(c) = c /\ cut = "in" /\ c # Nothing BY <2>2
    <3>2. strip' = IF c = "\"" THEN "ident end" ELSE "ident" BY <2>2
    <3>3. cut' = IF c = "\"" THEN "in end" ELSE "in"
      <4>1. CutAfter(c) = IF c = "\"" THEN "in end" ELSE "in" BY <3>1
      <4>2. CutAfter(Stripped(c)) = CutAfter(c) BY <3>1
      <4>3. QED BY <2>1, <4>1, <4>2
    <3>4. QED BY <3>2, <3>3
  <2>3. CASE strip \in {"string end", "ident end"} BY <2>1, <2>3
  <2>4. CASE strip = "plain"
    <3>1. cut # "in" BY <2>4
    <3>2. CASE c = "\"" BY <2>1, <2>4, <3>2
    <3>3. CASE c # "\""
      <4>1. strip' \notin {"ident", "ident end"} BY <2>4, <3>3
      <4>2. Stripped(c) # "\"" BY <2>4, <3>3
      <4>3. cut' # "in" BY <2>1, <3>1, <4>2
      <4>4. QED BY <4>1, <4>3
    <3>4. QED BY <3>2, <3>3
  <2>5. CASE strip = "dash" BY <2>1, <2>5
  <2>6. CASE strip = "slash" BY <2>1, <2>6
  <2>7. CASE strip \in {"line", "block", "star", "string"} BY <2>1, <2>7
  <2>8. QED BY <2>2, <2>3, <2>4, <2>5, <2>6, <2>7
<1>3. Alike'
  <2>1. found' = actual' /\ StageNow' = real' /\ ConcurrentlyNow' = realConcurrently'
    <3>1. found = actual /\ StageNow = real /\ ConcurrentlyNow = realConcurrently BY DEF IInv, Alike
    <3>2. CASE Word(c) BY <3>1, <3>2, CodeStatement, RealStatement
    <3>3. CASE End(c) BY <3>1, <3>3, CodeStatement, RealStatement
    <3>4. CASE ~Word(c) /\ ~End(c) BY <3>1, <3>4, CodeStatement, RealStatement
    <3>5. QED BY <3>2, <3>3, <3>4
  <2>2. strip' = "ident" => real' \in Decided
    <3>1. CASE strip = "ident"
      BY <3>1, RealStatement DEF IInv, Alike, InStep, Word, End
    <3>2. CASE strip # "ident" /\ strip' = "ident"
      <4>1. c = "\"" /\ lexer.mode = "code"
        BY <3>2, NamesAreNew DEF IInv, TypeOK, InStep, Read, StripMode, FromPlain
      <4>2. real \in Decided /\ ~Word(c) /\ ~End(c) BY <4>1, NamesAreNew DEF Read, Allowed, Word, End
      <4>3. QED BY <4>2, RealStatement
    <3>3. QED BY <3>1, <3>2
  <2>3. QED BY <2>1, <2>2 DEF Alike
<1>4. TokenOpen'
  <2>1. last' = c /\ Feed(Held(c), Stripped(c)) BY DEF Read
  <2>2. CASE Stripped(c) \in Words
    <3>1. Stripped(c) = c /\ c \in Words BY <2>2, StrippedSymbols
    <3>2. strip' \notin {"string", "string end", "ident end"}
      BY <3>1, NamesAreNew DEF IInv, TypeOK, InStep, Read, StripMode, FromPlain, Stripped, FromPlainOut
    <3>3. QED BY <2>1, <3>1, <3>2 DEF TokenOpen
  <2>3. CASE Stripped(c) \notin Words /\ (Stripped(c) # Nothing \/ Held(c) # Nothing)
    <3>1. token' = Nothing BY <2>1, <2>3 DEF Feed, Token
    <3>2. QED BY <3>1 DEF TokenOpen
  <2>4. CASE Stripped(c) = Nothing /\ Held(c) = Nothing
    <3>1. token' = token BY <2>1, <2>4, NamesAreNew DEF Feed, Token
    <3>2. CASE strip \in {"plain", "dash", "slash"}
      <4>1. strip' \in {"dash", "slash", "line", "block"}
        BY <2>4, <3>2, NamesAreNew DEF Read, StripMode, FromPlain, Stripped, FromPlainOut, Held
      <4>2. QED BY <4>1 DEF TokenOpen
    <3>3. CASE strip \in {"string", "string end", "ident", "ident end"}
      BY <2>4, <3>1, <3>3, NamesAreNew DEF IInv, TokenOpen, TypeOK, Read, StripMode, FromPlain, Stripped, FromPlainOut, Held
    <3>4. CASE strip \in {"line", "block", "star"}
      BY <2>4, <3>1, <3>4, NamesAreNew DEF IInv, TokenOpen, TypeOK, Read, StripMode, FromPlain, Stripped, FromPlainOut, Held
    <3>5. QED BY <3>2, <3>3, <3>4 DEF IInv, TypeOK
  <2>5. QED BY <2>2, <2>3, <2>4
<1>5. TypeOK'
  <2>1. last' \in Words \cup Marks BY DEF Read
  <2>2. cut' \in {"out", "in", "in end"} BY DEF Read, Feed, CutAfter, IInv, TypeOK
  <2>3. token' \in Words \cup {Nothing} BY CodeStatement
  <2>4. real' \in Stages /\ realConcurrently' \in BOOLEAN /\ actual' \subseteq [verb : Verbs, concurrently : BOOLEAN]
    <3>1. real \in Stages /\ realConcurrently \in BOOLEAN /\ actual \subseteq [verb : Verbs, concurrently : BOOLEAN]
      BY DEF IInv, TypeOK
    <3>2. CASE Word(c)
      <4>1. StageAfter(real, c) \in Stages BY <3>1, StageTypes
      <4>2. real' = StageAfter(real, c) /\ actual' = actual
            /\ realConcurrently' = (realConcurrently \/ c = "CONCURRENTLY")
        BY <3>2, RealStatement
      <4>3. realConcurrently' \in BOOLEAN BY <4>2
      <4>4. QED BY <3>1, <4>1, <4>2, <4>3
    <3>3. CASE End(c)
      <4>1. Statement(real, realConcurrently) \subseteq [verb : Verbs, concurrently : BOOLEAN]
        BY <3>1, StatementTypes
      <4>2. real' = "start" /\ realConcurrently' = FALSE /\ actual' = actual \cup Statement(real, realConcurrently)
        BY <3>3, RealStatement
      <4>3. QED BY <3>1, <4>1, <4>2
    <3>4. CASE ~Word(c) /\ ~End(c) BY <3>1, <3>4, RealStatement
    <3>5. QED BY <3>2, <3>3, <3>4
  <2>5. found' \subseteq [verb : Verbs, concurrently : BOOLEAN] BY <1>3, <2>4 DEF Alike
  <2>6. stage' \in Stages /\ concurrently' \in BOOLEAN
    <3>1. StageNow \in Stages /\ ConcurrentlyNow \in BOOLEAN BY DEF IInv, Alike, TypeOK
    <3>2. stage' \in {"start", stage, StageNow} /\ concurrently' \in {FALSE, concurrently, ConcurrentlyNow}
      BY DEF Read, Feed
    <3>3. QED BY <3>1, <3>2 DEF IInv, TypeOK
  <2>7. lexer' \in [mode : {"code", "line", "block", "string", "ident"}, armed : {Nothing, "-", "/", "*"}]
    BY DEF Read, Lex, LexerAfter, IInv, TypeOK
  <2>8. QED BY <1>1, <2>1, <2>2, <2>3, <2>4, <2>5, <2>6, <2>7 DEF TypeOK
<1>6. QED BY <1>1, <1>2, <1>3, <1>4, <1>5 DEF IInv

LEMMA StutterInvariant == IInv /\ UNCHANGED vars => IInv'
<1> SUFFICES ASSUME IInv, UNCHANGED vars PROVE IInv'
  OBVIOUS
<1>1. /\ last' = last /\ strip' = strip /\ cut' = cut /\ token' = token /\ stage' = stage
      /\ found' = found /\ lexer' = lexer /\ real' = real /\ actual' = actual
  BY DEF vars
<1>2. (concurrently' = concurrently) /\ (realConcurrently' = realConcurrently) BY DEF vars
<1>3. TypeOK /\ InStep /\ CutInStep /\ TokenOpen /\ Alike BY DEF IInv
<1>4. TypeOK'
  <2>1. concurrently' \in BOOLEAN /\ realConcurrently' \in BOOLEAN BY <1>2, <1>3 DEF TypeOK
  <2>2. stage' \in Stages /\ real' \in Stages /\ found' \cup actual' \subseteq [verb : Verbs, concurrently : BOOLEAN]
    BY <1>1, <1>3 DEF TypeOK
  <2>3. lexer' \in [mode : {"code", "line", "block", "string", "ident"}, armed : {Nothing, "-", "/", "*"}]
    BY <1>1, <1>3 DEF TypeOK
  <2>4. last' \in Words \cup Marks /\ token' \in Words \cup {Nothing} BY <1>1, <1>3 DEF TypeOK
  <2>5. /\ strip' \in {"plain", "dash", "slash", "line", "block", "star", "string", "string end", "ident", "ident end"}
        /\ cut' \in {"out", "in", "in end"}
    BY <1>1, <1>3 DEF TypeOK
  <2>6. QED BY <2>1, <2>2, <2>3, <2>4, <2>5 DEF TypeOK
<1>5. InStep' BY <1>1, <1>3 DEF InStep
<1>6. CutInStep' /\ TokenOpen' BY <1>1, <1>3 DEF CutInStep, TokenOpen
<1>7. Alike'
  <2>1. StageNow' = StageNow BY <1>1 DEF StageNow
  <2>2. ConcurrentlyNow' = ConcurrentlyNow BY <1>1, <1>2 DEF ConcurrentlyNow
  <2>3. ConcurrentlyNow' = realConcurrently'
    <3>1. ConcurrentlyNow = realConcurrently BY <1>3 DEF Alike
    <3>2. QED BY <1>2, <2>2, <3>1, Zenon
  <2>4. QED BY <1>1, <1>3, <2>1, <2>3 DEF Alike
<1>8. QED BY <1>4, <1>5, <1>6, <1>7 DEF IInv

\* The invariant holds of every script.
THEOREM Invariant == Spec => []IInv
<1>1. IInv /\ [Next]_vars => IInv' BY StepInvariant, StutterInvariant DEF Next
<1>2. QED BY InitInvariant, <1>1, PTL DEF Spec

\* Type correctness: whatever the names, tokens never merge.
THEOREM TypeCorrect == Spec => []TypeOK
BY Invariant, PTL DEF IInv

\* For every set of names and every script: strip_sql_noise, sql_statements
\* and sql_tokens give R003 and R004 the statements PostgreSQL would run.
THEOREM EveryStatementSeen == Spec => []StatementsSeen
<1>1. IInv => StatementsSeen BY DEF IInv, Alike, StatementsSeen
<1>2. QED BY Invariant, <1>1, PTL
=============================================================================
