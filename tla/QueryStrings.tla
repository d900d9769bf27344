----------------------------- MODULE QueryStrings -----------------------------
(***************************************************************************)
(* The language of search strings: lunr.QueryLexer and lunr.QueryParser    *)
(* (lunr.js:2378-2895).  A string is a sequence of code units.             *)
(***************************************************************************)
EXTENDS Integers, Sequences, SequencesExt

CONSTANTS FieldNames, \* the names of the fields of an index, as strings
          LowerCases  \* the code units that toLowerCase changes, with what they become

ASSUME LowerCasesAssumption ==
  DOMAIN LowerCases \subseteq Nat /\ \A c \in DOMAIN LowerCases : LowerCases[c] \in Nat

Backslash == 92
Colon == 58
Tilde == 126
Caret == 94
Star == 42
SpecialCharacters == {Backslash, Colon, Tilde, Caret}

IsDigit(c) == c \in 48..57
\* [\s\-]: the spaces and line ends of JavaScript, and the hyphen
IsTermSeparator(c) ==
  c \in 9..13 \cup {32, 45, 160, 5760} \cup 8192..8202 \cup {8232, 8233, 8239, 8287, 12288, 65279}

\* The few letters that toLowerCase turns into several units, or by what stands
\* around them, are left out.
Lower(c) == IF c \in DOMAIN LowerCases THEN LowerCases[c] ELSE c
LowerCase(str) == [i \in DOMAIN str |-> Lower(str[i])]

-------------------------------------------------------------------------------
\* The lexer between two characters: which run it is in, the text of the run
\* without its escape characters, and whether the run has any character at all.
LexerStart == [mode |-> "text", str |-> <<>>, width |-> 0, lexemes |-> <<>>]

Emit(lexer, type) ==
  [lexer EXCEPT !.lexemes = Append(@, [type |-> type, str |-> lexer.str]),
                !.mode = "text", !.str = <<>>, !.width = 0]

EmitTerm(lexer) == IF lexer.width > 0 THEN Emit(lexer, "TERM") ELSE lexer

Take(lexer, char) == [lexer EXCEPT !.str = Append(@, char), !.width = @ + 1]

\* lexText: what one more character of text does.
LexText(lexer, char) ==
  CASE char = Backslash -> [lexer EXCEPT !.mode = "escape", !.width = @ + 1]
    [] char = Colon -> Emit(lexer, "FIELD")
    [] char = Tilde -> [EmitTerm(lexer) EXCEPT !.mode = "EDIT_DISTANCE"]
    [] char = Caret -> [EmitTerm(lexer) EXCEPT !.mode = "BOOST"]
    [] IsTermSeparator(char) -> EmitTerm(lexer)
    [] OTHER -> Take(lexer, char)

\* acceptDigitRun ends at the first character that is no digit, which is text.
LexCharacter(lexer, char) ==
  CASE lexer.mode = "text" -> LexText(lexer, char)
    [] lexer.mode = "escape" -> [Take(lexer, char) EXCEPT !.mode = "text"]
    [] lexer.mode \in {"EDIT_DISTANCE", "BOOST"} /\ IsDigit(char) -> Take(lexer, char)
    [] OTHER -> LexText(Emit(lexer, lexer.mode), char)

\* What each state does at the end of the string.
LexEnd(lexer) == IF lexer.mode \in {"text", "escape"} THEN EmitTerm(lexer)
                 ELSE Emit(lexer, lexer.mode)

\* run, from a lexer that has read something before.
Lexed(lexer, str) ==
  LET run[n \in 0..Len(str)] == IF n = 0 THEN lexer ELSE LexCharacter(run[n - 1], str[n])
  IN  run[Len(str)]

Lexemes(str) == LexEnd(Lexed(LexerStart, str)).lexemes

-------------------------------------------------------------------------------
ParseInt(str) ==
  LET value[n \in 0..Len(str)] == IF n = 0 THEN 0 ELSE 10 * value[n - 1] + str[n] - 48
  IN  value[Len(str)]

\* The parser before a lexeme: what it has read last, and the clause that it is
\* reading.  The clause starts with the defaults that Query.clause would put in;
\* an edit distance of -1 stands for none.
NoClause == [fields |-> FieldNames, term |-> <<>>, usePipeline |-> TRUE,
             editDistance |-> -1, boost |-> 1]

ParserStart == [last |-> "nothing", clause |-> NoClause, clauses |-> <<>>, error |-> FALSE]

\* Mutant: what belongs to a clause is kept for the next one.
NextClauseKept(parser) ==
  IF parser.last \in {"nothing", "FIELD"} THEN parser
  ELSE [parser EXCEPT !.clauses = Append(@, parser.clause)]

\* nextClause, if there is one that has been read.
NextClause(parser) ==
  IF parser.last \in {"nothing", "FIELD"} THEN parser
  ELSE [parser EXCEPT !.clauses = Append(@, parser.clause), !.clause = NoClause]

ParseTerm(parser, str) ==
  [NextClause(parser) EXCEPT !.clause.term = LowerCase(str),
                             !.clause.usePipeline = ~\E i \in DOMAIN str : str[i] = Star]

\* A field after a field, a distance or a boost without a term before it, an
\* unknown field and a missing number are errors.
ParseLexeme(parser, lexeme) ==
  LET read ==
        CASE lexeme.type = "FIELD" -> [NextClause(parser) EXCEPT !.clause.fields = {lexeme.str}]
          [] lexeme.type = "TERM" -> ParseTerm(parser, lexeme.str)
          [] lexeme.type = "EDIT_DISTANCE" ->
               [parser EXCEPT !.clause.editDistance = ParseInt(lexeme.str)]
          [] lexeme.type = "BOOST" -> [parser EXCEPT !.clause.boost = ParseInt(lexeme.str)]
      error ==
        CASE lexeme.type = "FIELD" -> parser.last = "FIELD" \/ lexeme.str \notin FieldNames
          [] lexeme.type = "TERM" -> FALSE
          [] OTHER -> parser.last \in {"nothing", "FIELD"} \/ lexeme.str = <<>>
  IN  IF parser.error \/ error THEN [parser EXCEPT !.error = TRUE]
      ELSE [read EXCEPT !.last = lexeme.type]

\* parse: the clauses of a string, or the error it ends with.
Parsed(parser) == [error |-> parser.error \/ parser.last = "FIELD",
                   clauses |-> NextClause(parser).clauses]

ParsedAlong(parser, lexemes) ==
  LET run[n \in 0..Len(lexemes)] == IF n = 0 THEN parser ELSE ParseLexeme(run[n - 1], lexemes[n])
  IN  run[Len(lexemes)]

Parse(str) == Parsed(ParsedAlong(ParserStart, Lexemes(str)))

-------------------------------------------------------------------------------
\* How a user writes a clause: what would end the term is escaped.
Escape(c) == IF c \in SpecialCharacters \/ IsTermSeparator(c) THEN <<Backslash, c>> ELSE <<c>>

Escaped(term) ==
  LET escaped[n \in 0..Len(term)] == IF n = 0 THEN <<>> ELSE escaped[n - 1] \o Escape(term[n])
  IN  escaped[Len(term)]

Number(n) == IF n < 10 THEN <<48 + n>> ELSE <<48 + n \div 10, 48 + (n % 10)>>

Written(c) ==
  (IF Cardinality(c.fields) = 1 THEN (CHOOSE f \in c.fields : TRUE) \o <<Colon>> ELSE <<>>) \o
  Escaped(c.term) \o
  (IF c.editDistance >= 0 THEN <<Tilde>> \o Number(c.editDistance) ELSE <<>>) \o
  (IF c.boost # 1 THEN <<Caret>> \o Number(c.boost) ELSE <<>>)

WrittenAll(clauses) ==
  LET written[n \in 0..Len(clauses)] ==
        IF n = 0 THEN <<>> ELSE written[n - 1] \o <<32>> \o Written(clauses[n])
  IN  written[Len(clauses)]
===============================================================================
