------------------------------ MODULE LoxScanner ------------------------------
(***************************************************************************)
(* The scanner of jlox_interpriter (Scanner.java) and the run of a file    *)
(* through it (Lox.java).  A character is a string of length one; one step *)
(* is one turn of scanTokens' loop.                                        *)
(***************************************************************************)
EXTENDS Integers, Sequences, FiniteSets, SequencesExt

CONSTANTS
  Chars,       \* the characters that sources are made of
  MaxSource    \* bound: the length of a source

ASSUME LoxAssumption == MaxSource \in Nat

VARIABLES
  source, current, line, tokens, hadError,
  exitCode,    \* RUNNING, PROMPT, or what the program exits with
  pieces       \* history: where each turn of the loop started and ended

loxVars == <<source, current, line, tokens, hadError, exitCode, pieces>>

RUNNING == -1
PROMPT == -2   \* the next line is asked for

\* The map of a set of pairs of a key and its value.
MapOf(pairs) ==
  [key \in {pair[1] : pair \in pairs} |-> (CHOOSE pair \in pairs : pair[1] = key)[2]]

keywords == MapOf({
  <<<<"a", "n", "d">>, "AND">>, <<<<"c", "l", "a", "s", "s">>, "CLASS">>,
  <<<<"e", "l", "s", "e">>, "ELSE">>, <<<<"f", "a", "l", "s", "e">>, "FALSE">>,
  <<<<"f", "o", "r">>, "FOR">>, <<<<"f", "u", "n">>, "FUN">>, <<<<"i", "f">>, "IF">>,
  <<<<"n", "i", "l">>, "NIL">>, <<<<"o", "r">>, "OR">>,
  <<<<"p", "r", "i", "n", "t">>, "PRINT">>, <<<<"r", "e", "t", "u", "r", "n">>, "RETURN">>,
  <<<<"s", "u", "p", "e", "r">>, "SUPER">>, <<<<"t", "h", "i", "s">>, "THIS">>,
  <<<<"t", "r", "u", "e">>, "TRUE">>, <<<<"v", "a", "r">>, "VAR">>,
  <<<<"w", "h", "i", "l", "e">>, "WHILE">>})

LeftBrace == "{"
RightBrace == "}"
Comma == ","
Semicolon == ";"
Single == MapOf({
  <<"(", "LEFT_PAREN">>, <<")", "RIGHT_PAREN">>, <<LeftBrace, "LEFT_BRACE">>,
  <<RightBrace, "RIGHT_BRACE">>, <<Comma, "COMMA">>, <<".", "DOT">>, <<"-", "MINUS">>,
  <<"+", "PLUS">>, <<Semicolon, "SEMICOLON">>, <<"*", "STAR">>})
OneOrTwo == MapOf({
  <<"!", <<"BANG", "BANG_EQUAL">>>>, <<"=", <<"EQUAL", "EQUAL_EQUAL">>>>,
  <<"<", <<"LESS", "LESS_EQUAL">>>>, <<">", <<"GREATER", "GREATER_EQUAL">>>>})

Digits == {"0", "1", "2", "3", "4", "5", "6", "7", "8", "9"}
Blanks == {" ", "\r", "\t"}
Newline == "\n"
Quote == "\""
Marks == DOMAIN Single \cup DOMAIN OneOrTwo \cup Blanks \cup {"/", Newline, Quote}

isDigit(c) == c \in Digits
isAlpha(c) ==
  c \in {"A", "B", "C", "D", "E", "F", "G", "H", "I", "J", "K", "L", "M", "N", "O", "P",
         "Q", "R", "S", "T", "U", "V", "W", "X", "Y", "Z",
         "a", "b", "c", "d", "e", "f", "g", "h", "i", "j", "k", "l", "m", "n", "o", "p",
         "q", "r", "s", "t", "u", "v", "w", "x", "y", "z", "_"}

length == Len(source)
text(from, to) == SubSeq(source, from + 1, to)

\* peek and peekNext, at position p: is there a character of `set'?
At(p, set) == p < length /\ source[p + 1] \in set

\* A loop of advance while the next character is in `set'.
AdvanceWhile(p, set) ==
  CHOOSE q \in p .. length : ~ At(q, set) /\ \A r \in p .. q - 1 : At(r, set)

Alphas == {c \in Chars : isAlpha(c)}
Piece(to, type) == [to |-> to, type |-> type, error |-> FALSE]
Skipped(to) == Piece(to, "none")
Error(to) == [to |-> to, type |-> "none", error |-> TRUE]

identifier(start) ==
  LET to == AdvanceWhile(start + 1, Alphas \cup Digits)
      word == text(start, to)
  IN  Piece(to, IF word \in DOMAIN keywords THEN keywords[word] ELSE "IDENTIFIER")

numberWithDot(start) ==   \* mutant: the dot is taken without a digit behind it
  LET whole == AdvanceWhile(start + 1, Digits)
  IN  Piece(IF At(whole, {"."}) THEN AdvanceWhile(whole + 1, Digits) ELSE whole, "NUMBER")

number(start) ==
  LET whole == AdvanceWhile(start + 1, Digits)
  IN  Piece(IF At(whole, {"."}) /\ At(whole + 1, Digits)
            THEN AdvanceWhile(whole + 1, Digits) ELSE whole, "NUMBER")

string(start) ==
  LET to == AdvanceWhile(start + 1, Chars \ {Quote})
  IN  IF to = length THEN Error(to) ELSE Piece(to + 1, "STRING")

\* scanToken: where it stops, and the token it adds if it adds one.
scanToken(start) ==
  LET c == source[start + 1] IN
  CASE c \in DOMAIN Single -> Piece(start + 1, Single[c])
    [] c \in DOMAIN OneOrTwo ->
         IF At(start + 1, {"="}) THEN Piece(start + 2, OneOrTwo[c][2])
         ELSE Piece(start + 1, OneOrTwo[c][1])
    [] c = "/" -> IF At(start + 1, {"/"})
                  THEN Skipped(AdvanceWhile(start + 2, Chars \ {Newline}))
                  ELSE Piece(start + 1, "SLASH")
    [] c \in Blanks \cup {Newline} -> Skipped(start + 1)
    [] c = Quote -> string(start)
    [] isDigit(c) -> number(start)
    [] isAlpha(c) -> identifier(start)
    [] OTHER -> Error(start + 1)

Token(type, from, to, at) == [type |-> type, from |-> from, to |-> to, line |-> at]

\* line++, at a newline and in a string.
linesOf(from, to) == Cardinality({n \in from + 1 .. to : source[n] = Newline})

scanTokens ==
  /\ exitCode = RUNNING /\ current < length
  /\ LET scanned == scanToken(current) IN
       /\ current' = scanned.to
       /\ line' = line + linesOf(current, scanned.to)
       /\ tokens' = IF scanned.type = "none" THEN tokens
                    ELSE Append(tokens, Token(scanned.type, current, scanned.to, line'))
       /\ hadError' = (hadError \/ scanned.error)
       /\ pieces' = Append(pieces, [from |-> current, to |-> scanned.to])
  /\ UNCHANGED <<source, exitCode>>

\* The end of scanTokens and of runFile.
runFile ==
  /\ exitCode = RUNNING /\ current >= length
  /\ tokens' = Append(tokens, Token("EOF", length, length, line))
  /\ exitCode' = IF hadError THEN 65 ELSE 0
  /\ UNCHANGED <<source, current, line, hadError, pieces>>

\* The end of scanTokens with a line of the prompt, which then asks for another;
\* that one is scanned from its start like any source.
runPrompt ==
  /\ exitCode = RUNNING /\ current >= length /\ Newline \notin Range(source)
  /\ tokens' = Append(tokens, Token("EOF", length, length, line))
  /\ hadError' = FALSE /\ exitCode' = PROMPT
  /\ UNCHANGED <<source, current, line, pieces>>

LoxStart(text0) ==
  /\ source = text0
  /\ current = 0 /\ line = 1 /\ tokens = <<>> /\ hadError = FALSE
  /\ exitCode = RUNNING /\ pieces = <<>>

LoxInit == \E text0 \in SeqOf(Chars, MaxSource) : LoxStart(text0)

LoxStep == scanTokens \/ runFile \/ runPrompt
LoxSpec == LoxInit /\ [][LoxStep]_loxVars

-----------------------------------------------------------------------------
(* The lexical grammar, said without a scanner                             *)

All(word, set) == Range(word) \subseteq set
IsNumber(word) ==
  \/ word # <<>> /\ All(word, Digits)
  \/ \E n \in 2 .. Len(word) - 1 :
       /\ word[n] = "." /\ All(RemoveAt(word, n), Digits)
IsIdentifier(word) ==
  word # <<>> /\ word[1] \in Alphas /\ All(word, Alphas \cup Digits)
IsString(word) ==
  Len(word) >= 2 /\ word[1] = Quote /\ Last(word) = Quote
    /\ Quote \notin Range(SubSeq(word, 2, Len(word) - 1))
IsComment(word) ==
  Len(word) >= 2 /\ SubSeq(word, 1, 2) = <<"/", "/">> /\ All(word, Chars \ {Newline})
IsMark(word) ==
  \/ Len(word) = 1 /\ word[1] \in Marks \ {Quote}
  \/ Len(word) = 2 /\ word[1] \in DOMAIN OneOrTwo /\ word[2] = "="

IsLexeme(word) ==
  IsNumber(word) \/ IsIdentifier(word) \/ IsString(word) \/ IsComment(word) \/ IsMark(word)

LexemesAt(p) == {to \in p + 1 .. length : IsLexeme(text(p, to))}

\* The type of a word's token: blanks, comments and what is no lexeme have none.
MarkType(word) ==
  CASE word[1] \in DOMAIN OneOrTwo -> OneOrTwo[word[1]][Len(word)]
    [] word[1] \in DOMAIN Single -> Single[word[1]]
    [] word[1] = "/" -> "SLASH"
    [] OTHER -> "none"
TypeOf(word) ==
  CASE IsNumber(word) -> "NUMBER"
    [] IsString(word) -> "STRING"
    [] IsIdentifier(word) ->
         IF word \in DOMAIN keywords THEN keywords[word] ELSE "IDENTIFIER"
    [] IsMark(word) -> MarkType(word)
    [] OTHER -> "none"

NoLexemeAt(n) == LexemesAt(pieces[n].from) = {}

LongestLexemes ==
  /\ \A n \in DOMAIN pieces :
       /\ pieces[n].from = IF n = 1 THEN 0 ELSE pieces[n - 1].to
       /\ ~ NoLexemeAt(n) => pieces[n].to = Max(LexemesAt(pieces[n].from))
       /\ NoLexemeAt(n) =>
            /\ exitCode # PROMPT => hadError
            /\ pieces[n].to = IF source[pieces[n].from + 1] = Quote THEN length
                              ELSE pieces[n].from + 1
  /\ exitCode # RUNNING => length = IF pieces = <<>> THEN 0 ELSE Last(pieces).to
  /\ exitCode \in {0, 65} => (exitCode = 65 <=> \E n \in DOMAIN pieces : NoLexemeAt(n))

\* The tokens that the lexemes so far call for, and the one that ends them.
LineAt(p) == 1 + Cardinality({n \in 1 .. p : source[n] = Newline})
TokenOf(piece) ==
  Token(TypeOf(text(piece.from, piece.to)), piece.from, piece.to, LineAt(piece.to))
TokensOfPieces == {TokenOf(pieces[n]) : n \in DOMAIN pieces}
Ended == IF exitCode = RUNNING THEN {} ELSE {Token("EOF", length, length, LineAt(length))}

OneTokenEach ==
  /\ Range(tokens) = {t \in TokensOfPieces : t.type # "none"} \cup Ended
  /\ \A j, k \in DOMAIN tokens : j < k => tokens[j].from < tokens[k].from

\* Lines 42-205: a source is cut, from its start to its end and without gaps, into
\* the longest lexemes there are; where there is none an error is reported, for one
\* character or for the rest after an open quote, and a file with an error exits with
\* 65.  Of every lexeme but blanks and comments there is one token, in their order and
\* with EOF behind them, which has the lexeme's type, text and the line of its last
\* character, also behind strings of several lines.
TokensRight == LongestLexemes /\ OneTokenEach
=============================================================================
