------------------------------- MODULE SqlParser -------------------------------
(***************************************************************************)
(* The LALR(1) parser that Bison made of simple-parsing/parser.y           *)
(* (parser.tab.c), with the scanner of lexer.l.  The tables are those of   *)
(* the C file, with indices from 0.                                        *)
(***************************************************************************)
EXTENDS Integers, Sequences, SequencesExt, TLC

CONSTANT MaxWords   \* bound: lexemes in an input

VARIABLES
  words,         \* the lexemes that yylex has not read
  yyss, yyvs,    \* the state and the value stack
  yychar,        \* the lookahead, or YYEMPTY
  yyerrstatus,
  printed,       \* what the program has written
  yyresult,      \* PARSING, POPPING after an error, or the result
  query          \* history: the input

sqlVars == <<words, yyss, yyvs, yychar, yyerrstatus, printed, yyresult, query>>

PARSING == -1
POPPING == -2

\* Token kinds, and the symbols the tables are made for.
YYEMPTY == -2
YYEOF == 0
YYerror == 256
SELECT == 258
FROM == 259
SEMICOLON == 260
IDENTIFIER == 261

YYSYMBOL_YYerror == 1
YYSYMBOL_YYUNDEF == 2
yytranslate ==
  [kind \in 0 .. 261 |-> CASE kind = YYEOF -> 0
                          [] kind >= YYerror -> kind - 255
                          [] OTHER -> YYSYMBOL_YYUNDEF]

YYFINAL == 4
YYLAST == 5
YYNTOKENS == 7
YYPACT_NINF == -6
yypact == <<-3, -5, 2, -1, -6, -2, 0, -6>>
yydefact == <<0, 0, 0, 0, 1, 0, 0, 2>>
yypgoto == <<-6, -6>>
yydefgoto == <<0, 2>>
yytable == <<1, 3, 4, 5, 6, 7>>
yycheck == <<3, 6, 0, 4, 6, 5>>
yyr1 == <<0, 7, 8>>
yyr2 == <<0, 2, 5>>
Entry(table, index) == table[index + 1]

yystate == Last(yyss)

\* yylex: white space and unknown characters are no tokens.  yylval is set for an
\* identifier; what it is for other tokens no action reads.
SKIPPED == -1
Word(kind, name) == [kind |-> kind, name |-> name]
FirstToken ==
  CHOOSE n \in 1 .. Len(words) + 1 :
    /\ \A m \in 1 .. n - 1 : words[m].kind = SKIPPED
    /\ n <= Len(words) => words[n].kind # SKIPPED

yylex ==
  IF yychar # YYEMPTY THEN yychar
  ELSE IF FirstToken > Len(words) THEN YYEOF ELSE words[FirstToken].kind

yytoken == yytranslate[yylex]

yylexRest == IF yychar # YYEMPTY THEN words ELSE SubSeq(words, FirstToken + 1, Len(words))
yylval == IF yychar = YYEMPTY /\ FirstToken <= Len(words)
          THEN words[FirstToken].name ELSE "none"

\* Does yytable have an action for this state and symbol?
NoCheck(state, symbol) ==   \* mutant: the symbol is not compared with yycheck
  LET yyn == Entry(yypact, state) + symbol IN yyn >= 0 /\ yyn <= YYLAST

InTable(state, symbol) ==
  LET yyn == Entry(yypact, state) + symbol
  IN  yyn >= 0 /\ yyn <= YYLAST /\ Entry(yycheck, yyn) = symbol

Parsing == yyresult = PARSING /\ yystate # YYFINAL
Default == Entry(yypact, yystate) = YYPACT_NINF

\* yybackup with an entry of yytable, none of which is a reduction here.
yybackup ==
  /\ Parsing /\ ~ Default /\ InTable(yystate, yytoken)
  /\ yyss' = Append(yyss, Entry(yytable, Entry(yypact, yystate) + yytoken))
  /\ yyvs' = Append(yyvs, yylval) /\ words' = yylexRest /\ yychar' = YYEMPTY
  /\ yyerrstatus' = IF yyerrstatus > 0 THEN yyerrstatus - 1 ELSE 0
  /\ UNCHANGED <<printed, yyresult, query>>

\* yydefault and yyreduce, in a state that does not look at the next token.
yyreduce ==
  LET rule == Entry(yydefact, yystate)
      yylen == Entry(yyr2, rule)
      below == SubSeq(yyss, 1, Len(yyss) - yylen)
      lhs == Entry(yyr1, rule) - YYNTOKENS
      index == Entry(yypgoto, lhs) + Last(below)
  IN
  /\ Parsing /\ Default /\ rule # 0
  /\ printed' = IF rule # 2 THEN printed
                ELSE printed \o <<<<"SQL is Valid!">>, <<"Column", yyvs[Len(yyvs) - 3]>>,
                                  <<"Table", yyvs[Len(yyvs) - 1]>>>>
  /\ yyss' = Append(below,
       IF index >= 0 /\ index <= YYLAST /\ Entry(yycheck, index) = Last(below)
       THEN Entry(yytable, index) ELSE Entry(yydefgoto, lhs))
  /\ yyvs' = Append(SubSeq(yyvs, 1, Len(yyvs) - yylen), yyvs[Len(yyvs) - yylen + 1])
  /\ UNCHANGED <<words, yychar, yyerrstatus, yyresult, query>>

\* yyerrlab, from a state whose default is an error.
yyerrlab ==
  /\ Parsing /\ ~ Default /\ ~ InTable(yystate, yytoken) /\ Entry(yydefact, yystate) = 0
  /\ yychar' = yylex /\ words' = yylexRest
  /\ printed' = IF yyerrstatus = 0 THEN Append(printed, <<"Syntax Error!">>) ELSE printed
  /\ yyerrstatus' = 3 /\ yyresult' = POPPING
  /\ UNCHANGED <<yyss, yyvs, query>>

\* yyerrlab1: no state of this grammar shifts the error token, so the stack is
\* popped to its bottom.
yyerrlab1 ==
  /\ yyresult = POPPING /\ (Default \/ ~ InTable(yystate, YYSYMBOL_YYerror))
  /\ IF Len(yyss) = 1 THEN yyresult' = 1 /\ UNCHANGED <<yyss, yyvs>>
     ELSE yyss' = Front(yyss) /\ yyvs' = Front(yyvs) /\ UNCHANGED yyresult
  /\ UNCHANGED <<words, yychar, yyerrstatus, printed, query>>

\* yysetstate with the final state, and yyacceptlab.
yyacceptlab ==
  /\ yyresult = PARSING /\ yystate = YYFINAL
  /\ yyresult' = 0
  /\ UNCHANGED <<words, yyss, yyvs, yychar, yyerrstatus, printed, query>>

Lexemes ==
  {Word(SELECT, "none"), Word(FROM, "none"), Word(SEMICOLON, "none"),
   Word(IDENTIFIER, "a"), Word(IDENTIFIER, "b"), Word(SKIPPED, "none")}

SqlStart(input) ==
  /\ query = input /\ words = input
  /\ yyss = <<0>> /\ yyvs = <<"none">> /\ yychar = YYEMPTY /\ yyerrstatus = 0
  /\ printed = <<>> /\ yyresult = PARSING

SqlInit == \E input \in SeqOf(Lexemes, MaxWords) : SqlStart(input)

SqlStep == yybackup \/ yyreduce \/ yyerrlab \/ yyerrlab1 \/ yyacceptlab

-----------------------------------------------------------------------------
\* The tokens of the input.
Sentence == SelectSeq(query, LAMBDA word : word.kind # SKIPPED)
Kinds == [n \in DOMAIN Sentence |-> Sentence[n].kind]
Query == <<SELECT, IDENTIFIER, FROM, IDENTIFIER, SEMICOLON>>

\* parser.y:20-29 and 33-36: yyparse succeeds on just the sentences of the grammar.
\* The action has run, once and with the sentence's own names, as soon as an input
\* starts with one, also when what follows makes it fail; and a failure is
\* reported once.
ParsesQueries ==
  yyresult \in {0, 1} =>
    /\ yyresult = 0 <=> Kinds = Query
    /\ printed =
         (IF IsPrefix(Query, Kinds)
          THEN <<<<"SQL is Valid!">>, <<"Column", Sentence[2].name>>,
                 <<"Table", Sentence[4].name>>>>
          ELSE <<>>)
         \o (IF yyresult = 1 THEN <<<<"Syntax Error!">>>> ELSE <<>>)
=============================================================================
