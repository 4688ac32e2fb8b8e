------------------------------- MODULE Parser -------------------------------
(***************************************************************************)
(* The parser of biffc (parser.cpp): recursive descent over the token      *)
(* vector, with one token of lookahead and, after an identifier, two.      *)
(*                                                                         *)
(* What the C++ calls in progress have yet to do is the sequence "todo":   *)
(* tokens to expect and functions to call, the innermost call's first.     *)
(* Calling a function replaces it by what its body does; where the body    *)
(* looks at a token, the action does.  The token vector is not given in    *)
(* advance: a token is chosen when the parser first looks at it.           *)
(*                                                                         *)
(* Of the syntax tree only what says how an expression was grouped is      *)
(* kept: the outermost operator of the expression that the function that   *)
(* returned last has returned.                                             *)
(***************************************************************************)
EXTENDS Integers, Sequences

CONSTANTS
  Tokens,    \* the token types of the streams
  MaxBlocks, \* bound: the braces open at a time
  MaxNesting \* bound: the other brackets open at a time, with the "!" that wait for
             \* their operand

VARIABLES
  ahead,     \* the tokens looked at from m_pointer on
  todo,      \* what the calls in progress have yet to do
  val,       \* the outermost operator of the expression returned last
  mode,      \* "parsing", "accepted", "error" or "crash"
  opened     \* history: the brackets not closed yet

vars == <<ahead, todo, val, mode, opened>>

\* m_pointer = m_size.
END == "END"

Levels == 1..4

\* Mutant of OpsAt: parse_comparison and parse_additive call one another the
\* wrong way round.
OpsAtSwapped == <<{"OR", "AND"},
                  {"ADD", "SUB"},
                  {"EQ", "NEQ", "LT", "GT", "LEQ", "GEQ"},
                  {"MUL", "DIV", "MOD"}>>

\* parse_expression, parse_comparison, parse_additive, parse_term.
OpsAt == <<{"OR", "AND"},
           {"EQ", "NEQ", "LT", "GT", "LEQ", "GEQ"},
           {"ADD", "SUB"},
           {"MUL", "DIV", "MOD"}>>

Literals == {"TRUE", "FALSE", "NUMBER", "CHAR", "STRING"}
Openers  == {"LPAREN", "LBRACKET", "LBRACE"}
CloserOf == [LPAREN |-> "RPAREN", LBRACKET |-> "RBRACKET", LBRACE |-> "RBRACE"]
Closers  == {CloserOf[o] : o \in Openers}

Keywords == {"LOOP", "IF", "LET", "PRINT_STR", "PRINT_VAL", "DEF", "RETURN", "STRUCT"}

\* BAD_CHAR is a character literal with no or several characters or an unknown
\* escape.
AllTokens ==
  (UNION {OpsAt[k] : k \in Levels}) \cup Literals \cup Openers \cup Closers \cup
  Keywords \cup
  {"IDENT", "EQUALS", "SEMICOLON", "COLON", "NOT", "COMMA", "DOT", "READ_CHAR", "BAD_CHAR"}

ASSUME TokensAssumption == Tokens \subseteq AllTokens /\ {MaxBlocks, MaxNesting} \subseteq Nat

-----------------------------------------------------------------------------
(* What is pending.                                                        *)

Item(do) == [do |-> do, tok |-> "", level |-> 0, seen |-> {}]

Expect(tok) == [Item("expect") EXCEPT !.tok = tok]

AtLevel(do, k) == [Item(do) EXCEPT !.level = k]

Expression == AtLevel("level", 1)

\* The functions that look at the next token, and those that look two ahead.
Looking == {"expect", "program", "fields", "args", "more_args", "tail", "unary",
            "factor", "index", "target", "value", "struct_fields", "params",
            "more_params", "type"}

\* Mutant of Wanted: the second token is looked at whatever the first one is.
WantedPastEnd ==
  IF todo = <<>> \/ Head(todo).do \notin Looking THEN 0
  ELSE IF Head(todo).do \in {"program", "factor"} /\ ahead # <<>> THEN 2 ELSE 1

Wanted ==
  IF todo = <<>> \/ Head(todo).do \notin Looking THEN 0
  ELSE IF Head(todo).do \in {"program", "factor"} /\ ahead # <<>> /\ ahead[1] = "IDENT"
    THEN 2 ELSE 1

Blocks  == Len(SelectSeq(opened, LAMBDA o : o = "LBRACE"))
Nesting == Len(opened) - Blocks + Len(SelectSeq(todo, LAMBDA i : i.do = "not"))

\* The stream is found out as far as the parser looks. Only parse_program looks
\* for a keyword: anywhere else they are all as unexpected as a BAD_CHAR.
Scan ==
  /\ mode = "parsing"
  /\ Len(ahead) < Wanted
  /\ \E t \in Tokens \cup {END} :
       /\ t = "LBRACE" => Blocks < MaxBlocks
       /\ t \in {"LPAREN", "LBRACKET", "NOT"} => Nesting < MaxNesting
       /\ t \in Keywords => Head(todo).do = "program" /\ ahead = <<>>
       /\ ahead' = Append(ahead, t)
  /\ UNCHANGED <<todo, val, mode, opened>>

Doing(do) ==
  mode = "parsing" /\ todo # <<>> /\ Head(todo).do = do /\ Len(ahead) >= Wanted

Cur     == ahead[1]
Sees(T) == Cur \in T

Calls(items) == todo' = items \o Tail(todo)

\* m_pointer++.
Consume ==
  /\ ahead' = IF Cur = END THEN ahead ELSE Tail(ahead)
  /\ opened' = CASE Cur \in Openers -> Append(opened, Cur)
                 [] Cur \in Closers ->
                      IF opened # <<>> /\ opened[Len(opened)] \in Openers
                           /\ CloserOf[opened[Len(opened)]] = Cur
                        THEN SubSeq(opened, 1, Len(opened) - 1)
                        ELSE Append(opened, Cur)
                 [] OTHER -> opened

Stay == UNCHANGED <<ahead, opened>>

\* The exception carries the line of the token at m_pointer. At the end of the
\* stream that is read past the vector: some number, or the program dies.
Throw ==
  /\ mode' \in IF Cur = END THEN {"error", "crash"} ELSE {"error"}
  /\ UNCHANGED <<ahead, todo, val, opened>>

Goes(items)   == Calls(items) /\ Stay /\ UNCHANGED <<val, mode>>
Takes(items)  == Consume /\ Calls(items) /\ UNCHANGED <<val, mode>>

\* Mutant of ExpectType: the end of the stream is not noticed.
ExpectTypeAtEnd ==
  /\ Doing("expect")
  /\ IF Sees({Head(todo).tok, END}) THEN Takes(<<>>) ELSE Throw

ExpectType ==
  /\ Doing("expect")
  /\ IF Sees({Head(todo).tok}) THEN Takes(<<>>) ELSE Throw

-----------------------------------------------------------------------------
(* Expressions.                                                            *)

\* An operand that no operator joins; NoVal outside an expression and until its
\* first operand is returned.
Leaf  == "leaf"
NoVal == ""

\* The four functions for binary operators: an operand of the next level, then
\* the operators of this one.
ParseLevel ==
  LET k == Head(todo).level
  IN  /\ Doing("level")
      /\ Calls(<<IF k = 4 THEN Item("unary") ELSE AtLevel("level", k + 1),
                 AtLevel("tail", k)>>)
      /\ val' = NoVal
      /\ Stay /\ UNCHANGED mode

RightOperand(k) == IF k = 4 THEN Item("unary") ELSE AtLevel("level", k + 1)

ParseTail ==
  LET k == Head(todo).level
  IN  /\ Doing("tail")
      /\ IF Sees(OpsAt[k])
           THEN Takes(<<RightOperand(k), [Item("binary") EXCEPT !.tok = Cur], Head(todo)>>)
           ELSE /\ Calls(<<>>)
                /\ val' = IF k = 1 THEN NoVal ELSE val
                /\ Stay /\ UNCHANGED mode

\* BinaryExpr of the operand returned before the operator and the one after it.
MakeBinary ==
  /\ Doing("binary")
  /\ val' = Head(todo).tok
  /\ Calls(<<>>)
  /\ Stay /\ UNCHANGED mode

ParseUnary ==
  /\ Doing("unary")
  /\ IF Sees({"NOT"}) THEN Takes(<<Item("unary"), Item("not")>>)
                      ELSE Goes(<<Item("factor")>>)

MakeUnary ==
  /\ Doing("not")
  /\ val' = "NOT"
  /\ Calls(<<>>)
  /\ Stay /\ UNCHANGED mode

\* parse_factor, the literals.
ParseLiteral ==
  /\ Doing("factor")
  /\ Sees(Literals)
  /\ Consume
  /\ Calls(<<>>)
  /\ val' = Leaf
  /\ UNCHANGED mode

\* The operand is complete when what it is made of has been parsed.
Whole == Item("operand")

\* The rest of parse_factor.
ParseFactor ==
  /\ Doing("factor")
  /\ ~Sees(Literals)
  /\ CASE Sees({"IDENT"}) /\ ahead[2] = "LPAREN" -> Goes(<<Item("call"), Whole>>)
       [] Sees({"IDENT"}) /\ ahead[2] # "LPAREN" ->
            Goes(<<Item("var"), Item("index"), Whole>>)
       [] Sees({"READ_CHAR"}) -> Takes(<<Expect("LPAREN"), Expect("RPAREN"), Whole>>)
       [] Sees({"LPAREN"})    -> Takes(<<Expression, Expect("RPAREN"), Whole>>)
       [] OTHER               -> Throw

FinishOperand ==
  /\ Doing("operand")
  /\ val' = Leaf
  /\ Calls(<<>>)
  /\ Stay /\ UNCHANGED mode

\* An element of an array.
ParseIndex ==
  /\ Doing("index")
  /\ IF Sees({"LBRACKET"}) THEN Takes(<<Expression, Expect("RBRACKET")>>) ELSE Goes(<<>>)

ParseVarExpr == Doing("var") /\ Goes(<<Expect("IDENT"), Item("fields")>>)

ParseFields ==
  /\ Doing("fields")
  /\ IF Sees({"DOT"}) THEN Takes(<<Expect("IDENT"), Item("fields")>>) ELSE Goes(<<>>)

ParseCallExpr ==
  /\ Doing("call")
  /\ Goes(<<Expect("IDENT"), Expect("LPAREN"), Item("args"), Expect("RPAREN")>>)

\* A comma may be followed by the end of the list.
ParseArgs ==
  /\ Doing("args")
  /\ Goes(IF Sees({"RPAREN"}) THEN <<>> ELSE <<Expression, Item("more_args")>>)

MoreArgs ==
  /\ Doing("more_args")
  /\ Goes(IF Sees({"RPAREN"}) THEN <<>> ELSE <<Expect("COMMA"), Item("args")>>)

-----------------------------------------------------------------------------
(* Statements.                                                             *)

\* parse_assign, for a let too: what follows the name decides.
ParseAssign == Doing("assign") /\ Goes(<<Expect("IDENT"), Item("target")>>)

ParseTarget ==
  LET value == [Item("value") EXCEPT !.seen = IF Sees({"DOT"}) THEN {"fields"} ELSE {}]
  IN  /\ Doing("target")
      /\ Goes(<<Item("fields"), value>>)

\* The array functions are called where a bracket follows the target, or the "=".
ParseValue ==
  LET seen  == Head(todo).seen
      index == <<Expression, Expect("RBRACKET")>>
  IN  /\ Doing("value")
      /\ CASE Sees({"LBRACKET"}) /\ "equals" \notin seen /\ "type" \notin seen ->
                Takes(index \o <<Expect("EQUALS"), Expression, Expect("SEMICOLON")>>)
           [] Sees({"COLON"}) /\ "equals" \notin seen /\ "type" \notin seen ->
                Takes(<<Item("type"), [Head(todo) EXCEPT !.seen = @ \cup {"type"}]>>)
           [] "equals" \notin seen /\ (Sees({"LBRACKET", "COLON"}) => "type" \in seen) ->
                Goes(<<Expect("EQUALS"), [Head(todo) EXCEPT !.seen = @ \cup {"equals"}]>>)
           [] Sees({"LBRACKET"}) /\ "equals" \in seen ->
                IF seen = {"equals"} THEN Takes(index \o <<Expect("SEMICOLON")>>)
                                     ELSE Throw
           [] OTHER -> Goes(<<Expression, Expect("SEMICOLON")>>)

ParseType ==
  /\ Doing("type")
  /\ IF Sees({"LBRACKET"}) THEN Takes(<<Expect("NUMBER"), Expect("RBRACKET")>>)
                           ELSE Goes(<<Expect("IDENT")>>)

Block(keyword) ==
  <<Expect(keyword), Expect("LPAREN"), Expression, Expect("RPAREN"), Expect("LBRACE"),
    Item("program")>>

Built(keyword) ==
  <<Expect(keyword), Expect("LPAREN"), Expression, Expect("RPAREN"), Expect("SEMICOLON")>>

ParseLoop     == Doing("loop") /\ Goes(Block("LOOP"))
ParseIf       == Doing("if") /\ Goes(Block("IF"))
ParsePrintStr == Doing("print_str") /\ Goes(Built("PRINT_STR"))
ParsePrintVal == Doing("print_val") /\ Goes(Built("PRINT_VAL"))
ParseCallStmt == Doing("call_stmt") /\ Goes(<<Item("call"), Expect("SEMICOLON")>>)
ParseReturn   ==
  Doing("return") /\ Goes(<<Expect("RETURN"), Expression, Expect("SEMICOLON")>>)

ParseDefineStruct ==
  /\ Doing("struct")
  /\ Goes(<<Expect("STRUCT"), Expect("IDENT"), Expect("LBRACE"), Item("struct_fields"),
            Expect("RBRACE")>>)

\* Every field ends with a comma, the last one too.
StructFields ==
  /\ Doing("struct_fields")
  /\ Goes(IF Sees({"RBRACE"})
            THEN <<>>
            ELSE <<Item("type"), Expect("IDENT"), Expect("COMMA"),
                   Item("struct_fields")>>)

ParseFunctionDefinition ==
  /\ Doing("def")
  /\ Goes(<<Expect("DEF"), Expect("IDENT"), Expect("IDENT"), Expect("LPAREN"),
            Item("params"), Expect("RPAREN"), Expect("LBRACE"), Item("program")>>)

ParseParams ==
  /\ Doing("params")
  /\ Goes(IF Sees({"RPAREN"})
            THEN <<>> ELSE <<Item("type"), Expect("IDENT"), Item("more_params")>>)

MoreParams ==
  /\ Doing("more_params")
  /\ Goes(IF Sees({"RPAREN"}) THEN <<>> ELSE <<Expect("COMMA"), Item("params")>>)

\* The function that parses the statement the next tokens begin.
StatementOf ==
  CASE Sees({"LET"})    -> <<Expect("LET"), Item("assign")>>
    [] Sees({"IDENT"})  -> <<Item(IF ahead[2] = "LPAREN" THEN "call_stmt" ELSE "assign")>>
    [] Sees({"LOOP"})   -> <<Item("loop")>>
    [] Sees({"IF"})     -> <<Item("if")>>
    [] Sees({"PRINT_STR"}) -> <<Item("print_str")>>
    [] Sees({"PRINT_VAL"}) -> <<Item("print_val")>>
    [] Sees({"STRUCT"}) -> <<Item("struct")>>
    [] Sees({"DEF"})    -> <<Item("def")>>
    [] Sees({"RETURN"}) -> <<Item("return")>>
    [] OTHER            -> <<>>

\* parse_program: a statement, and back to the loop.
ParseProgram ==
  /\ Doing("program")
  /\ StatementOf # <<>>
  /\ Calls(Append(StatementOf, Item("program")))
  /\ Stay /\ UNCHANGED <<val, mode>>

\* Mutant of EndProgram: any closing bracket ends a block.
EndProgramAnyBracket ==
  /\ Doing("program")
  /\ StatementOf = <<>>
  /\ IF Sees(Closers) THEN Takes(<<>>) ELSE IF Sees({END}) THEN Goes(<<>>) ELSE Throw

\* A closing brace and the end of the stream both end the innermost program.
EndProgram ==
  /\ Doing("program")
  /\ StatementOf = <<>>
  /\ IF Sees({"RBRACE"}) THEN Takes(<<>>) ELSE IF Sees({END}) THEN Goes(<<>>) ELSE Throw

\* The call of parse_program in main has returned: the program is compiled.
Accept ==
  /\ mode = "parsing" /\ todo = <<>>
  /\ mode' = "accepted"
  /\ UNCHANGED <<ahead, todo, val, opened>>

Stopped == mode # "parsing" /\ UNCHANGED vars

Init ==
  /\ ahead = <<>>
  /\ todo = <<Item("program")>>
  /\ val = NoVal
  /\ mode = "parsing"
  /\ opened = <<>>

Expressions ==
  \/ ParseLevel \/ ParseTail \/ MakeBinary \/ ParseUnary \/ MakeUnary \/ ParseLiteral
  \/ ParseFactor \/ FinishOperand \/ ParseIndex \/ ParseVarExpr \/ ParseFields
  \/ ParseCallExpr \/ ParseArgs \/ MoreArgs

Statements ==
  \/ ParseAssign \/ ParseTarget \/ ParseValue \/ ParseType \/ ParseLoop \/ ParseIf
  \/ ParsePrintStr \/ ParsePrintVal \/ ParseCallStmt \/ ParseReturn
  \/ ParseDefineStruct \/ StructFields \/ ParseFunctionDefinition \/ ParseParams
  \/ MoreParams \/ ParseProgram \/ EndProgram

Next == Scan \/ ExpectType \/ Expressions \/ Statements \/ Accept \/ Stopped

\* A sequential program runs on while it has something to do.
Spec == Init /\ [][Next]_vars /\ WF_vars(Next)

-----------------------------------------------------------------------------
Items ==
  [do : Looking \cup {"level", "binary", "not", "operand", "var", "call", "assign",
                      "loop", "if", "print_str", "print_val", "call_stmt", "return",
                      "struct", "def"},
   tok : AllTokens \cup {""}, level : Nat, seen : SUBSET {"fields", "type", "equals"}]

\* The parser looks at most two tokens ahead, and behind the end there is nothing.
TypeOK ==
  /\ Len(ahead) <= 2 /\ \A i \in 1..Len(ahead) : ahead[i] \in Tokens \cup {END}
  /\ \A i \in 1..Len(ahead) - 1 : ahead[i] # END
  /\ \A i \in 1..Len(todo) : todo[i] \in Items
  /\ mode \in {"parsing", "accepted", "error", "crash"}

Precedence(t) ==
  CASE t \in {"OR", "AND"} -> 1
    [] t \in {"EQ", "NEQ", "LT", "GT", "LEQ", "GEQ"} -> 2
    [] t \in {"ADD", "SUB"} -> 3
    [] t \in {"MUL", "DIV", "MOD"} -> 4
    [] t = "NOT" -> 5
    [] OTHER -> 6

\* README.md, "Compound Expressions": the tree "correctly follows the order of
\* operations". When an operator is read the operand to its left binds at least as
\* tight, and when its right operand is complete that binds tighter: * over + over
\* comparisons over || and &&, each grouped from the left, and ! over all of
\* them. With the tokens in order this leaves one tree for an expression.
OrderOfOperations ==
  mode = "parsing" /\ todo # <<>> =>
    CASE Doing("tail") ->
           Sees(OpsAt[Head(todo).level]) => Precedence(val) >= Precedence(Cur)
      [] Doing("binary") -> Precedence(val) > Precedence(Head(todo).tok)
      [] Doing("not")    -> Precedence(val) >= Precedence("NOT")
      [] OTHER -> TRUE

\* Until the program ends a closing bracket is only ever taken to close the bracket
\* opened last. Statements begin where nothing but braces is open, one for every
\* call of parse_program inside main's, so that a "}" ends the block opened last
\* (parser.cpp:556) and only main's call can meet one too many. A program that is
\* accepted has all its parentheses and square brackets closed, but not always
\* its braces (parser.cpp:554, "This only breaks parsing if a block is illegally
\* used"): either the stream has ended, in whatever blocks, or one "}" too many
\* has ended the program, whatever follows it.
BracketsMatch ==
  /\ todo # <<>> => \A i \in 1..Len(opened) : opened[i] \in Openers
  /\ Doing("program") /\ Cur # END =>
       /\ \A i \in 1..Len(todo) : todo[i].do = "program"
       /\ \A i \in 1..Len(opened) : opened[i] = "LBRACE"
       /\ Len(todo) = Len(opened) + 1
  /\ todo = <<>> \/ mode = "accepted" =>
       \/ opened = <<"RBRACE">>
       \/ ahead = <<END>> /\ \A i \in 1..Len(opened) : opened[i] = "LBRACE"

\* Until it stops the parser keeps consuming tokens: no loop over arguments,
\* fields, parameters or statements goes round without one, at the end of the
\* stream too.
Progress ==
  <>(mode # "parsing") \/ []<><<Len(ahead') < Len(ahead)>>_ahead
=============================================================================
