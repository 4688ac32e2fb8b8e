SPECIFICATION Spec
CONSTANTS
  Tokens = {"OR", "LT", "ADD", "MUL", "NUMBER", "BAD_CHAR", "LPAREN", "RPAREN", "LBRACKET", "RBRACKET", "LBRACE", "RBRACE", "IDENT", "EQUALS", "SEMICOLON", "COLON", "LOOP", "IF", "NOT", "LET", "PRINT_STR", "PRINT_VAL", "DEF", "RETURN", "STRUCT", "COMMA", "DOT", "READ_CHAR"}
  MaxBlocks = 2
  MaxNesting = 1
INVARIANTS TypeOK OrderOfOperations BracketsMatch
PROPERTIES Progress
