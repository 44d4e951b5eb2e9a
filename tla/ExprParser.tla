----------------------------- MODULE ExprParser -----------------------------
(***************************************************************************)
(* The expressions of the Verilog subset: the recursive-descent parser of   *)
(* frontend_analyzer.cpp.  A token is a string; names and constants are     *)
(* told apart by the constants below.  A tree is a record of its kind, its  *)
(* value (an operator, a name or the text of a constant) and its operands;  *)
(* the "pair" node of the code is left out, so that a ternary has three.    *)
(***************************************************************************)
EXTENDS Integers, SequencesExt

CONSTANTS Idents,     \* tokens that are names
          Literals    \* tokens that are constants: text -> [width, value]

tree(kind, value, operands) == [kind |-> kind, value |-> value, operands |-> operands]

UnaryOps == {"~", "&", "|", "^"}

\* Faulty variant: & binds less than ^.
Operators_swapped == << {"|"}, {"&"}, {"^"}, {"<<", ">>"}, {"+", "-"}, {"*"} >>

\* The binary operators, from parseOr to parseMul.
Operators == << {"|"}, {"^"}, {"&"}, {"<<", ">>"}, {"+", "-"}, {"*"} >>

\* Past the last token there is none.
peek(tokens, pos) == IF pos <= Len(tokens) THEN tokens[pos] ELSE "end"

\* A parse gives a tree and the place behind it, or fails.
parsed(node, pos) == [ok |-> TRUE, node |-> node, pos |-> pos]
failed == [ok |-> FALSE]

RECURSIVE parseTernary(_, _), parseBinary(_, _, _), parseMore(_, _, _), parseUnary(_, _)

parsePrimary(tokens, pos) ==
  LET tok   == peek(tokens, pos)
      inner == parseTernary(tokens, pos + 1)
  IN  CASE tok = "(" -> IF inner.ok /\ peek(tokens, inner.pos) = ")"
                        THEN parsed(inner.node, inner.pos + 1) ELSE failed
        [] tok \in DOMAIN Literals -> parsed(tree("const", tok, <<>>), pos + 1)
        [] tok \in Idents -> parsed(tree("ident", tok, <<>>), pos + 1)
        [] OTHER -> failed

parseUnary(tokens, pos) ==
  LET operand == parseUnary(tokens, pos + 1)
  IN  IF peek(tokens, pos) \notin UnaryOps THEN parsePrimary(tokens, pos)
      ELSE IF operand.ok
           THEN parsed(tree("unary", tokens[pos], <<operand.node>>), operand.pos) ELSE failed

\* Operands of one level are joined from the left.
parseMore(level, tokens, lhs) ==
  LET rhs == parseBinary(level + 1, tokens, lhs.pos + 1)
  IN  IF ~lhs.ok \/ peek(tokens, lhs.pos) \notin Operators[level] THEN lhs
      ELSE IF ~rhs.ok THEN failed
      ELSE parseMore(level, tokens,
                     parsed(tree("binary", tokens[lhs.pos], <<lhs.node, rhs.node>>), rhs.pos))

parseBinary(level, tokens, pos) ==
  IF level > Len(Operators) THEN parseUnary(tokens, pos)
  ELSE LET first == parseBinary(level + 1, tokens, pos)
       IN  IF first.ok THEN parseMore(level, tokens, first) ELSE failed

parseTernary(tokens, pos) ==
  LET cond  == parseBinary(1, tokens, pos)
      true  == parseTernary(tokens, cond.pos + 1)
      false == parseTernary(tokens, true.pos + 1)
  IN  IF ~cond.ok \/ peek(tokens, cond.pos) # "?" THEN cond
      ELSE IF ~true.ok \/ peek(tokens, true.pos) # ":" \/ ~false.ok THEN failed
      ELSE parsed(tree("ternary", "?", <<cond.node, true.node, false.node>>), false.pos)

\* An expression is all of the tokens.
parse(tokens) ==
  LET whole == parseTernary(tokens, 1)
  IN  IF whole.ok /\ whole.pos = Len(tokens) + 1 THEN whole ELSE failed

=============================================================================
