------------------------------ MODULE Compiler ------------------------------
(***************************************************************************)
(* The compiler of the Verilog subset: a module of declarations and         *)
(* assignments becomes RTLIL.  Assignments are parsed in their order, then  *)
(* the declarations are checked, then each assignment is turned into gates  *)
(* with a temporary wire at every output, and the whole is written.  A word *)
(* is the sequence of its bits, least significant first.                    *)
(***************************************************************************)
EXTENDS ExprParser, CellSemantics

CONSTANT Sources  \* [ports, inputs, outputs, wires, assigns (lhs, tokens)]

VARIABLES
  source,
  stage,        \* "PARSE", "GENERATE", "WRITE", "DONE", "FAILED"
  trees,        \* the expressions parsed so far
  builder,      \* gates, the count of temporaries, the names in use
  connections,  \* from a name or constant to an assigned signal
  compiled,     \* how many assignments were compiled
  rtlil         \* wires, cells and connections as they are written

vars == <<source, stage, trees, builder, connections, compiled, rtlil>>

-----------------------------------------------------------------------------
\* Widths.

declarations == source.inputs \o source.outputs \o source.wires
names(decls) == {decls[i].name : i \in DOMAIN decls}

signalWidth(name) ==
  IF name \in names(declarations)
  THEN (CHOOSE d \in Range(declarations) : d.name = name).width ELSE 1

\* A decimal constant is as wide as its value needs.
constWidth(text) ==
  LET c == Literals[text]
  IN  IF c.width > 0 THEN c.width
      ELSE CHOOSE w \in 1 .. c.value + 1 : 2^w > c.value /\ (w = 1 \/ 2^(w - 1) <= c.value)

RECURSIVE exprWidth(_)
exprWidth(node) ==
  LET of(i) == exprWidth(node.operands[i])
  IN  CASE node.kind = "const" -> constWidth(node.value)
        [] node.kind = "ident" -> signalWidth(node.value)
        [] node.kind = "unary" -> IF node.value = "~" THEN of(1) ELSE 1
        [] node.kind = "ternary" -> Max({of(2), of(3)})
        [] node.kind = "binary" -> IF node.value \in {"<<", ">>"} THEN of(1) ELSE Max({of(1), of(2)})

-----------------------------------------------------------------------------
\* Gates.  The text of an identifier or constant is its own wire.

TempName(n) == "__t" \o ToString(n)
looks_temporary(name) == Len(name) >= 3 /\ SubSeq(name, 1, 3) = "__t"

\* Faulty variant: names in use are not asked.
newTemp_unchecked(b) ==
  [b EXCEPT !.count = @ + 1, !.out = TempName(b.count + 1), !.used = @ \cup {TempName(b.count + 1)}]

newTemp(b) ==
  LET n == CHOOSE n \in b.count + 1 .. b.count + 1 + Cardinality(b.used) :
             /\ TempName(n) \notin b.used
             /\ \A k \in b.count + 1 .. n - 1 : TempName(k) \in b.used
  IN  [b EXCEPT !.count = n, !.out = TempName(n), !.used = @ \cup {TempName(n)}]

UnaryGate == [op \in UnaryOps |->
  CASE op = "~" -> "$not" [] op = "&" -> "$reduce_and" [] op = "|" -> "$reduce_or" [] op = "^" -> "$reduce_xor"]
BinaryGate == [op \in UNION Range(Operators) |->
  CASE op = "&" -> "$and" [] op = "|" -> "$or" [] op = "^" -> "$xor" [] op = "+" -> "$add" [] op = "-" -> "$sub"
    [] op = "*" -> "$mul" [] op = "<<" -> "$shl" [] op = ">>" -> "$shr"]

Gate(type, A, B, S, Y, a, b, s, y) ==
  [type |-> type, A |-> A, B |-> B, S |-> S, Y |-> Y, aWidth |-> a, bWidth |-> b, sWidth |-> s, yWidth |-> y]

\* Faulty variant: the branches of a selection are exchanged.
gate_exchanged(node, ins, out) ==
  LET w(i) == exprWidth(node.operands[i])
      y    == exprWidth(node)
  IN  CASE node.kind = "unary"   -> Gate(UnaryGate[node.value], ins[1], "", "", out, w(1), 0, 0, y)
        [] node.kind = "ternary" -> Gate("$mux", ins[2], ins[3], ins[1], out, w(2), w(3), w(1), y)
        [] node.kind = "binary"  -> Gate(BinaryGate[node.value], ins[1], ins[2], "", out, w(1), w(2), 0, y)

gate_of(node, ins, out) ==
  LET w(i) == exprWidth(node.operands[i])
      y    == exprWidth(node)
  IN  CASE node.kind = "unary"   -> Gate(UnaryGate[node.value], ins[1], "", "", out, w(1), 0, 0, y)
        [] node.kind = "ternary" -> Gate("$mux", ins[3], ins[2], ins[1], out, w(3), w(2), w(1), y)
        [] node.kind = "binary"  -> Gate(BinaryGate[node.value], ins[1], ins[2], "", out, w(1), w(2), 0, y)

\* The operands first; b.out is the wire of the result.
RECURSIVE compileExpr(_, _)
compileExpr(node, b) ==
  LET n == Len(node.operands)
      after[i \in 0 .. n] ==
        IF i = 0 THEN b ELSE LET before == after[i - 1] IN compileExpr(node.operands[i], before)
      last == newTemp(after[n])
  IN  IF n = 0 THEN [b EXCEPT !.out = node.value]
      ELSE [last EXCEPT !.gates = Append(@, gate_of(node, [i \in 1 .. n |-> after[i].out], last.out))]

-----------------------------------------------------------------------------
\* RTLIL.

\* The digits of a constant as they are written; beyond a width of 64 bits
\* there are only zeros.
rtlilConst(value, width) == big2const(value % 2^width, width)

\* A constant takes the width of the place it stands at; it has no name.
rtlilSig(text, hint) ==
  IF text \in DOMAIN Literals
  THEN [name |-> "", digits |-> rtlilConst(Literals[text].value, hint)]
  ELSE [name |-> text, digits |-> <<>>]

nothing == [name |-> "", digits |-> <<>>]

written(g) ==
  CASE g.type = "$mux" ->
         [type |-> g.type, A |-> rtlilSig(g.A, g.yWidth), B |-> rtlilSig(g.B, g.yWidth),
          S |-> rtlilSig(g.S, g.sWidth), Y |-> g.Y, widths |-> <<g.yWidth, g.yWidth, 1, g.yWidth>>]
    [] g.type \in Range(UnaryGate) ->
         [type |-> g.type, A |-> rtlilSig(g.A, g.aWidth), B |-> nothing, S |-> nothing, Y |-> g.Y,
          widths |-> <<g.aWidth, 0, 0, g.yWidth>>]
    [] OTHER ->
         [type |-> g.type, A |-> rtlilSig(g.A, g.aWidth), B |-> rtlilSig(g.B, g.bWidth), S |-> nothing, Y |-> g.Y,
          widths |-> <<g.aWidth, g.bWidth, 0, g.yWidth>>]

\* Every name in use that looks like a temporary gets a wire, a declared one too.
temporaries ==
  SetToSeq({[name |-> n, width |-> IF \E g \in Range(builder.gates) : g.Y = n
                                   THEN (CHOOSE g \in Range(builder.gates) : g.Y = n).yWidth
                                   ELSE signalWidth(n)] :
              n \in {n \in builder.used : looks_temporary(n)}})

allWires == source.wires \o temporaries

writeRtlil ==
  [wires |-> [i \in DOMAIN source.ports |-> [name |-> source.ports[i], width |-> signalWidth(source.ports[i])]]
               \o SelectSeq(allWires, LAMBDA w : w.name \notin names(source.inputs \o source.outputs)),
   cells |-> [i \in DOMAIN builder.gates |-> written(builder.gates[i])],
   connects |-> [i \in DOMAIN connections |->
                   [to |-> connections[i].to, from |-> rtlilSig(connections[i].from, signalWidth(connections[i].to))]]]
-----------------------------------------------------------------------------

Init ==
  /\ source \in Sources
  /\ stage = "PARSE"
  /\ trees = <<>>
  /\ builder = [gates |-> <<>>, count |-> 0, used |-> names(declarations), out |-> ""]
  /\ connections = <<>>
  /\ compiled = 0
  /\ rtlil = <<>>

ParseAssign ==
  /\ stage = "PARSE"
  /\ Len(trees) < Len(source.assigns)
  /\ LET result == parse(source.assigns[Len(trees) + 1].tokens)
     IN  IF result.ok THEN trees' = Append(trees, result.node) /\ UNCHANGED stage
                      ELSE stage' = "FAILED" /\ UNCHANGED trees
  /\ UNCHANGED <<source, builder, connections, compiled, rtlil>>

RECURSIVE leaves(_)
leaves(node) ==
  (IF node.kind = "ident" THEN {node.value} ELSE {})
    \cup UNION {leaves(node.operands[i]) : i \in DOMAIN node.operands}

\* No name is declared twice, the ports are the inputs and outputs, as sets, and
\* every name that is used is declared.  A port may be listed twice; an input may
\* be assigned, and a signal twice.
well_declared ==
  /\ Cardinality(names(declarations)) = Len(declarations)
  /\ Range(source.ports) = names(source.inputs \o source.outputs)
  /\ \A i \in DOMAIN trees : {source.assigns[i].lhs} \cup leaves(trees[i]) \subseteq names(declarations)

CheckModule ==
  /\ stage = "PARSE"
  /\ Len(trees) = Len(source.assigns)
  /\ stage' = IF well_declared THEN "GENERATE" ELSE "FAILED"
  /\ UNCHANGED <<source, trees, builder, connections, compiled, rtlil>>

CompileAssign ==
  /\ stage = "GENERATE"
  /\ compiled < Len(trees)
  /\ LET b == compileExpr(trees[compiled + 1], builder)
         target == source.assigns[compiled + 1].lhs
     IN  /\ builder' = b
         /\ connections' = IF b.out = target THEN connections
                           ELSE Append(connections, [from |-> b.out, to |-> target])
  /\ compiled' = compiled + 1
  /\ UNCHANGED <<source, stage, trees, rtlil>>

Write ==
  /\ stage = "GENERATE"
  /\ compiled = Len(trees)
  /\ rtlil' = writeRtlil
  /\ stage' = "DONE"
  /\ UNCHANGED <<source, trees, builder, connections, compiled>>

Terminated == stage \in {"DONE", "FAILED"} /\ UNCHANGED vars

Next == ParseAssign \/ CheckModule \/ CompileAssign \/ Write \/ Terminated

Spec == Init /\ [][Next]_vars

-----------------------------------------------------------------------------
\* What the source says: the number each signal has, every operator computed
\* in the width that the compiler infers for it.

inputs == names(source.inputs)
assigned(name) == {i \in DOMAIN trees : source.assigns[i].lhs = name}

ones(n, width) == {i \in 0 .. width - 1 : (n \div 2^i) % 2 = 1}
number(S) == MapThenSumSet(LAMBDA i : 2^i, S)

unary(op, n, width) ==
  CASE op = "~" -> 2^width - 1 - n
    [] op = "&" -> IF n = 2^width - 1 THEN 1 ELSE 0
    [] op = "|" -> IF n # 0 THEN 1 ELSE 0
    [] op = "^" -> Cardinality(ones(n, width)) % 2

binary(op, m, n, width) ==
  LET p == ones(m, width)
      q == ones(n, width)
  IN  CASE op = "+"  -> (m + n) % 2^width
        [] op = "-"  -> (m - n) % 2^width
        [] op = "*"  -> (m * n) % 2^width
        [] op = "<<" -> (m * 2^n) % 2^width
        [] op = ">>" -> m \div 2^n
        [] op = "&"  -> number(p \cap q)
        [] op = "|"  -> number(p \cup q)
        [] op = "^"  -> number((p \cup q) \ (p \cap q))

RECURSIVE meaning(_, _)
meaning(node, value) ==
  LET of(i) == meaning(node.operands[i], value)
  IN  CASE node.kind = "const"   -> Literals[node.value].value % 2^constWidth(node.value)
        [] node.kind = "ident"   -> value[node.value]
        [] node.kind = "unary"   -> unary(node.value, of(1), exprWidth(node.operands[1]))
        [] node.kind = "ternary" -> IF of(1) # 0 THEN of(2) ELSE of(3)
        [] node.kind = "binary"  -> binary(node.value, of(1), of(2), exprWidth(node))

SourceValue(valuation) ==
  LET value[n \in names(declarations)] ==
        IF n \in inputs THEN valuation[n]
        ELSE meaning(trees[CHOOSE i \in assigned(n) : TRUE], value)
  IN  value

\* What the written module computes: of the digits of a constant, Yosys takes
\* the last one as the least significant.
wire_names == {rtlil.wires[i].name : i \in DOMAIN rtlil.wires}
cells_at(n) == {c \in Range(rtlil.cells) : c.Y = n}
connects_to(n) == {i \in DOMAIN rtlil.connects : rtlil.connects[i].to = n}

WrittenValue(valuation) ==
  LET value[n \in wire_names] ==
        LET word(sig) == IF sig.name = "" THEN Reverse(sig.digits) ELSE value[sig.name]
            c == CHOOSE c \in cells_at(n) : TRUE
        IN  IF n \in inputs THEN big2const(valuation[n], signalWidth(n))
            ELSE IF cells_at(n) # {}
            THEN eval_cell(c.type, word(c.A), word(c.B), word(c.S), FALSE, FALSE, c.widths[4])
            ELSE word(rtlil.connects[CHOOSE i \in connects_to(n) : TRUE].from)
  IN  value

-----------------------------------------------------------------------------
\* Sources that mean something: every signal that is read is an input or
\* assigned once, and none depends on itself.

assigned_once ==
  \A n \in names(declarations) :
    Cardinality(assigned(n)) <= IF n \in inputs THEN 0 ELSE 1

depends(n) == UNION {leaves(trees[i]) : i \in assigned(n)}

loop_free ==
  LET reach[k \in 0 .. Len(trees)] ==
        IF k = 0 THEN [n \in names(declarations) |-> depends(n)]
        ELSE LET before == reach[k - 1]
             IN  [n \in names(declarations) |-> before[n] \cup UNION {before[m] : m \in before[n]}]
  IN  \A n \in names(declarations) : n \notin reach[Len(trees)][n]

complete == \A n \in names(declarations) : n \in inputs \/ assigned(n) # {}

\* Every target is as wide as its expression, both branches of a selection are
\* as wide as its result, and its condition is one bit; a constant adapts.
RECURSIVE sized(_)
sized(node) ==
  LET fits(i, w) == node.operands[i].kind = "const" \/ exprWidth(node.operands[i]) = w
  IN  /\ \A i \in DOMAIN node.operands : sized(node.operands[i])
      /\ node.kind = "ternary" =>
           /\ exprWidth(node.operands[1]) = 1
           /\ fits(2, exprWidth(node)) /\ fits(3, exprWidth(node))

well_sized ==
  \A i \in DOMAIN trees :
    /\ sized(trees[i])
    /\ trees[i].kind = "const" \/ exprWidth(trees[i]) = signalWidth(source.assigns[i].lhs)

\* The writer puts the least significant digit first: only a constant that
\* reads the same both ways is the one that was meant.
symmetric(sig) == Reverse(sig.digits) = sig.digits
symmetric_constants ==
  /\ \A c \in Range(rtlil.cells) : symmetric(c.A) /\ symmetric(c.B) /\ symmetric(c.S)
  /\ \A k \in Range(rtlil.connects) : symmetric(k.from)

no_temporary_declared == \A n \in names(source.wires) : ~looks_temporary(n)

\* What Yosys takes for well-formed: a wire once, all names known, ports of the
\* widths of their cell, and connections between equal widths.
width_of(sig) ==
  IF sig.name = "" THEN Len(sig.digits)
  ELSE (CHOOSE w \in Range(rtlil.wires) : w.name = sig.name).width

well_formed ==
  /\ Cardinality(wire_names) = Len(rtlil.wires)
  /\ \A c \in Range(rtlil.cells) :
       /\ {c.A.name, c.B.name, c.S.name, c.Y} \ {""} \subseteq wire_names
       /\ <<width_of(c.A), width_of(c.B), width_of(c.S)>> = SubSeq(c.widths, 1, 3)
       /\ width_of(rtlilSig(c.Y, 0)) = c.widths[4]
  /\ \A k \in Range(rtlil.connects) : width_of(rtlilSig(k.to, 0)) = width_of(k.from)

RECURSIVE flat(_)
flat(node) ==
  LET of(i) == flat(node.operands[i])
  IN  CASE Len(node.operands) = 0  -> <<node.value>>
        [] node.kind = "unary"   -> <<node.value>> \o of(1)
        [] node.kind = "binary"  -> of(1) \o <<node.value>> \o of(2)
        [] node.kind = "ternary" -> of(1) \o <<"?">> \o of(2) \o <<":">> \o of(3)

-----------------------------------------------------------------------------
\* A gate reads declared signals, constants and outputs of earlier gates only,
\* and what was not parsed is not compiled.
TypeOK ==
  /\ stage \in {"PARSE", "GENERATE", "DONE", "FAILED"}
  /\ compiled \in 0 .. Len(trees)
  /\ \A i \in DOMAIN builder.gates :
       \A sig \in {builder.gates[i].A, builder.gates[i].B, builder.gates[i].S} :
         sig \in names(declarations) \cup DOMAIN Literals \cup {""} \cup {builder.gates[j].Y : j \in 1 .. i - 1}

\* An expression that was written is parsed to the tree that was meant: the
\* binding of the operators is that of Verilog.
ParsesWhatWasWritten ==
  /\ \A i \in DOMAIN trees \cap DOMAIN source.meant : trees[i] = source.meant[i]
  /\ stage = "FAILED" => Len(trees) >= Len(source.meant)

\* Whatever is accepted is accepted as a whole: the tree has all the tokens in
\* their order, but for the parentheses.
AcceptedIsWhole ==
  \A i \in DOMAIN trees :
    flat(trees[i]) = SelectSeq(source.assigns[i].tokens, LAMBDA t : t \notin {"(", ")"})

\* The parser accepts what was written, as it was meant, and all of it.
ParsesExactly == ParsesWhatWasWritten /\ AcceptedIsWhole

\* What is written is well-formed RTLIL exactly if the widths of the source
\* agree, no declared wire has the name of a temporary, and no port is listed
\* twice: the ports may be called like temporaries, and may come in any order.
WellFormedIfSized ==
  stage = "DONE" =>
    (well_formed <=> well_sized /\ no_temporary_declared /\ IsInjective(source.ports))

\* No signal gets a second driver, from a gate or a connection, unless the
\* source assigns it twice or assigns an input.
OneDriver ==
  stage = "DONE" /\ assigned_once /\ no_temporary_declared =>
    \A n \in wire_names :
      Cardinality({i \in DOMAIN rtlil.cells : rtlil.cells[i].Y = n}) + Cardinality(connects_to(n))
        <= IF n \in inputs THEN 0 ELSE 1

\* The RTLIL that is written is a netlist, well-formed and with one driver for
\* every signal, unless the source itself does not fit: see the two parts.
WrittenIsSound == TypeOK /\ OneDriver /\ WellFormedIfSized

\* The written module computes what the source says, for all inputs, if its
\* constants read the same both ways.
FunctionKept ==
  /\ stage = "DONE" /\ assigned_once /\ complete /\ loop_free
  /\ well_sized /\ no_temporary_declared /\ symmetric_constants
  =>
    \A valuation \in [inputs -> 0 .. 3] :
      (\A n \in inputs : valuation[n] < 2^signalWidth(n)) =>
        LET said == SourceValue(valuation)
            done == WrittenValue(valuation)
        IN  \A n \in names(declarations) : done[n] = big2const(said[n], signalWidth(n))

=============================================================================
