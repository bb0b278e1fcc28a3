--------------------------- MODULE ScriptCompiler ---------------------------
(***************************************************************************)
(* The compiler of C64Script (script/vm/c64-script-bytecode.c): one pass   *)
(* over the syntax tree that emits instructions, defines labels, records   *)
(* the jumps to labels not yet defined and patches them at the end.        *)
(*                                                                         *)
(* A context is the C struct; err is the message that ended the            *)
(* compilation, "" while it goes on.  Every operator leaves a context with *)
(* an error alone.  An instruction carries its constant, not an index into *)
(* the pool of constants.                                                  *)
(***************************************************************************)
EXTENDS Naturals, Sequences, SequencesExt, ScriptCommands, ScriptParser

CONSTANT MaxLabels            \* 256: labels, and forward jumps recorded

ASSUME MaxLabelsAssumption == MaxLabels \in Nat \ {0}

Context == [code |-> <<>>, labels |-> <<>>, patches |-> <<>>, funcs |-> <<>>, err |-> ""]

Emit(ctx, op, a) ==
  IF ctx.err # "" THEN ctx ELSE [ctx EXCEPT !.code = Append(@, [op |-> op, a |-> a])]

Failed(ctx, e) == IF ctx.err # "" THEN ctx ELSE [ctx EXCEPT !.err = e]

(* The address of the next instruction. *)
Here(ctx) == Len(ctx.code)

(* The operand of the instruction at an address is this place. *)
PatchHere(ctx, at) ==
  IF ctx.err # "" THEN ctx ELSE [ctx EXCEPT !.code[at + 1].a = Here(ctx)]

Labels(ctx)     == {ctx.labels[i].x : i \in DOMAIN ctx.labels}
AddressOf(ctx, x) == (CHOOSE l \in ToSet(ctx.labels) : l.x = x).at

DefineLabel(ctx, x) ==
  IF x \in Labels(ctx) THEN Failed(ctx, "Duplicate label")
  ELSE IF Len(ctx.labels) >= MaxLabels THEN Failed(ctx, "Too many labels")
  ELSE [ctx EXCEPT !.labels = Append(@, [x |-> x, at |-> Here(ctx)])]

(* A forward jump beyond the table of patches is not recorded. *)
EmitJump(ctx, op, x) ==
  IF x \in Labels(ctx) THEN Emit(ctx, op, AddressOf(ctx, x))
  ELSE IF ctx.err = "" /\ Len(ctx.patches) < MaxLabels
       THEN Emit([ctx EXCEPT !.patches = Append(@, [at |-> Here(ctx), x |-> x])], op, 0)
       ELSE Emit(ctx, op, 0)

PatchJumps(ctx) ==
  IF ctx.err # "" THEN ctx
  ELSE IF \E i \in DOMAIN ctx.patches : ctx.patches[i].x \notin Labels(ctx)
  THEN Failed(ctx, "Undefined label")
  ELSE FoldLeft(LAMBDA c, p : [c EXCEPT !.code[p.at + 1].a = AddressOf(c, p.x)],
                ctx, ctx.patches)

Functions(ctx) == {ctx.funcs[i].x : i \in DOMAIN ctx.funcs}

RegisterFunction(ctx, x, params) ==
  IF x \in Functions(ctx) THEN Failed(ctx, "duplicate function name")
  ELSE [ctx EXCEPT !.funcs = Append(@, [x |-> x, at |-> Here(ctx), params |-> params])]

------------------------------------------------------------------------------
(* Expressions *)

(* The built-in functions with a fixed number of arguments; ENV has two.   *)
BuiltinArity(x) ==
  CASE x \in {"LEN", "CHR$", "ASC", "VAL", "ABS", "INT", "RND", "SIN", "COS", "TAN", "SQRT",
              "LOG", "EXP"} -> {1}
    [] x \in {"LEFT$", "RIGHT$"} -> {2}
    [] x = "MID$"  -> {3}
    [] x = "TIME$" -> {0}
    [] x = "ENV"   -> {1, 2}
    [] OTHER -> {}

RECURSIVE CompileExpression(_, _)

(* The arguments of a call in order. *)
CompileArguments(ctx, args) ==
  FoldLeft(LAMBDA c, e : CompileExpression(c, e), ctx, args)

(* A variable name where the instruction takes a name. *)
CompileVarName(ctx, e) ==
  CASE e.k = "var" -> Emit(ctx, "PUSH_CONST", StrV(<<e.x>>))
    [] e.k = "str" -> CompileExpression(ctx, e)
    [] OTHER -> Failed(ctx, "Expected variable name")

CompileArrayName(ctx, e) ==
  IF e.k = "var" \/ (e.k = "call" /\ e.args = <<>>) THEN Emit(ctx, "PUSH_CONST", StrV(<<e.x>>))
  ELSE Failed(ctx, "Expected array name")

(* The functions that are instructions of their own. *)
CompileInstructionCall(ctx, x, args) ==
  CASE x = "CFG$" -> IF Len(args) # 2 THEN Failed(ctx, "arguments")
                     ELSE Emit(CompileArguments(ctx, args), "CFG_GET", 0)
    [] x \in {"CFG_ITEM$", "CFGITEM$"} ->
         IF Len(args) \notin {1, 2} THEN Failed(ctx, "arguments")
         ELSE LET path == IF Len(args) = 2 THEN CompileExpression(ctx, args[1])
                          ELSE Emit(ctx, "PUSH_CONST", Empty)
              IN  Emit(CompileArrayName(path, Last(args)), "CFG_ITEM", 0)
    [] x \in {"CFG_OPTIONS$", "CFGOPTIONS$"} ->
         IF Len(args) # 3 THEN Failed(ctx, "arguments")
         ELSE Emit(CompileArrayName(CompileArguments(ctx, Front(args)), args[3]),
                   "CFG_OPTIONS", 0)
    [] x = "DRIVE$" -> IF Len(args) # 2 THEN Failed(ctx, "arguments")
                       ELSE Emit(CompileArguments(ctx, args), "DRIVE_GET", 0)
    [] x = "PEEK" -> IF Len(args) # 1 THEN Failed(ctx, "arguments")
                     ELSE Emit(CompileArguments(ctx, args), "PEEK", 0)
    [] x \in {"STR", "STR$"} -> IF Len(args) # 1 THEN Failed(ctx, "arguments")
                                ELSE Emit(CompileArguments(ctx, args), "STR", 0)

InstructionCalls == {"CFG$", "CFG_ITEM$", "CFGITEM$", "CFG_OPTIONS$", "CFGOPTIONS$", "DRIVE$",
                     "PEEK", "STR", "STR$"}

CompileBuiltin(ctx, x, args) ==
  IF Len(args) \notin BuiltinArity(x) THEN Failed(ctx, "arguments")
  ELSE Emit(CompileArguments(ctx, args), "CALL_BUILTIN", [f |-> x, n |-> Len(args)])

(* A name with one argument that is no function so far is an array.        *)
CompileUserCall(ctx, x, args) ==
  IF x \in Functions(ctx)
  THEN Emit(CompileArguments(ctx, args), "CALL_FUNCTION",
            [f |-> CHOOSE i \in DOMAIN ctx.funcs : ctx.funcs[i].x = x, n |-> Len(args)])
  ELSE IF Len(args) = 1 THEN Emit(CompileExpression(ctx, args[1]), "ARRAY_GET", x)
  ELSE Failed(ctx, "UNDEF'D FUNCTION")

CompileCall(ctx, x, args) ==
  IF x \in InstructionCalls THEN CompileInstructionCall(ctx, x, args)
  ELSE IF BuiltinArity(x) # {} THEN CompileBuiltin(ctx, x, args)
  ELSE CompileUserCall(ctx, x, args)

CompileExpression(ctx, e) ==
  CASE e.k = "nil" -> Failed(ctx, "no expression")
    [] e.k = "num" -> Emit(ctx, "PUSH_CONST", NumV(e.n))
    [] e.k = "str" -> Emit(ctx, "PUSH_CONST", StrV(e.s))
    [] e.k = "var" -> Emit(ctx, "PUSH_VAR", e.x)
    [] e.k = "arr" -> Emit(CompileExpression(ctx, e.i), "ARRAY_GET", e.x)
    [] e.k = "map" -> Emit(CompileExpression(ctx, e.key), "MAP_GET", e.x)
    [] e.k = "un"  -> Emit(CompileExpression(ctx, e.e), IF e.op = "-" THEN "NEGATE" ELSE "NOT", 0)
    [] e.k = "bin" -> Emit(CompileExpression(CompileExpression(ctx, e.l), e.r), e.op, 0)
    [] e.k = "call" -> CompileCall(ctx, e.x, e.args)

------------------------------------------------------------------------------
(* Commands: what they push, then the instruction *)

CompilePush(ctx, node, push) ==
  LET given == push.r \in DOMAIN node
  IN  CASE push.do = "expr" -> CompileExpression(ctx, IF given THEN node[push.r] ELSE Nil)
        [] push.do = "or" -> IF given THEN CompileExpression(ctx, node[push.r])
                             ELSE Emit(ctx, "PUSH_CONST", push.v)
        [] push.do = "if" -> IF given THEN CompileExpression(ctx, node[push.r]) ELSE ctx
        [] push.do = "name" -> CompileVarName(ctx, node[push.r])
        [] push.do = "nameor" -> IF given THEN CompileVarName(ctx, node[push.r])
                                 ELSE Emit(ctx, "PUSH_CONST", Empty)
        [] push.do = "each" -> CompileArguments(ctx, node[push.r])

CompileCommand(ctx, node) ==
  Emit(FoldLeft(LAMBDA c, push : CompilePush(c, node, push), ctx, Pushes(node)),
       Opcode(node), Operand(node))

------------------------------------------------------------------------------
(* Statements *)

RECURSIVE CompileStatement(_, _)

CompileBody(ctx, body) == FoldLeft(LAMBDA c, s : CompileStatement(c, s), ctx, body)

CompileAssignment(ctx, s) ==
  CASE s.k = "LET"    -> Emit(CompileExpression(ctx, s.e), "POP_VAR", s.x)
    [] s.k = "DIM"    -> Emit(CompileExpression(ctx, s.size), "DIM_ARRAY", s.x)
    [] s.k = "SETARR" -> Emit(CompileExpression(CompileExpression(ctx, s.e), s.i), "ARRAY_SET", s.x)
    [] s.k = "SETMAP" -> Emit(CompileExpression(CompileExpression(ctx, s.e), s.key), "MAP_SET", s.x)

(* The return at the end is left out when the last instruction emitted is  *)
(* already one.                                                            *)
CompileFunction(ctx, s) ==
  LET jump == Here(ctx)
      body == CompileBody(RegisterFunction(Emit(ctx, "JUMP", 0), s.x, s.params), s.body)
      done == IF body.err = "" /\ Last(body.code).op # "RETURN"
              THEN Emit(Emit(body, "PUSH_CONST", Zero), "RETURN", 1) ELSE body
  IN  PatchHere(done, jump)

CompileGosub(ctx, s) ==
  EmitJump(Emit(CompileArguments(ctx, s.params), "PUSH_CONST", NumV(Len(s.params))), "CALL", s.label)

CompileReturn(ctx, s) ==
  IF s.e = Nil THEN Emit(ctx, "RETURN", 0) ELSE Emit(CompileExpression(ctx, s.e), "RETURN", 1)

CompileIf(ctx, s) ==
  LET cond == CompileExpression(ctx, s.c)
      then == CompileBody(Emit(cond, "JUMP_IF_FALSE", 0), s.then)
      else == CompileBody(PatchHere(Emit(then, "JUMP", 0), Here(cond)), s.else)
  IN  IF s.else = <<>> THEN PatchHere(then, Here(cond)) ELSE PatchHere(else, Here(then))

CompileFor(ctx, s) ==
  LET start == Emit(Emit(CompileExpression(ctx, s.from), "POP_VAR", s.x), "PUSH_VAR", s.x)
      init  == Emit(CompileExpression(CompileExpression(start, s.to), s.step), "FOR_INIT", s.x)
      body  == CompileBody(Emit(init, "FOR_CHECK", 0), s.body)
  IN  PatchHere(Emit(Emit(body, "FOR_INCR", s.x), "JUMP", Here(init)), Here(init))

CompileWhile(ctx, s) ==
  LET cond == CompileExpression(ctx, s.c)
      body == CompileBody(Emit(cond, "WHILE_CHECK", 0), s.body)
  IN  PatchHere(Emit(body, "JUMP", Here(ctx)), Here(cond))

CompileStatement(ctx, s) ==
  IF ctx.err # "" THEN ctx
  ELSE CASE s.k = "REM"   -> ctx
         [] s.k = "LABEL" -> DefineLabel(ctx, s.label)
         [] s.k \in {"LET", "DIM", "SETARR", "SETMAP"} -> CompileAssignment(ctx, s)
         [] s.k = "FUN"    -> CompileFunction(ctx, s)
         [] s.k = "GOTO"   -> EmitJump(ctx, "JUMP", s.label)
         [] s.k = "GOSUB"  -> CompileGosub(ctx, s)
         [] s.k = "RETURN" -> CompileReturn(ctx, s)
         [] s.k = "STOP"   -> Emit(ctx, "STOP", 0)
         [] s.k = "IF"     -> CompileIf(ctx, s)
         [] s.k = "FOR"    -> CompileFor(ctx, s)
         [] s.k = "WHILE"  -> CompileWhile(ctx, s)
         [] OTHER -> CompileCommand(ctx, s)

Compile(root) ==
  IF root = <<>> THEN Failed(Context, "no statement")
  ELSE PatchJumps(Emit(CompileBody(Context, root), "HALT", 0))
==============================================================================
