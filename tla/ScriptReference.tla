-------------------------- MODULE ScriptReference --------------------------
(***************************************************************************)
(* What a script means, by the language's own description                 *)
(* (doc/c64script/c64script-spec.md): a walk over the syntax tree.         *)
(* Nothing here is translated from the parser, the compiler or the virtual *)
(* machine; only the operators on values are shared with the machine.      *)
(***************************************************************************)
EXTENDS ScriptVM, ScriptParser

CONSTANT Fuel                 \* statements after which a run is cut

------------------------------------------------------------------------------
(* Meaning *)

(* The state of a run: variables, the variables of the function in         *)
(* progress, what was done, the statements left, and the nesting in use;   *)
(* sig says how the last statement ended.                                  *)
Fresh == [g |-> <<>>, l |-> <<>>, in |-> FALSE, out |-> <<>>, fuel |-> Fuel, fors |-> 0,
          subs |-> 0, calls |-> 0, sig |-> "next", at |-> <<>>, v |-> Zero]

Signal(st, sig) == [st EXCEPT !.sig = sig]
Wrong(st)       == Signal(st, "error")

Get(st, x) ==
  IF st.in /\ x \in DOMAIN st.l THEN st.l[x] ELSE IF x \in DOMAIN st.g THEN st.g[x] ELSE Zero

Set(st, x, v) ==
  IF Coerce(x, v) = Bad THEN Wrong(st)
  ELSE IF st.in THEN [st EXCEPT !.l = Put(@, x, Coerce(x, v))]
  ELSE [st EXCEPT !.g = Put(@, x, Coerce(x, v))]

Known(st, x) == x \in DOMAIN st.g \/ (st.in /\ x \in DOMAIN st.l)

(* The walks over an expression, over expressions in order, over the       *)
(* statements of a block, over the script from a statement on, and the     *)
(* turns of a loop call one another: all are cases of one recursion, Walk. *)
(* Eval(main, e, st) returns [v, st], st.sig being "error" when the        *)
(* expression has no value.                                                *)
RECURSIVE Walk(_, _, _, _)
Eval(main, e, st)       == Walk("expression", main, e, st)
EvalAll(main, es, st)   == Walk("expressions", main, es, st)
ExecSeq(main, body, st) == Walk("block", main, body, st)
ExecFrom(main, i, st)   == Walk("script", main, i, st)
TurnFor(main, loop, st) == Walk("for", main, loop, st)
TurnWhile(main, s, st)  == Walk("while", main, s, st)

Val(v, st) == [v |-> v, st |-> IF v = Bad THEN Wrong(st) ELSE st]

EvalEach(main, es, st) ==
  IF es = <<>> THEN [v |-> <<>>, st |-> st]
  ELSE LET r == Eval(main, es[1], st)
           rest == EvalAll(main, Tail(es), r.st)
       IN  IF r.st.sig = "error" THEN [v |-> <<>>, st |-> r.st]
           ELSE [v |-> <<r.v>> \o rest.v, st |-> rest.st]

FunctionsOf(main) == {main[i] : i \in {j \in DOMAIN main : main[j].k = "FUN"}}

(* A call runs the body with the parameters as its own variables; its      *)
(* value is what it returns, 0 at the end of the body.                     *)
CallOf(main, f, vs, st) ==
  LET locals == [i \in DOMAIN f.params |-> <<f.params[i], vs[i]>>]
      r == ExecSeq(main, f.body,
             [st EXCEPT !.l = FoldLeft(LAMBDA m, p : Put(m, p[1], p[2]), <<>>, locals),
                        !.in = TRUE, !.calls = @ + 1])
      back == [r EXCEPT !.l = st.l, !.in = st.in, !.calls = st.calls]
  IN  IF Len(vs) # Len(f.params) \/ st.calls >= MaxScopes THEN Val(Bad, st)
      ELSE IF r.sig = "next" THEN Val(Zero, back)
      ELSE IF r.sig = "return" THEN Val(r.v, Signal(back, "next"))
      ELSE [v |-> Bad, st |-> back]

ReadsDevice == ("CFG$" :> "CFG_GET") @@ ("DRIVE$" :> "DRIVE_GET") @@ ("PEEK" :> "PEEK")
ReadRoles == ("CFG$" :> <<"category", "item">>) @@ ("DRIVE$" :> <<"drive", "property">>)
               @@ ("PEEK" :> <<"address">>)
Builtins == DOMAIN StringFunctions \cup NumberFunctions \cup {"ENV", "TIME$"}

Named(roles, vs) == [r \in ToSet(roles) |-> vs[CHOOSE i \in DOMAIN roles : roles[i] = r]]

EvalCall(main, x, vs, st) ==
  CASE x \in DOMAIN ReadsDevice -> Val(World(ReadsDevice[x], Named(ReadRoles[x], vs)), st)
    [] x \in {"STR", "STR$"} -> Val(IF vs[1].t = "num" THEN AsText(vs[1]) ELSE Bad, st)
    [] x \in Builtins -> Val(Builtin(x, vs), st)
    [] \E f \in FunctionsOf(main) : f.x = x ->
         CallOf(main, CHOOSE f \in FunctionsOf(main) : f.x = x, vs, st)
    [] OTHER ->                                                     \* an array element
         LET arr == Get(st, x)
         IN  Val(IF arr.t = "arr" /\ vs[1].t = "num" /\ vs[1].n \in 0..Len(arr.e) - 1
                 THEN arr.e[vs[1].n + 1] ELSE Bad, st)

EvalOne(main, e, st) ==
  CASE e.k = "num" -> Val(NumV(e.n), st)
    [] e.k = "str" -> Val(StrV(e.s), st)
    [] e.k = "var" -> Val(Get(st, e.x), st)
    [] e.k = "un" ->
         LET r == Eval(main, e.e, st)
         IN  IF r.st.sig = "error" THEN r
             ELSE Val(Unary(IF e.op = "-" THEN "NEGATE" ELSE "NOT", r.v), r.st)
    [] e.k = "bin" ->
         LET r == EvalAll(main, <<e.l, e.r>>, st)
         IN  IF r.st.sig = "error" THEN r ELSE Val(Binary(e.op, r.v[1], r.v[2]), r.st)
    [] e.k = "map" ->
         LET r == Eval(main, e.key, st)
             m == Get(st, e.x)
         IN  IF r.st.sig = "error" THEN r
             ELSE Val(IF m.t # "map" \/ r.v.t # "str" THEN Bad
                      ELSE IF r.v.s \in DOMAIN m.m THEN m.m[r.v.s]
                      ELSE Default(e.x \in StringNames), r.st)
    [] e.k = "call" /\ e.x \in {"CFG_ITEM$", "CFG_OPTIONS$"} ->
         LET es == Front(e.args)
             r == EvalAll(main, es, st)
             roles == IF e.x = "CFG_ITEM$" THEN <<"path", "array">>
                      ELSE <<"category", "item", "array">>
             given == IF e.x = "CFG_ITEM$" /\ es = <<>> THEN <<Empty>> ELSE r.v
             items == World(IF e.x = "CFG_ITEM$" THEN "CFG_ITEM" ELSE "CFG_OPTIONS",
                            Named(roles, given \o <<StrV(<<Last(e.args).x>>)>>))
             arr == Get(r.st, Last(e.args).x)
         IN  IF r.st.sig = "error" THEN r
             ELSE IF arr.t # "arr" \/ Len(items) > Len(arr.e) THEN Val(Bad, r.st)
             ELSE Val(NumV(Len(items)),
                      Set(r.st, Last(e.args).x,
                          [arr EXCEPT !.e = items \o SubSeq(@, Len(items) + 1, Len(@))]))
    [] e.k = "call" ->
         LET r == EvalAll(main, e.args, st)
         IN  IF r.st.sig = "error" THEN r ELSE EvalCall(main, e.x, r.v, r.st)

------------------------------------------------------------------------------
(* Commands *)

(* The default of an absent part, by the description of the command. *)
AbsentDefaults ==
  [ASSERT |-> [tolerance |-> Zero],
   PLAYSID |-> [song |-> Zero],
   RUNLOCAL |-> [args |-> Empty, status |-> Empty, output |-> Empty],
   DRIVE_MOUNT |-> [drive |-> StrV(<<"DRIVE_A">>), type |-> StrV(<<"TYPE_D64">>),
                    mode |-> StrV(<<"MODE_READWRITE">>)],
   DRIVE_ROM |-> [drive |-> StrV(<<"DRIVE_A">>)],
   LOAD |-> [device |-> NumV(8)],
   HTTP |-> [response |-> Empty, status |-> Empty, body |-> Empty, headers |-> Empty]]

(* Parts that are names of variables, and parts that are not values.       *)
NameParts  == {"status", "output", "response", "variable"}
PlainParts == {"k", "unit", "truncate", "method"}

(* The expressions of a command in the order they are written. *)
PartsOf(node) ==
  IF "values" \in DOMAIN node THEN <<"address">>
  ELSE SetToSeq((DOMAIN node \ (PlainParts \cup NameParts))
                  \ (IF node.k = "OBS_SCREENSHOT" THEN {"target"} ELSE {}))

NamesIn(node) ==
  [r \in DOMAIN node \cap NameParts |-> StrV(IF node[r].k = "var" THEN <<node[r].x>> ELSE node[r].s)]

Completed(node, given) ==
  LET absent == IF node.k \in DOMAIN AbsentDefaults THEN given @@ AbsentDefaults[node.k] ELSE given
  IN  CASE node.k = "RUN" /\ "file" \in DOMAIN given -> given @@ [device |-> NumV(8)]
        [] node.k = "WAIT_MEM" -> given @@ [value |-> given["mask"], poll |-> <<"MS", 500>>]
        [] node.k \in {"LOG", "PRINT"} -> [given EXCEPT !["message"] = AsText(@)]
        [] node.k = "WRITEFILE" -> [given EXCEPT !["content"] = AsText(@)]
        [] OTHER -> absent

FilledBy(node) ==
  CASE node.k = "RUNLOCAL" -> <<"status", "output">>
    [] node.k = "READFILE" -> <<"variable">>
    [] node.k = "HTTP" -> <<"status", "response">>
    [] OTHER -> <<>>

ExecCommand(main, node, st) ==
  LET parts == PartsOf(node)
      r  == EvalAll(main, [i \in DOMAIN parts |-> node[parts[i]]], st)
      vs == EvalAll(main, IF "values" \in DOMAIN node THEN node.values ELSE <<>>, r.st)
      args == Completed(node, Named(parts, r.v) @@ NamesIn(node)
                @@ [p \in {PokeRole(i) : i \in DOMAIN vs.v} |->
                      vs.v[CHOOSE i \in DOMAIN vs.v : PokeRole(i) = p]])
      did == [vs.st EXCEPT !.out = Append(@, [op |-> Opcode(node), a |-> Operand(node),
                                              args |-> args])]
      asked == SelectSeq(FilledBy(node), LAMBDA p : p \in DOMAIN NamesIn(node))
  IN  IF vs.st.sig = "error" THEN vs.st
      ELSE FoldLeft(LAMBDA s, p : Set(s, NamesIn(node)[p].s[1], World(node.k, p)), did, asked)

------------------------------------------------------------------------------
(* Statements *)

LabelAt(main, x) == CHOOSE i \in DOMAIN main : main[i].k = "LABEL" /\ main[i].label = x

Held(r) == r.v.t = "num" /\ r.v.n # 0

ExecFor(main, loop, st) ==
  LET s == loop.s
      v == Get(st, s.x)
      body == ExecSeq(main, s.body, st)
      next == Set(body, s.x, NumV(Get(body, s.x).n + loop.step))
      done == IF loop.step > 0 THEN v.n > loop.end ELSE v.n < loop.end
  IN  IF v.t # "num" THEN Wrong(st)
      ELSE IF st.fuel = 0 THEN Signal(st, "fuel")
      ELSE IF done THEN [st EXCEPT !.fors = @ - 1]
      ELSE IF body.sig # "next" THEN body
      ELSE IF Get(body, s.x).t # "num" THEN Wrong(body)
      ELSE TurnFor(main, loop, [next EXCEPT !.fuel = @ - 1])

ExecWhile(main, s, st) ==
  LET c == Eval(main, s.c, st)
      body == ExecSeq(main, s.body, c.st)
  IN  IF c.st.sig # "next" THEN c.st
      ELSE IF c.v.t # "num" THEN Wrong(c.st)
      ELSE IF ~Held(c) THEN c.st
      ELSE IF st.fuel = 0 THEN Signal(st, "fuel")
      ELSE IF body.sig # "next" THEN body
      ELSE TurnWhile(main, s, [body EXCEPT !.fuel = @ - 1])

ExecAssign(main, s, st) ==
  LET e == Eval(main, s.e, st)
      i == Eval(main, IF s.k = "SETARR" THEN s.i ELSE s.key, e.st)
      old == IF s.k = "SETMAP" /\ ~Known(i.st, s.x) THEN MapV(s.x \in StringNames, <<>>)
             ELSE Get(i.st, s.x)
      elem == IF s.x \in StringNames THEN AsText(e.v) ELSE IF e.v.t = "num" THEN e.v ELSE Bad
  IN  IF e.st.sig # "next" THEN e.st
      ELSE IF s.k = "LET" THEN Set(e.st, s.x, e.v)
      ELSE IF i.st.sig # "next" THEN i.st
      ELSE IF elem = Bad THEN Wrong(i.st)
      ELSE IF s.k = "SETMAP"
           THEN IF old.t # "map" \/ i.v.t # "str" THEN Wrong(i.st)
                ELSE Set(i.st, s.x, [old EXCEPT !.m = Put(@, i.v.s, elem)])
           ELSE IF old.t # "arr" \/ i.v.t # "num" THEN Wrong(i.st)
                ELSE IF i.v.n + 1 \notin DOMAIN old.e THEN Wrong(i.st)
                ELSE Set(i.st, s.x, [old EXCEPT !.e[i.v.n + 1] = elem])

ExecGosub(main, s, st) ==
  LET ps == EvalAll(main, s.params, st)
      set == FoldLeft(LAMBDA x, i : Set(x, Param(i), ps.v[i]), ps.st, [i \in DOMAIN ps.v |-> i])
      r  == ExecFrom(main, LabelAt(main, s.label), [set EXCEPT !.subs = @ + 1])
      gone == FoldLeft(LAMBDA x, i : Set(x, Param(i), Zero),
                       IF r.at = <<"value">> THEN Set(Signal(r, "next"), "RESULT", r.v)
                       ELSE Signal(r, "next"),
                       [i \in DOMAIN ps.v |-> i])
  IN  IF ps.st.sig # "next" THEN ps.st
      ELSE IF st.subs >= MaxGosub THEN Wrong(ps.st)
      ELSE IF r.sig # "return" THEN r
      ELSE [gone EXCEPT !.subs = st.subs, !.at = <<>>, !.v = Zero]

ExecStatement(main, s, st) ==
  CASE s.k \in {"REM", "LABEL", "FUN"} -> st
    [] s.k \in {"LET", "SETARR", "SETMAP"} -> ExecAssign(main, s, st)
    [] s.k = "DIM" ->
         LET n == Eval(main, s.size, st)
             str == s.x \in StringNames
         IN  IF n.st.sig # "next" THEN n.st
             ELSE IF n.v.t # "num" \/ n.v.n \notin 1..MaxArray THEN Wrong(n.st)
             ELSE Set(n.st, s.x, ArrV(str, [i \in 1..n.v.n |-> Default(str)]))
    [] s.k = "GOTO"   -> [st EXCEPT !.sig = "goto", !.at = s.label]
    [] s.k = "GOSUB"  -> ExecGosub(main, s, st)
    [] s.k = "STOP"   -> Signal(st, "stop")
    [] s.k = "RETURN" ->
         LET r == Eval(main, s.e, st)
         IN  IF ~st.in /\ st.subs = 0 THEN Wrong(IF s.e = Nil THEN st ELSE r.st)
             ELSE IF s.e = Nil THEN [st EXCEPT !.sig = "return", !.at = <<"none">>]
             ELSE IF r.st.sig # "next" THEN r.st
             ELSE [r.st EXCEPT !.sig = "return", !.at = <<"value">>, !.v = r.v]
    [] s.k = "IF" ->
         LET c == Eval(main, s.c, st)
         IN  IF c.st.sig # "next" THEN c.st
             ELSE IF c.v.t # "num" THEN Wrong(c.st)
             ELSE ExecSeq(main, IF Held(c) THEN s.then ELSE s.else, c.st)
    [] s.k = "FOR" ->
         LET from == Eval(main, s.from, st)
             init == Set(from.st, s.x, from.v)
             lim  == EvalAll(main, <<s.to, s.step>>, init)
         IN  IF from.st.sig # "next" THEN from.st
             ELSE IF lim.st.sig # "next" THEN lim.st
             ELSE IF \/ "num" # Get(lim.st, s.x).t
                     \/ "num" # lim.v[1].t \/ "num" # lim.v[2].t
                     \/ st.fors >= MaxFor THEN Wrong(lim.st)
             ELSE TurnFor(main, [s |-> s, end |-> lim.v[1].n, step |-> lim.v[2].n],
                          [lim.st EXCEPT !.fors = @ + 1])
    [] s.k = "WHILE" -> TurnWhile(main, s, st)
    [] OTHER -> ExecCommand(main, s, st)

ExecBlock(main, body, st) ==
  IF body = <<>> \/ st.sig # "next" THEN st
  ELSE IF st.fuel = 0 THEN Signal(st, "fuel")
  ELSE ExecSeq(main, Tail(body), ExecStatement(main, body[1], [st EXCEPT !.fuel = @ - 1]))

(* From a statement of the script on; a GOTO goes on at its label. *)
ExecScript(main, i, st) ==
  LET r == ExecSeq(main, SubSeq(main, i, Len(main)), st)
  IN  CASE r.sig = "goto" -> ExecFrom(main, LabelAt(main, r.at), [Signal(r, "next") EXCEPT !.at = <<>>])
        [] r.sig = "next" -> Signal(r, "stop")
        [] OTHER -> r

Walk(what, main, x, st) ==
  CASE what = "expression"  -> EvalOne(main, x, st)
    [] what = "expressions" -> EvalEach(main, x, st)
    [] what = "block"       -> ExecBlock(main, x, st)
    [] what = "script"      -> ExecScript(main, x, st)
    [] what = "for"         -> ExecFor(main, x, st)
    [] what = "while"       -> ExecWhile(main, x, st)

Meaning(main) == ExecFrom(main, 1, Fresh)
=============================================================================
