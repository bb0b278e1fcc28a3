------------------------------ MODULE ScriptVM ------------------------------
(***************************************************************************)
(* The virtual machine of C64Script: one instruction a step               *)
(* (script/vm/c64-script-vm.c, c64-script-vm-dispatch-*.c) on the operand  *)
(* stack, the variables and the stacks of loops, subroutines and functions *)
(* (script/runtime/c64-script-runtime.c).                                  *)
(*                                                                         *)
(* Instructions carry the constant they index.  Numbers are integers, so   *)
(* a division is of a multiple; what is read from outside (the device's    *)
(* memory and configuration, files, the clock, the environment, the random *)
(* numbers, the transcendental functions) is World.  An instruction that   *)
(* fails ends the run; what it had popped before is not kept.  The pause   *)
(* and the stop flag are those of ScriptExecutor.                          *)
(***************************************************************************)
EXTENDS Integers, FiniteSets, ScriptCommands, TLC

CONSTANTS
  MaxStack,         \* 256: operand stack
  MaxFor,           \* 16: nested FOR loops
  MaxGosub,         \* 32: nested GOSUBs
  MaxScopes,        \* 1024: nested function calls
  MaxVars,          \* 512: global variables
  MaxArray,         \* elements of an array
  IntBits,          \* 32: width of the integers of AND, OR, XOR and NOT
  Alphabet,         \* the characters, in the order of their codes
  StringNames,      \* names that end in $
  World(_, _)       \* what a read returns: of an opcode and its arguments

ASSUME VMAssumption ==
  /\ {MaxStack, MaxFor, MaxGosub, MaxScopes, MaxVars, MaxArray, IntBits} \subseteq Nat \ {0}

VARIABLES
  code,             \* instructions [op, a], the first at address 0
  funcs,            \* functions [x, at, params]
  ip,
  stack,
  globals,          \* name -> value
  scopes,           \* calls in progress: [vars, ret]
  gosubs,           \* subroutines in progress: [ret, n]
  fors,             \* loops in progress: [x, end, step]
  out,              \* what commands did: [op, args], oldest first
  status            \* "idle", "running", "halted", or the error that ended the run

vmVars == <<code, funcs, ip, stack, globals, scopes, gosubs, fors, out, status>>

------------------------------------------------------------------------------
(* Values *)

Bad        == [t |-> "bad"]
ArrV(s, e) == [t |-> "arr", str |-> s, e |-> e]
MapV(s, m) == [t |-> "map", str |-> s, m |-> m]
Default(s) == IF s THEN Empty ELSE Zero

DigitChars == <<"0", "1", "2", "3", "4", "5", "6", "7", "8", "9">>

Digits[n \in Nat] ==
  IF n < 10 THEN <<DigitChars[n + 1]>> ELSE Append(Digits[n \div 10], DigitChars[(n % 10) + 1])

(* STR: a number as text. *)
TextOf(n) == IF n < 0 THEN <<"-">> \o Digits[-n] ELSE Digits[n]

(* A value where text is wanted; a number is converted, an array is not. *)
AsText(v) ==
  CASE v.t = "str" -> v
    [] v.t = "num" -> StrV(TextOf(v.n))
    [] OTHER -> Bad

(* Truncation and storage of a value under a name. *)
Coerce(x, v) == IF v.t \in {"arr", "map"} \/ x \notin StringNames THEN v ELSE AsText(v)

Position(c) == CHOOSE i \in DOMAIN Alphabet : Alphabet[i] = c

StrLess(a, b) ==
  \/ IsStrictPrefix(a, b)
  \/ \E i \in DOMAIN a \cap DOMAIN b :
       /\ SubSeq(a, 1, i - 1) = SubSeq(b, 1, i - 1)
       /\ Position(a[i]) < Position(b[i])

Compared(op, a, b) ==
  LET less(v, w) == IF v.t = "num" THEN v.n < w.n ELSE StrLess(v.s, w.s)
      holds == CASE op = "="  -> a = b
                 [] op = "<>" -> a # b
                 [] op = "<"  -> less(a, b)
                 [] op = "<=" -> ~less(b, a)
                 [] op = ">"  -> less(b, a)
                 [] op = ">=" -> ~less(a, b)
  IN  IF a.t = b.t /\ a.t \in {"num", "str"} THEN NumV(IF holds THEN 1 ELSE 0) ELSE Bad

Arith(op, a, b) ==
  IF op = "+" /\ "str" \in {a.t, b.t}
  THEN IF Bad \in {AsText(a), AsText(b)} THEN Bad ELSE StrV(AsText(a).s \o AsText(b).s)
  ELSE IF a.t # "num" \/ b.t # "num" \/ (op = "/" /\ b.n = 0) THEN Bad
  ELSE NumV(CASE op = "+" -> a.n + b.n
              [] op = "-" -> a.n - b.n
              [] op = "*" -> a.n * b.n
              [] op = "/" -> IF b.n > 0 THEN a.n \div b.n ELSE (-a.n) \div (-b.n))

(* Two's complement of IntBits bits. *)
BitsOf(n)   == {i \in 0..IntBits - 1 : (n \div 2^i) % 2 = 1}
FromBits(bits) == MapThenSumSet(LAMBDA i : IF i = IntBits - 1 THEN -(2^i) ELSE 2^i, bits)

Bitwise2(op, a, b) ==
  IF a.t # "num" \/ b.t # "num" THEN Bad
  ELSE LET x == BitsOf(a.n)
           y == BitsOf(b.n)
       IN  NumV(FromBits(CASE op = "AND" -> x \cap y
                           [] op = "OR"  -> x \cup y
                           [] op = "XOR" -> (x \ y) \cup (y \ x)))

ArithOps   == {"+", "-", "*", "/"}
CompareOps == {"=", "<>", "<", "<=", ">", ">="}
BitOps     == {"AND", "OR", "XOR"}

Binary(op, a, b) ==
  CASE op \in ArithOps   -> Arith(op, a, b)
    [] op \in CompareOps -> Compared(op, a, b)
    [] op \in BitOps     -> Bitwise2(op, a, b)

Unary(op, v) ==
  IF v.t # "num" THEN Bad
  ELSE NumV(IF op = "NEGATE" THEN -v.n ELSE -v.n - 1)

------------------------------------------------------------------------------
(* Built-in functions *)

NumericPrefix(s) ==
  LET sign == IF s # <<>> /\ s[1] = "-" THEN 1 ELSE 0
      n    == CHOOSE n \in sign..Len(s) :
                /\ \A i \in sign + 1..n : s[i] \in ToSet(DigitChars)
                /\ n < Len(s) => s[n + 1] \notin ToSet(DigitChars)
      abs  == FoldLeft(LAMBDA acc, c : 10 * acc + (CHOOSE d \in 1..10 : DigitChars[d] = c) - 1,
                       0, SubSeq(s, sign + 1, n))
  IN  IF sign = 1 THEN -abs ELSE abs

Least(a, b) == IF a < b THEN a ELSE b

StringFunction(f, args) ==
  LET s == args[1].s
      n == args[2].n
      m == args[3].n
  IN  CASE f = "LEN"    -> NumV(Len(s))
        [] f = "LEFT$"  -> IF n < 0 THEN Bad ELSE StrV(SubSeq(s, 1, Least(n, Len(s))))
        [] f = "RIGHT$" -> IF n < 0 THEN Bad
                           ELSE StrV(SubSeq(s, Len(s) - Least(n, Len(s)) + 1, Len(s)))
        [] f = "MID$"   -> IF n < 1 \/ m < 0 THEN Bad
                           ELSE StrV(SubSeq(s, n, Least(n - 1 + m, Len(s))))
        [] f = "ASC"    -> NumV(IF s = <<>> THEN 0 ELSE Position(s[1]))
        [] f = "VAL"    -> NumV(NumericPrefix(s))

NumberFunction(f, args) ==
  LET n == args[1].n
  IN  CASE f = "CHR$" -> IF n \in DOMAIN Alphabet THEN StrV(<<Alphabet[n]>>) ELSE Bad
        [] f = "ABS"  -> NumV(IF n < 0 THEN -n ELSE n)
        [] f = "INT"  -> NumV(n)
        [] f \in {"RND", "SQRT"} -> IF n < 0 THEN Bad ELSE World(f, args)
        [] f = "LOG"  -> IF n <= 0 THEN Bad ELSE World(f, args)
        [] f \in {"SIN", "COS", "TAN", "EXP"} -> World(f, args)

StringFunctions == [LEN |-> <<"str">>, ASC |-> <<"str">>, VAL |-> <<"str">>] @@
  ("LEFT$" :> <<"str", "num">>) @@ ("RIGHT$" :> <<"str", "num">>) @@ ("MID$" :> <<"str", "num", "num">>)
NumberFunctions == {"CHR$", "ABS", "INT", "RND", "SIN", "COS", "TAN", "SQRT", "LOG", "EXP"}

Builtin(f, args) ==
  CASE f \in DOMAIN StringFunctions ->
         IF \A i \in DOMAIN args : args[i].t = StringFunctions[f][i] THEN StringFunction(f, args)
         ELSE Bad
    [] f \in NumberFunctions -> IF args[1].t = "num" THEN NumberFunction(f, args) ELSE Bad
    [] f = "ENV" -> IF \A i \in DOMAIN args : args[i].t = "str" THEN World(f, args) ELSE Bad
    [] OTHER -> World(f, args)                                            \* TIME$

------------------------------------------------------------------------------
(* Variables: local to the call in progress, else global *)

Put(f, x, v) == (x :> v) @@ f

GetVar(x) ==
  IF scopes # <<>> /\ x \in DOMAIN Last(scopes).vars THEN Last(scopes).vars[x]
  ELSE IF x \in DOMAIN globals THEN globals[x]
  ELSE Zero

VarExists(x) == x \in DOMAIN globals \/ (scopes # <<>> /\ x \in DOMAIN Last(scopes).vars)

(* The environment [g, s] after storing v under x; unchanged by a failure. *)
CanSet(e, x, v) ==
  /\ Coerce(x, v) # Bad
  /\ e.s = <<>> => x \in DOMAIN e.g \/ Cardinality(DOMAIN e.g) < MaxVars

SetVar(e, x, v) ==
  IF ~CanSet(e, x, v) THEN e
  ELSE IF e.s # <<>> THEN [e EXCEPT !.s[Len(e.s)].vars = Put(@, x, Coerce(x, v))]
  ELSE [e EXCEPT !.g = Put(@, x, Coerce(x, v))]

Env == [g |-> globals, s |-> scopes]

(* The callers that set several names do not look at the result. *)
SetVars(e, pairs) == FoldLeft(LAMBDA acc, p : SetVar(acc, p[1], p[2]), e, pairs)

------------------------------------------------------------------------------
(* Steps *)

Op  == code[ip + 1].op
Arg == code[ip + 1].a

At(ops) == status = "running" /\ ip < Len(code) /\ Op \in ops

Top(i)  == stack[Len(stack) - i]                  \* the i-th popped, from 0
Rest(n) == SubSeq(stack, 1, Len(stack) - n)

Fault(e) == status' = e /\ UNCHANGED <<code, funcs, ip, stack, globals, scopes, gosubs, fors, out>>

(* An instruction that pops n operands and needs ok of them. *)
Popping(n, ok, then) ==
  IF Len(stack) < n THEN Fault("stack underflow")
  ELSE IF ~ok THEN Fault("type mismatch")
  ELSE then

Push1(n, v) ==
  IF Len(stack) - n >= MaxStack THEN stack' = stack /\ ip' = ip /\ status' = "stack overflow"
  ELSE stack' = Append(Rest(n), v) /\ ip' = ip + 1 /\ UNCHANGED status

Static    == UNCHANGED <<code, funcs>>
Unchanged == Static /\ UNCHANGED <<globals, scopes, gosubs, fors, out>>

PushConst == At({"PUSH_CONST"}) /\ Push1(0, Arg) /\ Unchanged

PushVar == At({"PUSH_VAR"}) /\ Push1(0, GetVar(Arg)) /\ Unchanged

Store(x, v, n) ==
  IF ~CanSet(Env, x, v) THEN Fault("type mismatch")
  ELSE /\ globals' = SetVar(Env, x, v).g
       /\ scopes' = SetVar(Env, x, v).s
       /\ stack' = Rest(n)
       /\ ip' = ip + 1
       /\ UNCHANGED <<gosubs, fors, out, status>> /\ Static

PopVar == At({"POP_VAR"}) /\ Popping(1, TRUE, Store(Arg, Top(0), 1))

DimArray ==
  /\ At({"DIM_ARRAY"})
  /\ Popping(1, Top(0).t = "num",
       IF Top(0).n \notin 1..MaxArray THEN Fault("illegal quantity")
       ELSE LET s == Arg \in StringNames
            IN  Store(Arg, ArrV(s, [i \in 1..Top(0).n |-> Default(s)]), 1))

(* An array index counts from 0. *)
ArrayGet ==
  /\ At({"ARRAY_GET"})
  /\ LET arr == GetVar(Arg)
     IN  Popping(1, Top(0).t = "num" /\ arr.t = "arr",
           IF Top(0).n + 1 \notin DOMAIN arr.e THEN Fault("illegal quantity")
           ELSE Push1(1, arr.e[Top(0).n + 1]) /\ Unchanged)

(* A string container converts numbers; a numeric one takes only numbers. *)
Element(container, v) ==
  IF container.str THEN AsText(v) ELSE IF v.t = "num" THEN v ELSE Bad

ArraySet ==
  /\ At({"ARRAY_SET"})
  /\ LET arr == GetVar(Arg)
         i   == Top(0).n + 1
     IN  Popping(2, Top(0).t = "num" /\ arr.t = "arr",
           IF Element(arr, Top(1)) = Bad THEN Fault("type mismatch")
           ELSE IF i \notin DOMAIN arr.e THEN Fault("illegal quantity")
           ELSE Store(Arg, [arr EXCEPT !.e[i] = Element(arr, Top(1))], 2))

MapGet ==
  /\ At({"MAP_GET"})
  /\ LET map == GetVar(Arg)
     IN  Popping(1, Top(0).t = "str" /\ map.t = "map",
           /\ Push1(1, IF Top(0).s \in DOMAIN map.m THEN map.m[Top(0).s] ELSE Default(map.str))
           /\ Unchanged)

MapSet ==
  /\ At({"MAP_SET"})
  /\ LET map == IF VarExists(Arg) THEN GetVar(Arg) ELSE MapV(Arg \in StringNames, <<>>)
     IN  Popping(2, Top(0).t = "str" /\ map.t = "map",
           IF Element(map, Top(1)) = Bad THEN Fault("type mismatch")
           ELSE Store(Arg, [map EXCEPT !.m = Put(@, Top(0).s, Element(map, Top(1)))], 2))

BinaryOp ==
  /\ At(ArithOps \cup CompareOps \cup BitOps)
  /\ Popping(2, Binary(Op, Top(1), Top(0)) # Bad, Push1(2, Binary(Op, Top(1), Top(0))) /\ Unchanged)

UnaryOp ==
  /\ At({"NEGATE", "NOT"})
  /\ Popping(1, Unary(Op, Top(0)) # Bad, Push1(1, Unary(Op, Top(0))) /\ Unchanged)

StrOp == At({"STR"}) /\ Popping(1, Top(0).t = "num", Push1(1, AsText(Top(0))) /\ Unchanged)

------------------------------------------------------------------------------
(* Control flow *)

Jump == At({"JUMP"}) /\ ip' = Arg /\ UNCHANGED <<stack, status>> /\ Unchanged

(* A false condition jumps. *)
Condition ==
  /\ At({"JUMP_IF_FALSE", "WHILE_CHECK"})
  /\ Popping(1, Top(0).t = "num",
       /\ ip' = IF Top(0).n = 0 THEN Arg ELSE ip + 1
       /\ stack' = Rest(1)
       /\ UNCHANGED status /\ Unchanged)

(* GOSUB: the parameters become PARAM1, PARAM2, ...; scripts here pass at   *)
(* most three.                                                             *)
Param(i) == <<"PARAM1", "PARAM2", "PARAM3">>[i]

Call ==
  /\ At({"CALL"})
  /\ LET n == Top(0).n
         e == SetVars(Env, [i \in 1..n |-> <<Param(n + 1 - i), Top(i)>>])
     IN  Popping(1, Top(0).t = "num",
           IF Len(stack) < n + 1 THEN Fault("stack underflow")
           ELSE IF Len(gosubs) >= MaxGosub THEN Fault("gosub stack overflow")
           ELSE /\ globals' = e.g /\ scopes' = e.s
                /\ gosubs' = Append(gosubs, [ret |-> ip + 1, n |-> n])
                /\ stack' = Rest(n + 1)
                /\ ip' = Arg
                /\ Static /\ UNCHANGED <<fors, out, status>>)

(* The innermost function is left first, whatever the subroutines are. *)
ReturnFromFunction ==
  /\ At({"RETURN"}) /\ scopes # <<>>
  /\ Popping(Arg, TRUE,
       /\ stack' = Append(Rest(Arg), IF Arg = 1 THEN Top(0) ELSE Zero)
       /\ scopes' = Front(scopes)
       /\ ip' = Last(scopes).ret
       /\ Static /\ UNCHANGED <<globals, gosubs, fors, out, status>>)

(* Mutant of ReturnFromGosub: the parameters outlive the subroutine. *)
ReturnKeepsParams ==
  /\ At({"RETURN"}) /\ scopes = <<>>
  /\ Popping(Arg, TRUE,
       IF gosubs = <<>> THEN Fault("return without gosub")
       ELSE LET result == IF Arg = 1 THEN <<<<"RESULT", Top(0)>>>> ELSE <<>>
            IN  /\ globals' = SetVars(Env, result).g
                /\ gosubs' = Front(gosubs)
                /\ stack' = Rest(Arg)
                /\ ip' = Last(gosubs).ret
                /\ Static /\ UNCHANGED <<scopes, fors, out, status>>)

ReturnFromGosub ==
  /\ At({"RETURN"}) /\ scopes = <<>>
  /\ Popping(Arg, TRUE,
       IF gosubs = <<>> THEN Fault("return without gosub")
       ELSE LET result == IF Arg = 1 THEN <<<<"RESULT", Top(0)>>>> ELSE <<>>
                undone == [i \in 1..Last(gosubs).n |-> <<Param(i), Zero>>]
            IN  /\ globals' = SetVars(Env, result \o undone).g
                /\ gosubs' = Front(gosubs)
                /\ stack' = Rest(Arg)
                /\ ip' = Last(gosubs).ret
                /\ Static /\ UNCHANGED <<scopes, fors, out, status>>)

(* Mutant of Stop: the end of the program is no instruction of its own. *)
StopOnly ==
  /\ At({"STOP"})
  /\ status' = "halted" /\ ip' = ip + 1
  /\ UNCHANGED stack /\ Unchanged

Stop ==
  /\ At({"STOP", "HALT"})
  /\ status' = "halted" /\ ip' = ip + 1
  /\ UNCHANGED stack /\ Unchanged

CallFunction ==
  /\ At({"CALL_FUNCTION"})
  /\ LET f == funcs[Arg.f]
         n == Arg.n
         locals == [x \in ToSet(f.params) |->
                      Top(n - (CHOOSE i \in 1..n : /\ f.params[i] = x
                                                   /\ \A j \in i + 1..n : f.params[j] # x))]
     IN  IF n # Len(f.params) THEN Fault("wrong argument count")
         ELSE IF Len(scopes) >= MaxScopes THEN Fault("recursion too deep")
         ELSE Popping(n, TRUE,
                /\ scopes' = Append(scopes, [vars |-> locals, ret |-> ip + 1])
                /\ stack' = Rest(n)
                /\ ip' = f.at
                /\ Static /\ UNCHANGED <<globals, gosubs, fors, out, status>>)

(* Mutant of ForInit: the loop stack is not bounded. *)
ForInitUnbounded ==
  /\ At({"FOR_INIT"})
  /\ Popping(3, \A i \in 0..2 : Top(i).t = "num",
       /\ fors' = Append(fors, [x |-> Arg, end |-> Top(1).n, step |-> Top(0).n])
       /\ stack' = Rest(3)
       /\ ip' = ip + 1
       /\ Static /\ UNCHANGED <<globals, scopes, gosubs, out, status>>)

ForInit ==
  /\ At({"FOR_INIT"})
  /\ Popping(3, \A i \in 0..2 : Top(i).t = "num",
       IF Len(fors) >= MaxFor THEN Fault("for stack overflow")
       ELSE /\ fors' = Append(fors, [x |-> Arg, end |-> Top(1).n, step |-> Top(0).n])
            /\ stack' = Rest(3)
            /\ ip' = ip + 1
            /\ Static /\ UNCHANGED <<globals, scopes, gosubs, out, status>>)

(* The check and the increment are of the innermost loop in progress. *)
(* Mutant of ForCheck: a loop that has ended stays on the stack. *)
ForCheckKeepsLoop ==
  /\ At({"FOR_CHECK"})
  /\ IF fors = <<>> THEN Fault("next without for")
     ELSE LET loop == Last(fors)
              v    == GetVar(loop.x)
              done == IF loop.step > 0 THEN v.n > loop.end ELSE v.n < loop.end
          IN  IF v.t # "num" THEN Fault("type mismatch")
              ELSE /\ ip' = IF done THEN Arg ELSE ip + 1
                   /\ Static /\ UNCHANGED <<stack, globals, scopes, gosubs, fors, out, status>>

ForCheck ==
  /\ At({"FOR_CHECK"})
  /\ IF fors = <<>> THEN Fault("next without for")
     ELSE LET loop == Last(fors)
              v    == GetVar(loop.x)
              done == IF loop.step > 0 THEN v.n > loop.end ELSE v.n < loop.end
          IN  IF v.t # "num" THEN Fault("type mismatch")
              ELSE /\ fors' = IF done THEN Front(fors) ELSE fors
                   /\ ip' = IF done THEN Arg ELSE ip + 1
                   /\ Static /\ UNCHANGED <<stack, globals, scopes, gosubs, out, status>>

ForIncr ==
  /\ At({"FOR_INCR"})
  /\ IF fors = <<>> THEN Fault("next without for")
     ELSE LET v == GetVar(Last(fors).x)
          IN  IF v.t # "num" THEN Fault("type mismatch")
              ELSE Store(Last(fors).x, NumV(v.n + Last(fors).step), 0)

------------------------------------------------------------------------------
(* Reads and commands *)

CallBuiltin ==
  /\ At({"CALL_BUILTIN"})
  /\ LET n == Arg.n
         r == Builtin(Arg.f, [i \in 1..n |-> Top(n - i)])
     IN  Popping(n, r # Bad, Push1(n, r) /\ Unchanged)

(* The operands popped for an instruction, by role. *)
Plan == Pops(Op, Arg)

Popped == [r \in {Plan[i].r : i \in DOMAIN Plan} |->
             Top((CHOOSE i \in DOMAIN Plan : Plan[i].r = r) - 1)]

WellTyped ==
  \A i \in DOMAIN Plan :
    LET v == Top(i - 1)
    IN  v.t \in Plan[i].t /\ ("range" \in DOMAIN Plan[i] => v.n \in Plan[i].range)

Unavailable == Fault("device")

(* A read of the device pushes its answer. *)
DeviceRead ==
  /\ At({"PEEK", "CFG_GET", "DRIVE_GET"})
  /\ \/ Popping(Len(Plan), WellTyped, Push1(Len(Plan), World(Op, Popped)) /\ Unchanged)
     \/ Unavailable

(* A listing fills the array named and pushes the number of entries, which *)
(* the array must have room for.                                           *)
DeviceList ==
  /\ At({"CFG_ITEM", "CFG_OPTIONS"})
  /\ \/ Popping(Len(Plan), WellTyped,
          LET x     == Head(Popped["array"].s)
              arr   == GetVar(x)
              items == World(Op, Popped)
              full  == [arr EXCEPT !.e = [i \in DOMAIN @ |-> IF i \in DOMAIN items THEN items[i]
                                                             ELSE @[i]]]
          IN  IF arr.t # "arr" THEN Fault("type mismatch")
              ELSE IF Len(items) > Len(arr.e) THEN Fault("array too small")
              ELSE /\ Push1(Len(Plan), NumV(Len(items)))
                   /\ globals' = SetVar(Env, x, full).g
                   /\ scopes' = SetVar(Env, x, full).s
                   /\ Static /\ UNCHANGED <<gosubs, fors, out>>)
     \/ Unavailable

(* What a command does with its operands: absent parts take their          *)
(* defaults, bytes are truncated, text is made of numbers where a text is  *)
(* written.                                                                *)
OrElse(v, d) == IF v = Empty THEN d ELSE v

MountDefaults(args) ==
  [args EXCEPT !["drive"] = OrElse(@, StrV(<<"DRIVE_A">>)),
               !["type"]  = OrElse(@, StrV(<<"TYPE_D64">>)),
               !["mode"]  = OrElse(@, StrV(<<"MODE_READWRITE">>))]

RomDefaults(args) == [args EXCEPT !["drive"] = OrElse(@, StrV(<<"DRIVE_A">>))]

LoadDefaults(args) ==
  IF "file" \in DOMAIN args THEN args @@ [device |-> NumV(8)] ELSE args

WaitMemDefaults(args) == args @@ [value |-> args["mask"], poll |-> <<"MS", 500>>]

Bytes(args) ==
  [r \in DOMAIN args |-> IF r = "address" THEN args[r] ELSE NumV(args[r].n % 256)]

Effective(op, args) ==
  CASE op = "DRIVE_MOUNT" -> MountDefaults(args)
    [] op = "DRIVE_ROM" -> RomDefaults(args)
    [] op \in {"LOAD", "RUN"} -> LoadDefaults(args)
    [] op = "WAIT_MEM" -> WaitMemDefaults(args)
    [] op \in {"POKE", "POKE_ARRAY"} -> Bytes(args)
    [] op \in {"LOG", "PRINT"} -> [args EXCEPT !["message"] = AsText(@)]
    [] op = "WRITEFILE" -> [args EXCEPT !["content"] = AsText(@)]
    [] op = "HTTP" -> [args EXCEPT !["body"] = AsText(@)]
    [] OTHER -> args

(* The variables a command fills, when they were named. *)
Filled(op, args, roles) ==
  LET named == SelectSeq(roles, LAMBDA r : args[r].t = "str" /\ args[r] # Empty)
  IN  [i \in DOMAIN named |-> <<Head(args[named[i]].s), World(op, named[i])>>]

Fills(op, args) ==
  CASE op = "RUNLOCAL" -> Filled(op, args, <<"status", "output">>)
    [] op = "READFILE" -> Filled(op, args, <<"variable">>)
    [] op = "HTTP"     -> Filled(op, args, <<"status", "response">>)
    [] OTHER -> <<>>

CommandOps ==
  UNION {DOMAIN PluginPushes, DOMAIN ConfigPushes, DOMAIN DrivePushes, DOMAIN ProgramPushes,
         DOMAIN FilePushes, DOMAIN WaitPushes, {"POKE", "POKE_ARRAY"}}

Command ==
  /\ At(CommandOps)
  /\ \/ Popping(Len(Plan), WellTyped,
          LET e == SetVars(Env, Fills(Op, Popped))
          IN  /\ out' = Append(out, [op |-> Op, a |-> Arg, args |-> Effective(Op, Popped)])
              /\ globals' = e.g /\ scopes' = e.s
              /\ stack' = Rest(Len(Plan))
              /\ ip' = ip + 1
              /\ Static /\ UNCHANGED <<gosubs, fors, status>>)
     \/ Unavailable

------------------------------------------------------------------------------

VMStart(program, functions) ==
  /\ status = "idle" /\ status' = "running"
  /\ code' = program /\ funcs' = functions
  /\ ip' = 0
  /\ UNCHANGED <<stack, globals, scopes, gosubs, fors, out>>

VMInit ==
  /\ code = <<>> /\ funcs = <<>> /\ ip = 0
  /\ stack = <<>> /\ globals = <<>> /\ scopes = <<>> /\ gosubs = <<>> /\ fors = <<>>
  /\ out = <<>> /\ status = "idle"

Step ==
  \/ PushConst \/ PushVar \/ PopVar
  \/ DimArray \/ ArrayGet \/ ArraySet \/ MapGet \/ MapSet
  \/ BinaryOp \/ UnaryOp \/ StrOp
  \/ Jump \/ Condition \/ Call \/ ReturnFromFunction \/ ReturnFromGosub
  \/ Stop \/ CallFunction \/ ForInit \/ ForCheck \/ ForIncr
  \/ CallBuiltin \/ DeviceRead \/ DeviceList \/ Command
=============================================================================
