-------------------------- MODULE MCScriptLanguage --------------------------
(* Families of scripts for TLC: commands with every choice of clauses,     *)
(* pairs of operators, nested control flow, jumps and subroutines,         *)
(* functions, arrays and maps, and scripts that fail at run time.          *)
EXTENDS ScriptLanguage

MCAlphabet    == <<"-", "0", "1", "2", "3", "4", "5", "6", "7", "8", "9", "a", "b">>
MCStringNames == {"S$", "B$", "M$"}

(* What is outside: answers that show which operand was which. *)
MCWorld(op, x) ==
  CASE op \in {"PEEK"} -> NumV(x["address"].n % 7)
    [] op = "CFG_GET" -> StrV(x["category"].s \o x["item"].s)
    [] op = "DRIVE_GET" -> StrV(x["drive"].s \o x["property"].s)
    [] op = "CFG_ITEM" -> <<StrV(x["path"].s), StrV(<<"a">>)>>
    [] op = "CFG_OPTIONS" -> <<StrV(x["category"].s), StrV(x["item"].s)>>
    [] op \in {"SIN", "COS", "TAN", "EXP", "RND", "SQRT", "LOG"} -> NumV(x[1].n + 1)
    [] op = "ENV" -> StrV(<<"a">>)
    [] op = "TIME$" -> StrV(<<"b">>)
    [] op = "READFILE" -> StrV(<<"1", "2">>)
    [] op = "RUNLOCAL" /\ x = "status" -> NumV(3)
    [] op = "RUNLOCAL" -> StrV(<<"a", "b">>)
    [] op = "HTTP" /\ x = "status" -> NumV(200)
    [] op = "HTTP" -> StrV(<<"b", "a">>)

------------------------------------------------------------------------------
(* Trees *)

N_(n)      == NumE(n)
T_(s)      == StrE(s)
V_(x)      == VarE(x)
Bin(op, l, r) == [k |-> "bin", op |-> op, l |-> l, r |-> r]
Un(op, e)  == [k |-> "un", op |-> op, e |-> e]
Fn(x, args) == [k |-> "call", x |-> x, args |-> args]
Elem(x, i) == Fn(x, <<i>>)
Entry(x, key) == [k |-> "map", x |-> x, key |-> key]

Say(e)     == [k |-> "PRINT", message |-> e]
Let(x, e)  == [k |-> "LET", x |-> x, e |-> e]
Inc(x)     == Let(x, Bin("+", V_(x), N_(1)))
DimA(x, n) == [k |-> "DIM", x |-> x, size |-> n]
SetA(x, i, e) == [k |-> "SETARR", x |-> x, i |-> i, e |-> e]
SetM(x, key, e) == [k |-> "SETMAP", x |-> x, key |-> key, e |-> e]
L_(x)      == <<"name", x>>
Lab(x)     == [k |-> "LABEL", label |-> L_(x)]
LabN(n)    == [k |-> "LABEL", label |-> <<"line", n>>]
Goto(x)    == [k |-> "GOTO", label |-> L_(x)]
Sub(x, ps) == [k |-> "GOSUB", label |-> L_(x), params |-> ps]
Ret(e)     == [k |-> "RETURN", e |-> e]
Halt       == [k |-> "STOP"]
IfS(c, t, e) == [k |-> "IF", c |-> c, then |-> t, else |-> e]
ForS(x, a, b, s, body) == [k |-> "FOR", x |-> x, from |-> a, to |-> b, step |-> s, body |-> body]
WhileS(c, body) == [k |-> "WHILE", c |-> c, body |-> body]
Fun(x, ps, body) == [k |-> "FUN", x |-> x, params |-> ps, body |-> body]

------------------------------------------------------------------------------
(* Every command with every subset of its optional parts *)

NumericRoles ==
  [PALETTECOLOR |-> {"index", "r", "g", "b"}, EFFECTPARAM |-> {"value"}, PLAYSID |-> {"song"},
   DRIVE_BUS_ID |-> {"id"}, LOAD |-> {"device"}, RUN |-> {"device"}, SYS |-> {"address"},
   SID_ENABLE |-> {"enabled"}, ASSERT |-> {"tolerance"}, POKE |-> {"address", "value"},
   WAIT |-> {"duration"}, WAIT_MEM |-> {"address", "mask", "value", "poll"},
   OBS_WAIT_FRAMES |-> {"count"}, DISCOVER_DEVICES |-> {"port"}]
NumberOf == [index |-> 1, r |-> 2, g |-> 3, b |-> 4, value |-> 5, song |-> 6, id |-> 7, device |-> 8,
             address |-> 9, enabled |-> 1, tolerance |-> 10, duration |-> 11, mask |-> 12,
             poll |-> 13, count |-> 14, port |-> 15]
KeywordOf == [drive |-> "DRIVE_B", target |-> "ULTI1", type |-> "TYPE_G64", mode |-> "MODE_1571"]

ValueOf(k, r) ==
  CASE k \in DOMAIN NumericRoles /\ r \in NumericRoles[k] -> N_(NumberOf[r])
    [] r \in {"status", "output", "response", "variable"} -> V_(r)
    [] k = "SID_ENABLE" /\ r = "target" -> T_(<<"SOCKET2">>)
    [] k = "DRIVE_MOUNT" /\ r = "mode" -> T_(<<"MODE_READONLY">>)
    [] k \notin {"OBS_SCREENSHOT", "VIC_MODE"} /\ r \in DOMAIN KeywordOf -> T_(<<KeywordOf[r]>>)
    [] OTHER -> T_(<<r>>)

Always ==
  [DRIVE_MOUNT |-> {"image"}, DRIVE_ROM |-> {"file"}, LOAD |-> {"file"}, RUN |-> {},
   WAIT_MEM |-> {"address", "mask"}, POKE |-> {"address", "value"}]
Parts(k) == ToSet(IF k \in DOMAIN Operands THEN Operands[k] ELSE <<>>)
              \cup (IF k = "EFFECTPARAM" THEN {"value"} ELSE IF k = "OBS_WAIT_FRAMES" THEN {"count"} ELSE {})
Mandatory(k) ==
  CASE k \in DOMAIN Always -> Always[k] [] k = "OBS_SCREENSHOT" -> {"path"} [] OTHER -> Parts(k)
Optional(k) ==
  (Parts(k) \cup (IF k \in DOMAIN ClausesOf THEN {c[2] : c \in ToSet(ClausesOf[k])} ELSE {}))
    \ Mandatory(k)

(* A device comes after a file, a mode after a type. *)
ClauseSets(k) ==
  {o \in SUBSET Optional(k) :
     /\ k = "RUN" /\ "device" \in o => "file" \in o
     /\ k = "DRIVE_MOUNT" /\ "mode" \in o => "type" \in o}

Plain == {"AUTOSTART", "RESET", "REBOOT", "PAUSE", "RESUME", "POWEROFF", "CFGSAVE", "CFGLOAD",
          "CFGRESET", "TRON", "TROFF", "OBS_RECORDING_START", "OBS_RECORDING_STOP"}
Kinds == DOMAIN Operands \cup Plain \cup {"OBS_SCREENSHOT", "OBS_WAIT_FRAMES", "DISCOVER_DEVICES"}

Extras(k, o) ==
  CASE k = "WAIT" -> {[unit |-> u] : u \in {"MS", "S", "M", "H", "D"}}
    [] k = "WAIT_MEM" /\ "poll" \in o -> {[unit |-> u] : u \in {"MS", "S"}}
    [] k = "HTTP" -> {[method |-> T_(<<m>>)] : m \in {"GET", "POST"}}
    [] k = "OBS_SCREENSHOT" -> {[target |-> T_(<<t>>)] : t \in {"SOURCE", "PREVIEW"}}
    [] k \in {"LOGFILE", "WRITEFILE"} -> {[truncate |-> T_(<<f>>)] : f \in {"TRUNCATE", "APPEND"}}
    [] OTHER -> {<<>>}

CommandNodes ==
  UNION {UNION {{[k |-> k] @@ [r \in Mandatory(k) \cup o |-> ValueOf(k, r)] @@ x : x \in Extras(k, o)}
                : o \in ClauseSets(k)} : k \in Kinds}

Pokes == {[k |-> "POKE", address |-> N_(9), values |-> vs] :
            vs \in {<<N_(1)>>, <<N_(1), N_(2)>>, <<N_(1), N_(2), N_(3)>>}}

CommandScripts == {<<c>> : c \in CommandNodes \cup Pokes}

------------------------------------------------------------------------------
(* Operators in pairs, on both sides *)

Ops == {"OR", "XOR", "AND", "=", "<>", "<", "<=", ">", ">=", "+", "-", "*"}

Pairs ==
  UNION {{Bin(o1, Bin(o2, V_("A"), N_(2)), N_(3)), Bin(o1, V_("A"), Bin(o2, N_(2), N_(3)))}
         : <<o1, o2>> \in Ops \X Ops}
Unaries ==
  {Bin(o, Un(u, V_("A")), Un(v, N_(2))) : o \in Ops, u \in {"-", "NOT"}, v \in {"-", "NOT"}}
    \cup {Un("-", Bin(o, V_("A"), N_(2))) : o \in Ops}
    \cup {Un("NOT", e) : e \in {V_("A"), Un("-", V_("A")), Bin("AND", V_("A"), N_(1))}}
    \cup {Bin("-", Bin("/", Bin("*", V_("A"), N_(2)), N_(2)), Bin("/", N_(8), N_(4)))}

ExpressionScripts == {<<Let("A", N_(5)), Say(e)>> : e \in Pairs \cup Unaries}

Calls ==
  {Fn(f, <<T_(<<"a", "b", "a">>), N_(2)>>) : f \in {"LEFT$", "RIGHT$"}}
    \cup {Fn("MID$", <<T_(<<"a", "b", "1">>), N_(i), N_(2)>>) : i \in {0, 1, 2, 3}}
    \cup {Fn(f, <<T_(<<"-", "1", "2", "a">>)>>) : f \in {"LEN", "ASC", "VAL", "ENV"}}
    \cup {Fn(f, <<N_(2)>>) : f \in {"CHR$", "ABS", "INT", "RND", "SIN", "COS", "TAN", "SQRT",
                                    "LOG", "EXP", "STR$", "PEEK", "LEN"}}
    \cup {Fn("TIME$", <<>>), Fn("ENV", <<T_(<<"a">>), T_(<<"b">>)>>), Fn("SQRT", <<Un("-", N_(1))>>),
          Fn("LOG", <<N_(0)>>), Fn("ABS", <<Un("-", N_(3))>>), Fn("STR$", <<Un("-", N_(30))>>),
          Fn("STR$", <<T_(<<"a">>)>>), Fn("CFG$", <<T_(<<"a">>), T_(<<"b">>)>>),
          Fn("DRIVE$", <<T_(<<"DRIVE_A">>), T_(<<"PROP_ROM">>)>>),
          Bin("+", T_(<<"a">>), N_(12)), Bin("<", T_(<<"a">>), T_(<<"a", "b">>)),
          Bin("=", T_(<<"a">>), N_(1)), Bin("-", T_(<<"a">>), N_(1)), Bin("/", N_(1), N_(0)),
          Un("-", T_(<<"a">>))}

Lists ==
  {<<DimA("S$", N_(n)), Let("A", Fn(f[1], f[2] \o <<V_("S$")>>)), Say(Elem("S$", N_(1)))>> :
     n \in 1..3,
     f \in {<<"CFG_ITEM$", <<>>>>, <<"CFG_ITEM$", <<T_(<<"b">>)>>>>,
            <<"CFG_OPTIONS$", <<T_(<<"a">>), T_(<<"b">>)>>>>}}

CallScripts == {<<Say(e)>> : e \in Calls} \cup Lists

------------------------------------------------------------------------------
(* Control flow, two levels deep *)

Flat == {<<Say(V_("A"))>>, <<Inc("A")>>, <<Halt>>}
Tests == {V_("A"), Bin("<", V_("A"), N_(1))}

Around(bodies) ==
  UNION {{<<IfS(c, b, e)>> : c \in Tests, e \in {<<>>, <<Let("A", N_(7))>>}} : b \in bodies}
    \cup {<<ForS("I", N_(a), N_(2), N_(1), b)>> : a \in {1, 3}, b \in bodies}
    \cup {<<ForS("J", N_(1), N_(0), Un("-", N_(1)), b)>> : b \in bodies}
    \cup {<<WhileS(Bin("<", V_("A"), N_(2)), b \o <<Inc("A")>>)>> : b \in bodies}

Once == Around(Flat)
FlowScripts ==
  {b \o <<Say(Bin("+", V_("A"), V_("I")))>> : b \in Once \cup Around(Once \cup {<<Inc("A")>> \o b : b \in Once})}

(* Loops nested to the limit of the FOR stack and one more. *)
DeepScripts ==
  {<<ForS("I", N_(1), N_(1), N_(1), <<ForS("J", N_(1), N_(1), N_(1), <<b>>)>>), Say(V_("I"))>> :
     b \in {Say(V_("J")), ForS("K", N_(1), N_(2), N_(1), <<Say(V_("K"))>>)}}

------------------------------------------------------------------------------
(* Jumps and subroutines *)

Parts4 ==
  {Lab("X"), Lab("START"), Goto("X"), Goto("START"), IfS(Bin("<", V_("A"), N_(2)), <<Goto("X")>>, <<>>),
   Inc("A"), Say(V_("A")), Halt, Sub("X", <<>>), Sub("START", <<V_("A"), N_(4)>>), Ret(Nil),
   Ret(Bin("+", V_("PARAM1"), N_(1)))}

UsedLabels(prog) ==
  {prog[i].label : i \in {j \in DOMAIN prog : prog[j].k \in {"GOTO", "GOSUB"}}}
    \cup {L_("X") : i \in {j \in DOMAIN prog : prog[j].k = "IF"}}
DefinedOnce(prog, x) == Cardinality({i \in DOMAIN prog : prog[i].k = "LABEL" /\ prog[i].label = x}) = 1

(* A jump to a label after a GOSUB of it is a subroutine left open, which   *)
(* the filter on fuel and the meaning settle.                              *)
JumpScripts ==
  {prog \in UNION {{<<a, b, c, d, Say(V_("A"))>> : <<a, b, c, d>> \in Parts4 \X Parts4 \X Parts4 \X Parts4}} :
     /\ \A x \in {L_("X"), L_("START")} :
          x \in UsedLabels(prog) \/ (\E i \in DOMAIN prog : prog[i] = [k |-> "LABEL", label |-> x])
            => DefinedOnce(prog, x)
     /\ UsedLabels(prog) # {}}
GoodJumpScripts == {prog \in JumpScripts : Meaning(prog).sig # "fuel"}

------------------------------------------------------------------------------
(* Functions *)

Bodies ==
  {<<Ret(Bin("+", V_("X"), N_(1)))>>, <<Say(V_("X"))>>, <<Ret(Nil)>>, <<Let("A", V_("X"))>>,
   <<Let("X", N_(9)), Ret(V_("A"))>>,
   <<IfS(Bin(">", V_("X"), N_(0)), <<Ret(Bin("+", Elem("F", Bin("-", V_("X"), N_(1))), V_("X")))>>, <<>>),
     Ret(N_(1))>>,
   <<IfS(V_("X"), <<Ret(N_(5))>>, <<Say(V_("X"))>>)>>,
   <<ForS("I", N_(1), N_(2), N_(1), <<Say(V_("X"))>>)>>}

FunctionScripts ==
  {<<Let("A", N_(3)), Fun("F", <<"X">>, b), Say(e), Say(V_("A"))>> :
     b \in Bodies,
     e \in {Elem("F", N_(1)), Elem("F", N_(2)), Elem("F", N_(3)),
            Bin("-", Elem("F", N_(2)), Elem("F", V_("A"))), Elem("F", Elem("F", N_(0)))}}
  \cup {<<Fun("G", <<"X", "Y">>, <<Ret(Bin("-", V_("X"), V_("Y")))>>), Fun("H", <<>>, <<Say(N_(1))>>),
          Say(Fn("G", args)), Let("A", Fn("H", <<>>))>> :
          args \in {<<N_(5), N_(3)>>, <<Fn("G", <<N_(9), N_(1)>>), Fn("H", <<>>)>>, <<N_(5)>>}}

------------------------------------------------------------------------------
(* Arrays and maps *)

ArrayScripts ==
  {<<DimA(x, n), SetA(x, i, e), Say(Elem(x, j))>> :
     x \in {"A", "S$"}, n \in {N_(0), N_(1), N_(3), N_(4)}, i \in {N_(0), N_(2)},
     e \in {N_(7), T_(<<"a">>)}, j \in {N_(0), N_(1), Un("-", N_(1))}}
MapScripts ==
  {<<SetM(x, T_(<<"a">>), e), SetM(x, key, N_(2)), Say(Entry(x, T_(<<"a">>))), Say(Entry(x, T_(<<"b">>)))>> :
     x \in {"C", "M$"}, e \in {N_(7), T_(<<"b">>)}, key \in {T_(<<"a">>), T_(<<"b">>), N_(1)}}
  \cup {<<Let("A", N_(1)), SetM("A", T_(<<"a">>), N_(2))>>, <<Let("S$", N_(12)), Say(V_("S$"))>>,
        <<LabN(10), Inc("A"), IfS(Bin("<", V_("A"), N_(3)), <<[k |-> "GOTO", label |-> <<"line", 10>>]>>, <<>>),
          [k |-> "REM"]>>}

------------------------------------------------------------------------------

MCPrograms ==
  UNION {CommandScripts, ExpressionScripts, CallScripts, FlowScripts, DeepScripts, GoodJumpScripts,
         FunctionScripts, ArrayScripts, MapScripts}

(* Tokens in any order *)
Letters == {Tk("NL"), Id("A"), Tk("="), Num(1), Tk("IF"), Tk("THEN"), Tk("ELSE"), Tk("ENDIF"), Tk("GOTO"),
            Tk("PRINT")}

(* An ELSE with nothing in it leaves no trace in the tree. *)
EmptyElse(f) ==
  \E i, j \in DOMAIN f : /\ i < j /\ f[i] = Tk("ELSE") /\ f[j] = Tk("ENDIF")
                         /\ \A m \in i + 1..j - 1 : f[m] = Tk("NL")

IfLetters == {Tk("NL"), Id("A"), Tk("ELSE"), Tk("ENDIF"), Tk("PRINT"), Num(1)}

(* A script ends with a line of its own: an ELSE at the end of the text is *)
(* taken without a statement.                                              *)
MCTexts ==
  {f \o <<Tk("NL"), Tk("PRINT"), Num(7), Tk("NL")>> :
     f \in UNION {[1..n -> Letters] : n \in 0..4}
             \cup {<<Tk("IF"), Num(1), Tk("THEN")>> \o g :
                     g \in {h \in [1..4 -> IfLetters] : ~EmptyElse(h)}}}
=============================================================================
