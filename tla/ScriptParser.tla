---------------------------- MODULE ScriptParser ----------------------------
(***************************************************************************)
(* The parser of C64Script: a Pratt parser for expressions and a recursive *)
(* descent over statements (script/frontend/c64-script-parser.c).  The     *)
(* tokenizer is abstracted to the sequence of tokens it returns.  A token  *)
(* is a record whose field t is its type; keywords and punctuation are     *)
(* their own type.                                                         *)
(*                                                                         *)
(* A parser state p is the C struct: the token just consumed, the current  *)
(* one, the position of the next, and the error flags.  A parse function   *)
(* returns [p |-> new state, v |-> node], the node being Nil (an empty     *)
(* sequence for statements) where the C function returns NULL.             *)
(*                                                                         *)
(* The commands are tables: the sequence of clauses their functions read,  *)
(* run by Clauses.                                                         *)
(***************************************************************************)
EXTENDS Naturals, Sequences, SequencesExt

CONSTANT MaxErrors            \* 50: errors after which the parser gives up

ASSUME MaxErrorsAssumption == MaxErrors \in Nat \ {0}

------------------------------------------------------------------------------
(* Tokens and nodes *)

Tk(t)  == [t |-> t]
Id(x)  == [t |-> "ID", x |-> x]
Num(n) == [t |-> "NUM", n |-> n]
Str(s) == [t |-> "STR", s |-> s]

Nil      == [k |-> "nil"]
NumE(n)  == [k |-> "num", n |-> n]
StrE(s)  == [k |-> "str", s |-> s]
VarE(x)  == [k |-> "var", x |-> x]

(* The keywords that stand for a string in an expression. *)
Drives      == {"DRIVE_A", "DRIVE_B", "DRIVE_SOFTIEC"}
DrivesAB    == {"DRIVE_A", "DRIVE_B"}
DriveModes  == {"MODE_1541", "MODE_1571", "MODE_1581"}
ImageTypes  == {"TYPE_D64", "TYPE_G64", "TYPE_D71", "TYPE_G71", "TYPE_D81"}
MountModes  == {"MODE_READWRITE", "MODE_READONLY", "MODE_UNLINKED"}
DriveProps  == {"PROP_ENABLED", "PROP_BUS_ID", "PROP_TYPE", "PROP_ROM",
                "PROP_IMAGE_FILE", "PROP_IMAGE_PATH"}
SidSockets  == {"SOCKET1", "SOCKET2"}
SidUltis    == {"ULTI1", "ULTI2"}

KeywordStrings == Drives \cup DriveModes \cup ImageTypes \cup MountModes
                    \cup DriveProps \cup SidSockets \cup SidUltis

Punctuation == {"(", ")", "[", "]", "{", "}", ",", ":", "=", "==", "<>", "!=",
                "<", "<=", ">", ">=", "+", "-", "*", "/"}

(* A keyword can be a label when a label is expected: its text starts with *)
(* a letter.                                                               *)
CanBeBareLabel(tok) ==
  tok.t \notin Punctuation \cup {"NUM", "STR", "DURATION", "NL", "EOF", "ERROR"}

------------------------------------------------------------------------------
(* Errors and the token window *)

ErrorAt(p) ==
  IF p.panic \/ p.count >= MaxErrors THEN p
  ELSE [p EXCEPT !.panic = TRUE, !.had = TRUE, !.any = TRUE, !.count = @ + 1]

TokenAt(p, i) == IF i <= Len(p.ts) THEN p.ts[i] ELSE Tk("EOF")

(* A token the tokenizer rejects is reported and skipped. *)
RECURSIVE Fetch(_)
Fetch(p) ==
  LET q == [p EXCEPT !.cur = TokenAt(p, p.i), !.i = @ + 1]
  IN  IF q.cur.t = "ERROR" THEN Fetch(ErrorAt(q)) ELSE q

Advance(p) == Fetch([p EXCEPT !.prev = p.cur])

ParserInit(ts) ==
  Advance([ts |-> ts, i |-> 1, prev |-> Tk("EOF"), cur |-> Tk("EOF"),
           panic |-> FALSE, had |-> FALSE, any |-> FALSE, count |-> 0])

Check(p, t) == p.cur.t = t

Match(p, t) == IF Check(p, t) THEN Advance(p) ELSE p

Consume(p, t) == IF Check(p, t) THEN Advance(p) ELSE ErrorAt(p)

(* After an error: skip to the next line or to a keyword that starts a     *)
(* statement.                                                              *)
SyncTokens == {"IF", "FOR", "WHILE", "GOTO", "GOSUB", "RETURN", "LET", "STOP", "END"}

RECURSIVE SkipToStatement(_)
SkipToStatement(p) ==
  IF \/ Check(p, "EOF")
     \/ p.prev.t = "NL"
     \/ p.cur.t \in SyncTokens
     \/ p.count >= MaxErrors
  THEN p
  ELSE SkipToStatement(Advance(p))

Synchronize(p) == SkipToStatement([p EXCEPT !.panic = FALSE])

------------------------------------------------------------------------------
(* Expressions *)

(* Mutant of Precedence: comparisons bind like sums. *)
PrecedenceFlat(t) ==
  CASE t = "OR" -> 1
    [] t = "XOR" -> 2
    [] t = "AND" -> 3
    [] t \in {"=", "==", "<>", "!=", "<", "<=", ">", ">=", "+", "-"} -> 6
    [] t \in {"*", "/"} -> 7
    [] t = "(" -> 9
    [] OTHER -> 0

(* Precedence of the token as an infix operator; 0 ends the expression. *)
Precedence(t) ==
  CASE t = "OR" -> 1
    [] t = "XOR" -> 2
    [] t = "AND" -> 3
    [] t \in {"=", "==", "<>", "!="} -> 4
    [] t \in {"<", "<=", ">", ">="} -> 5
    [] t \in {"+", "-"} -> 6
    [] t \in {"*", "/"} -> 7
    [] t = "(" -> 9
    [] OTHER -> 0
UnaryPrecedence  == 8
LowestPrecedence == 1

(* The operator of a token: the aliases are one operator. *)
Operator(t) == IF t = "==" THEN "=" ELSE IF t = "!=" THEN "<>" ELSE t

(* The scan that tells an array assignment from a call looks at the tokens *)
(* after the current one, whose own parenthesis it does not count.         *)
RECURSIVE AssignmentAhead(_, _, _)
AssignmentAhead(p, i, depth) ==
  LET t == TokenAt(p, i).t
      d == IF t = "(" THEN depth + 1 ELSE IF t = ")" THEN depth - 1 ELSE depth
  IN  IF t = "EOF" THEN FALSE
      ELSE IF d = 0 THEN TokenAt(p, i + 1).t = "="
      ELSE AssignmentAhead(p, i + 1, d)

(* The functions of the parser that call one another are cases of one      *)
(* recursion, Parse.                                                       *)
RECURSIVE Parse(_, _, _)
ParsePrecedence(p, prec)   == Parse("precedence", p, prec)
Expression(p)              == Parse("precedence", p, LowestPrecedence)
Infix(p, left, prec)       == Parse("infix", p, [left |-> left, prec |-> prec])
ExpressionList(p)          == Parse("list", p, <<>>)
AnyClauses(p, node, roles) == Parse("any", p, [node |-> node, roles |-> roles])
Clauses(p, node, steps)    == Parse("clauses", p, [node |-> node, steps |-> steps])
Statement(p)               == Parse("statement", p, <<>>)
Block(p, construct)        == Parse("block", p, construct)

(* expression { "," expression } *)
ParseList(p) ==
  LET e == Expression(p)
  IN  IF Check(e.p, ",")
      THEN LET rest == ExpressionList(Advance(e.p))
           IN  [p |-> rest.p, v |-> <<e.v>> \o rest.v]
      ELSE [p |-> e.p, v |-> <<e.v>>]

(* The arguments of a call, the opening parenthesis being consumed. *)
Arguments(p) ==
  LET args == IF Check(p, ")") THEN [p |-> p, v |-> <<>>] ELSE ExpressionList(p)
  IN  [p |-> Consume(args.p, ")"), v |-> args.v]

Unless(r, node) == [p |-> r, v |-> IF r.panic THEN Nil ELSE node]

(* A name that was just consumed: an array element, a call, a map entry or *)
(* a variable.                                                             *)
Variable(p, canAssign) ==
  LET x == IF p.prev.t = "ID" THEN p.prev.x ELSE p.prev.t
      a == Advance(p)
  IN  IF Check(p, "(") THEN
        IF canAssign /\ AssignmentAhead(a, a.i, 1)
        THEN LET e == Expression(a)
             IN  Unless(Consume(e.p, ")"), [k |-> "arr", x |-> x, i |-> e.v])
        ELSE LET args == Arguments(a)
             IN  Unless(args.p, [k |-> "call", x |-> x, args |-> args.v])
      ELSE IF Check(p, "{") THEN
        LET e == Expression(a)
        IN  Unless(Consume(e.p, "}"), [k |-> "map", x |-> x, key |-> e.v])
      ELSE [p |-> p, v |-> VarE(x)]

Prefix(p) ==
  LET t == p.prev.t
  IN  CASE t = "(" -> LET e == Expression(p) IN [p |-> Consume(e.p, ")"), v |-> e.v]
        [] t \in {"-", "NOT"} ->
             LET e == ParsePrecedence(p, UnaryPrecedence)
             IN  [p |-> e.p, v |-> [k |-> "un", op |-> t, e |-> e.v]]
        [] t \in {"NUM", "DURATION"} -> [p |-> p, v |-> NumE(p.prev.n)]
        [] t = "STR" -> [p |-> p, v |-> StrE(p.prev.s)]
        [] t \in {"ID", "PEEK", "LOG"} -> Variable(p, FALSE)
        [] t \in KeywordStrings -> [p |-> p, v |-> StrE(<<t>>)]
        [] OTHER -> [p |-> ErrorAt(p), v |-> Nil]

(* The infix operators that bind at least as tightly as prec. *)
ParseInfix(p, left, prec) ==
  LET a == Advance(p)
      t == p.cur.t
  IN  IF Precedence(t) < prec THEN [p |-> p, v |-> left]
      ELSE IF t = "(" THEN
        IF left.k # "var" THEN [p |-> ErrorAt(a), v |-> Nil]
        ELSE LET args == Arguments(a)
             IN  IF args.p.panic THEN [p |-> args.p, v |-> Nil]
                 ELSE Infix(args.p, [k |-> "call", x |-> left.x, args |-> args.v], prec)
      ELSE LET right == ParsePrecedence(a, Precedence(t) + 1)
           IN  IF right.v = Nil THEN [p |-> right.p, v |-> Nil]
               ELSE Infix(right.p, [k |-> "bin", op |-> Operator(t), l |-> left, r |-> right.v],
                          prec)

ParseOperand(p, prec) ==
  LET left == Prefix(Advance(p))
  IN  IF left.v = Nil THEN left ELSE Infix(left.p, left.v, prec)

------------------------------------------------------------------------------
(* Clauses of commands *)

(* What a command's function reads, in order: an expression; one keyword   *)
(* of a set, mandatory or not; a mandatory token; a clause whose keyword   *)
(* must not be followed by "="; clauses behind an optional token; clauses  *)
(* read only when a field is present; clauses in any order, the last of    *)
(* each kind being kept; a flag.                                           *)
Ex(as)           == [do |-> "expr", as |-> as]
Kw(as, set)      == [do |-> "keyword", as |-> as, set |-> set]
OptKw(as, set)   == [do |-> "optkeyword", as |-> as, set |-> set]
Need(t)          == [do |-> "need", t |-> t]
NoEquals         == [do |-> "noequals"]
Opt(t, steps)    == [do |-> "opt", t |-> t, steps |-> steps]
When(as, steps)  == [do |-> "when", as |-> as, steps |-> steps]
AnyOrder(roles)  == [do |-> "anyorder", roles |-> roles]
Flag(as, on, off) == [do |-> "flag", as |-> as, on |-> on, off |-> off]

With(node, as, v) == [f \in DOMAIN node \cup {as} |-> IF f = as THEN v ELSE node[f]]
Field(node, as)   == IF as \in DOMAIN node THEN node[as] ELSE Nil

ParseAny(p, node, roles) ==
  IF p.cur.t \in DOMAIN roles
  THEN LET e == Expression(Advance(p))
       IN  AnyClauses(e.p, With(node, roles[p.cur.t], e.v), roles)
  ELSE [p |-> p, v |-> node]

ParseClauses(p, node, steps) ==
  IF steps = <<>> THEN [p |-> p, v |-> node]
  ELSE
    LET s    == steps[1]
        rest == Tail(steps)
        fail == [p |-> ErrorAt(p), v |-> Nil]
        word == Clauses(Advance(p), With(node, s.as, StrE(<<p.cur.t>>)), rest)
    IN CASE s.do = "expr" ->
              LET e == Expression(p) IN Clauses(e.p, With(node, s.as, e.v), rest)
         [] s.do = "keyword" -> IF p.cur.t \in s.set THEN word ELSE fail
         [] s.do = "optkeyword" -> IF p.cur.t \in s.set THEN word ELSE Clauses(p, node, rest)
         [] s.do = "need" -> IF Check(p, s.t) THEN Clauses(Advance(p), node, rest) ELSE fail
         [] s.do = "noequals" ->
              IF Check(p, "=") THEN [p |-> ErrorAt(Advance(p)), v |-> Nil]
              ELSE Clauses(p, node, rest)
         [] s.do = "opt" ->
              IF Check(p, s.t) THEN Clauses(Advance(p), node, s.steps \o rest)
              ELSE Clauses(p, node, rest)
         [] s.do = "when" ->
              Clauses(p, node, IF Field(node, s.as) = Nil THEN rest ELSE s.steps \o rest)
         [] s.do = "anyorder" ->
              LET a == AnyClauses(p, node, s.roles) IN Clauses(a.p, a.v, rest)
         [] s.do = "flag" ->
              Clauses(IF p.cur.t \in {s.on, s.off} THEN Advance(p) ELSE p,
                      With(node, s.as, StrE(<<IF Check(p, s.on) THEN s.on ELSE s.off>>)), rest)

------------------------------------------------------------------------------
(* The commands' grammars *)

PluginGrammar ==
  [EFFECT       |-> <<Ex("name")>>,
   EFFECTPARAM  |-> <<Ex("name"), Ex("value")>>,
   PALETTE      |-> <<Ex("name")>>,
   PALETTECOLOR |-> <<Ex("index"), Need(","), Ex("r"), Need(","), Ex("g"), Need(","), Ex("b")>>,
   PLAYSID      |-> <<Ex("path"), Opt("SONGNR", <<NoEquals, Ex("song")>>)>>]

ObsScreenshot ==
  <<Need("TARGET"), NoEquals, Kw("target", {"SOURCE", "PREVIEW"}), Need("PATH"), NoEquals,
    Ex("path")>>

Obs(p) ==
  LET a == Advance(p)
  IN  CASE Check(p, "SCREENSHOT") -> Clauses(a, [k |-> "OBS_SCREENSHOT"], ObsScreenshot)
        [] Check(p, "RECORDING") ->
             IF a.cur.t \in {"START", "STOP"}
             THEN [p |-> Advance(a),
                   v |-> [k |-> IF Check(a, "START") THEN "OBS_RECORDING_START"
                                                     ELSE "OBS_RECORDING_STOP"]]
             ELSE [p |-> ErrorAt(a), v |-> Nil]
        [] Check(p, "WAIT") ->
             Clauses(a, [k |-> "OBS_WAIT_FRAMES"], <<Need("FRAMES"), NoEquals, Ex("count")>>)
        [] OTHER -> [p |-> ErrorAt(p), v |-> Nil]

RunnerGrammar ==
  [ASSERT    |-> <<Need("IMAGE_EQUALS"), Ex("actual"), Need(","), Ex("expected"),
                   Opt("TOLERANCE", <<NoEquals, Ex("tolerance")>>)>>,
   RUNPRG    |-> <<Ex("path")>>,
   RUNLOCAL  |-> <<Ex("path"),
                   AnyOrder([ARGS |-> "args", STATUS |-> "status", OUTPUT |-> "output"])>>,
   MOUNTDISK |-> <<Ex("path")>>]

ConfigGrammar ==
  [CFG      |-> <<Ex("category"), Need(","), Ex("item"), Need(","), Ex("value")>>,
   CFGSAVE  |-> <<>>, CFGLOAD |-> <<>>, CFGRESET |-> <<>>,
   PAUSE    |-> <<>>, RESUME  |-> <<>>, POWEROFF |-> <<>>]

Targeted(targets, role) == <<Kw("target", targets), Need(","), Ex(role)>>

SidGrammar ==
  [SID_MODEL        |-> Targeted(SidSockets \cup SidUltis, "model"),
   SID_ENABLE       |-> Targeted(SidSockets, "enabled"),
   SID_VOL          |-> Targeted(SidSockets \cup SidUltis, "level"),
   SID_FILTER_CURVE |-> Targeted(SidUltis, "curve"),
   SID_RESONANCE    |-> Targeted(SidUltis, "resonance")]

MachineGrammar ==
  [SID_COMBINED |-> Targeted(SidUltis, "combined"),
   SID_DIGIS    |-> Targeted(SidUltis, "level"),
   VIC_MODE     |-> <<Ex("mode")>>,
   CPU_SPEED    |-> <<Ex("speed")>>]

OneDrive == <<Kw("drive", Drives)>>

DriveGrammar ==
  [DRIVE_MOUNT   |-> <<OptKw("drive", Drives), When("drive", <<Need(",")>>), Ex("image"),
                       Opt(",", <<Kw("type", ImageTypes), Opt(",", <<Kw("mode", MountModes)>>)>>)>>,
   DRIVE_UNMOUNT |-> OneDrive, DRIVE_RESET |-> OneDrive,
   DRIVE_ON      |-> OneDrive, DRIVE_OFF   |-> OneDrive]

DriveAGrammar ==
  [DRIVE_ROM    |-> <<OptKw("drive", DrivesAB), When("drive", <<Need(",")>>), Ex("file")>>,
   DRIVE_MODE   |-> <<Kw("drive", DrivesAB), Need(","), Kw("mode", DriveModes)>>,
   DRIVE_BUS_ID |-> <<Kw("drive", DrivesAB), Need(","), Ex("id")>>]

(* RUN reads a file name unless the line ends. *)
Run(p) ==
  IF p.cur.t \in {"EOF", "NL"} THEN [p |-> p, v |-> [k |-> "RUN"]]
  ELSE Clauses(p, [k |-> "RUN"], <<Ex("file"), Opt(",", <<Ex("device")>>)>>)

ProgramGrammar ==
  [LOAD      |-> <<Ex("file"), Opt(",", <<Ex("device")>>)>>,
   SYS       |-> <<Ex("address")>>,
   AUTOSTART |-> <<>>,
   SWITCH_DEVICE    |-> <<Ex("device")>>,
   DISCOVER_DEVICES |-> <<Opt("PROBE_PORT", <<NoEquals, Ex("port")>>)>>,
   RESET |-> <<>>, REBOOT |-> <<>>,
   TYPE  |-> <<Ex("text")>>,
   KEY   |-> <<Ex("key")>>]

(* POKE address, value or POKE address, [value, ...] *)
Poke(p) ==
  LET addr == Expression(p)
      a    == Advance(addr.p)
      b    == Advance(a)
      list == IF Check(b, "]") THEN [p |-> b, v |-> <<>>] ELSE ExpressionList(b)
      one  == Expression(a)
  IN  IF ~Check(addr.p, ",") THEN [p |-> ErrorAt(addr.p), v |-> Nil]
      ELSE IF Check(a, "[")
      THEN [p |-> Consume(list.p, "]"),
            v |-> [k |-> "POKE", address |-> addr.v, values |-> list.v]]
      ELSE [p |-> one.p, v |-> [k |-> "POKE", address |-> addr.v, value |-> one.v]]

FileGrammar ==
  [LOGFILE   |-> <<Ex("path"), Flag("truncate", "TRUNCATE", "APPEND")>>,
   LOG       |-> <<Ex("message")>>,
   PRINT     |-> <<Ex("message")>>,
   TRON      |-> <<>>, TROFF |-> <<>>,
   READFILE  |-> <<Ex("path"), Need(","), Ex("variable")>>,
   WRITEFILE |-> <<Ex("path"), Need(","), Ex("content"), Flag("truncate", "TRUNCATE", "APPEND")>>]

HttpGrammar ==
  <<Kw("method", {"GET", "POST", "PUT", "DELETE", "PATCH"}), Ex("url"),
    AnyOrder([HEADERS |-> "headers", BODY |-> "body", STATUS |-> "status",
              RESPONSE |-> "response"])>>

(* A duration is a literal in milliseconds or a number with a unit; the    *)
(* unit is seconds when it is left out.                                    *)
Units == {"MS", "S", "M", "H", "D"}

Duration(p) ==
  LET e == Expression(p)
      named == Check(e.p, "ID") /\ e.p.cur.x \in Units
  IN  IF Check(p, "DURATION") THEN [p |-> Advance(p), v |-> NumE(p.cur.n), unit |-> "MS"]
      ELSE [p |-> IF named THEN Advance(e.p) ELSE e.p, v |-> e.v,
            unit |-> IF named THEN e.p.cur.x ELSE "S"]

Wait(p) ==
  LET d == Duration(p)
      mem == Clauses(d.p, [k |-> "WAIT_MEM", address |-> d.v],
                     <<Need(","), Ex("mask"), Opt(",", <<Ex("value")>>)>>)
      poll == Duration(Advance(mem.p))
  IN  IF Check(p, "UNTIL") THEN Clauses(Advance(p), [k |-> "WAIT_UNTIL"], <<Ex("time")>>)
      ELSE IF ~Check(d.p, ",") THEN
        [p |-> d.p, v |-> [k |-> "WAIT", duration |-> d.v, unit |-> d.unit]]
      ELSE IF ~Check(mem.p, "EVERY") THEN mem
      ELSE [p |-> poll.p, v |-> With(With(mem.v, "poll", poll.v), "unit", poll.unit)]

------------------------------------------------------------------------------
(* Statements: v is the sequence of nodes, a label and the statement after *)
(* it on its line being two.                                               *)

Grammar(t) ==
  LET tables == <<PluginGrammar, RunnerGrammar, ConfigGrammar, SidGrammar, MachineGrammar,
                  DriveGrammar, DriveAGrammar, ProgramGrammar, FileGrammar>>
      i == CHOOSE i \in DOMAIN tables : t \in DOMAIN tables[i]
  IN  tables[i][t]

Commands ==
  UNION {DOMAIN PluginGrammar, DOMAIN RunnerGrammar, DOMAIN ConfigGrammar, DOMAIN SidGrammar,
         DOMAIN MachineGrammar, DOMAIN DriveGrammar, DOMAIN DriveAGrammar,
         DOMAIN ProgramGrammar, DOMAIN FileGrammar}

Node(r) == [p |-> r.p, v |-> IF r.v = Nil THEN <<>> ELSE <<r.v>>]
Fail(p) == [p |-> ErrorAt(p), v |-> <<>>]

(* The label a token names: numbers are labels by their value. *)
LabelOf(tok) ==
  IF tok.t = "NUM" THEN <<"line", tok.n>> ELSE <<"name", IF tok.t = "ID" THEN tok.x ELSE tok.t>>

LabelRef(p) ==
  IF p.cur.t \in {"ID", "NUM"} \/ CanBeBareLabel(p.cur)
  THEN [p |-> Advance(p), v |-> LabelOf(p.cur)]
  ELSE [p |-> ErrorAt(p), v |-> <<"none">>]

Assignment(p, target) ==
  LET e == Expression(Consume(p, "="))
  IN  CASE target.k = "var" -> [p |-> e.p, v |-> <<[k |-> "LET", x |-> target.x, e |-> e.v]>>]
        [] target.k = "arr" ->
             [p |-> e.p, v |-> <<[k |-> "SETARR", x |-> target.x, i |-> target.i, e |-> e.v]>>]
        [] target.k = "map" ->
             [p |-> e.p, v |-> <<[k |-> "SETMAP", x |-> target.x, key |-> target.key, e |-> e.v]>>]
        [] OTHER -> Fail(p)

Gosub(p) ==
  LET l == LabelRef(p)
      args == IF Check(Advance(l.p), ")") THEN [p |-> Advance(l.p), v |-> <<>>]
              ELSE ExpressionList(Advance(l.p))
      node(ps) == <<[k |-> "GOSUB", label |-> l.v, params |-> ps]>>
  IN  IF ~Check(l.p, "(") THEN [p |-> l.p, v |-> node(<<>>)]
      ELSE IF Check(args.p, ")") THEN [p |-> Advance(args.p), v |-> node(args.v)]
      ELSE Fail(args.p)

(* The value is left out only at the end of the line. *)
Return(p) ==
  IF p.cur.t \in {"EOF", "NL"} THEN [p |-> p, v |-> <<[k |-> "RETURN", e |-> Nil]>>]
  ELSE LET e == Expression(p) IN [p |-> e.p, v |-> <<[k |-> "RETURN", e |-> e.v]>>]

Dim(p) ==
  LET a == Advance(p)
      s == Expression(Advance(a))
  IN  IF ~Check(p, "ID") THEN Fail(p)
      ELSE IF ~Check(a, "(") THEN Fail(a)
      ELSE IF ~Check(s.p, ")") \/ s.p.panic THEN Fail(s.p)
      ELSE [p |-> Advance(s.p), v |-> <<[k |-> "DIM", x |-> p.cur.x, size |-> s.v]>>]

RECURSIVE SkipNewlines(_)
SkipNewlines(p) == IF Check(p, "NL") THEN SkipNewlines(Advance(p)) ELSE p

(* The tokens that end the block of a construct. *)
EndOf(p, construct) ==
  \/ Check(p, "EOF")
  \/ construct = "THEN"  /\ p.cur.t \in {"ELSE", "ENDIF"}
  \/ construct = "ELSE"  /\ Check(p, "ENDIF")
  \/ construct = "FOR"   /\ Check(p, "NEXT")
  \/ construct = "WHILE" /\ (\/ p.cur.t \in {"WEND", "ENDWHILE"}
                             \/ Check(p, "END") /\ TokenAt(p, p.i).t = "WHILE")
  \/ construct = "FUN"   /\ (\/ Check(p, "ENDFUN")
                             \/ Check(p, "END") /\ TokenAt(p, p.i).t = "FUN")

ParseBlock(p, construct) ==
  LET s == Statement(p)
      rest == Block(SkipNewlines(s.p), construct)
  IN  IF EndOf(p, construct) THEN [p |-> p, v |-> <<>>]
      ELSE IF s.p.had THEN s
      ELSE [p |-> rest.p, v |-> s.v \o rest.v]

(* Mutant of If: a block may end without ENDIF. *)
IfWithoutEnd(p) ==
  LET c    == Expression(p)
      a    == Advance(c.p)
      then == Block(Advance(a), "THEN")
      else == IF Check(then.p, "ELSE")
              THEN Block(Match(Advance(then.p), "NL"), "ELSE")
              ELSE [p |-> then.p, v |-> <<>>]
      one  == Statement(a)
      other == IF Check(one.p, "ELSE") THEN Statement(Advance(one.p)) ELSE [p |-> one.p, v |-> <<>>]
      node(t, e) == <<[k |-> "IF", c |-> c.v, then |-> t, else |-> e]>>
  IN  IF ~Check(c.p, "THEN") THEN Fail(c.p)
      ELSE IF ~Check(a, "NL") THEN [p |-> other.p, v |-> node(one.v, other.v)]
      ELSE IF then.p.had THEN [then EXCEPT !.v = <<>>]
      ELSE IF else.p.had THEN [else EXCEPT !.v = <<>>]
      ELSE [p |-> Match(else.p, "ENDIF"), v |-> node(then.v, else.v)]

If(p) ==
  LET c     == Expression(p)
      a     == Advance(c.p)                          \* past THEN
      then  == Block(Advance(a), "THEN")
      else  == IF Check(then.p, "ELSE")
               THEN Block(Match(Advance(then.p), "NL"), "ELSE")
               ELSE [p |-> then.p, v |-> <<>>]
      then1 == Statement(a)
      else1 == IF Check(then1.p, "ELSE") THEN Statement(Advance(then1.p))
               ELSE [p |-> then1.p, v |-> <<>>]
      node(t, e) == <<[k |-> "IF", c |-> c.v, then |-> t, else |-> e]>>
  IN  IF ~Check(c.p, "THEN") THEN Fail(c.p)
      ELSE IF ~Check(a, "NL") THEN [p |-> else1.p, v |-> node(then1.v, else1.v)]
      ELSE IF then.p.had THEN [then EXCEPT !.v = <<>>]
      ELSE IF else.p.had THEN [else EXCEPT !.v = <<>>]
      ELSE IF Check(else.p, "ENDIF") THEN [p |-> Advance(else.p), v |-> node(then.v, else.v)]
      ELSE Fail(else.p)

For(p) ==
  LET a    == Advance(p)                             \* past the variable
      from == Expression(Advance(a))
      to   == Expression(Advance(from.p))
      step == IF Check(to.p, "STEP") THEN Expression(Advance(to.p))
              ELSE [p |-> to.p, v |-> NumE(1)]
      body == Block(Match(step.p, "NL"), "FOR")
      node == <<[k |-> "FOR", x |-> p.cur.x, from |-> from.v, to |-> to.v, step |-> step.v,
                 body |-> body.v]>>
  IN  IF ~Check(p, "ID") THEN Fail(p)
      ELSE IF ~Check(a, "=") THEN Fail(a)
      ELSE IF ~Check(from.p, "TO") THEN Fail(from.p)
      ELSE IF body.p.had THEN [body EXCEPT !.v = <<>>]
      ELSE IF ~Check(body.p, "NEXT") THEN Fail(body.p)
      ELSE [p |-> Match(Advance(body.p), "ID"), v |-> node]

While(p) ==
  LET c    == Expression(p)
      body == Block(Match(c.p, "NL"), "WHILE")
      node == <<[k |-> "WHILE", c |-> c.v, body |-> body.v]>>
  IN  IF body.p.had THEN [body EXCEPT !.v = <<>>]
      ELSE IF body.p.cur.t \in {"WEND", "ENDWHILE"} THEN [p |-> Advance(body.p), v |-> node]
      ELSE IF Check(body.p, "END") THEN [p |-> Consume(Advance(body.p), "WHILE"), v |-> node]
      ELSE Fail(body.p)

(* Parameters of a function: names separated by commas. *)
RECURSIVE Names(_)
Names(p) ==
  LET rest == Names(Advance(Advance(p)))
  IN  IF ~Check(p, "ID") THEN [p |-> ErrorAt(p), v |-> <<>>]
      ELSE IF Check(Advance(p), ",") THEN [p |-> rest.p, v |-> <<p.cur.x>> \o rest.v]
      ELSE [p |-> Advance(p), v |-> <<p.cur.x>>]

(* A list of parameters, which may be empty or left out. *)
Parameters(p) ==
  LET a     == Advance(p)
      Closed(names) == [p |-> Consume(names.p, ")"), v |-> names.v]
  IN  IF ~Check(p, "(") THEN [p |-> p, v |-> <<>>]
      ELSE Closed(IF Check(a, ")") THEN [p |-> a, v |-> <<>>] ELSE Names(a))

FunctionDef(p) ==
  LET Rest(params, body) ==
        IF params.p.panic THEN [params EXCEPT !.v = <<>>]
        ELSE IF ~Check(params.p, "NL") THEN Fail(params.p)
        ELSE IF body.p.had THEN [body EXCEPT !.v = <<>>]
        ELSE LET node == <<[k |-> "FUN", x |-> p.cur.x, params |-> params.v, body |-> body.v]>>
             IN  IF Check(body.p, "ENDFUN") THEN [p |-> Advance(body.p), v |-> node]
                 ELSE IF Check(body.p, "END") THEN [p |-> Consume(Advance(body.p), "FUN"), v |-> node]
                 ELSE Fail(body.p)
      Body(params) == Rest(params, Block(SkipNewlines(params.p), "FUN"))
  IN  IF ~Check(p, "ID") THEN Fail(p) ELSE Body(Parameters(Advance(p)))

(* A label is recognised only after the newline this call skipped itself,  *)
(* or at the start of the script.                                          *)
IsLabel(p) ==
  \/ Check(p, "NUM")
  \/ Check(p, "START")
  \/ Check(p, "ID") /\ TokenAt(p, p.i).t \notin {"=", "(", "{"}

Labelled(p) ==
  LET a == Match(Advance(p), ":")
      s == IF a.cur.t \in {"NL", "EOF"} THEN [p |-> a, v |-> <<>>] ELSE Statement(a)
  IN  [p |-> s.p, v |-> <<[k |-> "LABEL", label |-> LabelOf(p.cur)]>> \o s.v]

(* LET and the assignment without it; without "=" the identifier becomes   *)
(* current again, though the tokenizer has read on.                        *)
AssignmentOrError(p) ==
  LET target == Variable(Advance(p), TRUE)
      back   == [target.p EXCEPT !.cur = p.cur, !.prev = p.prev]
  IN  IF target.v # Nil /\ Check(target.p, "=") THEN Assignment(target.p, target.v)
      ELSE Fail(back)

LetStatement(p) ==
  LET target == Variable(Advance(p), TRUE)
  IN  IF ~Check(p, "ID") THEN Fail(p)
      ELSE IF target.v = Nil \/ ~Check(target.p, "=") THEN Fail(target.p)
      ELSE Assignment(target.p, target.v)

Keyword(p) ==
  LET t == p.cur.t
      a == Advance(p)
      l == LabelRef(a)
  IN  CASE t = "LABEL" -> [p |-> l.p, v |-> <<[k |-> "LABEL", label |-> l.v]>>]
        [] t = "LET" -> LetStatement(a)
        [] t = "REM" -> [p |-> a, v |-> <<[k |-> "REM"]>>]
        [] t = "DIM" -> Dim(a)
        [] t = "FUN" -> FunctionDef(a)
        [] t = "GOTO" -> [p |-> l.p, v |-> <<[k |-> "GOTO", label |-> l.v]>>]
        [] t = "GOSUB" -> Gosub(a)
        [] t = "RETURN" -> Return(a)
        [] t \in {"STOP", "END"} -> [p |-> a, v |-> <<[k |-> "STOP"]>>]
        [] t = "IF" -> If(a)
        [] t = "FOR" -> For(a)
        [] t = "WHILE" -> While(a)
        [] t = "WAIT" -> Node(Wait(a))
        [] t = "OBS" -> Node(Obs(a))
        [] t = "RUN" -> Node(Run(a))
        [] t = "POKE" -> Node(Poke(a))
        [] t = "HTTP" -> Node(Clauses(a, [k |-> "HTTP"], HttpGrammar))
        [] t \in Commands -> Node(Clauses(a, [k |-> t], Grammar(t)))
        [] OTHER -> Fail(p)

ParseStatement(p0) ==
  LET p == SkipNewlines(p0)
      atLineStart == Check(p0, "NL") \/ p.prev.t = "EOF"
  IN  IF Check(p, "EOF") THEN [p |-> p, v |-> <<>>]
      ELSE IF Check(p, "ID") /\ p.cur.x \in {"CALL_HTTP", "CALLHTTP"}
        THEN Node(Clauses(Advance(p), [k |-> "HTTP"], HttpGrammar))
      ELSE IF atLineStart /\ IsLabel(p) THEN Labelled(p)
      ELSE IF Check(p, "ID") THEN AssignmentOrError(p)
      ELSE Keyword(p)

Parse(what, p, x) ==
  CASE what = "precedence" -> ParseOperand(p, x)
    [] what = "infix"      -> ParseInfix(p, x.left, x.prec)
    [] what = "list"       -> ParseList(p)
    [] what = "any"        -> ParseAny(p, x.node, x.roles)
    [] what = "clauses"    -> ParseClauses(p, x.node, x.steps)
    [] what = "statement"  -> ParseStatement(p)
    [] what = "block"      -> ParseBlock(p, x)

(* One turn of the loop over the script's statements. *)
ParseTurn(p, root) ==
  LET After(s) == [p    |-> IF s.p.had
                            THEN [Synchronize(s.p) EXCEPT !.had = FALSE, !.panic = FALSE]
                            ELSE s.p,
                   root |-> root \o s.v]
  IN  After(Statement(p))

(* Mutant of ParseEnded: the number of errors does not end the loop. *)
ParseEndedAtEof(p) == Check(p, "EOF")

ParseEnded(p) == Check(p, "EOF") \/ p.count >= MaxErrors
==============================================================================
