----------------------------- MODULE ScriptText -----------------------------
(***************************************************************************)
(* How a syntax tree is written as a script, by the grammar in             *)
(* doc/c64script/c64script-grammar.ebnf: its levels of precedence, its     *)
(* clauses and its alternatives.  Two styles exercise the alternatives:    *)
(* the long one writes LET, blocks and one spelling of each operator, the  *)
(* short one omits what may be omitted.  Nothing here comes from the       *)
(* parser but the names of tokens and nodes.                               *)
(***************************************************************************)
EXTENDS ScriptParser

Styles == {"long", "short"}

(* The levels of the grammar, from or_expr to primary. *)
BinaryLevel(op) ==
  CASE op = "OR" -> 1 [] op = "XOR" -> 2 [] op = "AND" -> 3
    [] op \in {"=", "<>", "<", "<=", ">", ">="} -> 5
    [] op \in {"+", "-"} -> 6
    [] op \in {"*", "/"} -> 7

Level(e) ==
  CASE e.k = "bin" -> BinaryLevel(e.op)
    [] e.k = "un" -> IF e.op = "NOT" THEN 4 ELSE 8
    [] OTHER -> 9

NameToken(x) == IF x \in {"PEEK", "LOG"} THEN Tk(x) ELSE Id(x)

Spelling(style, op) ==
  IF style = "short" THEN op ELSE IF op = "=" THEN "==" ELSE IF op = "<>" THEN "!=" ELSE op

Separated(parts) ==
  IF parts = <<>> THEN <<>>
  ELSE FoldLeft(LAMBDA acc, s : acc \o <<Tk(",")>> \o s, parts[1], Tail(parts))

RECURSIVE ExprText(_, _, _)

(* e where the grammar asks for a given level. *)
ExprText(style, e, level) ==
  LET list(es) == Separated([i \in DOMAIN es |-> ExprText(style, es[i], 1)])
      bare ==
        CASE e.k = "num" -> <<Num(e.n)>>
          [] e.k = "str" -> IF Len(e.s) = 1 /\ e.s[1] \in KeywordStrings THEN <<Tk(e.s[1])>>
                            ELSE <<Str(e.s)>>
          [] e.k = "var" -> <<NameToken(e.x)>>
          [] e.k = "map" -> <<Id(e.x), Tk("{")>> \o ExprText(style, e.key, 1) \o <<Tk("}")>>
          [] e.k = "arr" -> <<Id(e.x), Tk("(")>> \o ExprText(style, e.i, 1) \o <<Tk(")")>>
          [] e.k = "call" -> <<NameToken(e.x), Tk("(")>> \o list(e.args) \o <<Tk(")")>>
          [] e.k = "un" -> <<Tk(e.op)>> \o ExprText(style, e.e, IF e.op = "NOT" THEN 5 ELSE 9)
          [] e.k = "bin" ->
               LET n == BinaryLevel(e.op)
               IN  ExprText(style, e.l, IF n = 5 THEN 6 ELSE n)
                     \o <<Tk(Spelling(style, e.op))>> \o ExprText(style, e.r, n + 1)
  IN  IF Level(e) < level THEN <<Tk("(")>> \o bare \o <<Tk(")")>> ELSE bare

(* A label is a name, a number, or a keyword where it may be one. *)
LabelText(l) == IF l[1] = "line" THEN <<Num(l[2])>>
                ELSE IF l[2] = "START" THEN <<Tk("START")>> ELSE <<Id(l[2])>>

------------------------------------------------------------------------------
(* Commands: the words before the operands, the operands separated by      *)
(* commas, and the clauses with a word of their own.                       *)

Operands ==
  [EFFECT |-> <<"name">>, EFFECTPARAM |-> <<"name">>, PALETTE |-> <<"name">>,
   PALETTECOLOR |-> <<"index", "r", "g", "b">>,
   PLAYSID |-> <<"path">>, RUNPRG |-> <<"path">>, RUNLOCAL |-> <<"path">>, MOUNTDISK |-> <<"path">>,
   CFG |-> <<"category", "item", "value">>,
   DRIVE_MOUNT |-> <<"drive", "image", "type", "mode">>, DRIVE_ROM |-> <<"drive", "file">>,
   DRIVE_UNMOUNT |-> <<"drive">>, DRIVE_RESET |-> <<"drive">>, DRIVE_ON |-> <<"drive">>,
   DRIVE_OFF |-> <<"drive">>, DRIVE_MODE |-> <<"drive", "mode">>, DRIVE_BUS_ID |-> <<"drive", "id">>,
   LOAD |-> <<"file", "device">>, RUN |-> <<"file", "device">>, SYS |-> <<"address">>,
   SID_MODEL |-> <<"target", "model">>, SID_ENABLE |-> <<"target", "enabled">>,
   SID_VOL |-> <<"target", "level">>, SID_FILTER_CURVE |-> <<"target", "curve">>,
   SID_RESONANCE |-> <<"target", "resonance">>, SID_COMBINED |-> <<"target", "combined">>,
   SID_DIGIS |-> <<"target", "level">>, VIC_MODE |-> <<"mode">>, CPU_SPEED |-> <<"speed">>,
   SWITCH_DEVICE |-> <<"device">>, ASSERT |-> <<"actual", "expected">>,
   TYPE |-> <<"text">>, KEY |-> <<"key">>, HTTP |-> <<"url">>, LOGFILE |-> <<"path">>,
   READFILE |-> <<"path", "variable">>, WRITEFILE |-> <<"path", "content">>,
   LOG |-> <<"message">>, PRINT |-> <<"message">>, POKE |-> <<"address", "value">>,
   WAIT |-> <<"duration">>, WAIT_UNTIL |-> <<"time">>, WAIT_MEM |-> <<"address", "mask", "value">>]

ClausesOf ==
  [PLAYSID |-> <<<<"SONGNR", "song">>>>,
   RUNLOCAL |-> <<<<"ARGS", "args">>, <<"STATUS", "status">>, <<"OUTPUT", "output">>>>,
   ASSERT |-> <<<<"TOLERANCE", "tolerance">>>>,
   HTTP |-> <<<<"HEADERS", "headers">>, <<"BODY", "body">>, <<"STATUS", "status">>,
              <<"RESPONSE", "response">>>>,
   DISCOVER_DEVICES |-> <<<<"PROBE_PORT", "port">>>>,
   WAIT_MEM |-> <<<<"EVERY", "poll">>>>,
   OBS_SCREENSHOT |-> <<<<"PATH", "path">>>>]

(* Commands of several words, and the word that is an operand. *)
Words(node) ==
  CASE node.k = "OBS_SCREENSHOT" -> <<Tk("OBS"), Tk("SCREENSHOT"), Tk("TARGET"), Tk(node.target.s[1])>>
    [] node.k = "OBS_RECORDING_START" -> <<Tk("OBS"), Tk("RECORDING"), Tk("START")>>
    [] node.k = "OBS_RECORDING_STOP" -> <<Tk("OBS"), Tk("RECORDING"), Tk("STOP")>>
    [] node.k = "OBS_WAIT_FRAMES" -> <<Tk("OBS"), Tk("WAIT"), Tk("FRAMES")>>
    [] node.k = "ASSERT" -> <<Tk("ASSERT"), Tk("IMAGE_EQUALS")>>
    [] node.k = "HTTP" -> <<Tk("HTTP"), Tk(node.method.s[1])>>
    [] node.k = "WAIT_UNTIL" -> <<Tk("WAIT"), Tk("UNTIL")>>
    [] node.k = "WAIT_MEM" -> <<Tk("WAIT")>>
    [] OTHER -> <<Tk(node.k)>>

(* The unit of a duration, which the short style omits where it is the     *)
(* default; and how a file is opened.                                      *)
LastWord(style, node) ==
  CASE node.k = "WAIT" \/ (node.k = "WAIT_MEM" /\ "poll" \in DOMAIN node) ->
         IF style = "short" /\ node.unit = "S" THEN <<>> ELSE <<Id(node.unit)>>
    [] node.k \in {"LOGFILE", "WRITEFILE"} ->
         IF style = "short" /\ node.truncate = StrE(<<"APPEND">>) THEN <<>>
         ELSE <<Tk(node.truncate.s[1])>>
    [] OTHER -> <<>>

CommandText(style, node) ==
  LET given(r) == r \in DOMAIN node
      text(r)  == ExprText(style, node[r], 1)
      roles    == IF node.k \in DOMAIN Operands THEN SelectSeq(Operands[node.k], given) ELSE <<>>
      extra    == IF node.k \in DOMAIN ClausesOf
                  THEN SelectSeq(ClausesOf[node.k], LAMBDA c : given(c[2])) ELSE <<>>
  IN  Words(node)
        \o Separated([i \in DOMAIN roles |-> text(roles[i])])
        \o (IF node.k = "EFFECTPARAM" THEN text("value") ELSE <<>>)
        \o (IF node.k = "OBS_WAIT_FRAMES" THEN text("count") ELSE <<>>)
        \o (IF "values" \in DOMAIN node
            THEN <<Tk(","), Tk("[")>>
                   \o Separated([i \in DOMAIN node.values |-> ExprText(style, node.values[i], 1)])
                   \o <<Tk("]")>>
            ELSE <<>>)
        \o FoldLeft(LAMBDA acc, c : acc \o <<Tk(c[1])>> \o text(c[2]), <<>>, extra)
        \o LastWord(style, node)

------------------------------------------------------------------------------
(* Statements *)

NewLine == <<Tk("NL")>>

RECURSIVE StatementText(_, _), BlockText(_, _)

(* In the short style a label stands on the line of its statement. *)
BlockText(style, body) ==
  IF body = <<>> THEN <<>>
  ELSE LET s == body[1]
       IN  StatementText(style, s)
             \o (IF style = "short" /\ s.k = "LABEL" /\ Len(body) > 1 /\ body[2].k # "LABEL"
                 THEN <<>> ELSE NewLine)
             \o BlockText(style, Tail(body))

(* A statement that fits on the line of an IF. *)
Simple(s) == s.k \notin {"IF", "FOR", "WHILE", "FUN", "LABEL"}
OneLine(s) == Len(s.then) = 1 /\ Simple(s.then[1]) /\ Len(s.else) <= 1
                /\ (s.else # <<>> => Simple(s.else[1]))

StatementText(style, s) ==
  LET expr(e) == ExprText(style, e, 1)
      short == style = "short"
      let   == IF short THEN <<>> ELSE <<Tk("LET")>>
      else  == IF s.else = <<>> THEN <<>> ELSE <<Tk("ELSE")>> \o NewLine \o BlockText(style, s.else)
      names == Separated([i \in DOMAIN s.params |-> <<Id(s.params[i])>>])
  IN  CASE s.k = "REM" -> <<Tk("REM")>>
        [] s.k = "LABEL" -> IF short THEN LabelText(s.label) \o <<Tk(":")>>
                            ELSE <<Tk("LABEL")>> \o LabelText(s.label)
        [] s.k = "LET" -> let \o <<Id(s.x), Tk("=")>> \o expr(s.e)
        [] s.k = "SETARR" -> let \o <<Id(s.x), Tk("(")>> \o expr(s.i) \o <<Tk(")"), Tk("=")>>
                               \o expr(s.e)
        [] s.k = "SETMAP" -> let \o <<Id(s.x), Tk("{")>> \o expr(s.key) \o <<Tk("}"), Tk("=")>>
                               \o expr(s.e)
        [] s.k = "DIM" -> <<Tk("DIM"), Id(s.x), Tk("(")>> \o expr(s.size) \o <<Tk(")")>>
        [] s.k = "GOTO" -> <<Tk("GOTO")>> \o LabelText(s.label)
        [] s.k = "GOSUB" ->
             <<Tk("GOSUB")>> \o LabelText(s.label)
               \o (IF short /\ s.params = <<>> THEN <<>>
                   ELSE <<Tk("(")>> \o Separated([i \in DOMAIN s.params |-> expr(s.params[i])])
                          \o <<Tk(")")>>)
        [] s.k = "RETURN" -> <<Tk("RETURN")>> \o (IF s.e = Nil THEN <<>> ELSE expr(s.e))
        [] s.k = "STOP" -> <<Tk(IF short THEN "END" ELSE "STOP")>>
        [] s.k = "IF" ->
             <<Tk("IF")>> \o expr(s.c) \o <<Tk("THEN")>>
               \o (IF short /\ OneLine(s)
                   THEN StatementText(style, s.then[1])
                          \o (IF s.else = <<>> THEN <<>>
                              ELSE <<Tk("ELSE")>> \o StatementText(style, s.else[1]))
                   ELSE NewLine \o BlockText(style, s.then) \o else \o <<Tk("ENDIF")>>)
        [] s.k = "FOR" ->
             <<Tk("FOR"), Id(s.x), Tk("=")>> \o expr(s.from) \o <<Tk("TO")>> \o expr(s.to)
               \o (IF short /\ s.step = NumE(1) THEN <<>> ELSE <<Tk("STEP")>> \o expr(s.step))
               \o NewLine \o BlockText(style, s.body) \o <<Tk("NEXT")>>
               \o (IF short THEN <<>> ELSE <<Id(s.x)>>)
        [] s.k = "WHILE" ->
             <<Tk("WHILE")>> \o expr(s.c) \o NewLine \o BlockText(style, s.body)
               \o (IF short THEN <<Tk("WEND")>> ELSE <<Tk("END"), Tk("WHILE")>>)
        [] s.k = "FUN" ->
             <<Tk("FUN"), Id(s.x)>>
               \o (IF short /\ s.params = <<>> THEN <<>> ELSE <<Tk("(")>> \o names \o <<Tk(")")>>)
               \o NewLine \o BlockText(style, s.body)
               \o (IF short THEN <<Tk("ENDFUN")>> ELSE <<Tk("END"), Tk("FUN")>>)
        [] OTHER -> CommandText(style, s)

Tokens(style, root) == BlockText(style, root)
=============================================================================
