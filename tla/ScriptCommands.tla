--------------------------- MODULE ScriptCommands ---------------------------
(***************************************************************************)
(* The commands of C64Script between the compiler and the virtual machine: *)
(* for every command, what the compiler pushes before the instruction      *)
(* (script/vm/c64-script-bytecode.c) and what the instruction pops, in     *)
(* which order, and of which type (script/vm/c64-script-vm-dispatch-*.c).  *)
(* The two tables come from different files and meet only on the operand   *)
(* stack.                                                                  *)
(*                                                                         *)
(* A role is the name of an operand in the syntax tree.  Values are        *)
(* numbers and strings, a string being the sequence of its characters;     *)
(* a keyword is a string of one element.                                   *)
(***************************************************************************)
EXTENDS Naturals, Sequences, SequencesExt

NumV(n) == [t |-> "num", n |-> n]
StrV(s) == [t |-> "str", s |-> s]

Zero  == NumV(0)
Empty == StrV(<<>>)

------------------------------------------------------------------------------
(* What the compiler pushes *)

(* The expression of a role; a constant when the role is absent; only when *)
(* present; the name of a variable; a name or the empty string.            *)
Push(r)        == [do |-> "expr", r |-> r]
PushOr(r, v)   == [do |-> "or", r |-> r, v |-> v]
PushIf(r)      == [do |-> "if", r |-> r]
PushName(r)    == [do |-> "name", r |-> r]
PushNameOr(r)  == [do |-> "nameor", r |-> r]

WaitPushes ==
  [WAIT       |-> <<Push("duration")>>,
   WAIT_MEM   |-> <<Push("address"), Push("mask"), PushIf("value"), PushIf("poll")>>,
   WAIT_UNTIL |-> <<Push("time")>>]

PluginPushes ==
  [OBS_SCREENSHOT      |-> <<Push("path")>>,
   OBS_RECORDING_START |-> <<>>, OBS_RECORDING_STOP |-> <<>>,
   OBS_WAIT_FRAMES     |-> <<Push("count")>>,
   ASSERT       |-> <<Push("actual"), Push("expected"), PushOr("tolerance", Zero)>>,
   EFFECT       |-> <<Push("name")>>,
   EFFECTPARAM  |-> <<Push("name"), Push("value")>>,
   PALETTE      |-> <<Push("name")>>,
   SWITCH_DEVICE    |-> <<Push("device")>>,
   DISCOVER_DEVICES |-> <<PushIf("port")>>,
   PALETTECOLOR |-> <<Push("index"), Push("r"), Push("g"), Push("b")>>,
   PLAYSID      |-> <<Push("path"), PushOr("song", Zero)>>,
   RUNPRG       |-> <<Push("path")>>]

ConfigPushes ==
  LET targeted(r) == <<Push("target"), Push(r)>>
  IN  [RUNLOCAL  |-> <<Push("path"), PushOr("args", Empty), PushNameOr("status"),
                       PushNameOr("output")>>,
       MOUNTDISK |-> <<Push("path")>>,
       CFG       |-> <<Push("category"), Push("item"), Push("value")>>,
       CFGSAVE   |-> <<>>, CFGLOAD |-> <<>>, CFGRESET |-> <<>>,
       SID_MODEL        |-> targeted("model"),
       SID_ENABLE       |-> targeted("enabled"),
       SID_VOL          |-> targeted("level"),
       SID_FILTER_CURVE |-> targeted("curve"),
       SID_RESONANCE    |-> targeted("resonance"),
       SID_COMBINED     |-> targeted("combined")]

DrivePushes ==
  [SID_DIGIS     |-> <<Push("target"), Push("level")>>,
   VIC_MODE      |-> <<Push("mode")>>,
   CPU_SPEED     |-> <<Push("speed")>>,
   DRIVE_MOUNT   |-> <<PushOr("drive", Empty), Push("image"), PushOr("type", Empty),
                       PushOr("mode", Empty)>>,
   DRIVE_UNMOUNT |-> <<Push("drive")>>, DRIVE_RESET |-> <<Push("drive")>>,
   DRIVE_ON      |-> <<Push("drive")>>, DRIVE_OFF   |-> <<Push("drive")>>,
   DRIVE_ROM     |-> <<PushOr("drive", Empty), Push("file")>>]

ProgramPushes ==
  [DRIVE_MODE   |-> <<Push("drive"), Push("mode")>>,
   DRIVE_BUS_ID |-> <<Push("drive"), Push("id")>>,
   LOAD      |-> <<Push("file"), PushIf("device")>>,
   RUN       |-> <<PushIf("file"), PushIf("device")>>,
   SYS       |-> <<Push("address")>>,
   AUTOSTART |-> <<>>, RESET |-> <<>>, REBOOT |-> <<>>, PAUSE |-> <<>>, RESUME |-> <<>>,
   POWEROFF  |-> <<>>,
   TYPE      |-> <<Push("text")>>,
   KEY       |-> <<Push("key")>>,
   LOGFILE   |-> <<Push("path")>>,
   LOG       |-> <<Push("message")>>,
   PRINT     |-> <<Push("message")>>,
   TRON      |-> <<>>, TROFF |-> <<>>]

FilePushes ==
  [READFILE  |-> <<Push("path"), PushName("variable")>>,
   WRITEFILE |-> <<Push("path"), Push("content")>>,
   HTTP      |-> <<PushNameOr("response"), PushNameOr("status"), PushOr("body", Empty),
                   PushOr("headers", Empty), Push("url")>>]

(* A POKE of a list pushes the values one by one; an empty list leaves the *)
(* compiler without a value.                                               *)
PokePushes(node) ==
  IF "values" \in DOMAIN node /\ node.values # <<>>
  THEN <<Push("address"), [do |-> "each", r |-> "values"]>>
  ELSE <<Push("address"), Push("value")>>

Pushes(node) ==
  LET tables == <<WaitPushes, PluginPushes, ConfigPushes, DrivePushes, ProgramPushes, FilePushes>>
      i == CHOOSE i \in DOMAIN tables : node.k \in DOMAIN tables[i]
  IN  IF node.k = "POKE" THEN PokePushes(node) ELSE tables[i][node.k]

(* The opcode and its operand. *)
Given(node, r) == r \in DOMAIN node

Opcode(node) ==
  CASE node.k = "POKE" /\ Given(node, "values") /\ node.values # <<>> -> "POKE_ARRAY"
    [] OTHER -> node.k

Operand(node) ==
  CASE node.k = "WAIT"     -> node.unit
    [] node.k = "WAIT_MEM" -> [value |-> Given(node, "value"), poll |-> Given(node, "poll"),
                               unit |-> IF Given(node, "unit") THEN node.unit ELSE "S"]
    [] node.k \in {"OBS_SCREENSHOT", "HTTP"} ->
         IF node.k = "HTTP" THEN node.method ELSE node.target
    [] node.k = "DISCOVER_DEVICES" -> Given(node, "port")
    [] node.k = "LOAD" -> Given(node, "device")
    [] node.k = "RUN"  -> [file |-> Given(node, "file"), device |-> Given(node, "device")]
    [] node.k = "POKE" -> IF Given(node, "values") THEN Len(node.values) ELSE 0
    [] node.k \in {"LOGFILE", "WRITEFILE"} -> node.truncate
    [] OTHER -> 0

------------------------------------------------------------------------------
(* What the instruction pops, first to last, and the type it requires *)

(* A string; a number; a number of a range; either. *)
S(r) == [r |-> r, t |-> {"str"}]
N(r) == [r |-> r, t |-> {"num"}]
NumIn(r, range) == [r |-> r, t |-> {"num"}, range |-> range]
A(r) == [r |-> r, t |-> {"str", "num"}]

Byte  == 0..255
Word  == 0..65535
(* Durations in a unit that fit in 2^32 - 1 milliseconds (2^31 - 1 when   *)
(* they are milliseconds: the width of TLC's integers).                    *)
Durations(least, unit) ==
  least..(CASE unit = "MS" -> 2147483647 [] unit = "S" -> 4294967 [] unit = "M" -> 71582
            [] unit = "H" -> 1193 [] unit = "D" -> 49)

WaitPops(unit) == <<NumIn("duration", Durations(0, unit))>>

CorePops ==
  [WAIT_UNTIL |-> <<A("time")>>,
   LOG        |-> <<A("message")>>,
   PRINT      |-> <<A("message")>>,
   LOGFILE    |-> <<S("path")>>,
   TRON |-> <<>>, TROFF |-> <<>>]

WaitMemPops(a) ==
  (IF a.poll THEN <<NumIn("poll", Durations(1, a.unit))>> ELSE <<>>)
    \o (IF a.value THEN <<NumIn("value", Byte)>> ELSE <<>>)
    \o <<NumIn("mask", Byte), NumIn("address", Word)>>

EffectPops ==
  [EFFECT       |-> <<S("name")>>,
   EFFECTPARAM  |-> <<N("value"), S("name")>>,
   PALETTE      |-> <<S("name")>>,
   PALETTECOLOR |-> <<NumIn("b", Byte), NumIn("g", Byte), NumIn("r", Byte), NumIn("index", 0..15)>>]

RunnerPops ==
  [PLAYSID   |-> <<N("song"), S("path")>>,
   RUNPRG    |-> <<S("path")>>,
   MOUNTDISK |-> <<S("path")>>,
   RESET |-> <<>>, REBOOT |-> <<>>, PAUSE |-> <<>>, RESUME |-> <<>>, POWEROFF |-> <<>>]

DiscoverPops(a) == IF a THEN <<NumIn("port", Word)>> ELSE <<>>

SourcePops ==
  [SWITCH_DEVICE       |-> <<S("device")>>,
   OBS_RECORDING_START |-> <<>>, OBS_RECORDING_STOP |-> <<>>,
   OBS_SCREENSHOT      |-> <<S("path")>>,
   OBS_WAIT_FRAMES     |-> <<NumIn("count", Nat)>>]

(* Mutant of CfgPops: category and item in the order of the text. *)
CfgPopsInOrder ==
  [CFG     |-> <<S("value"), S("category"), S("item")>>,
   CFGSAVE |-> <<>>, CFGLOAD |-> <<>>, CFGRESET |-> <<>>,
   CFG_GET |-> <<S("category"), S("item")>>]

CfgPops ==
  [CFG     |-> <<S("value"), S("item"), S("category")>>,
   CFGSAVE |-> <<>>, CFGLOAD |-> <<>>, CFGRESET |-> <<>>,
   CFG_GET |-> <<S("item"), S("category")>>]

CfgListPops ==
  [CFG_ITEM    |-> <<S("array"), S("path")>>,
   CFG_OPTIONS |-> <<S("array"), S("item"), S("category")>>]

SidPops ==
  [SID_MODEL        |-> <<S("model"), S("target")>>,
   SID_ENABLE       |-> <<N("enabled"), S("target")>>,
   SID_VOL          |-> <<S("level"), S("target")>>,
   SID_FILTER_CURVE |-> <<S("curve"), S("target")>>,
   SID_RESONANCE    |-> <<S("resonance"), S("target")>>]

VicPops ==
  [SID_COMBINED |-> <<S("combined"), S("target")>>,
   SID_DIGIS    |-> <<S("level"), S("target")>>,
   VIC_MODE     |-> <<S("mode")>>,
   CPU_SPEED    |-> <<S("speed")>>]

MountPops ==
  [DRIVE_GET   |-> <<S("property"), S("drive")>>,
   DRIVE_MOUNT |-> <<S("mode"), S("type"), S("image"), S("drive")>>]

DrivePops ==
  [DRIVE_UNMOUNT |-> <<S("drive")>>, DRIVE_RESET |-> <<S("drive")>>,
   DRIVE_ON      |-> <<S("drive")>>, DRIVE_OFF   |-> <<S("drive")>>]

DriveRomPops ==
  [DRIVE_ROM    |-> <<S("file"), S("drive")>>,
   DRIVE_MODE   |-> <<S("mode"), S("drive")>>,
   DRIVE_BUS_ID |-> <<N("id"), S("drive")>>,
   SYS          |-> <<NumIn("address", Word)>>]

LoadPops(a) == (IF a THEN <<N("device")>> ELSE <<>>) \o <<S("file")>>

RunPops(a) ==
  (IF a.device THEN <<N("device")>> ELSE <<>>) \o (IF a.file THEN <<S("file")>> ELSE <<>>)

KeyboardPops == [AUTOSTART |-> <<>>, TYPE |-> <<S("text")>>, KEY |-> <<A("key")>>]

MemoryPops == [PEEK |-> <<NumIn("address", Word)>>, POKE |-> <<N("value"), NumIn("address", Word)>>]

(* At most three values in the scripts here. *)
PokeRole(i) == <<"value1", "value2", "value3">>[i]

PokeArrayPops(n) == [i \in 1..n |-> N(PokeRole(n + 1 - i))] \o <<NumIn("address", Word)>>

AssertPops == <<N("tolerance"), S("expected"), S("actual")>>

RunLocalPops == <<S("output"), S("status"), S("args"), S("path")>>

FilePops == [READFILE |-> <<S("variable"), S("path")>>, WRITEFILE |-> <<A("content"), S("path")>>]

(* Headers are a string or a map, the body a string or a number. *)
HttpPops == <<S("url"), [r |-> "headers", t |-> {"str", "map"}], A("body"), S("status"),
              S("response")>>

Pops(op, a) ==
  LET tables == <<CorePops, EffectPops, RunnerPops, SourcePops, CfgPops, CfgListPops,
                  SidPops, VicPops, MountPops, DrivePops, DriveRomPops, KeyboardPops,
                  MemoryPops, FilePops>>
      i == CHOOSE i \in DOMAIN tables : op \in DOMAIN tables[i]
  IN  CASE op = "WAIT" -> WaitPops(a)
        [] op = "WAIT_MEM" -> WaitMemPops(a)
        [] op = "DISCOVER_DEVICES" -> DiscoverPops(a)
        [] op = "LOAD" -> LoadPops(a)
        [] op = "RUN" -> RunPops(a)
        [] op = "POKE_ARRAY" -> PokeArrayPops(a)
        [] op = "ASSERT" -> AssertPops
        [] op = "RUNLOCAL" -> RunLocalPops
        [] op = "HTTP" -> HttpPops
        [] OTHER -> tables[i][op]
==============================================================================
