--------------------------- MODULE ScriptLanguage ---------------------------
(***************************************************************************)
(* A script from its text to its effects: the parser's loop over           *)
(* statements (c64-script-parser.c), the compiler (c64-script-bytecode.c)  *)
(* and the run of the virtual machine (c64-script-vm.c), against what the  *)
(* tree that was written means (ScriptReference).                          *)
(*                                                                         *)
(* A behaviour starts with a script whose tree is known, or with a         *)
(* sequence of tokens that need not be a script.                           *)
(***************************************************************************)
EXTENDS ScriptCompiler, ScriptReference, ScriptText

CONSTANTS
  Programs,         \* syntax trees
  Texts             \* sequences of tokens

VARIABLES
  written,          \* the tree the text was made from, or empty
  p,                \* the parser
  root,             \* the statements parsed so far
  phase,            \* "parsing", "rejected", "accepted"
  means             \* the meaning of the tree that was written

vars == <<written, p, root, phase, means, vmVars>>

------------------------------------------------------------------------------

Init ==
  /\ VMInit
  /\ root = <<>> /\ phase = "parsing"
  /\ \/ \E style \in Styles :
          /\ written \in Programs
          /\ p = ParserInit(Tokens(style, written))
          /\ means = Meaning(written)
     \/ /\ written = <<>>
        /\ p \in {ParserInit(ts) : ts \in Texts}
        /\ means = <<>>

Turn ==
  /\ phase = "parsing" /\ ~ParseEnded(p)
  /\ LET Becomes(t) == p' = t.p /\ root' = t.root
     IN  Becomes(ParseTurn(p, root))
  /\ UNCHANGED <<written, phase, means, vmVars>>

Reject ==
  /\ phase = "parsing" /\ ParseEnded(p)
  /\ p.any \/ Compile(root).err # ""
  /\ phase' = "rejected"
  /\ UNCHANGED <<written, p, root, means, vmVars>>

(* Only a script of known meaning is run: the others may never end. *)
Accept ==
  /\ phase = "parsing" /\ ParseEnded(p)
  /\ ~p.any /\ Compile(root).err = ""
  /\ phase' = "accepted"
  /\ IF written = <<>> THEN UNCHANGED vmVars
     ELSE LET StartOf(c) == VMStart(c.code, c.funcs) IN StartOf(Compile(root))
  /\ UNCHANGED <<written, p, root, means>>

Execute == Step /\ UNCHANGED <<written, p, root, phase, means>>

Next == Turn \/ Reject \/ Accept \/ Execute

(* The thread that runs the script is scheduled. *)
Spec == Init /\ [][Next]_vars /\ WF_vars(Execute)

------------------------------------------------------------------------------
(* Properties *)

Ended == status \notin {"idle", "running"}

(* The flags, positions and stacks stay in their domains; the machine      *)
(* never runs past the last instruction and no stack grows over its limit. *)
TypeOK ==
  /\ phase \in {"parsing", "rejected", "accepted"}
  /\ p.count \in 0..MaxErrors
  /\ status = "running" => ip \in 0..Len(code) - 1
  /\ Len(stack) <= MaxStack
  /\ Len(fors) <= MaxFor /\ Len(gosubs) <= MaxGosub /\ Len(scopes) <= MaxScopes

(* The parser makes of a script the tree the grammar says it is: operators *)
(* bind by their precedence and from the left, an ELSE belongs to its IF,  *)
(* every clause reaches the operand it names (c64-script-parser.c).        *)
ParsedAsWritten ==
  phase # "parsing" /\ written # <<>> => ~p.any /\ root = written

(* Whatever the parser accepts is a script of the grammar: its words are   *)
(* those the grammar writes for the tree, in their order (newlines, colons *)
(* and LET aside).                                                         *)
Written(tok) == IF tok.t = "ID" THEN Tk(tok.x) ELSE IF tok.t = "==" THEN Tk("=") ELSE tok
WordsOf(ts) ==
  LET kept == SelectSeq(ts, LAMBDA tok : tok.t \notin {"NL", ":", "LET"})
  IN  [i \in DOMAIN kept |-> Written(kept[i])]

AcceptedIsGrammatical ==
  phase = "accepted" /\ written = <<>> =>
    \E style \in Styles : WordsOf(p.ts) = WordsOf(Tokens(style, root))

(* A run does what the script says and nothing else, in that order: at     *)
(* every instruction the commands done are the first of those the script   *)
(* means, at the end they are all of them, and a run fails only where the  *)
(* script does (or the device does not answer).                            *)
OutputAsWritten ==
  /\ status # "idle" => IsPrefix(out, means.out)
  /\ status = "halted" => means.sig = "stop" /\ out = means.out
  /\ Ended /\ status \notin {"halted", "device"} => means.sig = "error" /\ out = means.out

(* It leaves every variable with the value the script gives it, those of   *)
(* a caller untouched by the function it calls.                            *)
VariablesAsWritten ==
  status = "halted" =>
    /\ DOMAIN globals = DOMAIN means.g
    /\ \A x \in DOMAIN means.g : globals[x] = means.g[x]

(* At the end of the script nothing is left on the operand stack, and the  *)
(* loops and subroutines still open are those the script left open.        *)
Balanced ==
  status = "halted" =>
    /\ Len(fors) = means.fors /\ Len(gosubs) = means.subs
    /\ code[ip].op = "HALT" => stack = <<>> /\ scopes = <<>>

(* A run is faithful to the script in what it does and in what it leaves   *)
(* behind (c64-script-bytecode.c, c64-script-vm-dispatch-*.c).             *)
RunsAsWritten == TypeOK /\ OutputAsWritten /\ VariablesAsWritten /\ Balanced

(* The parser comes to an end on every sequence of tokens: each turn       *)
(* consumes a token or counts an error (the loop of c64script_parse_with_options).     *)
TurnsAdvance ==
  phase = "parsing" /\ ~ParseEnded(p) =>
    LET Advances(q) == q.i > p.i \/ q.count > p.count
    IN  Advances(ParseTurn(p, root).p)

(* The parser ends, accepts only scripts and takes each for what it says   *)
(* (c64-script-parser.c).                                                  *)
ParsesAsWritten == ParsedAsWritten /\ AcceptedIsGrammatical /\ TurnsAdvance

(* A script that ends by its meaning is run to its end.                    *)
RunEnds == status = "running" ~> Ended
=============================================================================
