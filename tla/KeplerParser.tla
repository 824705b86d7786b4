---------------------------- MODULE KeplerParser ----------------------------
(***************************************************************************)
(* class Parser (src/parser.cpp): the tokens of a line become commands     *)
(* with arguments and options.  parseCommand_, parseValue_ and parseList_  *)
(* call each other; what their frames hold is here the command being built *)
(* and the lists that are open in it.  Each action is the handling of one  *)
(* token, or of the end of a list.                                         *)
(***************************************************************************)
EXTENDS KeplerLexer

CONSTANTS
  mapToCmd,    (* the command a word names, in any spelling the lexer      *)
               (* makes equal by raising letters                           *)
  YesWords, NoWords,   (* the options parseCommand_ knows, likewise        *)
  TooLarge     (* the literals std::stoi and std::stof refuse as too large *)

VARIABLES
  tt,          (* Parser::tt_                                              *)
  nodes,       (* Parser::nodes                                            *)
  command,     (* the command parseCommand_ is building                    *)
  lists        (* the elements so far of each list parseList_ is building, *)
               (* the innermost last                                       *)

(* A CommandSP that is null.                                               *)
NullCommand == <<>>

parser == <<tt, nodes, command, lists>>

Tok == tokens[tt]

(* The lexer drops the backslashes from a command, the dashes from an      *)
(* option.                                                                 *)
NotBackslash(c) == c # BACKSLASH
Word(t) == SelectSeq(Text(t), NotBackslash)
OptionWord(t) == SubSeq(line, t.first + 2, t.last)

(* What std::stoi and std::stof make a number of.                          *)
Converts(t) == Text(t) \notin TooLarge /\ \E p \in t.first .. t.last : line[p] \in Digits

(* What cannot be parsed: the exceptions of parse, parseCommand_,          *)
(* parseValue_ and parseList_.                                             *)
SyntaxError ==
  /\ tt <= Len(tokens)
  /\ \/ command = NullCommand /\ tt = 1 /\ Tok.type # "COMMAND"
     \/ command = NullCommand /\ Tok.type = "COMMAND" /\ Word(Tok) \notin DOMAIN mapToCmd
     \/ command # NullCommand /\ Tok.type \in {"COMMAND", "UNKNOWN"}
     \/ command # NullCommand /\ Tok.type = "NUMBER" /\ ~Converts(Tok)
     \/ lists # <<>> /\ Tok.type = "OPTION"

(* Mutant: the commands of the last line are kept.                         *)
StartParseKeeps == tt' = 1 /\ command' = NullCommand /\ lists' = <<>> /\ UNCHANGED nodes

(* The start of parse.                                                     *)
StartParse == tt' = 1 /\ nodes' = <<>> /\ command' = NullCommand /\ lists' = <<>>

ParseDone == command = NullCommand /\ tt > Len(tokens)

Next1 == tt' = tt + 1

(* The loop of parse: what is not part of a command is skipped, a whole    *)
(* statement too when it does not begin with one.                          *)
SkipToken ==
  /\ command = NullCommand /\ tt <= Len(tokens) /\ Tok.type # "COMMAND" /\ tt # 1
  /\ Next1 /\ UNCHANGED <<nodes, command, lists>>

StartCommand ==
  /\ command = NullCommand /\ tt <= Len(tokens) /\ Tok.type = "COMMAND"
  /\ Word(Tok) \in DOMAIN mapToCmd
  /\ command' = [type |-> mapToCmd[Word(Tok)], at |-> tt, args |-> <<>>, opts |-> {}]
  /\ Next1 /\ UNCHANGED <<nodes, lists>>

(* The loop of parseCommand_.                                              *)
InCommand(types) == command # NullCommand /\ tt <= Len(tokens) /\ Tok.type \in types

EndCommand ==
  /\ InCommand({"END"}) /\ lists = <<>>
  /\ nodes' = Append(nodes, command) /\ command' = NullCommand
  /\ UNCHANGED <<tt, lists>>

(* Mutant: a delimiter is not consumed.                                    *)
IgnoreStays ==
  /\ InCommand(IF lists = <<>> THEN {"LIST_END", "DELIMITER"} ELSE {"DELIMITER"})
  /\ UNCHANGED parser

Ignore ==
  /\ InCommand(IF lists = <<>> THEN {"LIST_END", "DELIMITER"} ELSE {"DELIMITER"})
  /\ Next1 /\ UNCHANGED <<nodes, command, lists>>

SetOption ==
  /\ InCommand({"OPTION"}) /\ lists = <<>>
  /\ command' = [command EXCEPT !.opts =
       @ \cup (IF OptionWord(Tok) \in YesWords THEN {"YES"} ELSE {})
         \cup (IF OptionWord(Tok) \in NoWords THEN {"NO"} ELSE {})]
  /\ Next1 /\ UNCHANGED <<nodes, lists>>

(* addArg or addNode: v goes to the innermost of the lists open, or to the *)
(* command when there is none.                                             *)
Add(open, v) ==
  IF open = <<>>
    THEN command' = [command EXCEPT !.args = Append(@, v)] /\ lists' = <<>>
    ELSE lists' = [open EXCEPT ![Len(open)] = Append(@, v)] /\ UNCHANGED command

AddLeaf ==
  /\ InCommand({"IDENTIFIER", "STRING", "NUMBER"})
  /\ Tok.type = "NUMBER" => Converts(Tok)
  /\ Add(lists, Tok)
  /\ Next1 /\ UNCHANGED nodes

OpenList ==
  /\ InCommand({"LIST_START"})
  /\ lists' = Append(lists, <<>>)
  /\ Next1 /\ UNCHANGED <<nodes, command>>

Outer(s) == SubSeq(s, 1, Len(s) - 1)
List(items) == [type |-> "LIST", items |-> items]

(* Mutant: a list that the end of the statement closes is dropped.         *)
CloseListDrops ==
  /\ InCommand({"LIST_END", "END"}) /\ lists # <<>>
  /\ IF Tok.type = "END" THEN lists' = Outer(lists) /\ UNCHANGED command
     ELSE Add(Outer(lists), List(lists[Len(lists)]))
  /\ UNCHANGED <<tt, nodes>>

(* Mutant: a list within a list becomes an argument of the command.        *)
CloseListFlat ==
  /\ InCommand({"LIST_END", "END"}) /\ lists # <<>>
  /\ command' = [command EXCEPT !.args = Append(@, List(lists[Len(lists)]))]
  /\ lists' = Outer(lists)
  /\ UNCHANGED <<tt, nodes>>

(* parseList_ returns at a closing bracket, or at the end of the statement,*)
(* and leaves it where it is: the list around it returns there as well.    *)
CloseList ==
  /\ InCommand({"LIST_END", "END"}) /\ lists # <<>>
  /\ Add(Outer(lists), List(lists[Len(lists)]))
  /\ UNCHANGED <<tt, nodes>>

ParseToken ==
  \/ SkipToken \/ StartCommand \/ EndCommand \/ Ignore \/ SetOption
  \/ AddLeaf \/ OpenList \/ CloseList

=============================================================================
