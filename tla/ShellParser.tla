----------------------------- MODULE ShellParser -----------------------------
(***************************************************************************)
(* How the shell turns what it reads into command lines                    *)
(* (sems/4week/myshell/src/parser.c and the loop of main.c).  read()       *)
(* returns the script in chunks cut anywhere; parser_feed appends each to  *)
(* a buffer, and parser_pop_next is called until it finds no more line.    *)
(* One action per token.                                                   *)
(*                                                                         *)
(* The parser looks at one character past the live part of its buffer      *)
(* when spaces end it: a stale one, or whatever the heap holds.            *)
(***************************************************************************)
EXTENDS Integers, Sequences, FiniteSetsExt

CONSTANTS
  Texts,      \* the scripts: sequences of Chars
  ReadSize    \* buf_size

Chars == {"a", " ", "|", "n", "r"}   \* any letter, ..., '\n' and '\r'
Unknown == "?"                       \* memory nobody has written

ASSUME TextsAssumption == Texts \subseteq Seq(Chars)
ASSUME ReadSizeAssumption == ReadSize \in Nat \ {0}

VARIABLES
  text, fed,     \* the script, less what commands have read of it, and how much
                 \* of it the shell has read
  mem, size,     \* buffer, all its capacity of it, and how much is live
  pos, line,     \* locals of parser_pop_next: a line is a sequence of commands,
                 \* each a sequence of words, or none: a pipe
  popped,        \* the lines it has returned
  mode           \* which loop the shell is in

parserVars == <<text, fed, mem, size, pos, line, popped, mode>>

Pipe == <<>>

ParserInit ==
  /\ text \in Texts /\ fed = 0
  /\ mem = <<>> /\ size = 0 /\ pos = 0 /\ line = <<>> /\ popped = <<>>
  /\ mode = "read"

PopNext == pos' = 0 /\ line' = <<>> /\ mode' = "parse"

-----------------------------------------------------------------------------
(* The buffer.                                                             *)

\* realloc when the k new characters do not fit.
NewCapacity(k) ==
  IF Len(mem) - size < k THEN Max({2 * (Len(mem) + 1), size + k}) ELSE Len(mem)

\* read(), parser_feed
Feed ==
  /\ mode = "read"
  /\ \E k \in 1 .. Min({ReadSize, Len(text) - fed}) :
       /\ mem' = [i \in 1 .. NewCapacity(k) |->
            CASE size < i /\ i <= size + k -> text[fed + i - size]
              [] i <= Len(mem) /\ (i <= size \/ i > size + k) -> mem[i]
              [] OTHER -> Unknown]
       /\ size' = size + k /\ fed' = fed + k
  /\ PopNext /\ UNCHANGED <<text, popped>>

EndOfInput ==
  /\ mode = "read" /\ fed = Len(text) /\ mode' = "done"
  /\ UNCHANGED <<text, fed, mem, size, pos, line, popped>>

Mutant_parser_consume(n) ==
  /\ n <= size
  /\ size' = size - n /\ UNCHANGED mem

\* memmove: what was behind the live part, and its own tail, stay behind it.
parser_consume(n) ==
  /\ n <= size
  /\ mem' = [i \in DOMAIN mem |-> IF i <= size - n THEN mem[i + n] ELSE mem[i]]
  /\ size' = size - n

-----------------------------------------------------------------------------
(* parse_token                                                             *)

\* The first place at or after i with a character of S, or the end.
First(S, i) == Min({j \in i .. size - 1 : mem[j + 1] \in S} \cup {size})

Start   == First(Chars \ {" "}, pos)
WordEnd == First({" ", "n", "r"}, Start)

\* What *pos may be once spaces are skipped.
Seen == IF Start < Len(mem) /\ mem[Start + 1] # Unknown THEN {mem[Start + 1]} ELSE Chars

Mutant_AtNewLine(next) == Seen \cap {"n", "r"} # {} /\ next = Start + 2

AtNewLine(next) == \E c \in Seen \cap {"n", "r"} : next = Start + (IF c = "r" THEN 2 ELSE 1)
AtPipe(next)    == "|" \in Seen /\ next = Start + 1
AtWord(next)    == Seen \subseteq {"a"} /\ WordEnd < size /\ next = WordEnd
NoToken         == WordEnd = size /\ Seen \cap {"a", " "} # {}
Nexts           == pos + 1 .. size + 2

-----------------------------------------------------------------------------
(* parser_pop_next                                                         *)

EndsInCommand == line # <<>> /\ line[Len(line)] # Pipe

Word(next) ==
  /\ mode = "parse" /\ AtWord(next) /\ pos' = next
  /\ LET word == SubSeq(mem, Start + 1, next)
     IN  line' = IF EndsInCommand
                   THEN [line EXCEPT ![Len(line)] = Append(@, word)]
                   ELSE Append(line, <<word>>)
  /\ UNCHANGED <<text, fed, mem, size, popped, mode>>

PipeToken(next) ==
  /\ mode = "parse" /\ AtPipe(next) /\ pos' = next
  /\ IF EndsInCommand THEN line' = Append(line, Pipe) /\ UNCHANGED mode
                      ELSE mode' = "skip" /\ UNCHANGED line
  /\ UNCHANGED <<text, fed, mem, size, popped>>

\* Before the first word a new line is skipped; at the end of the buffer that
\* leaves the loop, and assert(line->tail != NULL) fails.
BlankLine(next) ==
  /\ mode = "parse" /\ AtNewLine(next) /\ line = <<>> /\ pos' = next
  /\ mode' = IF next < size THEN mode ELSE "crashed"
  /\ UNCHANGED <<text, fed, mem, size, line, popped>>

EndOfLine(next) ==
  /\ mode = "parse" /\ AtNewLine(next) /\ line # <<>>
  /\ parser_consume(next)
  /\ IF EndsInCommand
       THEN /\ popped' = Append(popped, line) /\ mode' = "execute"
            /\ UNCHANGED <<pos, line>>
       ELSE PopNext /\ UNCHANGED popped
  /\ UNCHANGED <<text, fed>>

\* return_error: on to the next line, if it is there.
SkipToken(next) ==
  /\ mode = "skip" /\ (AtWord(next) \/ AtPipe(next)) /\ pos' = next
  /\ UNCHANGED <<text, fed, mem, size, line, popped, mode>>

SkipLine(next) ==
  /\ mode = "skip" /\ AtNewLine(next)
  /\ parser_consume(next) /\ PopNext
  /\ UNCHANGED <<text, fed, popped>>

\* The new line parse_token saw lies past the end: assert(p->size >= size).
ConsumeFails(next) ==
  /\ AtNewLine(next) /\ next > size
  /\ mode = "skip" \/ (mode = "parse" /\ line # <<>>)
  /\ mode' = "crashed"
  /\ UNCHANGED <<text, fed, mem, size, pos, line, popped>>

\* No line: everything stays in the buffer until more is read.
NoLine ==
  /\ mode \in {"parse", "skip"} /\ (pos >= size \/ NoToken) /\ mode' = "read"
  /\ UNCHANGED <<text, fed, mem, size, pos, line, popped>>

parser_pop_next ==
  \/ NoLine
  \/ /\ pos < size
     /\ \E next \in Nexts :
          \/ Word(next) \/ PipeToken(next) \/ BlankLine(next) \/ EndOfLine(next)
          \/ SkipToken(next) \/ SkipLine(next) \/ ConsumeFails(next)

Parser == Feed \/ EndOfInput \/ parser_pop_next
=============================================================================
