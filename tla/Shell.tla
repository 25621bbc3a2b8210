-------------------------------- MODULE Shell --------------------------------
(***************************************************************************)
(* The shell of shell.c: shell_readline edits a line, echoes it on the     *)
(* console and enters it in the history; shell_parse_command cuts the line *)
(* into arguments, in place in parse_buffer, one step per argument;        *)
(* shell_execute_command runs the command.  Text is a sequence of          *)
(* characters; the prompt and what commands print are shortened.           *)
(***************************************************************************)
EXTENDS Terminal, Strings

CONSTANTS
    SHELL_BUFFER_SIZE, SHELL_MAX_ARGS, SHELL_HISTORY_SIZE,
    Printable,         \* characters of codes 32 to 126 somebody types
    Ignored,           \* other characters the keyboard gives
    Commands,          \* shell_commands: each entry's name and what it does
    MaxKeys            \* bound: keys typed

QUOTE == "quote"

ASSUME ShellAssumption ==
    /\ SHELL_BUFFER_SIZE \in Nat \ {0} /\ SHELL_MAX_ARGS \in Nat \ {0}
    /\ SHELL_HISTORY_SIZE \in Nat \ {0} /\ MaxKeys \in Nat
    /\ Commands \in Seq([name : Seq(Printable) \ {<<>>}, does : STRING])
    /\ {NEWLINE, BACKSPACE, NUL} \cap (Printable \cup Ignored) = {}

VARIABLES
    pc,                \* "prompt", "read", "start", "parse", "execute" or "halt"
    term,              \* the console
    shell_buffer,      \* the line up to its NUL
    shell_history,     \* the first history_count entries
    parse_buffer, p, argv,   \* shell_parse_command: argv holds positions
    entered,           \* the lines entered since shell_init, empty ones not
    keys               \* keys typed so far

parser == <<parse_buffer, p, argv>>
vars == <<pc, term, shell_buffer, shell_history, parser, entered, keys>>

Init ==
    /\ pc = "prompt" /\ term = terminal_initialize
    /\ shell_buffer = <<>> /\ shell_history = <<>>
    /\ parse_buffer = <<NUL>> /\ p = 1 /\ argv = <<>>
    /\ entered = <<>> /\ keys = 0

-----------------------------------------------------------------------------
(* shell_readline. *)
PROMPT == <<NEWLINE, "#", NEWLINE, "$", BLANK>>

shell_show_prompt ==
    /\ pc = "prompt" /\ pc' = "read"
    /\ shell_buffer' = <<>>
    /\ term' = terminal_writestring(term, PROMPT)
    /\ UNCHANGED <<shell_history, parser, entered, keys>>

(* Mutant: a full history takes nothing more. *)
shell_add_to_history_NoShift(history, line) ==
    IF \/ strlen(line) = 0 \/ Len(history) >= SHELL_HISTORY_SIZE
       \/ history # <<>> /\ strcmp(Last(history), line)
    THEN history ELSE Append(history, line)
shell_add_to_history(history, line) ==
    IF strlen(line) = 0 \/ (history # <<>> /\ strcmp(Last(history), line)) THEN history
    ELSE IF Len(history) >= SHELL_HISTORY_SIZE THEN Append(Tail(history), line)
    ELSE Append(history, line)

Enter ==
    /\ term' = terminal_putchar(term, NEWLINE)
    /\ shell_history' = shell_add_to_history(shell_history, shell_buffer)
    /\ entered' = IF shell_buffer = <<>> THEN entered ELSE Append(entered, shell_buffer)
    /\ pc' = "start"
    /\ UNCHANGED shell_buffer

Backspace ==
    /\ \/ /\ shell_buffer # <<>>
          /\ shell_buffer' = Front(shell_buffer)
          /\ term' = terminal_writestring(term, <<BACKSPACE, BLANK, BACKSPACE>>)
       \/ /\ shell_buffer = <<>>
          /\ UNCHANGED <<shell_buffer, term>>
    /\ UNCHANGED <<pc, shell_history, entered>>

(* Mutant: no place is kept for the NUL. *)
HasRoom_NoNul == Len(shell_buffer) < SHELL_BUFFER_SIZE
HasRoom == Len(shell_buffer) < SHELL_BUFFER_SIZE - 1

Character(c) ==
    /\ \/ /\ HasRoom /\ c \in Printable
          /\ shell_buffer' = Append(shell_buffer, c)
          /\ term' = terminal_putchar(term, c)
       \/ /\ ~HasRoom \/ c \in Ignored
          /\ UNCHANGED <<shell_buffer, term>>
    /\ UNCHANGED <<pc, shell_history, entered>>

Key(c) ==
    /\ pc = "read" /\ keys < MaxKeys
    /\ keys' = keys + 1
    /\ CASE c = NEWLINE -> Enter
         [] c = BACKSPACE -> Backspace
         [] OTHER -> Character(c)
    /\ UNCHANGED parser

-----------------------------------------------------------------------------
(* shell_parse_command. *)
SkipSpaces(text, from) == Min({k \in from .. Len(text) : text[k] # BLANK})

(* The text a pointer into parse_buffer stands for. *)
CString(text, from) ==
    SubSeq(text, from, Min({k \in from .. Len(text) : text[k] = NUL}) - 1)

(* A line of spaces is no command; any other is copied and parsed. *)
StartParse ==
    LET copy == Append(shell_buffer, NUL) IN
    /\ pc = "start"
    /\ \/ /\ copy[SkipSpaces(copy, 1)] = NUL
          /\ pc' = "prompt" /\ UNCHANGED parser
       \/ /\ copy[SkipSpaces(copy, 1)] # NUL
          /\ pc' = "parse"
          /\ parse_buffer' = copy /\ p' = SkipSpaces(copy, 1) /\ argv' = <<>>
    /\ UNCHANGED <<term, shell_buffer, shell_history, entered, keys>>

(* Mutant: "" is an argument. *)
WithArgument_Empty(first, end) == Append(argv, first)
WithArgument(first, end) == IF first = end THEN argv ELSE Append(argv, first)

(* Behind the character that ended the argument.  Mutant: an empty argument *)
(* is given up before the pointer is moved.                                 *)
Behind_UnlessEmpty(first, end, closed) ==
    IF first = end THEN p ELSE IF closed THEN end + 1 ELSE end
Behind(first, end, closed) == IF closed THEN end + 1 ELSE end

(* One iteration of the outer loop. *)
NextArgument ==
    LET quoted == parse_buffer[p] = QUOTE
        stop == IF quoted THEN QUOTE ELSE BLANK
        first == IF quoted THEN p + 1 ELSE p
        end == Min({k \in first .. Len(parse_buffer) : parse_buffer[k] \in {NUL, stop}})
        closed == parse_buffer[end] = stop
    IN  /\ pc = "parse" /\ parse_buffer[p] # NUL /\ Len(argv) < SHELL_MAX_ARGS
        /\ parse_buffer' = [parse_buffer EXCEPT ![end] = NUL]
        /\ p' = SkipSpaces(parse_buffer', Behind(first, end, closed))
        /\ argv' = WithArgument(first, end)
        /\ UNCHANGED <<pc, term, shell_buffer, shell_history, entered, keys>>

ParseDone ==
    /\ pc = "parse" /\ (parse_buffer[p] = NUL \/ Len(argv) >= SHELL_MAX_ARGS)
    /\ pc' = IF argv = <<>> THEN "prompt" ELSE "execute"
    /\ UNCHANGED <<term, shell_buffer, shell_history, parser, entered, keys>>

Parse == StartParse \/ NextArgument \/ ParseDone

-----------------------------------------------------------------------------
(* shell_execute_command, once argv is known. *)
Arguments == [k \in DOMAIN argv |-> CString(parse_buffer, argv[k])]
Named == {k \in DOMAIN Commands : strcmp(Arguments[1], Commands[k].name)}
Bound(kind) == Named # {} /\ Commands[Min(Named)].does = kind

Execute == pc = "execute" /\ UNCHANGED <<shell_buffer, parser, keys>>
Say(text) == term' = terminal_writestring(term, text)

Joined(words) ==
    IF words = <<>> THEN <<>>
    ELSE FoldLeft(LAMBDA said, word : said \o <<BLANK>> \o word, Head(words), Tail(words))
Lines(texts) == FoldLeft(LAMBDA said, text : said \o text \o <<NEWLINE>>, <<>>, texts)

Names == [k \in DOMAIN Commands |-> Commands[k].name]
Selected(names, chosen) ==
    FoldLeft(LAMBDA found, name : IF name \in chosen THEN Append(found, name) ELSE found,
             <<>>, names)
Similar ==
    Selected(Names, {name \in Range(Names) :
                        strncmp(Arguments[1], name, strlen(Arguments[1]))})

(* The unknown word, and the names it is the beginning of. *)
NotFound ==
    /\ Execute /\ pc' = "prompt"
    /\ Named = {}
    /\ Say(Lines(<<Arguments[1], IF Similar = <<>> THEN <<"-">> ELSE Joined(Similar)>>))
    /\ UNCHANGED <<shell_history, entered>>

(* All names; one command by name, or the name that has no help; or how to  *)
(* call help.                                                               *)
Help ==
    CASE Len(argv) = 1 -> Lines(Names)
      [] Len(argv) = 2 ->
            IF \E k \in DOMAIN Commands : strcmp(Arguments[2], Names[k])
            THEN Lines(<<Arguments[2], <<"+">>>>)
            ELSE Lines(<<<<"-", BLANK>> \o Arguments[2]>>)
      [] OTHER -> Lines(<<<<"?">>>>)

shell_cmd_help ==
    /\ Execute /\ pc' = "prompt" /\ Bound("help")
    /\ Say(Help)
    /\ UNCHANGED <<shell_history, entered>>

shell_cmd_clear ==
    /\ Execute /\ pc' = "prompt" /\ Bound("clear")
    /\ term' = terminal_writestring(terminal_initialize, <<NEWLINE, NEWLINE>>)
    /\ UNCHANGED <<shell_history, entered>>

shell_cmd_echo ==
    /\ Execute /\ pc' = "prompt" /\ Bound("echo")
    /\ Say(Joined(Tail(Arguments)) \o <<NEWLINE>>)
    /\ UNCHANGED <<shell_history, entered>>

shell_show_history ==
    /\ Execute /\ pc' = "prompt" /\ Bound("history")
    /\ Say(Lines(shell_history))
    /\ UNCHANGED <<shell_history, entered>>

(* timer_wait three times, then the console and the shell from the start;   *)
(* shell_run is called again and never returns.                             *)
shell_cmd_reboot ==
    /\ Execute /\ pc' = "prompt" /\ Bound("reboot")
    /\ term' = terminal_writestring(terminal_initialize, <<NEWLINE, NEWLINE>>)
    /\ shell_history' = <<>> /\ entered' = <<>>

(* uptime, meminfo, heapinfo, kmalloc, memtest: they print; the heap and    *)
(* the frames that the last three use are modules Kmalloc and Pmm.          *)
Report ==
    /\ Execute /\ pc' = "prompt" /\ Bound("report")
    /\ Say(<<BLANK, "+", NEWLINE>>)
    /\ UNCHANGED <<shell_history, entered>>

shell_cmd_halt ==
    /\ Execute /\ pc' = "halt" /\ Bound("halt")
    /\ Say(<<NEWLINE>>)
    /\ UNCHANGED <<shell_history, entered>>

Command ==
    \/ NotFound \/ shell_cmd_help \/ shell_cmd_clear \/ shell_cmd_echo
    \/ shell_show_history \/ Report \/ shell_cmd_reboot \/ shell_cmd_halt

Next ==
    \/ shell_show_prompt
    \/ \E c \in Printable \cup Ignored \cup {NEWLINE, BACKSPACE} : Key(c)
    \/ Parse
    \/ Command

Spec == Init /\ [][Next]_vars

(* The processor executes the thread; nobody has to type. *)
FairSpec == Spec /\ WF_vars(Parse)

-----------------------------------------------------------------------------
(* Properties. *)

(* Every variable has its type: the cursor is on the screen, the line and   *)
(* its NUL fit shell_buffer, and argv points into parse_buffer.             *)
TypeOK ==
    /\ pc \in {"prompt", "read", "start", "parse", "execute", "halt"}
    /\ term.row \in Row /\ term.column \in Column
    /\ shell_buffer \in Seq(Printable) /\ Len(shell_buffer) < SHELL_BUFFER_SIZE
    /\ Len(shell_history) <= SHELL_HISTORY_SIZE
    /\ p \in DOMAIN parse_buffer /\ Len(argv) <= SHELL_MAX_ARGS
    /\ \A k \in DOMAIN argv : argv[k] \in DOMAIN parse_buffer

(* Nothing is left behind the cursor's back: from the cursor on the screen  *)
(* is blank, through wrapping, scrolling, erasing and clearing, so that     *)
(* what is echoed next stands alone.                                        *)
BlankAhead ==
    \A n \in Cursor(term) .. VGA_WIDTH * VGA_HEIGHT - 1 : CellOf(term, n) = BLANK

(* `history` knows the last SHELL_HISTORY_SIZE lines entered since the      *)
(* shell was started or rebooted, newest last, a line entered several times *)
(* in a row once (shell.c:44, "comandos vacios o duplicados consecutivos"). *)
Changes(lines) == {n \in DOMAIN lines : n = 1 \/ lines[n] # lines[n - 1]}
Nth(places, n) == Min({c \in places : Cardinality({d \in places : d <= c}) = n})
Distinct(lines) ==
    [n \in 1 .. Cardinality(Changes(lines)) |-> lines[Nth(Changes(lines), n)]]
Newest(lines, n) == SubSeq(lines, Max({1, Len(lines) - n + 1}), Len(lines))
HistoryIsRecent == shell_history = Newest(Distinct(entered), SHELL_HISTORY_SIZE)

(* A line's words: text between spaces, or between quotes if the first      *)
(* character is one; empty ones do not count.                               *)
Closed(scan) == IF scan.word = <<>> THEN scan.words ELSE Append(scan.words, scan.word)
Scan(scan, ch) ==
    CASE scan.within = "gap" /\ ch = BLANK -> scan
      [] scan.within = "gap" /\ ch = QUOTE -> [scan EXCEPT !.within = "quotes"]
      [] scan.within = "gap" /\ ch \notin {BLANK, QUOTE} ->
            [scan EXCEPT !.within = "word", !.word = <<ch>>]
      [] \/ scan.within = "word" /\ ch = BLANK
         \/ scan.within = "quotes" /\ ch = QUOTE ->
            [words |-> Closed(scan), word |-> <<>>, within |-> "gap"]
      [] OTHER -> [scan EXCEPT !.word = Append(@, ch)]
Words(text) == Closed(FoldLeft(Scan, [words |-> <<>>, word |-> <<>>, within |-> "gap"], text))

(* The pointers the command gets stand for the words of the line, the first *)
(* SHELL_MAX_ARGS of them, although the NULs that end them are written over *)
(* the text still to be parsed; and the line itself is untouched.           *)
ArgumentsAreWords ==
    pc = "execute" =>
        LET words == Words(shell_buffer) IN
        Arguments = SubSeq(words, 1, Min({Len(words), SHELL_MAX_ARGS}))

(* The command that runs is the one the line names: strcmp finds it if the  *)
(* first word is its whole name and not a part or an extension of it, and   *)
(* the similar names of an unknown word are those that begin with it.       *)
CommandIsNamed ==
    pc = "execute" =>
        LET word == Words(shell_buffer)[1] IN
        /\ \A k \in DOMAIN Commands : k \in Named <=> word = Names[k]
        /\ Similar = Selected(Names, {name \in Range(Names) : IsPrefix(word, name)})

(* The parser comes to an end on every line, with quotes left open, empty   *)
(* arguments and more words than argv has room for: the shell cannot hang.  *)
LineIsParsed == (pc = "start") ~> (pc \in {"prompt", "execute"})

(* FASE1.md:140, "Manejar backspace correctamente": what the screen shows   *)
(* before the cursor is the line in shell_buffer, after the prompt.         *)
LineOnScreen ==
    pc = "read" =>
        LET shown == <<"$", BLANK>> \o shell_buffer IN
        \A n \in DOMAIN shown :
            LET cell == Cursor(term) - Len(shown) + n - 1 IN
            cell >= 0 => CellOf(term, cell) = shown[n]
=============================================================================
