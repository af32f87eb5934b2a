---------------------------- MODULE CommandLine ----------------------------
(***************************************************************************)
(* CLI_task of cli.c over the rings of usart2.c, and the terminal at the   *)
(* other end of the cable.                                                 *)
(*                                                                         *)
(* A text is a sequence of characters, and a command with its argument is  *)
(* a text of its own.  What a command does elsewhere is not told apart     *)
(* here: it is known by its answer.  The other prints of the program are   *)
(* left out.                                                               *)
(*                                                                         *)
(* command[index] = 0 writes behind the array when the text fills it.  The *)
(* byte hit is any variable of cli.c, or one that does not matter.         *)
(*                                                                         *)
(* The terminal is external.  It ends its lines in one way and has at most *)
(* one line typed before the answer to the one before is complete.         *)
(***************************************************************************)
EXTENDS UsartRing

CONSTANTS
    MAX_COMMAND_SIZE,
    Characters,
    Texts,          \* the lines typed
    Answers         \* the output of the handler of each command, a function

VARIABLES
    cli,            \* where CLI_task is
    command,        \* the characters stored: index is its length
    commandTooLongFlag,
    test,           \* static of endOfLineTest: the last end of line
    cmd_rcvd,
    out,            \* what is left to print
    terminal,       \* how the terminal ends a line
    typing,         \* the bytes of the line that are still to come
    line,           \* the line last typed
    shown,          \* the output since then
    sure            \* was it typed to an idle device, and every byte accepted?
                    \* or was even its last byte dropped?

cliVars      == <<cli, command, commandTooLongFlag, test, cmd_rcvd, out>>
terminalVars == <<terminal, typing, line, shown, sure>>
consoleVars  == <<ringVars, cliVars, terminalVars>>

Ends == {"CR", "LF"}
EndOfLine == [CR |-> <<"CR">>, LF |-> <<"LF">>, CRLF |-> <<"CR", "LF">>]

UNKNOWN_CMD_MSG == <<"?", "EOT">>
CommandTooLong  == <<"L">>

ASSUME ConsoleAssumption ==
    /\ MAX_COMMAND_SIZE \in Nat \ {0}
    /\ Texts \subseteq Seq(Characters)
    /\ Ends \cup Characters \subseteq Bytes /\ Ends \cap Characters = {}
    /\ {"?", "L", "EOT"} \subseteq Bytes
    /\ Texts # {} /\ \A text \in DOMAIN Answers : Answers[text] \in Seq(Bytes)

ConsoleTypeOK ==
    /\ RingTypeOK
    /\ cli \in {"idle", "loop", "print"}
    /\ command \in Seq(Bytes \ Ends) /\ Len(command) <= MAX_COMMAND_SIZE
    /\ commandTooLongFlag \in BOOLEAN
    /\ test \in Ends \cup {"none"}
    /\ cmd_rcvd \in BOOLEAN
    /\ out \in Seq(Bytes)
    /\ terminal \in DOMAIN EndOfLine
    /\ typing \in Seq(Bytes)
    /\ line \in Texts
    /\ shown \in Seq(Bytes)
    /\ sure \in {"sure", "unsure", "unended"}

ConsoleInit ==
    /\ RingInit
    /\ cli = "idle"
    /\ command = <<>>
    /\ commandTooLongFlag = FALSE
    /\ test = "none"
    /\ cmd_rcvd = FALSE
    /\ out = <<>>
    /\ terminal \in DOMAIN EndOfLine
    /\ typing = <<>>
    /\ line = CHOOSE text \in Texts : TRUE
    /\ shown = <<>>
    /\ sure = "unsure"

-----------------------------------------------------------------------------
(***************************************************************************)
(* CLI_task.                                                               *)
(***************************************************************************)

command_received(text) ==
    IF text \in DOMAIN Answers THEN Answers[text] ELSE UNKNOWN_CMD_MSG

\* Mutant: the LF of a CR LF ends a line of its own.
EveryEndCounts(c, last) == TRUE

\* The LF of a CR LF does not end a line.
endOfLineTest(c, last) == ~(c = "LF" /\ last = "CR")

CLI_task ==
    /\ cli = "idle"
    /\ cli' = "loop"
    /\ cmd_rcvd' = FALSE
    /\ UNCHANGED <<ringVars, command, commandTooLongFlag, test, out, terminalVars>>

EndTask ==
    /\ cli = "loop" /\ pc = "out" /\ ~IsRxReady
    /\ cli' = "idle"
    /\ UNCHANGED <<ringVars, command, commandTooLongFlag, test, cmd_rcvd, out, terminalVars>>

Read ==
    /\ cli = "loop"
    /\ ReadMove \/ ReadCount
    /\ UNCHANGED <<cliVars, terminalVars>>

\* Mutant: one character more than the buffer takes.
StoreOneMore(c) ==
    /\ c \notin Ends
    /\ IF Len(command) <= MAX_COMMAND_SIZE
       THEN command' = Append(command, c) /\ UNCHANGED commandTooLongFlag
       ELSE commandTooLongFlag' = TRUE /\ UNCHANGED command
    /\ UNCHANGED <<cli, test, cmd_rcvd, out>>

StoreChar(c) ==
    /\ c \notin Ends
    /\ IF Len(command) < MAX_COMMAND_SIZE
       THEN command' = Append(command, c) /\ UNCHANGED commandTooLongFlag
       ELSE commandTooLongFlag' = TRUE /\ UNCHANGED command
    /\ UNCHANGED <<cli, test, cmd_rcvd, out>>

PrintText(text) == out' = text /\ cli' = IF text = <<>> THEN "loop" ELSE "print"

\* What command[index] = 0 hits, when it is not an element of command.
Victims == IF Len(command) < MAX_COMMAND_SIZE THEN {"none"}
           ELSE {"other", "commandTooLongFlag", "test"}

\* The end of a line: one command is run in a task, and those behind it are dropped.
EndLine(c, victim) ==
    LET tooLong == commandTooLongFlag /\ victim # "commandTooLongFlag"
        last    == IF victim = "test" THEN "none" ELSE test
        run     == ~tooLong /\ endOfLineTest(c, last) /\ ~cmd_rcvd
    IN  /\ c \in Ends
        /\ test' = IF tooLong THEN last ELSE c
        /\ cmd_rcvd' = (cmd_rcvd \/ run)
        /\ PrintText(IF tooLong THEN CommandTooLong
                 ELSE IF run THEN command_received(command) ELSE <<>>)
        /\ command' = <<>>
        /\ commandTooLongFlag' = FALSE

Consume ==
    /\ cli = "loop" /\ ReadReturn
    /\ StoreChar(ByteRead) \/ \E victim \in Victims : EndLine(ByteRead, victim)
    /\ UNCHANGED terminalVars

\* printf, byte by byte
Write ==
    /\ cli = "print"
    /\ \/ WriteStore(Head(out)) /\ UNCHANGED <<cli, out>>
       \/ WriteCount /\ UNCHANGED <<cli, out>>
       \/ WriteEnable /\ PrintText(Tail(out))
    /\ UNCHANGED <<command, commandTooLongFlag, test, cmd_rcvd, terminalVars>>

-----------------------------------------------------------------------------
(***************************************************************************)
(* The terminal.                                                           *)
(***************************************************************************)

\* Nothing is under way, and CLI_task has returned.
Quiet ==
    /\ typing = <<>> /\ txData = NoByte
    /\ rxElements = 0 /\ txElements = 0
    /\ cli = "idle"

\* A line is typed after the answer to the last one, or one line into it.
TypeLine(text) ==
    /\ typing = <<>> /\ (sure = "sure" \/ Quiet)
    /\ sure' = IF Quiet /\ sure # "unended" THEN "sure" ELSE "unsure"
    /\ line' = IF sure' = "sure" THEN text ELSE CHOOSE other \in Texts : TRUE
    /\ typing' = text \o EndOfLine[terminal]
    /\ shown' = <<>>
    /\ UNCHANGED <<ringVars, cliVars, terminal>>

Receive ==
    /\ typing # <<>>
    /\ DefaultRxIsrCb(Head(typing))
    /\ typing' = Tail(typing)
    /\ sure' = IF rxHead' = rxHead THEN "unended" ELSE
               IF sure = "unended" THEN "unsure" ELSE sure
    /\ UNCHANGED <<cliVars, terminal, line, shown>>

Transmit == DefaultTxIsrCb /\ UNCHANGED <<cliVars, terminalVars>>

\* What is sent is shown; after a line that was not sure, nobody compares it.
Show ==
    /\ Shift
    /\ shown' = IF sure = "sure" THEN Append(shown, txData) ELSE <<>>
    /\ UNCHANGED <<cliVars, terminal, typing, line, sure>>

Main == CLI_task \/ EndTask \/ Read \/ Consume \/ Write

ConsoleNext ==
    \/ Main
    \/ \E text \in Texts : TypeLine(text)
    \/ Receive \/ Transmit \/ Show

\* The superloop runs, the interrupts are served, and a line begun is finished.
ConsoleFairness ==
    /\ WF_consoleVars(Main)
    /\ WF_consoleVars(Receive)
    /\ WF_consoleVars(Transmit)
    /\ WF_consoleVars(Show)

ConsoleSpec == ConsoleInit /\ [][ConsoleNext]_consoleVars /\ ConsoleFairness

-----------------------------------------------------------------------------
\* A line that fits, typed to an idle device and accepted byte by byte, is answered once
\* and by its own command: whatever was typed, dropped or too long before it, however the
\* terminal ends its lines, and with the rings turning around any number of times.
LineAnswered ==
    Quiet /\ sure = "sure" /\ Len(line) < MAX_COMMAND_SIZE
        => shown = command_received(line)

\* Whatever was typed and lost, the device comes to rest and takes the next line whole:
\* no byte is stranded in a ring, no task waits for ever for a byte or a place.
ComesToRest == []<>Quiet

=============================================================================
