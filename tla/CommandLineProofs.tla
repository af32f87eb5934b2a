------------------------- MODULE CommandLineProofs -------------------------
(***************************************************************************)
(* The command line drives the rings the way usart2.c allows, for every    *)
(* size of the rings and of the command buffer, so what UsartRingProofs    *)
(* shows of the rings holds under it; the buffer never overflows; and a    *)
(* line that fits and is accepted whole is answered once, by its command.  *)
(***************************************************************************)
EXTENDS CommandLine, UsartRingProofs

ConsoleInv ==
    /\ RingInv
    /\ ConsoleTypeOK
    /\ cli = "print" => out # <<>>

-----------------------------------------------------------------------------
LEMMA TextsAreBytes ==
    /\ \A text \in Texts : text \in Seq(Bytes)
    /\ \A end \in DOMAIN EndOfLine : EndOfLine[end] \in Seq(Bytes)
    /\ UNKNOWN_CMD_MSG \in Seq(Bytes) /\ CommandTooLong \in Seq(Bytes)
<1>1. \A text \in Texts : text \in Seq(Bytes)
  BY ConsoleAssumption, SeqMonotonic
<1>2. \A end \in DOMAIN EndOfLine : EndOfLine[end] \in Seq(Bytes)
  <2>1. DOMAIN EndOfLine = {"CR", "LF", "CRLF"}
    BY DEF EndOfLine
  <2>2. /\ EndOfLine["CR"] = <<"CR">> /\ EndOfLine["LF"] = <<"LF">>
        /\ EndOfLine["CRLF"] = <<"CR", "LF">>
    BY DEF EndOfLine
  <2>3. "CR" \in Bytes /\ "LF" \in Bytes
    BY ConsoleAssumption DEF Ends
  <2>4. \A end \in {"CR", "LF", "CRLF"} : EndOfLine[end] \in Seq(Bytes)
    <3>1. <<"CR">> \in Seq(Bytes) /\ <<"LF">> \in Seq(Bytes)
          /\ <<"CR", "LF">> \in Seq(Bytes)
      BY <2>3
    <3> QED
      BY <2>2, <3>1
  <2> QED
    BY <2>1, <2>4
<1>3. UNKNOWN_CMD_MSG \in Seq(Bytes) /\ CommandTooLong \in Seq(Bytes)
  BY ConsoleAssumption DEF UNKNOWN_CMD_MSG, CommandTooLong
<1> QED
  BY <1>1, <1>2, <1>3

LEMMA AnswersAreBytes ==
    ASSUME NEW text PROVE command_received(text) \in Seq(Bytes)
BY ConsoleAssumption, TextsAreBytes DEF command_received

\* What PrintText leaves to print is never nothing.
LEMMA Printing ==
    ASSUME NEW text \in Seq(Bytes), PrintText(text)
    PROVE  /\ out' \in Seq(Bytes) /\ cli' \in {"idle", "loop", "print"}
           /\ cli' = "print" => out' # <<>>
BY DEF PrintText

LEMMA ConsoleInitInv == ConsoleInit => ConsoleInv
<1> SUFFICES ASSUME ConsoleInit PROVE ConsoleInv
  OBVIOUS
<1>1. RingInv
  BY InitInv DEF ConsoleInit
<1>2. line \in Texts
  BY ConsoleAssumption DEF ConsoleInit
<1>3. /\ cli = "idle" /\ commandTooLongFlag = FALSE /\ test = "none" /\ cmd_rcvd = FALSE
      /\ command = <<>> /\ out = <<>> /\ typing = <<>> /\ shown = <<>>
      /\ terminal \in DOMAIN EndOfLine /\ sure = "unsure"
  BY DEF ConsoleInit
<1>4. command \in Seq(Bytes \ Ends) /\ Len(command) <= MAX_COMMAND_SIZE
  BY <1>3, ConsoleAssumption
<1> QED
  <2>1. out \in Seq(Bytes) /\ typing \in Seq(Bytes) /\ shown \in Seq(Bytes)
    BY <1>3
  <2>2. cli \in {"idle", "loop", "print"} /\ test \in Ends \cup {"none"}
        /\ sure \in {"sure", "unsure", "unended"} /\ (cli = "print" => out # <<>>)
    BY <1>3
  <2>3. commandTooLongFlag \in BOOLEAN /\ cmd_rcvd \in BOOLEAN
    BY <1>3
  <2> QED
    BY <1>1, <1>2, <1>3, <1>4, <2>1, <2>2, <2>3 DEF ConsoleInv, ConsoleTypeOK, RingInv

\* Every step of the console is a step of the rings or leaves them alone.
LEMMA ConsoleStepsRing ==
    ASSUME ConsoleInv, [ConsoleNext]_consoleVars
    PROVE  [RingNext]_ringVars
<1>1. CASE Receive
  <2>1. Head(typing) \in Bytes
    BY <1>1 DEF Receive, ConsoleInv, ConsoleTypeOK
  <2> QED
    BY <1>1, <2>1 DEF Receive, RingNext
<1>2. CASE Write
  <2>1. Head(out) \in Bytes
    BY <1>2 DEF Write, ConsoleInv, ConsoleTypeOK
  <2> QED
    BY <1>2, <2>1 DEF Write, RingNext
<1>3. CASE CLI_task \/ EndTask \/ Read \/ Consume
  BY <1>3 DEF CLI_task, EndTask, Read, Consume, RingNext
<1>4. CASE Transmit \/ Show \/ \E text \in Texts : TypeLine(text)
  BY <1>4 DEF Transmit, Show, TypeLine, RingNext
<1>5. CASE UNCHANGED consoleVars
  BY <1>5 DEF consoleVars
<1> QED
  BY <1>1, <1>2, <1>3, <1>4, <1>5 DEF ConsoleNext, Main

LEMMA ConsoleStepInv == ConsoleInv /\ [ConsoleNext]_consoleVars => ConsoleInv'
<1> SUFFICES ASSUME ConsoleInv, [ConsoleNext]_consoleVars PROVE ConsoleInv'
  OBVIOUS
<1>1. RingInv'
  BY ConsoleStepsRing, StepInv DEF ConsoleInv
<1>2. RingTypeOK'
  BY <1>1 DEF RingInv
<1> DEFINE Cli == /\ cli \in {"idle", "loop", "print"}
                  /\ command \in Seq(Bytes \ Ends) /\ Len(command) <= MAX_COMMAND_SIZE
                  /\ commandTooLongFlag \in BOOLEAN
                  /\ test \in Ends \cup {"none"}
                  /\ cmd_rcvd \in BOOLEAN
                  /\ out \in Seq(Bytes)
                  /\ cli = "print" => out # <<>>
           Term == /\ terminal \in DOMAIN EndOfLine
                   /\ typing \in Seq(Bytes)
                   /\ line \in Texts
                   /\ shown \in Seq(Bytes)
                   /\ sure \in {"sure", "unsure", "unended"}
<1>3. Cli /\ Term
  BY DEF ConsoleInv, ConsoleTypeOK
<1>4. Cli' /\ Term' => ConsoleInv'
  BY <1>1, <1>2 DEF ConsoleInv, ConsoleTypeOK
<1> HIDE <1>4
<1>5. ASSUME UNCHANGED cliVars PROVE Cli'
  BY <1>3, <1>5 DEF cliVars
<1>6. ASSUME UNCHANGED terminalVars PROVE Term'
  BY <1>3, <1>6 DEF terminalVars
<1>7. CASE CLI_task \/ EndTask
  <2>1. Cli'
    BY <1>3, <1>7 DEF CLI_task, EndTask
  <2> QED
    BY <1>4, <1>6, <1>7, <2>1 DEF CLI_task, EndTask
<1>8. CASE Read
  BY <1>4, <1>5, <1>6, <1>8 DEF Read
<1>9. CASE Consume
  <2>1. ByteRead \in Bytes
    BY <1>9 DEF Consume, ReadReturn, ConsoleInv, RingInv, RxHoldsBytes, Reading, ByteRead
  <2>2. ASSUME StoreChar(ByteRead) PROVE Cli'
    <3>1. ByteRead \in Bytes \ Ends
      BY <2>1, <2>2 DEF StoreChar
    <3>2. command' \in Seq(Bytes \ Ends) /\ Len(command') <= MAX_COMMAND_SIZE
      <4>1. CASE Len(command) < MAX_COMMAND_SIZE
        <5>1. command' = Append(command, ByteRead)
          BY <2>2, <4>1 DEF StoreChar
        <5> DEFINE Stored == Bytes \ Ends
        <5>2. command \in Seq(Stored) /\ ByteRead \in Stored
          BY <1>3, <3>1
        <5> HIDE DEF Stored
        <5>3. command' \in Seq(Stored) /\ Len(command') = Len(command) + 1
          BY <5>1, <5>2
        <5>4. Len(command) \in Nat
          BY <5>2
        <5>5. Len(command') <= MAX_COMMAND_SIZE
          BY <4>1, <5>3, <5>4, ConsoleAssumption
        <5> QED
          BY <5>3, <5>5 DEF Stored
      <4>2. CASE ~(Len(command) < MAX_COMMAND_SIZE)
        BY <1>3, <2>2, <4>2 DEF StoreChar
      <4> QED
        BY <4>1, <4>2
    <3>3. commandTooLongFlag' \in BOOLEAN /\ UNCHANGED <<cli, test, cmd_rcvd, out>>
      BY <1>3, <2>2 DEF StoreChar
    <3> QED
      BY <1>3, <3>2, <3>3
  <2>3. ASSUME NEW victim \in Victims, EndLine(ByteRead, victim) PROVE Cli'
    <3> DEFINE tooLong == commandTooLongFlag /\ victim # "commandTooLongFlag"
               last    == IF victim = "test" THEN "none" ELSE test
               run     == ~tooLong /\ endOfLineTest(ByteRead, last) /\ ~cmd_rcvd
               text    == IF tooLong THEN CommandTooLong
                          ELSE IF run THEN command_received(command) ELSE <<>>
    <3>1. PrintText(text) /\ text \in Seq(Bytes)
      <4>1. PrintText(text)
        BY <2>3 DEF EndLine
      <4>2. CommandTooLong \in Seq(Bytes) /\ command_received(command) \in Seq(Bytes)
            /\ <<>> \in Seq(Bytes)
        BY TextsAreBytes, AnswersAreBytes
      <4> HIDE DEF tooLong, run
      <4> QED
        BY <4>1, <4>2
    <3> HIDE DEF text
    <3>2. out' \in Seq(Bytes) /\ cli' \in {"idle", "loop", "print"}
          /\ (cli' = "print" => out' # <<>>)
      BY <3>1, Printing
    <3>3. command' = <<>> /\ commandTooLongFlag' = FALSE
      BY <2>3 DEF EndLine
    <3>4. test' \in Ends \cup {"none"}
      BY <1>3, <2>3 DEF EndLine
    <3>5. cmd_rcvd' \in BOOLEAN
      BY <1>3, <2>3 DEF EndLine
    <3>6. command' \in Seq(Bytes \ Ends) /\ Len(command') <= MAX_COMMAND_SIZE
      BY <3>3, ConsoleAssumption
    <3> QED
      BY <3>2, <3>3, <3>4, <3>5, <3>6
  <2> QED
    BY <1>4, <1>6, <1>9, <2>2, <2>3 DEF Consume
<1>10. CASE Write
  <2>1. UNCHANGED <<command, commandTooLongFlag, test, cmd_rcvd>>
    BY <1>10 DEF Write
  <2>2. CASE UNCHANGED <<cli, out>>
    BY <1>4, <1>5, <1>6, <1>10, <2>1, <2>2 DEF Write, cliVars
  <2>3. CASE PrintText(Tail(out))
    <3>1. Tail(out) \in Seq(Bytes)
      BY <1>3, <1>10 DEF Write
    <3>2. out' \in Seq(Bytes) /\ cli' \in {"idle", "loop", "print"}
          /\ (cli' = "print" => out' # <<>>)
      BY <2>3, <3>1, Printing
    <3>3. Cli'
      BY <1>3, <2>1, <3>2
    <3> QED
      BY <1>4, <1>6, <1>10, <3>3 DEF Write
  <2> QED
    BY <1>10, <2>2, <2>3 DEF Write
<1>11. ASSUME NEW text \in Texts, TypeLine(text) PROVE ConsoleInv'
  <2>1. typing' \in Seq(Bytes)
    BY <1>3, <1>11, TextsAreBytes DEF TypeLine
  <2>2. line' \in Texts
    BY <1>11, ConsoleAssumption DEF TypeLine
  <2>3. shown' = <<>> /\ sure' \in {"sure", "unsure", "unended"} /\ terminal' = terminal
    BY <1>11 DEF TypeLine
  <2> QED
    BY <1>3, <1>4, <1>5, <1>11, <2>1, <2>2, <2>3 DEF TypeLine
<1>12. CASE Receive
  <2>1. typing' \in Seq(Bytes) /\ UNCHANGED <<terminal, line, shown>>
    BY <1>3, <1>12 DEF Receive
  <2>2. sure' \in {"sure", "unsure", "unended"}
    BY <1>3, <1>12 DEF Receive
  <2> QED
    BY <1>3, <1>4, <1>5, <1>12, <2>1, <2>2 DEF Receive
<1>13. CASE Transmit
  BY <1>4, <1>5, <1>6, <1>13 DEF Transmit
<1>14. CASE Show
  <2>1. txData \in Bytes
    BY <1>14 DEF Show, Shift, ConsoleInv, RingInv, RingTypeOK
  <2>2. shown' \in Seq(Bytes)
    BY <1>3, <1>14, <2>1 DEF Show
  <2> QED
    BY <1>3, <1>4, <1>5, <1>14, <2>2 DEF Show
<1>15. CASE UNCHANGED consoleVars
  BY <1>4, <1>5, <1>6, <1>15 DEF consoleVars
<1> QED
  BY <1>7, <1>8, <1>9, <1>10, <1>11, <1>12, <1>13, <1>14, <1>15 DEF ConsoleNext, Main

-----------------------------------------------------------------------------
\* CLI_task, the rings and the terminal keep ConsoleInv.
THEOREM ConsoleInvariant == ConsoleSpec => []ConsoleInv
BY ConsoleInitInv, ConsoleStepInv, PTL DEF ConsoleSpec

\* CLI_task stores no character behind the end of its buffer, for every buffer size.
THEOREM ConsoleTyping == ConsoleSpec => []ConsoleTypeOK
<1>1. ConsoleInv => ConsoleTypeOK
  BY DEF ConsoleInv
<1> QED
  BY <1>1, ConsoleInvariant, PTL

\* The console is one of the users UsartRingProofs speaks of.
THEOREM ConsoleUsesRing == ConsoleSpec => RingSpec
<1>1. ConsoleInit => RingInit
  BY DEF ConsoleInit
<1>2. ConsoleInv /\ [ConsoleNext]_consoleVars => [RingNext]_ringVars
  BY ConsoleStepsRing
<1> QED
  BY <1>1, <1>2, ConsoleInvariant, PTL DEF ConsoleSpec, RingSpec

\* What is typed reaches CLI_task and what it prints is sent, in order, and the
\* transmit interrupt is on whenever the program is not about to turn it on.
THEOREM ConsoleRings == ConsoleSpec => RxIsFifo /\ TxIsFifo /\ []NeverStranded
BY ConsoleUsesRing, RxRefinesFifo, TxRefinesFifo, NeverStrandedHolds, PTL

-----------------------------------------------------------------------------
(***************************************************************************)
(* The answer.  What was typed and is not consumed yet, what is printed    *)
(* and is not shown yet, and how they hang together in a line that is      *)
(* sure.                                                                   *)
(***************************************************************************)

\* The bytes that CLI_task still has to consume.
coming == arrived \o typing

\* What printf still has to count.
rest == IF pc = "counted" THEN Tail(out) ELSE out

\* The output since the line was typed, the part that is still inside included.
going == (shown \o leaving) \o rest

\* Where the program can be inside the driver, and what it has stored there.
InDriver ==
    /\ cli = "idle" => pc = "out"
    /\ cli = "loop" => pc \notin Writing
    /\ cli = "print" => pc \notin Reading
    /\ out # <<>> => cli = "print"
    /\ pc = "stored" => txbuf[txHead] = Head(out)

\* Unless the last byte of a line was dropped, what is coming ends a line, and once it is
\* consumed nothing is left of any line.
Ended ==
    sure # "unended" \/ typing # <<>> =>
        /\ coming = <<>> => command = <<>> /\ ~commandTooLongFlag
        /\ coming # <<>> => coming[Len(coming)] \in Ends

Lacks(s, e) == \A i \in 1 .. Len(s) : s[i] # e

\* A terminal that sends LF alone leaves no CR behind.
NoReturn ==
    terminal = "LF" => test # "CR" /\ Lacks(coming, "CR")

\* The line is not run yet: with what is stored of it, all of it is there.
Asking ==
    /\ command \o coming = line \o EndOfLine[terminal]
    /\ ~commandTooLongFlag
    /\ cli = "loop" => ~cmd_rcvd
    /\ out = <<>> /\ shown = <<>> /\ txElements = 0 /\ txData = NoByte

\* The line was run: of the answer nothing is lost, and at most the LF of CR LF is coming.
Answering ==
    /\ command = <<>> /\ ~commandTooLongFlag
    /\ coming = <<>> \/ (coming = <<"LF">> /\ test = "CR")
    /\ going = command_received(line)

LineUnderWay == sure = "sure" /\ Len(line) < MAX_COMMAND_SIZE => Asking \/ Answering

AnswerInv == ConsoleInv /\ InDriver /\ Ended /\ NoReturn /\ LineUnderWay

-----------------------------------------------------------------------------
\* The first end that CLI_task reads is the end of the line.
LEMMA FirstEnd ==
    ASSUME command \in Seq(Bytes \ Ends), line \in Seq(Bytes \ Ends),
           ByteRead \in Bytes, NEW p \in Seq(Bytes), coming = <<ByteRead>> \o p,
           NEW c \in Bytes, NEW q \in Seq(Bytes), EndOfLine[terminal] = <<c>> \o q,
           c \in Ends, command \o coming = line \o EndOfLine[terminal]
    PROVE  /\ ByteRead \in Ends => command = line /\ ByteRead = c /\ p = q
           /\ ByteRead \notin Ends => Len(command) < Len(line)
<1> DEFINE ending == EndOfLine[terminal]
           n == Len(command)
           m == Len(line)
<1>1. command \in Seq(Bytes) /\ line \in Seq(Bytes)
  BY SeqMonotonic
<1>2. <<ByteRead>> \in Seq(Bytes) /\ <<c>> \in Seq(Bytes)
      /\ Len(<<ByteRead>>) = 1 /\ Len(<<c>>) = 1 /\ <<ByteRead>>[1] = ByteRead /\ <<c>>[1] = c
  OBVIOUS
<1>3. coming \in Seq(Bytes) /\ Len(coming) = 1 + Len(p) /\ coming[1] = ByteRead
  BY <1>2, ConcatProperties, LenProperties
<1>4. ending \in Seq(Bytes) /\ Len(ending) = 1 + Len(q) /\ ending[1] = c
  BY <1>2, ConcatProperties, LenProperties
<1>5. /\ n \in Nat /\ m \in Nat /\ Len(p) \in Nat /\ Len(q) \in Nat
      /\ \A i \in 1 .. n : command[i] \notin Ends
      /\ \A i \in 1 .. m : line[i] \notin Ends
  BY ElementOfSeq, LenProperties
<1>6. /\ \A i \in 1 .. n + Len(coming) :
            (command \o coming)[i] = IF i <= n THEN command[i] ELSE coming[i - n]
      /\ \A i \in 1 .. m + Len(ending) :
            (line \o ending)[i] = IF i <= m THEN line[i] ELSE ending[i - m]
      /\ Len(command \o coming) = n + Len(coming) /\ Len(line \o ending) = m + Len(ending)
  <2>1. \A u, v \in Seq(Bytes) :
           /\ Len(u \o v) = Len(u) + Len(v)
           /\ \A i \in 1 .. Len(u) + Len(v) :
                 (u \o v)[i] = IF i <= Len(u) THEN u[i] ELSE v[i - Len(u)]
    BY ConcatProperties
  <2> QED
    BY Zenon, <1>1, <1>3, <1>4, <2>1
<1>7. command \o coming = line \o ending
  OBVIOUS
<1>8. n + Len(coming) = m + Len(ending)
  BY <1>6, <1>7
<1>9. ~(m < n)
  <2> SUFFICES ASSUME m < n PROVE FALSE
    OBVIOUS
  <2>1. m + 1 \in 1 .. n /\ m + 1 \in 1 .. n + Len(coming) /\ m + 1 \in 1 .. m + Len(ending)
    BY <1>3, <1>4, <1>5
  <2>2. (command \o coming)[m + 1] = command[m + 1] /\ (line \o ending)[m + 1] = ending[1]
    BY <1>5, <1>6, <2>1
  <2> QED
    BY <1>3, <1>4, <1>5, <1>7, <2>1, <2>2
<1>10. ASSUME ByteRead \in Ends PROVE ~(n < m)
  <2> SUFFICES ASSUME n < m PROVE FALSE
    OBVIOUS
  <2>1. n + 1 \in 1 .. m /\ n + 1 \in 1 .. n + Len(coming) /\ n + 1 \in 1 .. m + Len(ending)
    BY <1>3, <1>4, <1>5
  <2>2. (line \o ending)[n + 1] = line[n + 1] /\ (command \o coming)[n + 1] = coming[1]
    BY <1>5, <1>6, <2>1
  <2> QED
    BY <1>3, <1>4, <1>5, <1>7, <1>10, <2>1, <2>2
<1>11. ASSUME n = m PROVE command = line /\ ByteRead = c /\ p = q
  <2>1. ASSUME NEW i \in 1 .. n PROVE command[i] = line[i]
    <3>1. i \in 1 .. n + Len(coming) /\ i \in 1 .. m + Len(ending) /\ i <= n /\ i <= m
      BY <1>3, <1>4, <1>5, <1>11
    <3> QED
      BY <1>6, <1>7, <3>1
  <2>2. command = line
    BY <1>1, <1>11, <2>1, SeqEqual
  <2>3. coming = ending
    BY <1>1, <1>3, <1>4, <1>7, <2>2, ConcatSimplifications
  <2>4. ByteRead = c
    BY <1>3, <1>4, <2>3
  <2>5. p = q
    BY <1>2, <2>3, <2>4, ConcatSimplifications
  <2> QED
    BY <2>2, <2>4, <2>5
<1>12. ByteRead \in Ends => n = m
  BY <1>5, <1>9, <1>10
<1>13. ByteRead \notin Ends => n < m
  <2>1. n # m \/ ByteRead \in Ends
    BY <1>11
  <2> QED
    BY <1>5, <1>9, <2>1
<1> QED
  BY <1>11, <1>12, <1>13

\* The line is a text without ends, and ends as the terminal says.
LEMMA LinesEnd ==
    ASSUME NEW text \in Texts, NEW end \in DOMAIN EndOfLine
    PROVE  /\ text \in Seq(Bytes \ Ends) /\ text \in Seq(Bytes)
           /\ EndOfLine[end] \in Seq(Bytes) /\ EndOfLine[end] # <<>>
           /\ \E c \in Ends, q \in Seq(Bytes) :
                 /\ EndOfLine[end] = <<c>> \o q /\ c \in Bytes
                 /\ q = <<>> \/ (q = <<"LF">> /\ c = "CR")
                 /\ end = "LF" <=> c = "LF"
           /\ EndOfLine[end][Len(EndOfLine[end])] \in Ends
           /\ end = "LF" => EndOfLine[end] = <<"LF">>
<1>1. text \in Seq(Bytes \ Ends) /\ text \in Seq(Bytes)
  <2>1. text \in Seq(Characters) /\ Characters \subseteq Bytes \ Ends
    BY ConsoleAssumption
  <2>2. text \in Seq(Bytes \ Ends)
    BY <2>1, SeqMonotonic
  <2> QED
    BY <2>2, SeqMonotonic
<1>2. EndOfLine[end] \in Seq(Bytes)
  BY TextsAreBytes
<1>3. end \in {"CR", "LF", "CRLF"} /\ "CR" \in Bytes /\ "LF" \in Bytes
  BY ConsoleAssumption DEF EndOfLine, Ends
<1>4. EndOfLine["CR"] = <<"CR">> /\ EndOfLine["LF"] = <<"LF">>
      /\ EndOfLine["CRLF"] = <<"CR", "LF">>
  BY DEF EndOfLine
<1>5. <<"CR", "LF">> = <<"CR">> \o <<"LF">> /\ <<"LF">> \in Seq(Bytes)
      /\ <<"CR">> = <<"CR">> \o <<>> /\ <<"LF">> = <<"LF">> \o <<>> /\ <<>> \in Seq(Bytes)
  BY <1>3
<1>6. CASE end = "CR"
  <2>1. \E c \in Ends, q \in Seq(Bytes) :
           /\ EndOfLine[end] = <<c>> \o q /\ c \in Bytes
           /\ q = <<>> \/ (q = <<"LF">> /\ c = "CR")
           /\ end = "LF" <=> c = "LF"
    <3> "CR" \in Ends /\ <<>> \in Seq(Bytes) /\ <<"LF">> \in Seq(Bytes)
      BY <1>5 DEF Ends
    <3> WITNESS "CR" \in Ends
    <3> WITNESS <<>> \in Seq(Bytes)
    <3> QED
      BY <1>3, <1>4, <1>5, <1>6
  <2> QED
    BY <1>1, <1>2, <1>4, <1>6, <2>1 DEF Ends
<1>7. CASE end = "LF"
  <2>1. \E c \in Ends, q \in Seq(Bytes) :
           /\ EndOfLine[end] = <<c>> \o q /\ c \in Bytes
           /\ q = <<>> \/ (q = <<"LF">> /\ c = "CR")
           /\ end = "LF" <=> c = "LF"
    <3> "LF" \in Ends /\ <<>> \in Seq(Bytes) /\ <<"LF">> \in Seq(Bytes)
      BY <1>5 DEF Ends
    <3> WITNESS "LF" \in Ends
    <3> WITNESS <<>> \in Seq(Bytes)
    <3> QED
      BY <1>3, <1>4, <1>5, <1>7
  <2> QED
    <3>1. EndOfLine[end] = <<"LF">> /\ <<"LF">> # <<>> /\ Len(<<"LF">>) = 1
      BY <1>4, <1>7
    <3>2. EndOfLine[end][Len(EndOfLine[end])] \in Ends
      BY <3>1 DEF Ends
    <3> QED
      BY <1>1, <1>2, <2>1, <3>1, <3>2
<1>8. CASE end = "CRLF"
  <2>1. \E c \in Ends, q \in Seq(Bytes) :
           /\ EndOfLine[end] = <<c>> \o q /\ c \in Bytes
           /\ q = <<>> \/ (q = <<"LF">> /\ c = "CR")
           /\ end = "LF" <=> c = "LF"
    <3> "CR" \in Ends /\ <<>> \in Seq(Bytes) /\ <<"LF">> \in Seq(Bytes)
      BY <1>5 DEF Ends
    <3> WITNESS "CR" \in Ends
    <3> WITNESS <<"LF">> \in Seq(Bytes)
    <3> QED
      BY <1>3, <1>4, <1>5, <1>8
  <2> QED
    BY <1>1, <1>2, <1>4, <1>8, <2>1 DEF Ends
<1> QED
  BY <1>3, <1>6, <1>7, <1>8

LEMMA LastOfConcat ==
    ASSUME NEW S, NEW s \in Seq(S), NEW t \in Seq(S), t # <<>>
    PROVE  s \o t # <<>> /\ (s \o t)[Len(s \o t)] = t[Len(t)]
<1>1. Len(t) \in Nat \ {0} /\ Len(s) \in Nat
  BY EmptySeq, LenProperties
<1>2. /\ Len(s \o t) = Len(s) + Len(t)
      /\ \A i \in 1 .. Len(s) + Len(t) :
            (s \o t)[i] = IF i <= Len(s) THEN s[i] ELSE t[i - Len(s)]
  BY ConcatProperties
<1>3. Len(s \o t) \in 1 .. Len(s) + Len(t) /\ ~(Len(s \o t) <= Len(s))
      /\ Len(s \o t) - Len(s) = Len(t)
  BY <1>1, <1>2
<1>4. s \o t # <<>>
  BY <1>1, ConcatEqualIffEmpty, EmptySeq
<1> QED
  BY <1>2, <1>3, <1>4

LEMMA AnswerTyping ==
    ConsoleInv /\ InDriver =>
        /\ arrived \in Seq(Bytes) /\ typing \in Seq(Bytes) /\ coming \in Seq(Bytes)
        /\ shown \in Seq(Bytes) /\ leaving \in Seq(Bytes) /\ rest \in Seq(Bytes)
        /\ command \in Seq(Bytes)
<1> SUFFICES ASSUME ConsoleInv, InDriver
             PROVE  /\ arrived \in Seq(Bytes) /\ typing \in Seq(Bytes) /\ coming \in Seq(Bytes)
                    /\ shown \in Seq(Bytes) /\ leaving \in Seq(Bytes) /\ rest \in Seq(Bytes)
                    /\ command \in Seq(Bytes)
  OBVIOUS
<1>1. arrived \in Seq(Bytes) /\ leaving \in Seq(Bytes)
  BY DirectionsTyping DEF ConsoleInv
<1>2. typing \in Seq(Bytes) /\ shown \in Seq(Bytes) /\ out \in Seq(Bytes)
      /\ command \in Seq(Bytes \ Ends)
  BY DEF ConsoleInv, ConsoleTypeOK
<1>3. command \in Seq(Bytes)
  BY <1>2, SeqMonotonic
<1>4. coming \in Seq(Bytes)
  BY <1>1, <1>2, ConcatProperties DEF coming
<1>5. rest \in Seq(Bytes)
  <2>1. CASE pc = "counted"
    <3>1. out # <<>>
      BY <2>1 DEF ConsoleInv, ConsoleTypeOK, InDriver, Writing, Reading, RingInv, RingTypeOK
    <3> QED
      BY <1>2, <2>1, <3>1, HeadTailProperties DEF rest
  <2>2. CASE pc # "counted"
    BY <1>2, <2>2 DEF rest
  <2> QED
    BY <2>1, <2>2
<1> QED
  BY <1>1, <1>2, <1>3, <1>4, <1>5

\* The same of the state after a step.
LEMMA AnswerTypingNext ==
    ConsoleInv' /\ InDriver' =>
        /\ arrived' \in Seq(Bytes) /\ coming' \in Seq(Bytes) /\ leaving' \in Seq(Bytes)
        /\ shown' \in Seq(Bytes) /\ rest' \in Seq(Bytes)
<1>1. (ConsoleInv /\ InDriver =>
        /\ arrived \in Seq(Bytes) /\ typing \in Seq(Bytes) /\ coming \in Seq(Bytes)
        /\ shown \in Seq(Bytes) /\ leaving \in Seq(Bytes) /\ rest \in Seq(Bytes)
        /\ command \in Seq(Bytes))'
  BY AnswerTyping, PTL
<1> QED
  BY <1>1

-----------------------------------------------------------------------------
\* What a step does to the bytes that are coming.

LEMMA ComingKept ==
    ASSUME ConsoleInv, ConsoleInv',
           \/ CLI_task \/ EndTask \/ Read \/ Write \/ Transmit \/ Show
           \/ UNCHANGED consoleVars
    PROVE  coming' = coming /\ UNCHANGED <<terminal, typing, line, sure>>
<1>1. UNCHANGED <<terminal, typing, line, sure>>
  BY DEF CLI_task, EndTask, Read, Write, Transmit, Show, consoleVars, terminalVars
<1>2. \/ ReadMove \/ ReadCount
      \/ UNCHANGED rxVars /\ (pc' = pc \/ {pc, pc'} \cap Reading = {})
  <2>1. CASE CLI_task \/ EndTask \/ UNCHANGED consoleVars
    BY <2>1 DEF CLI_task, EndTask, consoleVars, ringVars
  <2>2. CASE Read
    BY <2>2 DEF Read
  <2>3. CASE Write
    BY <2>3 DEF Write, WriteStore, WriteCount, WriteEnable, Reading
  <2>4. CASE Transmit \/ Show
    BY <2>4 DEF Transmit, Show, DefaultTxIsrCb, Shift
  <2> QED
    BY <2>1, <2>2, <2>3, <2>4
<1>3. arrived' = arrived
  BY <1>2, ArrivedKept DEF ConsoleInv
<1> QED
  BY <1>1, <1>3 DEF coming

LEMMA ComingConsumed ==
    ASSUME ConsoleInv, InDriver, ConsoleInv', InDriver', Consume
    PROVE  /\ coming = <<ByteRead>> \o coming'
           /\ ByteRead \in Bytes /\ coming' \in Seq(Bytes)
           /\ UNCHANGED <<terminal, typing, line, shown, sure, txVars>>
           /\ cli = "loop" /\ pc' = "out"
<1>1. arrived = <<ByteRead>> \o arrived' /\ ByteRead \in Bytes
  BY ArrivedReturned DEF Consume, ConsoleInv
<1>2. UNCHANGED <<terminal, typing, line, shown, sure, txVars>>
      /\ cli = "loop" /\ pc' = "out"
  BY DEF Consume, ReadReturn, terminalVars
<1>3. arrived' \in Seq(Bytes) /\ coming' \in Seq(Bytes)
  BY AnswerTypingNext
<1>4. <<ByteRead>> \in Seq(Bytes) /\ typing \in Seq(Bytes)
  BY <1>1, AnswerTyping
<1>5. coming' = arrived' \o typing
  BY <1>2 DEF coming
<1>6. coming = <<ByteRead>> \o coming'
  BY <1>1, <1>3, <1>4, <1>5, ConcatAssociative DEF coming
<1> QED
  BY <1>1, <1>2, <1>3, <1>6

LEMMA ComingReceived ==
    ASSUME ConsoleInv, ConsoleInv', InDriver, Receive
    PROVE  /\ typing # <<>> /\ typing' = Tail(typing)
           /\ UNCHANGED <<cliVars, txVars, pc, terminal, line, shown>>
           /\ \/ coming' = coming /\ sure' # "unended" /\ (sure' = "sure" => sure = "sure")
              \/ coming' = arrived \o Tail(typing) /\ sure' = "unended"
<1> DEFINE b == Head(typing)
<1>1. typing # <<>> /\ DefaultRxIsrCb(b) /\ typing' = Tail(typing)
      /\ UNCHANGED <<cliVars, terminal, line, shown>>
  BY DEF Receive
<1>2. b \in Bytes /\ Tail(typing) \in Seq(Bytes)
  BY <1>1, AnswerTyping, HeadTailProperties
<1>3. UNCHANGED <<txVars, pc>>
  BY <1>1 DEF DefaultRxIsrCb
<1>4. CASE RxFull
  <2>1. UNCHANGED rxVars
    BY <1>1, <1>4 DEF DefaultRxIsrCb
  <2>2. arrived' = arrived
    BY <1>3, <2>1, ArrivedKept DEF ConsoleInv
  <2>3. sure' = "unended"
    BY <2>1 DEF Receive, rxVars
  <2> QED
    BY <1>1, <1>3, <2>2, <2>3 DEF coming
<1>5. CASE ~RxFull
  <2>1. arrived' = Append(arrived, b)
    BY <1>1, <1>2, <1>5, ArrivedGrows DEF ConsoleInv
  <2>2. rxHead' # rxHead
    BY <1>1, <1>5, RingAssumption
    DEF DefaultRxIsrCb, Next1, Place, ConsoleInv, RingInv, RingTypeOK
  <2>3. sure' # "unended" /\ (sure' = "sure" => sure = "sure")
    BY <2>2 DEF Receive
  <2>4. <<b>> \o Tail(typing) = typing
    BY <1>1, AnswerTyping, FirstAndRest
  <2>5. coming' = Append(arrived, b) \o Tail(typing)
    BY <1>1, <2>1 DEF coming
  <2>6. Append(arrived, b) \o Tail(typing) = arrived \o (<<b>> \o Tail(typing))
    <3>1. arrived \in Seq(Bytes)
      BY AnswerTyping
    <3> HIDE DEF b
    <3> QED
      BY <1>2, <3>1, AppendConcat
  <2> QED
    BY <1>1, <1>3, <2>3, <2>4, <2>5, <2>6 DEF coming
<1> QED
  BY <1>4, <1>5

\* A line is typed behind what is coming, and nothing is if the device is quiet.
LEMMA ComingTyped ==
    ASSUME ConsoleInv, ConsoleInv', InDriver, NEW text \in Texts, TypeLine(text)
    PROVE  /\ coming' = arrived \o (text \o EndOfLine[terminal])
           /\ typing = <<>> /\ typing' # <<>> /\ coming = arrived
           /\ UNCHANGED <<ringVars, cliVars, terminal>> /\ shown' = <<>>
           /\ sure' # "unended"
           /\ sure' = "sure" => /\ Quiet /\ sure # "unended" /\ line' = text
                                /\ coming = <<>> /\ out = <<>>
<1>1. typing = <<>> /\ typing' = text \o EndOfLine[terminal] /\ shown' = <<>>
      /\ UNCHANGED <<ringVars, cliVars, terminal>>
  BY DEF TypeLine
<1>2. arrived' = arrived
  BY <1>1, ArrivedKept DEF ConsoleInv, ringVars
<1>3. terminal \in DOMAIN EndOfLine
  BY DEF ConsoleInv, ConsoleTypeOK
<1>4. typing' # <<>>
  <2>1. text \in Seq(Bytes) /\ EndOfLine[terminal] \in Seq(Bytes) /\ EndOfLine[terminal] # <<>>
    BY <1>3, LinesEnd
  <2> QED
    BY <1>1, <2>1, LastOfConcat
<1>5. coming = arrived
  BY <1>1, AnswerTyping, ConcatEmptySeq DEF coming
<1>6. ASSUME Quiet PROVE arrived = <<>> /\ out = <<>>
  <2>1. pc = "out" /\ rxElements = 0 /\ cli = "idle"
    BY <1>6 DEF Quiet, InDriver
  <2>2. handed = <<>> /\ rxWaiting = 0
    BY <2>1 DEF handed, rxWaiting, Reading
  <2>3. rxQueue = <<>>
    BY <2>2, RxQueueTyping, EmptySeq DEF ConsoleInv
  <2> QED
    BY <2>1, <2>2, <2>3, ConcatEmptySeq DEF arrived, InDriver
<1>7. sure' # "unended"
  BY DEF TypeLine
<1>8. ASSUME sure' = "sure" PROVE Quiet /\ sure # "unended" /\ line' = text
  BY <1>8 DEF TypeLine
<1>9. coming' = arrived \o (text \o EndOfLine[terminal])
  BY <1>1, <1>2 DEF coming
<1> QED
  BY <1>1, <1>4, <1>5, <1>6, <1>7, <1>8, <1>9

-----------------------------------------------------------------------------
LEMMA AnswerInitInv == ConsoleInit => AnswerInv
<1> SUFFICES ASSUME ConsoleInit PROVE AnswerInv
  OBVIOUS
<1>1. ConsoleInv
  BY ConsoleInitInv
<1>2. /\ cli = "idle" /\ commandTooLongFlag = FALSE /\ test = "none" /\ command = <<>>
      /\ out = <<>> /\ typing = <<>> /\ sure = "unsure"
      /\ pc = "out" /\ rxElements = 0
  BY DEF ConsoleInit, RingInit
<1>3. InDriver
  BY <1>2 DEF InDriver, Writing, Reading
<1>4. coming = <<>>
  <2>1. handed = <<>> /\ rxWaiting = 0
    BY <1>2 DEF handed, rxWaiting, Reading
  <2>2. rxQueue = <<>>
    BY <1>1, <2>1, RxQueueTyping, EmptySeq DEF ConsoleInv
  <2>3. <<>> \o <<>> = <<>>
    BY ConcatEmptySeq, EmptySeq
  <2> QED
    BY <1>2, <2>1, <2>2, <2>3 DEF coming, arrived
<1>5. Ended
  BY <1>2, <1>4 DEF Ended
<1>6. NoReturn
  BY <1>2, <1>4 DEF NoReturn, Lacks
<1>7. LineUnderWay
  BY <1>2 DEF LineUnderWay
<1> QED
  BY <1>1, <1>3, <1>5, <1>6, <1>7 DEF AnswerInv

LEMMA InDriverStep ==
    ASSUME ConsoleInv, ConsoleInv', InDriver, [ConsoleNext]_consoleVars
    PROVE  InDriver'
<1>1. CASE CLI_task \/ EndTask
  BY <1>1 DEF CLI_task, EndTask, InDriver, ringVars, txVars, Writing
<1>2. CASE Read
  BY <1>2 DEF Read, ReadMove, ReadCount, cliVars, InDriver, Writing
<1>3. CASE Consume
  <2>1. pc' = "out" /\ cli = "loop"
    BY <1>3 DEF Consume, ReadReturn
  <2>2. (cli' = cli /\ out' = out) \/ \E text : PrintText(text)
    BY <1>3 DEF Consume, StoreChar, EndLine
  <2> QED
    BY <2>1, <2>2 DEF InDriver, PrintText, Writing, Reading
<1>4. CASE Write
  <2>1. Head(out) \in Bytes
    BY <1>4 DEF Write, ConsoleInv, ConsoleTypeOK
  <2>2. CASE WriteStore(Head(out)) /\ UNCHANGED <<cli, out>>
    <3>1. txbuf'[txHead'] = Head(out)
      BY <2>1, <2>2, TxStored DEF ConsoleInv
    <3> QED
      BY <1>4, <2>2, <3>1 DEF Write, WriteStore, InDriver, Reading
  <2>3. CASE WriteCount /\ UNCHANGED <<cli, out>>
    BY <1>4, <2>3 DEF Write, WriteCount, InDriver, Reading
  <2>4. CASE WriteEnable /\ PrintText(Tail(out))
    BY <1>4, <2>4 DEF Write, WriteEnable, PrintText, InDriver, Reading, Writing
  <2> QED
    BY <1>4, <2>2, <2>3, <2>4 DEF Write
<1>5. CASE (\E text \in Texts : TypeLine(text)) \/ UNCHANGED consoleVars
  BY <1>5 DEF TypeLine, consoleVars, ringVars, txVars, cliVars, InDriver
<1>6. CASE Receive
  BY <1>6 DEF Receive, DefaultRxIsrCb, txVars, cliVars, InDriver
<1>7. CASE Transmit \/ Show
  BY <1>7 DEF Transmit, Show, DefaultTxIsrCb, Shift, cliVars, InDriver
<1> QED
  BY <1>1, <1>2, <1>3, <1>4, <1>5, <1>6, <1>7 DEF ConsoleNext, Main

\* The first of two or more bytes is not the last.
LEMMA LastOfRest ==
    ASSUME NEW S, NEW e \in S, NEW q \in Seq(S), NEW s, s = <<e>> \o q
    PROVE  /\ s # <<>> /\ s[1] = e
           /\ q = <<>> => s[Len(s)] = e
           /\ q # <<>> => s[Len(s)] = q[Len(q)]
           /\ \A i \in 1 .. Len(q) : i + 1 \in 1 .. Len(s) /\ s[i + 1] = q[i]
           /\ 1 \in 1 .. Len(s)
<1>1. <<e>> \in Seq(S) /\ Len(<<e>>) = 1 /\ <<e>>[1] = e
  OBVIOUS
<1>2. Len(q) \in Nat
  BY LenProperties
<1>3. /\ Len(s) = 1 + Len(q)
      /\ \A i \in 1 .. 1 + Len(q) : s[i] = IF i <= 1 THEN <<e>>[i] ELSE q[i - 1]
  BY <1>1, ConcatProperties
<1>4. s # <<>> /\ s[1] = e /\ 1 \in 1 .. Len(s)
  BY <1>1, <1>2, <1>3
<1>5. q = <<>> => s[Len(s)] = e
  BY <1>1, <1>3
<1>6. q # <<>> => s[Len(s)] = q[Len(q)]
  BY <1>1, LastOfConcat
<1>7. \A i \in 1 .. Len(q) : i + 1 \in 1 .. Len(s) /\ s[i + 1] = q[i]
  BY <1>2, <1>3
<1> QED
  BY <1>4, <1>5, <1>6, <1>7

LEMMA EndedStep ==
    ASSUME ConsoleInv, ConsoleInv', InDriver, InDriver', Ended, [ConsoleNext]_consoleVars
    PROVE  Ended'
<1>1. CASE CLI_task \/ EndTask \/ Read \/ Write \/ Transmit \/ Show
           \/ UNCHANGED consoleVars
  <2>1. coming' = coming /\ UNCHANGED <<typing, sure>>
    BY <1>1, ComingKept
  <2>2. UNCHANGED <<command, commandTooLongFlag>>
    BY <1>1 DEF CLI_task, EndTask, Read, Write, Transmit, Show, consoleVars, cliVars
  <2> QED
    BY <2>1, <2>2 DEF Ended
<1>2. CASE Consume
  <2>1. /\ coming = <<ByteRead>> \o coming'
        /\ ByteRead \in Bytes /\ coming' \in Seq(Bytes)
        /\ UNCHANGED <<typing, sure>>
    BY <1>2, ComingConsumed
  <2>2. /\ coming # <<>>
        /\ coming' = <<>> => coming[Len(coming)] = ByteRead
        /\ coming' # <<>> => coming[Len(coming)] = coming'[Len(coming')]
    BY <2>1, LastOfRest
  <2>3. ASSUME ByteRead \in Ends PROVE command' = <<>> /\ ~commandTooLongFlag'
    BY <1>2, <2>3 DEF Consume, StoreChar, EndLine
  <2> QED
    BY <2>1, <2>2, <2>3 DEF Ended
<1>3. ASSUME NEW text \in Texts, TypeLine(text) PROVE Ended'
  <2>1. coming' = arrived \o (text \o EndOfLine[terminal])
    BY <1>3, ComingTyped
  <2>2. terminal \in DOMAIN EndOfLine
    BY DEF ConsoleInv, ConsoleTypeOK
  <2>3. /\ text \in Seq(Bytes)
        /\ EndOfLine[terminal] \in Seq(Bytes) /\ EndOfLine[terminal] # <<>>
        /\ EndOfLine[terminal][Len(EndOfLine[terminal])] \in Ends
    BY <2>2, LinesEnd
  <2> DEFINE s == text \o EndOfLine[terminal]
  <2>4. s \in Seq(Bytes) /\ s # <<>> /\ s[Len(s)] \in Ends
    BY <2>3, LastOfConcat, ConcatProperties
  <2> HIDE DEF s
  <2>5. arrived \o s # <<>> /\ (arrived \o s)[Len(arrived \o s)] \in Ends
    BY <2>4, AnswerTyping, LastOfConcat
  <2> QED
    BY <2>1, <2>5 DEF Ended, s
<1>4. CASE Receive
  <2>1. /\ typing # <<>> /\ typing' = Tail(typing)
        /\ UNCHANGED <<command, commandTooLongFlag>>
        /\ \/ coming' = coming /\ sure' # "unended"
           \/ coming' = arrived \o Tail(typing) /\ sure' = "unended"
    BY <1>4, ComingReceived DEF cliVars
  <2>2. CASE coming' = coming /\ sure' # "unended"
    BY <2>1, <2>2 DEF Ended
  <2>3. CASE coming' = arrived \o Tail(typing) /\ sure' = "unended"
    <3>1. ASSUME Tail(typing) # <<>>
          PROVE  coming' # <<>> /\ coming'[Len(coming')] \in Ends
      <4>1. arrived \in Seq(Bytes) /\ typing \in Seq(Bytes) /\ Tail(typing) \in Seq(Bytes)
            /\ Head(typing) \in Bytes
        BY <2>1, AnswerTyping, HeadTailProperties
      <4>2. coming # <<>> /\ coming[Len(coming)] = typing[Len(typing)]
        BY <2>1, <4>1, LastOfConcat DEF coming
      <4>3. typing = <<Head(typing)>> \o Tail(typing)
        BY <2>1, <4>1, FirstAndRest
      <4>4. typing[Len(typing)] = Tail(typing)[Len(Tail(typing))]
        BY <3>1, <4>1, <4>3, LastOfRest
      <4>5. coming' # <<>> /\ coming'[Len(coming')] = Tail(typing)[Len(Tail(typing))]
        BY <2>3, <3>1, <4>1, LastOfConcat
      <4> QED
        BY <2>1, <4>2, <4>4, <4>5 DEF Ended
    <3> QED
      BY <2>1, <2>3, <3>1 DEF Ended
  <2> QED
    BY <2>1, <2>2, <2>3
<1> QED
  BY <1>1, <1>2, <1>3, <1>4 DEF ConsoleNext, Main

LEMMA LacksConcat ==
    ASSUME NEW S, NEW s \in Seq(S), NEW t \in Seq(S), NEW e
    PROVE  Lacks(s \o t, e) <=> Lacks(s, e) /\ Lacks(t, e)
<1>1. Len(s) \in Nat /\ Len(t) \in Nat
  BY LenProperties
<1>2. /\ Len(s \o t) = Len(s) + Len(t)
      /\ \A i \in 1 .. Len(s) + Len(t) :
            (s \o t)[i] = IF i <= Len(s) THEN s[i] ELSE t[i - Len(s)]
  BY ConcatProperties
<1>3. ASSUME Lacks(s \o t, e) PROVE Lacks(s, e)
  BY <1>1, <1>2, <1>3 DEF Lacks
<1>4. ASSUME Lacks(s \o t, e), NEW i \in 1 .. Len(t) PROVE t[i] # e
  <2>1. Len(s) + i \in 1 .. Len(s \o t) /\ ~(Len(s) + i <= Len(s))
        /\ (Len(s) + i) - Len(s) = i
    BY <1>1, <1>2
  <2>2. (s \o t)[Len(s) + i] = t[i]
    BY <1>2, <2>1
  <2> QED
    BY <1>4, <2>1, <2>2 DEF Lacks
<1>5. ASSUME Lacks(s, e), Lacks(t, e) PROVE Lacks(s \o t, e)
  BY <1>1, <1>2, <1>5 DEF Lacks
<1> QED
  BY <1>3, <1>4, <1>5 DEF Lacks

LEMMA NoReturnStep ==
    ASSUME ConsoleInv, ConsoleInv', InDriver, InDriver', NoReturn, [ConsoleNext]_consoleVars
    PROVE  NoReturn'
<1>1. CASE CLI_task \/ EndTask \/ Read \/ Write \/ Transmit \/ Show
           \/ UNCHANGED consoleVars
  <2>1. coming' = coming /\ UNCHANGED terminal
    BY <1>1, ComingKept
  <2>2. UNCHANGED test
    BY <1>1 DEF CLI_task, EndTask, Read, Write, Transmit, Show, consoleVars, cliVars
  <2> QED
    BY <2>1, <2>2 DEF NoReturn
<1>2. CASE Consume
  <2>1. /\ coming = <<ByteRead>> \o coming'
        /\ ByteRead \in Bytes /\ coming' \in Seq(Bytes)
        /\ UNCHANGED terminal
    BY <1>2, ComingConsumed
  <2>2. /\ coming[1] = ByteRead /\ 1 \in 1 .. Len(coming)
        /\ \A i \in 1 .. Len(coming') : i + 1 \in 1 .. Len(coming) /\ coming[i + 1] = coming'[i]
    BY <2>1, LastOfRest
  <2>3. test' \in {test, "none", ByteRead}
    BY <1>2 DEF Consume, StoreChar, EndLine
  <2> QED
    BY <2>1, <2>2, <2>3 DEF NoReturn, Lacks
<1>3. ASSUME NEW text \in Texts, TypeLine(text), terminal = "LF" PROVE NoReturn'
  <2>1. coming' = arrived \o (text \o EndOfLine[terminal]) /\ coming = arrived
        /\ test' = test
    BY <1>3, ComingTyped DEF cliVars
  <2>2. terminal \in DOMAIN EndOfLine
    BY DEF ConsoleInv, ConsoleTypeOK
  <2>3. /\ text \in Seq(Bytes \ Ends) /\ text \in Seq(Bytes)
        /\ EndOfLine[terminal] = <<"LF">> /\ <<"LF">> \in Seq(Bytes)
    BY <1>3, <2>2, LinesEnd
  <2>4. Lacks(text, "CR")
    BY <2>3, ElementOfSeq DEF Ends, Lacks
  <2>5. Lacks(<<"LF">>, "CR")
    BY DEF Lacks
  <2> DEFINE s == text \o <<"LF">>
  <2>6. s \in Seq(Bytes) /\ Lacks(s, "CR")
    BY <2>3, <2>4, <2>5, LacksConcat, ConcatProperties
  <2> HIDE DEF s
  <2>7. test # "CR" /\ Lacks(arrived, "CR")
    BY <1>3, <2>1 DEF NoReturn
  <2>8. Lacks(arrived \o s, "CR")
    BY <2>6, <2>7, AnswerTyping, LacksConcat
  <2>9. coming' = arrived \o s
    BY <2>1, <2>3 DEF s
  <2> QED
    BY <2>1, <2>7, <2>8, <2>9 DEF NoReturn
<1>4. ASSUME NEW text \in Texts, TypeLine(text), terminal # "LF" PROVE NoReturn'
  BY <1>4 DEF TypeLine, NoReturn
<1>5. CASE Receive
  <2>1. /\ typing # <<>> /\ UNCHANGED <<terminal, test>>
        /\ coming' = coming \/ coming' = arrived \o Tail(typing)
    BY <1>5, ComingReceived DEF cliVars
  <2>2. arrived \in Seq(Bytes) /\ typing \in Seq(Bytes) /\ Tail(typing) \in Seq(Bytes)
        /\ Head(typing) \in Bytes
    BY <2>1, AnswerTyping, HeadTailProperties
  <2>3. ASSUME Lacks(coming, "CR")
        PROVE  Lacks(coming', "CR")
    <3>1. Lacks(arrived, "CR") /\ Lacks(typing, "CR")
      BY <2>2, <2>3, LacksConcat DEF coming
    <3>2. typing = <<Head(typing)>> \o Tail(typing)
      BY <2>1, <2>2, FirstAndRest
    <3>3. <<Head(typing)>> \in Seq(Bytes)
      BY <2>2
    <3>4. Lacks(Tail(typing), "CR")
      BY <2>2, <3>1, <3>2, <3>3, LacksConcat
    <3>5. Lacks(arrived \o Tail(typing), "CR")
      BY <2>2, <3>1, <3>4, LacksConcat
    <3> QED
      BY <2>1, <2>3, <3>5
  <2> QED
    BY <2>1, <2>3 DEF NoReturn
<1> QED
  BY <1>1, <1>2, <1>3, <1>4, <1>5 DEF ConsoleNext, Main

-----------------------------------------------------------------------------
LEMMA AskingKept ==
    ASSUME Asking, cli' = "loop" => ~cmd_rcvd',
           UNCHANGED <<command, coming, line, terminal, commandTooLongFlag, out, shown>>,
           UNCHANGED <<txElements, txData>>
    PROVE  Asking'
BY DEF Asking

LEMMA AnsweringKept ==
    ASSUME Answering, UNCHANGED <<command, coming, line, test, commandTooLongFlag>>,
           going' = going
    PROVE  Answering'
BY DEF Answering

\* A step of a character's way through the device moves it from one part of going to
\* the next.
LEMMA GoingKept ==
    ASSUME ConsoleInv, ConsoleInv', InDriver, InDriver', sure = "sure",
           CLI_task \/ EndTask \/ Read \/ Write \/ Transmit \/ Show \/ Receive
    PROVE  going' = going
<1> USE DEF ConsoleInv
<1>1. shown \in Seq(Bytes) /\ leaving \in Seq(Bytes) /\ rest \in Seq(Bytes)
  BY AnswerTyping
<1>2. CASE CLI_task \/ EndTask \/ Read \/ Receive
  <2>1. UNCHANGED <<txVars, shown, out>> /\ (pc = "counted" <=> pc' = "counted")
    BY <1>2 DEF CLI_task, EndTask, Read, ReadMove, ReadCount, Receive, DefaultRxIsrCb,
                ringVars, cliVars, terminalVars
  <2> QED
    BY <2>1, LeavingKept DEF going, rest
<1>3. CASE Write
  <2>1. out # <<>> /\ shown' = shown /\ out \in Seq(Bytes)
    BY <1>3 DEF Write, ConsoleTypeOK, terminalVars
  <2>2. Head(out) \in Bytes /\ Tail(out) \in Seq(Bytes)
    BY <2>1, HeadTailProperties
  <2>3. CASE WriteStore(Head(out)) /\ UNCHANGED <<cli, out>>
    BY <2>1, <2>2, <2>3, LeavingKept DEF going, rest, WriteStore
  <2>4. CASE WriteCount /\ UNCHANGED <<cli, out>>
    <3>1. pc = "stored" /\ pc' = "counted"
      BY <2>4 DEF WriteCount
    <3>2. leaving' = Append(leaving, Head(out))
      BY <2>4, <3>1, LeavingGrows DEF InDriver
    <3>3. rest = out /\ rest' = Tail(out)
      BY <2>4, <3>1 DEF rest
    <3>4. shown \o Append(leaving, Head(out)) = Append(shown \o leaving, Head(out))
      BY <1>1, <2>2, AppendConcat
    <3> DEFINE s == shown \o leaving
    <3>5. s \in Seq(Bytes)
      BY <1>1, ConcatProperties
    <3> HIDE DEF s
    <3>6. Append(s, Head(out)) \o Tail(out) = s \o (<<Head(out)>> \o Tail(out))
      BY <2>2, <3>5, AppendConcat
    <3>7. <<Head(out)>> \o Tail(out) = out
      BY <2>1, FirstAndRest
    <3> QED
      BY <2>1, <3>2, <3>3, <3>4, <3>6, <3>7 DEF going, s
  <2>5. CASE WriteEnable /\ PrintText(Tail(out))
    BY <2>1, <2>5, LeavingKept DEF going, rest, WriteEnable, PrintText
  <2> QED
    BY <1>3, <2>3, <2>4, <2>5 DEF Write
<1>4. CASE Transmit
  BY <1>4, LeavingKept DEF Transmit, DefaultTxIsrCb, going, rest, cliVars, terminalVars
<1>5. CASE Show
  <2>1. Shift /\ shown' = Append(shown, txData) /\ UNCHANGED <<pc, out>>
    BY <1>5 DEF Show, Shift, cliVars
  <2>2. leaving = <<txData>> \o leaving' /\ txData \in Bytes
    BY <2>1, LeavingSent
  <2>3. leaving' \in Seq(Bytes)
    BY AnswerTypingNext
  <2>4. Append(shown, txData) \o leaving' = shown \o (<<txData>> \o leaving')
    BY <1>1, <2>2, <2>3, AppendConcat
  <2>5. rest' = rest
    BY <2>1 DEF rest
  <2> QED
    BY <2>1, <2>2, <2>4, <2>5 DEF going
<1> QED
  BY <1>2, <1>3, <1>4, <1>5

\* While a line is asked, CLI_task stores its characters and then runs it.
LEMMA AskingConsumed ==
    ASSUME AnswerInv, ConsoleInv', InDriver', Consume, Asking, Len(line) < MAX_COMMAND_SIZE
    PROVE  Asking' \/ Answering'
<1> USE DEF AnswerInv
<1>1. /\ coming = <<ByteRead>> \o coming'
      /\ ByteRead \in Bytes /\ coming' \in Seq(Bytes)
      /\ UNCHANGED <<terminal, line, shown, txVars>>
      /\ cli = "loop" /\ pc' = "out"
  BY ComingConsumed
<1>2. terminal \in DOMAIN EndOfLine /\ line \in Texts /\ command \in Seq(Bytes \ Ends)
      /\ command \in Seq(Bytes)
  BY AnswerTyping DEF ConsoleInv, ConsoleTypeOK
<1>3. PICK c \in Ends, q \in Seq(Bytes) :
         /\ EndOfLine[terminal] = <<c>> \o q /\ c \in Bytes
         /\ q = <<>> \/ (q = <<"LF">> /\ c = "CR")
         /\ terminal = "LF" <=> c = "LF"
  BY <1>2, LinesEnd
<1>4. line \in Seq(Bytes \ Ends)
  BY <1>2, LinesEnd
<1>5. command \o coming = line \o EndOfLine[terminal]
  BY DEF Asking
<1>6. /\ ByteRead \in Ends => command = line /\ ByteRead = c /\ coming' = q
      /\ ByteRead \notin Ends => Len(command) < Len(line)
  BY <1>1, <1>2, <1>3, <1>4, <1>5, FirstEnd
<1>7. /\ ~commandTooLongFlag /\ ~cmd_rcvd /\ out = <<>> /\ shown = <<>>
      /\ txElements = 0 /\ txData = NoByte
  BY <1>1 DEF Asking
<1>8. CASE StoreChar(ByteRead)
  <2>1. ByteRead \notin Ends /\ UNCHANGED <<cli, test, cmd_rcvd, out>>
    BY <1>8 DEF StoreChar
  <2>2. Len(command) < MAX_COMMAND_SIZE
    <3>1. Len(command) \in Nat /\ Len(line) \in Nat
      BY <1>2, <1>4, LenProperties
    <3> QED
      BY <1>6, <2>1, <3>1, ConsoleAssumption
  <2>3. command' = Append(command, ByteRead) /\ commandTooLongFlag' = commandTooLongFlag
    BY <1>8, <2>2 DEF StoreChar
  <2>4. command' \o coming' = command \o (<<ByteRead>> \o coming')
    BY <1>1, <1>2, <2>3, AppendConcat
  <2>5. command' \o coming' = line' \o EndOfLine[terminal']
    BY <1>1, <1>3, <1>5, <2>4
  <2> QED
    BY <1>1, <1>7, <2>1, <2>3, <2>5 DEF Asking, txVars
<1>9. ASSUME NEW victim \in Victims, EndLine(ByteRead, victim) PROVE Answering'
  <2>1. ByteRead \in Ends
    BY <1>9 DEF EndLine
  <2>2. command = line /\ ByteRead = c /\ coming' = q
    BY <1>6, <2>1
  <2>3. victim = "none"
    BY <2>2, <1>9 DEF Victims
  <2>4. endOfLineTest(ByteRead, test)
    BY <1>3, <2>2 DEF endOfLineTest, NoReturn
  <2>5. /\ PrintText(command_received(command)) /\ test' = ByteRead
        /\ command' = <<>> /\ commandTooLongFlag' = FALSE
    BY <1>7, <1>9, <2>3, <2>4 DEF EndLine
  <2>6. coming' = <<>> \/ (coming' = <<"LF">> /\ test' = "CR")
    BY <1>3, <2>2, <2>5
  <2>7. going' = command_received(line')
    <3>1. rest' = command_received(line)
      BY <1>1, <2>2, <2>5 DEF PrintText, rest
    <3>2. sending = <<>>
      BY <1>7 DEF sending
    <3>3. txQueue = <<>>
      BY <1>7, TxQueueTyping, EmptySeq DEF ConsoleInv
    <3>4. leaving = <<>>
      BY <3>2, <3>3, EmptySeq, ConcatEmptySeq DEF leaving
    <3>5. leaving' = leaving
      BY <1>1, LeavingKept DEF ConsoleInv
    <3>6. <<>> \o <<>> = <<>>
      BY EmptySeq, ConcatEmptySeq
    <3>7. <<>> \o rest' = rest'
      BY AnswerTypingNext, ConcatEmptySeq
    <3> QED
      BY <1>1, <1>7, <3>1, <3>4, <3>5, <3>6, <3>7 DEF going
  <2> QED
    BY <2>5, <2>6, <2>7 DEF Answering
<1> QED
  BY <1>8, <1>9 DEF Consume

\* After it, CLI_task skips the LF of a CR LF.
LEMMA AnsweringConsumed ==
    ASSUME AnswerInv, ConsoleInv', InDriver', Consume, Answering
    PROVE  Answering'
<1> USE DEF AnswerInv
<1>1. /\ coming = <<ByteRead>> \o coming'
      /\ ByteRead \in Bytes /\ coming' \in Seq(Bytes)
      /\ UNCHANGED <<line, shown, txVars>>
      /\ cli = "loop" /\ pc' = "out" /\ pc = "recounted"
  BY ComingConsumed DEF Consume, ReadReturn
<1>2. coming = <<"LF">> /\ test = "CR" /\ command = <<>> /\ ~commandTooLongFlag
  BY <1>1, LastOfRest DEF Answering
<1>3. ByteRead = "LF" /\ coming' = <<>>
  <2>1. coming[1] = ByteRead
    BY <1>1, LastOfRest
  <2>2. Len(coming) = 1
    BY <1>2
  <2>3. <<ByteRead>> \in Seq(Bytes) /\ Len(<<ByteRead>>) = 1
    BY <1>1
  <2>4. Len(coming) = 1 + Len(coming')
    BY <1>1, <2>3, ConcatProperties
  <2> QED
    BY <1>1, <1>2, <2>1, <2>2, <2>4, EmptySeq
<1>4. PICK victim \in Victims : EndLine("LF", victim)
  BY <1>3 DEF Consume, StoreChar, Ends
<1>5. victim = "none"
  <2>1. Len(command) < MAX_COMMAND_SIZE
    BY <1>2, ConsoleAssumption
  <2> QED
    BY <2>1 DEF Victims
<1>6. PrintText(<<>>) /\ command' = <<>> /\ commandTooLongFlag' = FALSE
  BY <1>2, <1>4, <1>5 DEF EndLine, endOfLineTest
<1>7. out = <<>> /\ out' = <<>>
  BY <1>1, <1>6 DEF InDriver, PrintText
<1>8. leaving' = leaving
  BY <1>1, LeavingKept DEF ConsoleInv
<1>9. going' = going
  BY <1>1, <1>7, <1>8 DEF going, rest
<1> QED
  BY <1>1, <1>3, <1>6, <1>9 DEF Answering

LEMMA LineUnderWayStep ==
    ASSUME AnswerInv, ConsoleInv', InDriver', [ConsoleNext]_consoleVars
    PROVE  LineUnderWay'
<1> USE DEF AnswerInv
<1> SUFFICES ASSUME sure' = "sure", Len(line') < MAX_COMMAND_SIZE
             PROVE  Asking' \/ Answering'
  BY DEF LineUnderWay
<1>1. CASE CLI_task \/ EndTask \/ Read \/ Write \/ Transmit \/ Show
  <2>1. coming' = coming /\ UNCHANGED <<terminal, line, sure>>
    BY <1>1, ComingKept
  <2>2. Asking \/ Answering
    BY <2>1 DEF LineUnderWay
  <2>3. UNCHANGED <<command, commandTooLongFlag, test>>
    BY <1>1 DEF CLI_task, EndTask, Read, Write, Transmit, Show, cliVars
  <2>4. ASSUME Answering PROVE Answering'
    <3>1. going' = going
      BY <1>1, <2>1, GoingKept
    <3> QED
      BY <2>1, <2>3, <2>4, <3>1, AnsweringKept
  <2>5. ASSUME Asking PROVE Asking'
    <3>1. ~Write /\ ~Show
      BY <2>5 DEF Asking, Write, Show, Shift, ConsoleInv
    <3>2. UNCHANGED <<out, shown, txElements, txData>>
      BY <1>1, <2>5, <3>1 DEF Asking, CLI_task, EndTask, Read, ReadMove, ReadCount, Transmit,
         DefaultTxIsrCb, ringVars, txVars, cliVars, terminalVars
    <3>3. cli' = "loop" => ~cmd_rcvd'
      BY <1>1, <2>5, <3>1 DEF Asking, CLI_task, EndTask, Read, Transmit, cliVars
    <3> QED
      BY <2>1, <2>3, <2>5, <3>2, <3>3, AskingKept
  <2> QED
    BY <2>2, <2>4, <2>5
<1>2. CASE Consume
  <2>1. UNCHANGED <<line, sure>>
    BY <1>2 DEF Consume, terminalVars
  <2> QED
    BY <1>2, <2>1, AskingConsumed, AnsweringConsumed DEF LineUnderWay
<1>3. ASSUME NEW text \in Texts, TypeLine(text) PROVE Asking'
  <2>1. /\ coming' = arrived \o (text \o EndOfLine[terminal]) /\ coming = arrived
        /\ UNCHANGED <<ringVars, cliVars, terminal>> /\ shown' = <<>>
        /\ Quiet /\ sure # "unended" /\ line' = text /\ coming = <<>> /\ out = <<>>
    BY <1>3, ComingTyped
  <2>2. command = <<>> /\ ~commandTooLongFlag
    BY <2>1 DEF Ended
  <2>3. cli = "idle" /\ txElements = 0 /\ txData = NoByte
    BY <2>1 DEF Quiet
  <2> DEFINE s == text \o EndOfLine[terminal]
  <2>4. s \in Seq(Bytes)
    BY LinesEnd, ConcatProperties DEF ConsoleInv, ConsoleTypeOK
  <2> HIDE DEF s
  <2>5. <<>> \o s = s
    BY <2>4, ConcatEmptySeq
  <2>6. <<>> \o (<<>> \o s) = s
    BY <2>5
  <2>7. command' \o coming' = line' \o EndOfLine[terminal']
    BY <2>1, <2>2, <2>6 DEF s, cliVars
  <2> QED
    BY <2>1, <2>2, <2>3, <2>7 DEF Asking, cliVars, ringVars, txVars
<1>4. CASE Receive
  <2>1. /\ UNCHANGED <<cliVars, txVars, pc, terminal, line, shown>>
        /\ coming' = coming /\ sure = "sure"
    BY <1>4, ComingReceived
  <2>2. Asking \/ Answering
    BY <2>1 DEF LineUnderWay
  <2>3. going' = going
    BY <1>4, <2>1, GoingKept
  <2>4. ASSUME Asking PROVE Asking'
    BY <2>1, <2>4, AskingKept DEF Asking, cliVars, txVars
  <2>5. ASSUME Answering PROVE Answering'
    BY <2>1, <2>3, <2>5, AnsweringKept DEF cliVars
  <2> QED
    BY <2>2, <2>4, <2>5
<1>5. CASE UNCHANGED consoleVars
  <2>1. coming' = coming /\ UNCHANGED <<terminal, line, sure>>
    BY <1>5, ComingKept
  <2>2. Asking \/ Answering
    BY <2>1 DEF LineUnderWay
  <2>3. /\ UNCHANGED <<command, commandTooLongFlag, test, cli, cmd_rcvd, out, shown, pc>>
        /\ UNCHANGED txVars
    BY <1>5 DEF consoleVars, cliVars, terminalVars, ringVars
  <2>4. going' = going
    BY <2>3, LeavingKept DEF going, rest, ConsoleInv
  <2>5. ASSUME Asking PROVE Asking'
    BY <2>1, <2>3, <2>5, AskingKept DEF Asking, txVars
  <2>6. ASSUME Answering PROVE Answering'
    BY <2>1, <2>3, <2>4, <2>6, AnsweringKept
  <2> QED
    BY <2>2, <2>5, <2>6
<1> QED
  BY <1>1, <1>2, <1>3, <1>4, <1>5 DEF ConsoleNext, Main

LEMMA AnswerStepInv == AnswerInv /\ [ConsoleNext]_consoleVars => AnswerInv'
<1> SUFFICES ASSUME AnswerInv, [ConsoleNext]_consoleVars PROVE AnswerInv'
  OBVIOUS
<1>1. ConsoleInv'
  BY ConsoleStepInv DEF AnswerInv
<1>2. InDriver'
  BY <1>1, InDriverStep DEF AnswerInv
<1>3. Ended'
  BY <1>1, <1>2, EndedStep DEF AnswerInv
<1>4. NoReturn'
  BY <1>1, <1>2, NoReturnStep DEF AnswerInv
<1>5. LineUnderWay'
  BY <1>1, <1>2, LineUnderWayStep
<1> QED
  BY <1>1, <1>2, <1>3, <1>4, <1>5 DEF AnswerInv

\* When the device is quiet, nothing of the line is left to ask and all of its answer is
\* shown.
LEMMA QuietAnswers == AnswerInv => LineAnswered
<1> SUFFICES ASSUME AnswerInv, Quiet, sure = "sure", Len(line) < MAX_COMMAND_SIZE
             PROVE  shown = command_received(line)
  BY DEF LineAnswered
<1> USE DEF AnswerInv
<1>1. Asking \/ Answering
  BY DEF LineUnderWay
<1>2. typing = <<>> /\ txData = NoByte /\ rxElements = 0 /\ txElements = 0 /\ cli = "idle"
  BY DEF Quiet
<1>3. pc = "out" /\ out = <<>>
  BY <1>2 DEF InDriver
<1>4. coming = <<>>
  <2>1. handed = <<>> /\ rxWaiting = 0
    BY <1>2, <1>3 DEF handed, rxWaiting, Reading
  <2>2. rxQueue = <<>>
    BY <2>1, RxQueueTyping, EmptySeq DEF ConsoleInv
  <2>3. <<>> \o <<>> = <<>>
    BY ConcatEmptySeq, EmptySeq
  <2> QED
    BY <1>2, <2>1, <2>2, <2>3 DEF coming, arrived
<1>5. going = shown
  <2>1. sending = <<>>
    BY <1>2 DEF sending
  <2>2. txQueue = <<>>
    BY <1>2, TxQueueTyping, EmptySeq DEF ConsoleInv
  <2>3. <<>> \o <<>> = <<>> /\ shown \o <<>> = shown
    BY AnswerTyping, ConcatEmptySeq, EmptySeq
  <2>4. leaving = <<>> /\ rest = <<>>
    BY <1>3, <2>1, <2>2, <2>3 DEF leaving, rest
  <2> QED
    BY <2>3, <2>4 DEF going
<1>6. ~Asking
  <2> SUFFICES ASSUME Asking PROVE FALSE
    OBVIOUS
  <2>1. terminal \in DOMAIN EndOfLine /\ line \in Texts /\ command \in Seq(Bytes \ Ends)
        /\ command \in Seq(Bytes)
    BY AnswerTyping DEF ConsoleInv, ConsoleTypeOK
  <2>2. /\ line \in Seq(Bytes) /\ EndOfLine[terminal] \in Seq(Bytes)
        /\ EndOfLine[terminal] # <<>>
        /\ EndOfLine[terminal][Len(EndOfLine[terminal])] \in Ends
    BY <2>1, LinesEnd
  <2>3. command = line \o EndOfLine[terminal]
    BY <1>4, <2>1, ConcatEmptySeq DEF Asking
  <2>4. command # <<>> /\ command[Len(command)] \in Ends
    BY <2>2, <2>3, LastOfConcat
  <2>5. Len(command) \in 1 .. Len(command)
    BY <2>1, <2>4, EmptySeq
  <2> QED
    BY <2>1, <2>4, <2>5, ElementOfSeq
<1> QED
  BY <1>1, <1>5, <1>6 DEF Answering

\* CLI_task and the rings keep AnswerInv: from the typing of a line to the last byte of its
\* answer nothing of either is lost.
THEOREM AnswerInvariant == ConsoleSpec => []AnswerInv
BY AnswerInitInv, AnswerStepInv, PTL DEF ConsoleSpec

\* A line shorter than the buffer that is typed to an idle device and accepted whole is
\* answered once and by its own command: for every size of the buffer and of the rings,
\* every set of commands, and every text of an answer, however long.
THEOREM LineAnsweredHolds == ConsoleSpec => []LineAnswered
BY QuietAnswers, AnswerInvariant, PTL

=============================================================================
