------------------------------- MODULE GAZLCmd -------------------------------
(***************************************************************************)
(* The command line tool's natives: they print and read the program's      *)
(* memory through the checked accessors, set the budget back to the        *)
(* maximum, and end the program.                                           *)
(***************************************************************************)
EXTENDS GAZLHost

CONSTANT MaxFuel   \* 0x7FFFFFFF, or a bound on it

\* What a job has for std::cin: lines of words.
ASSUME LinesAssumption == \A j \in DOMAIN Jobs : Jobs[j].lines \in Seq(Seq(Word))

VARIABLE console   \* the lines still to be read, and what has been printed

ConsoleInit == console = [lines |-> Task.lines, printed |-> <<>>]

Prints(words) == console' = [console EXCEPT !.printed = @ \o words]

\* The natives that set the budget back to the maximum before anything else.
Refueling == {"printInt", "printFloat", "print", "printLF", "input"}

Refuel ==
  /\ InNative(Refueling) /\ InPlace("start")
  /\ ResetTimeOut(MaxFuel)
  /\ Continues("refueled")
  /\ UNCHANGED <<memory, console>>

Begun == InPlace(IF native \in Refueling THEN "refueled" ELSE "start")

Param(n) == memory[accessParams(n + 1) + n]

-----------------------------------------------------------------------------
(***************************************************************************)
(* print checks one word only: the zero guard ends every string.  One that *)
(* ends there has no terminator of its own.                                *)
(***************************************************************************)
String == accessConstMemory(Param(1), 1)

Terminator ==
  CHOOSE cell \in String .. memorySize :
    memory[cell] = 0 /\ \A before \in String .. cell - 1 : memory[before] # 0

MayPrint == accessParams(2) # Refused /\ String # Refused

Printed == IF MayPrint THEN [i \in 1 .. Terminator - String |-> memory[String + i - 1]] ELSE <<>>

\* Mutant: a string that ends at the guard is like any other.
PrintStatusUnguarded ==
  IF accessParams(2) = Refused THEN "DATA_STACK_OVERFLOW"
  ELSE IF String = Refused THEN "ACCESS_VIOLATION"
  ELSE "OK"

PrintStatus ==
  IF accessParams(2) = Refused THEN "DATA_STACK_OVERFLOW"
  ELSE IF String = Refused THEN "ACCESS_VIOLATION"
  ELSE IF accessConstMemory(Plus(Param(1), Terminator - String), 1) = Refused THEN "ACCESS_VIOLATION"
  ELSE "OK"

PrintString == native = "print" /\ Prints(Printed) /\ Returns(PrintStatus) /\ UNCHANGED memory

\* assertFail prints, whatever that returns, and aborts; an assert() stops a debug build here.
AssertFail == native = "assertFail" /\ Prints(Printed) /\ ReturnsError("ABORTED") /\ UNCHANGED memory

PrintNumber ==
  /\ native \in {"printInt", "printFloat"}
  /\ \/ accessParams(2) = Refused /\ ReturnsError("DATA_STACK_OVERFLOW") /\ UNCHANGED console
     \/ accessParams(2) # Refused /\ Prints(<<Param(1)>>) /\ ReturnsOK
  /\ UNCHANGED memory

PrintLF == native = "printLF" /\ ReturnsOK /\ UNCHANGED <<memory, console>>

-----------------------------------------------------------------------------
(***************************************************************************)
(* input stores a line of at most so many characters and a terminator: the *)
(* count is a signed number of the program's, the words it asks for an     *)
(* unsigned one more.  The line is read before anything is checked.        *)
(***************************************************************************)
MaxCount == Signed(Param(1))

\* Mutant: no word asked for the terminator.
BufferWithoutTerminator == accessMemory(Param(2), ToWord(MaxCount))

Buffer == accessMemory(Param(2), ToWord(MaxCount + 1))

Line == IF console.lines = <<>> THEN <<>> ELSE Head(console.lines)

Stored == {i \in 1 .. Len(Line) : i <= MaxCount}

\* The characters, a zero, and how many they are in the native's first parameter.
Inputted(count) ==
  [cell \in Cell |->
     IF cell = accessParams(3) THEN count
     ELSE IF cell = Buffer + count THEN 0
     ELSE IF cell \in Buffer .. Buffer + count THEN Line[cell - Buffer + 1]
     ELSE memory[cell]]

Input ==
  /\ native = "input"
  /\ console' = [console EXCEPT !.lines = IF @ = <<>> THEN @ ELSE Tail(@)]
  /\ \/ accessParams(3) = Refused /\ ReturnsError("DATA_STACK_OVERFLOW") /\ UNCHANGED memory
     \/ accessParams(3) # Refused /\ Buffer = Refused /\ ReturnsError("ACCESS_VIOLATION") /\ UNCHANGED memory
     \/ /\ accessParams(3) # Refused /\ Buffer # Refused
        /\ memory' = Inputted(Cardinality(Stored))
        /\ ReturnsOK

-----------------------------------------------------------------------------
FloatNative ==
  /\ native \in {"sqrt", "log", "atan2"}
  /\ LET params == accessParams(IF native = "atan2" THEN 3 ELSE 2)
     IN  \/ params = Refused /\ ReturnsError("DATA_STACK_OVERFLOW") /\ UNCHANGED memory
         \/ /\ params # Refused
            /\ \E w \in FloatWords : Store(params, w)
            /\ ReturnsOK
  /\ UNCHANGED console

Ends ==
  /\ \/ native = "abort" /\ ReturnsError("ABORTED")
     \/ native = "exit" /\ ReturnsError("TERMINATED")
  /\ UNCHANGED <<memory, console>>

ToolNative ==
  \/ Refuel
  \/ /\ control = "native" /\ Begun
     /\ PrintString \/ AssertFail \/ PrintNumber \/ PrintLF \/ Input \/ FloatNative \/ Ends

-----------------------------------------------------------------------------
(***************************************************************************)
(* A program that reads a line into a buffer and prints it gets the line's *)
(* first characters, no more than it asked for, when every word of the     *)
(* buffer and one for the terminator is writable, and otherwise nothing:   *)
(* for every count it can pass, however large or negative.                 *)
(***************************************************************************)
Accepts(count, buffer) ==
  count >= -1 /\ \A cell \in buffer .. buffer + count : cell \in Writable

InputEchoed ==
  host.at = "done" /\ "echo" \in DOMAIN Task =>
    LET echo == Task.echo
        read == SubSeq(Task.lines[1], 1, Min({Len(Task.lines[1]), Max({echo.count, 0})}))
    IN  \/ /\ Accepts(echo.count, CellAt(echo.buffer))
           /\ host.status = "OK" /\ console.printed = read \o <<Len(read)>>
        \/ /\ ~Accepts(echo.count, CellAt(echo.buffer))
           /\ host.status = "ACCESS_VIOLATION" /\ console.printed = <<>>

(***************************************************************************)
(* What a native refuses, and nothing else, ends the program, with the     *)
(* status its check stands for, through however many natives and nested    *)
(* runs it has to come: a string without a terminator is printed as far as *)
(* memory goes and then refused, arguments and pushed frames that do not   *)
(* fit on the stack are, and so are calls entered on a full ip stack.      *)
(***************************************************************************)
ErrorsReported ==
  host.at = "done" /\ "error" \in DOMAIN Task =>
    host.status = Task.error /\ console.printed = Task.printed
=============================================================================
