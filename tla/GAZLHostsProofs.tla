--------------------------- MODULE GAZLHostsProofs ---------------------------
(***************************************************************************)
(* The two hosts and their natives keep to the Processor's interface and   *)
(* to the memory they ask for: for every program, native table, job and    *)
(* line of input.                                                          *)
(***************************************************************************)
EXTENDS GAZLHosts, GAZLMachineProofs, FiniteSetTheorems

-----------------------------------------------------------------------------
(***************************************************************************)
(* The inductive invariant: the machine's; the zero guard; and that each   *)
(* native in progress has a place of its own, where a run() it waited for  *)
(* has returned a status.                                                  *)
(***************************************************************************)
Place == [at : {"start", "refueled", "grant", "run", "returned"}, pushed : Nat]

Places ==
  /\ pcs \in Seq(Place)
  /\ Len(pcs) = Len(natives)
  /\ control = "native" /\ place.at = "returned" => result \in Statuses

ConsoleType == console \in [lines : Seq(Seq(Word)), printed : Seq(Word)]

Guarded == memory[memorySize] = 0

HInv ==
  /\ MInv
  /\ Guarded
  /\ job \in DOMAIN Jobs
  /\ Places
  /\ ConsoleType

-----------------------------------------------------------------------------
(***************************************************************************)
(* What a native is given.                                                 *)
(***************************************************************************)

\* A native's arguments start inside the data stack.
LEMMA NativeDsp ==
  ASSUME IInv, control = "native"
  PROVE  dsp \in Int /\ 0 <= dsp /\ dsp <= DataStackSize
<1> DEFINE n == Len(natives)
<1>1. n \in 1 .. n BY NativeRunning
<1>2. NativeState(n, ipsp, ip, dsp) /\ NativeNested(n) /\ TypeOK
  BY <1>1 DEF IInv, Executing, NativesNested
<1>3. natives[n].ip \in Address /\ natives[n].dsp \in Int
  BY <1>1, <1>2, NativeTypes
<1>4. ip \in Address /\ dsp \in Int BY <1>2 DEF TypeOK
<1>5. CASE FrameInside(ip, dsp) BY <1>4, <1>5, FrameRange
<1>6. CASE ip = natives[n].ip /\ dsp = natives[n].dsp + Code[ip].p1
  <2>1. FrameInside(natives[n].ip, natives[n].dsp) /\ Code[natives[n].ip].op \in Calls
    BY <1>2 DEF NativeNested, Calls
  <2>2. 0 <= natives[n].dsp + Code[natives[n].ip].p1 /\ natives[n].dsp + Code[natives[n].ip].p1 <= DataStackSize
    BY <1>3, <2>1, FrameWindow
  <2> QED BY <1>4, <1>6, <2>2
<1> QED BY <1>2, <1>5, <1>6 DEF NativeState

\* accessParams gives a native words of the data stack.
LEMMA ParamsInside ==
  ASSUME MInv, control = "native", NEW n \in Nat, accessParams(n) # Refused
  PROVE  /\ accessParams(n) = stackBase + dsp
         /\ \A i \in 0 .. n - 1 : stackBase + dsp + i \in Writable
<1>1. dsp \in Int /\ 0 <= dsp BY NativeDsp DEF MInv
<1>2. n <= DataStackSize - dsp /\ accessParams(n) = stackBase + dsp BY DEF accessParams
<1> QED BY <1>1, <1>2, MemoryTypes, MachineAssumption, HostAssumption DEF stackBase, Writable

\* So what they hold are words.
LEMMA ParamWords ==
  ASSUME MInv, control = "native", NEW n \in Nat, accessParams(n + 1) # Refused
  PROVE  Param(n) \in Word
<1>1. accessParams(n + 1) = stackBase + dsp /\ stackBase + dsp + n \in Writable
  BY ParamsInside
<1>2. accessParams(n + 1) + n \in Cell BY <1>1, WritableCells
<1> QED BY <1>2 DEF Param, MInv, MemoryTypeOK

\* A native that is given so many words is given fewer too.
LEMMA FewerParams ==
  ASSUME MInv, control = "native", NEW n \in Nat, NEW m \in 0 .. n, accessParams(n) # Refused
  PROVE  accessParams(m) # Refused
<1>1. dsp \in Int /\ 0 <= dsp BY NativeDsp DEF MInv
<1>2. n <= DataStackSize - dsp BY DEF accessParams
<1> QED BY <1>1, <1>2, MemoryTypes, MachineAssumption, HostAssumption DEF accessParams, stackBase, Refused

\* print's string is in memory, and ends there, at the guard if nowhere before.
LEMMA StringInside ==
  ASSUME MInv, Guarded, control = "native", MayPrint
  PROVE  /\ String \in 0 .. memorySize - 1
         /\ Terminator \in String .. memorySize
         /\ memory[Terminator] = 0
<1> DEFINE zeros == {cell \in String .. memorySize : memory[cell] = 0}
<1>1. Param(1) \in Word BY ParamWords DEF MayPrint
<1>2. 1 \in Word BY WordAssumption DEF Word
<1>3. String \in 0 .. memorySize - 1
  <2>1. String = CellAt(Param(1)) /\ 0 <= CellAt(Param(1)) /\ CellAt(Param(1)) + 1 <= memorySize
    BY <1>1, <1>2, ConstAccessInside DEF String, MayPrint
  <2>2. CellAt(Param(1)) \in Int BY <1>1, MemoryTypes, WordAssumption DEF CellAt, Word
  <2> QED BY <2>1, <2>2, MemoryTypes
<1>4. memorySize \in zeros BY <1>3, MemoryTypes DEF Guarded
<1>5. zeros \in SUBSET Nat BY <1>3, MemoryTypes
<1>6. PICK first \in zeros : \A cell \in zeros : first <= cell
  <2> HIDE DEF zeros
  <2> QED BY <1>4, <1>5, LeastNumber
<1>7. first \in String .. memorySize /\ memory[first] = 0 OBVIOUS
<1>8. \A before \in String .. first - 1 : memory[before] # 0
  <2> SUFFICES ASSUME NEW before \in String .. first - 1, memory[before] = 0 PROVE FALSE
    OBVIOUS
  <2>1. String \in Int /\ first \in Int /\ memorySize \in Int BY <1>3, <1>7, MemoryTypes
  <2>2. before \in zeros BY <1>7, <2>1
  <2>3. first <= before BY <1>6, <2>2
  <2> QED BY <2>1, <2>3
<1>9. \E cell \in String .. memorySize :
        memory[cell] = 0 /\ \A before \in String .. cell - 1 : memory[before] # 0
  BY <1>7, <1>8
<1> QED BY <1>3, <1>9 DEF Terminator

\* What print prints are words.
LEMMA PrintedWords ==
  ASSUME MInv, Guarded, control = "native"
  PROVE  Printed \in Seq(Word)
<1>1. CASE MayPrint
  <2>1. /\ String \in 0 .. memorySize - 1
        /\ Terminator \in String .. memorySize
    BY <1>1, StringInside
  <2>2. \A i \in 1 .. Terminator - String : memory[String + i - 1] \in Word
    <3> SUFFICES ASSUME NEW i \in 1 .. Terminator - String PROVE memory[String + i - 1] \in Word
      OBVIOUS
    <3>1. String + i - 1 \in Cell BY <2>1, MemoryTypes DEF Cell
    <3> QED BY <3>1 DEF MInv, MemoryTypeOK
  <2>3. Terminator - String \in Nat BY <2>1, MemoryTypes
  <2>4. [i \in 1 .. Terminator - String |-> memory[String + i - 1]] \in Seq(Word)
    BY <2>2, <2>3
  <2> QED BY <1>1, <2>4 DEF Printed
<1>2. CASE ~MayPrint BY <1>2 DEF Printed
<1> QED BY <1>1, <1>2

-----------------------------------------------------------------------------
(***************************************************************************)
(* What natives do to memory.                                              *)
(***************************************************************************)

\* A step that stores a word in a writable cell leaves the guard too.
LEMMA GuardStays ==
  ASSUME Guarded, ReadOnlySame
  PROVE  Guarded'
<1>1. memorySize \in Cell \ Writable
  BY MemoryTypes, LayoutAssumption DEF Cell, Writable
<1> QED BY <1>1 DEF Guarded, ReadOnlySame

\* input asks for one word more than the program lets it store, a number that may wrap around; it
\* stores no more than it is given, save the zero it stores for a count of -1: that may be the guard.
LEMMA InputInside ==
  ASSUME HInv, control = "native", accessParams(3) # Refused, Buffer # Refused
  PROVE  /\ Stored \subseteq 1 .. Len(Line)
         /\ Cardinality(Stored) \in Word
         /\ Cardinality(Stored) <= Len(Line)
         /\ Buffer \in Cell /\ Buffer + Cardinality(Stored) \in Cell
         /\ \A cell \in Buffer .. Buffer + Cardinality(Stored) :
              cell \in Writable \/ (cell = memorySize /\ cell = Buffer + Cardinality(Stored))
<1> DEFINE count == Cardinality(Stored)
<1>1. MInv /\ Line \in Seq(Word) /\ Len(Line) \in Nat
  <2>1. console.lines \in Seq(Seq(Word)) BY DEF HInv, ConsoleType
  <2>2. CASE console.lines = <<>> BY <2>2 DEF Line, HInv
  <2>3. CASE console.lines # <<>>
    <3>1. Head(console.lines) \in Seq(Word) BY <2>1, <2>3
    <3> QED BY <2>3, <3>1 DEF Line, HInv
  <2> QED BY <2>2, <2>3
<1>2. Param(1) \in Word /\ Param(2) \in Word
  BY <1>1, ParamWords, FewerParams
<1>3. MaxCount \in Int /\ ToWord(MaxCount + 1) \in Word
  BY <1>2, Conversions DEF MaxCount
<1>4. /\ Buffer = CellAt(Param(2)) /\ Buffer \in Int
      /\ constantsSize <= Buffer /\ Buffer + ToWord(MaxCount + 1) <= constantsSize + rwMemorySize
  <2>1. CellAt(Param(2)) \in Int BY <1>2, MemoryTypes, WordAssumption DEF CellAt, Word
  <2> QED BY <1>2, <1>3, <2>1, AccessInside DEF Buffer
<1>5. /\ Stored \subseteq 1 .. Len(Line)
      /\ count \in Nat /\ count <= Len(Line)
  <2>1. Stored \subseteq 1 .. Len(Line) BY DEF Stored
  <2>2. IsFiniteSet(1 .. Len(Line)) /\ Cardinality(1 .. Len(Line)) = Len(Line)
    <3>1. PICK n \in Nat : n = Len(Line) BY <1>1
    <3>2. IsFiniteSet(1 .. n) /\ Cardinality(1 .. n) = n BY FS_Interval
    <3> QED BY <3>1, <3>2
  <2> QED BY <1>1, <2>1, <2>2, FS_Subset, FS_CardinalityType
<1>6. MaxCount \in Nat => count <= MaxCount /\ ToWord(MaxCount + 1) = MaxCount + 1 /\ MaxCount \in Word
  <2> SUFFICES ASSUME MaxCount \in Nat
               PROVE  count <= MaxCount /\ ToWord(MaxCount + 1) = MaxCount + 1 /\ MaxCount \in Word
    OBVIOUS
  <2>1. Stored \subseteq 1 .. MaxCount BY <1>1 DEF Stored
  <2>2. IsFiniteSet(1 .. MaxCount) /\ Cardinality(1 .. MaxCount) = MaxCount
    BY FS_Interval
  <2>3. count <= MaxCount BY <2>1, <2>2, FS_Subset
  <2>4. MaxCount \in Word /\ MaxCount + 1 \in Word
    BY <1>2, WordAssumption DEF MaxCount, Signed, Word
  <2> QED BY <2>3, <2>4, Conversions
<1>7. MaxCount \notin Nat => count = 0
  <2>1. MaxCount \notin Nat => Stored = {} BY <1>1, <1>3 DEF Stored
  <2> QED BY <2>1, FS_EmptySet
<1>8. count \in Word
  <2>1. 0 \in Word BY WordAssumption DEF Word
  <2>2. MaxCount \in Nat => count \in Word
    BY <1>5, <1>6, WordAssumption DEF Word
  <2> QED BY <1>7, <2>1, <2>2
<1>9. constantsSize + rwMemorySize = memorySize BY LayoutAssumption
<1>10. CASE MaxCount \in Nat
  <2> HIDE DEF count
  <2>1. Buffer + MaxCount + 1 <= memorySize BY <1>3, <1>4, <1>6, <1>9, <1>10
  <2>2. \A cell \in Buffer .. Buffer + count : cell \in Writable
    <3>1. count <= MaxCount BY <1>6, <1>10
    <3>2. PICK most \in Nat : most = MaxCount BY <1>10
    <3> QED BY <1>4, <1>5, <1>9, <2>1, <3>1, <3>2, MemoryTypes, SMTT(30) DEF Writable
  <2>3. Buffer \in Cell /\ Buffer + count \in Cell
    BY <1>4, <1>5, <1>6, <1>10, <2>1, MemoryTypes, SMTT(30) DEF Cell
  <2> QED BY <1>5, <1>8, <2>2, <2>3 DEF count
<1>11. CASE MaxCount \notin Nat
  <2>1. ToWord(MaxCount + 1) >= 0 BY <1>3, WordAssumption DEF Word
  <2>2. ToWord(MaxCount + 1) \in Int BY <1>3, WordAssumption DEF Word
  <2>3. Buffer <= memorySize BY <1>4, <1>9, <2>1, <2>2, MemoryTypes
  <2>4. Buffer \in Cell /\ Buffer + 0 \in Cell BY <1>4, <2>3, MemoryTypes DEF Cell
  <2>5. Buffer \in Writable \/ Buffer = memorySize
    BY <1>4, <1>9, <2>3, MemoryTypes DEF Writable
  <2>6. \A cell \in Buffer .. Buffer + 0 : cell = Buffer BY <1>4
  <2> QED BY <1>4, <1>5, <1>7, <1>8, <1>11, <2>4, <2>5, <2>6
<1> QED BY <1>10, <1>11

\* So it leaves words in memory, and every constant and the guard as they were.
LEMMA InputKeeps ==
  ASSUME HInv, control = "native", accessParams(3) # Refused, Buffer # Refused,
         memory' = Inputted(Cardinality(Stored))
  PROVE  MemoryTypeOK' /\ ReadOnlySame
<1>1. PICK count \in Int : count = Cardinality(Stored) BY InputInside, WordAssumption DEF Word
<1>2. PICK params : params = accessParams(3) OBVIOUS
<1>3. PICK buffer : buffer = Buffer OBVIOUS
<1>4. /\ count \in Word /\ count <= Len(Line) /\ buffer \in Int
      /\ \A cell \in buffer .. buffer + count :
           cell \in Writable \/ (cell = memorySize /\ cell = buffer + count)
  BY <1>1, <1>3, InputInside, MemoryTypes DEF Cell
<1>5. Line \in Seq(Word)
  <2>1. console.lines \in Seq(Seq(Word)) BY DEF HInv, ConsoleType
  <2>2. CASE console.lines = <<>> BY <2>2 DEF Line
  <2>3. CASE console.lines # <<>> BY <2>1, <2>3 DEF Line
  <2> QED BY <2>2, <2>3
<1>6. params \in Writable
  <2>1. params = stackBase + dsp /\ \A i \in 0 .. 3 - 1 : stackBase + dsp + i \in Writable
    BY <1>2, ParamsInside DEF HInv
  <2>2. stackBase + dsp \in Int BY NativeDsp, MemoryTypes, MachineAssumption DEF HInv, MInv, stackBase
  <2> QED BY <2>1, <2>2
<1>7. memory \in [Cell -> Word] /\ 0 \in Word BY WordAssumption DEF HInv, MInv, MemoryTypeOK, Word
<1>8. \A cell \in Cell : cell \in buffer .. buffer + count /\ cell # buffer + count => Line[cell - buffer + 1] \in Word
  <2> SUFFICES ASSUME NEW cell \in Cell, cell \in buffer .. buffer + count, cell # buffer + count
               PROVE  Line[cell - buffer + 1] \in Word
    OBVIOUS
  <2>1. PICK n \in Nat : n = Len(Line) BY <1>5
  <2>2. cell - buffer + 1 \in 1 .. n BY <1>4, <2>1, MemoryTypes DEF Cell
  <2> QED BY <1>5, <2>1, <2>2
<1>9. memory' = [cell \in Cell |-> IF cell = params THEN count
                                   ELSE IF cell = buffer + count THEN 0
                                   ELSE IF cell \in buffer .. buffer + count THEN Line[cell - buffer + 1]
                                   ELSE memory[cell]]
  BY <1>1, <1>2, <1>3 DEF Inputted
<1>10. memory' \in [Cell -> Word] BY <1>4, <1>7, <1>8, <1>9
<1>11. \A cell \in Cell \ Writable : memory'[cell] = memory[cell]
  <2> SUFFICES ASSUME NEW cell \in Cell \ Writable PROVE memory'[cell] = memory[cell]
    OBVIOUS
  <2>1. cell # params /\ cell \in Int BY <1>6, MemoryTypes DEF Cell
  <2>2. cell \in buffer .. buffer + count => cell = memorySize /\ cell = buffer + count
    BY <1>4
  <2>3. cell = buffer + count => cell \in buffer .. buffer + count
    BY <1>4, <2>1, WordAssumption DEF Word
  <2>4. cell = buffer + count => memory[cell] = 0 BY <2>2, <2>3 DEF HInv, Guarded
  <2> QED BY <1>9, <2>1, <2>2, <2>4
<1> QED BY <1>10, <1>11 DEF MemoryTypeOK, ReadOnlySame

\* The float natives store their result in the first word of their arguments.
LEMMA FloatKeeps ==
  ASSUME HInv, control = "native", FloatNative
  PROVE  MemoryTypeOK' /\ ReadOnlySame
<1>1. PICK n \in {2, 3} : LET params == accessParams(n)
                          IN  \/ params = Refused /\ UNCHANGED memory
                              \/ params # Refused /\ \E w \in FloatWords : Store(params, w)
  BY DEF FloatNative
<1>2. CASE UNCHANGED memory BY <1>2, UnchangedKeeps DEF HInv, MInv
<1>3. CASE accessParams(n) # Refused /\ \E w \in FloatWords : Store(accessParams(n), w)
  <2>1. stackBase + dsp \in Int BY <1>3, ParamsInside, WritableCells, MemoryTypes, NativeDsp, MachineAssumption
    DEF HInv, MInv, stackBase
  <2>2. stackBase + dsp + 0 \in Writable /\ accessParams(n) = stackBase + dsp
    BY <1>3, ParamsInside DEF HInv
  <2>3. accessParams(n) \in Writable BY <2>1, <2>2
  <2>4. PICK w \in FloatWords : Store(accessParams(n), w) BY <1>3
  <2>5. w \in Word BY MachineAssumption
  <2> QED BY <2>3, <2>4, <2>5, StoreKeeps DEF HInv, MInv
<1> QED BY <1>1, <1>2, <1>3

-----------------------------------------------------------------------------
(***************************************************************************)
(* Every step of a host, of a native and of run() is one of GAZLProcessor, *)
(* which knows of natives only that they use the interface.                *)
(***************************************************************************)

\* A native may return any status that is not OK.
LEMMA Errors == Statuses \ {"OK"} = NativeErrors
BY JobsAssumption

\* The host's loop.
LEMMA DriverSteps ==
  ASSUME HInv, Driver
  PROVE  [Next]_vars
<1>1. Task.function \in Pointers BY JobsAssumption DEF Task, HInv
<1>2. CASE HostEnters BY <1>1, <1>2 DEF HostEnters, EnterCallFails, Next, HostOrNative, At
<1>3. CASE HostGrants
  <2>1. Task.fuel \in Budgets BY JobsAssumption DEF Task, HInv
  <2> QED BY <1>3, <2>1 DEF HostGrants, Next, HostOrNative
<1>4. CASE HostRuns BY <1>4 DEF HostRuns, Next, HostOrNative
<1>5. CASE HostReturns BY <1>5 DEF HostReturns, machineVars
<1> QED BY <1>2, <1>3, <1>4, <1>5 DEF Driver

\* A native that returns.
LEMMA ReturnSteps ==
  ASSUME NEW status \in Statuses, Returns(status) \/ ReturnsOK \/ (status # "OK" /\ ReturnsError(status))
  PROVE  Next
<1>1. CASE ReturnsOK BY <1>1 DEF ReturnsOK, Next, NativeReturns
<1>2. CASE status # "OK" /\ ReturnsError(status)
  BY <1>2, Errors DEF ReturnsError, Next, NativeReturns
<1> QED BY <1>1, <1>2 DEF Returns

\* A native that pushes.
LEMMA PushNativeSteps ==
  ASSUME HInv, PushNative
  PROVE  Next
<1> DEFINE wanted == Task.pushed[native]
           f == wanted[place.pushed + 1]
<1>1. native \in DOMAIN Task.pushed /\ control = "native" BY DEF PushNative, InNative
<1>2. wanted \in Seq(Pointers) BY <1>1, JobsAssumption DEF Task, HInv
<1>3. place \in Place
  <2>1. pcs \in Seq(Place) /\ pcs # <<>> BY <1>1, NativeRunning DEF HInv, MInv, Places
  <2> QED BY <2>1 DEF place, Last
<1>4. CASE place.pushed < Len(wanted) /\ PushCall(f)
  <2>1. PICK n \in Nat : n = place.pushed BY <1>3 DEF Place
  <2>2. n + 1 \in 1 .. Len(wanted) BY <1>2, <1>4, <2>1
  <2>3. f \in Pointers BY <1>2, <2>1, <2>2
  <2> QED BY <1>4, <2>3 DEF Next, HostOrNative
<1>5. CASE ReturnsError("BAD_CALL") BY <1>5, ReturnSteps DEF Statuses
<1>6. CASE ReturnsOK BY <1>6 DEF ReturnsOK, Next, NativeReturns
<1> QED BY <1>4, <1>5, <1>6 DEF PushNative

\* A native that enters a call and runs it.
LEMMA BlockingNativeSteps ==
  ASSUME HInv, BlockingNative
  PROVE  [Next]_vars
<1>1. Task.entered \in Pointers BY JobsAssumption DEF Task, HInv
<1>2. control = "native" BY DEF BlockingNative, InNative
<1>3. CASE EnterCall(Task.entered) BY <1>1, <1>3 DEF Next, HostOrNative
<1>4. CASE ReturnsError(EnterCallError(Task.entered))
  <2>1. EnterCallError(Task.entered) \in Statuses \ {"OK"} BY DEF EnterCallError, Statuses
  <2> QED BY <1>4, <2>1, ReturnSteps
<1>5. CASE ResetTimeOut(BlockFuel)
  <2>1. BlockFuel \in NativeBudgets BY <1>2, <1>5 DEF ResetTimeOut
  <2> QED BY <1>5, <2>1 DEF Next, HostOrNative
<1>6. CASE Run BY <1>6 DEF Next, HostOrNative
<1>7. CASE InPlace("returned") /\ Returns(result)
  <2>1. result \in Statuses BY <1>2, <1>7 DEF HInv, Places, InPlace
  <2> QED BY <1>7, <2>1, ReturnSteps
<1> QED BY <1>3, <1>4, <1>5, <1>6, <1>7 DEF BlockingNative

\* The tool's natives.
LEMMA ToolNativeSteps ==
  ASSUME ToolNative
  PROVE  Next
<1>1. CASE Refuel
  <2>1. ResetTimeOut(MaxFuel) /\ control = "native" BY <1>1 DEF Refuel, InNative
  <2>2. MaxFuel \in NativeBudgets BY <2>1 DEF ResetTimeOut
  <2> QED BY <2>1, <2>2 DEF Next, HostOrNative
<1>2. CASE PrintString
  <2>1. PrintStatus \in Statuses BY DEF PrintStatus, Statuses
  <2> QED BY <1>2, <2>1, ReturnSteps DEF PrintString
<1>3. \A status \in {"DATA_STACK_OVERFLOW", "ACCESS_VIOLATION", "ABORTED", "TERMINATED"} :
        status \in Statuses /\ status # "OK"
  BY DEF Statuses
<1>4. CASE AssertFail \/ PrintNumber \/ PrintLF BY <1>3, <1>4, ReturnSteps DEF AssertFail, PrintNumber, PrintLF
<1>5. CASE Input BY <1>3, <1>5, ReturnSteps DEF Input
<1>6. CASE FloatNative BY <1>3, <1>6, ReturnSteps DEF FloatNative
<1>7. CASE Ends BY <1>3, <1>7, ReturnSteps DEF Ends
<1> QED BY <1>1, <1>2, <1>4, <1>5, <1>6, <1>7 DEF ToolNative

\* All of them.
LEMMA HostsSteps ==
  ASSUME HInv, [HostsNext]_allVars
  PROVE  [Next]_vars
<1>1. CASE UNCHANGED allVars BY <1>1 DEF allVars, hostedVars, machineVars
<1>2. CASE Driver BY <1>2, DriverSteps
<1>3. CASE Machine BY <1>3, InstructionSteps DEF Machine, HInv, Next
<1>4. CASE PushNative BY <1>4, PushNativeSteps
<1>5. CASE BlockingNative BY <1>5, BlockingNativeSteps
<1>6. CASE ToolNative BY <1>6, ToolNativeSteps
<1> QED BY <1>1, <1>2, <1>3, <1>4, <1>5, <1>6 DEF HostsNext

\* And what each does to memory leaves words in it, the constants and the guard.
LEMMA HostsKeep ==
  ASSUME HInv, [HostsNext]_allVars
  PROVE  MemoryTypeOK' /\ ReadOnlySame
<1>1. CASE UNCHANGED memory BY <1>1, UnchangedKeeps DEF HInv, MInv
<1>2. CASE MachineStep BY <1>2, MemoryKept DEF HInv, MachineNext
<1>3. CASE ToolNative /\ Input
  <2>1. control = "native" BY <1>3 DEF ToolNative, Refuel, InNative
  <2> QED BY <1>1, <1>3, <2>1, InputKeeps DEF Input
<1>4. CASE ToolNative /\ FloatNative
  <2>1. control = "native" BY <1>4 DEF ToolNative, Refuel, InNative
  <2> QED BY <1>4, <2>1, FloatKeeps
<1>5. Driver \/ PushNative \/ BlockingNative => UNCHANGED memory
  BY DEF Driver, HostEnters, HostGrants, HostRuns, HostReturns, machineVars, PushNative, BlockingNative
<1>6. ToolNative => UNCHANGED memory \/ Input \/ FloatNative
  BY DEF ToolNative, Refuel, PrintString, AssertFail, PrintNumber, PrintLF, Ends
<1> QED BY <1>1, <1>2, <1>3, <1>4, <1>5, <1>6 DEF HostsNext, Machine, allVars, hostedVars, machineVars

-----------------------------------------------------------------------------
(***************************************************************************)
(* The places of natives, and the console.                                 *)
(***************************************************************************)

\* While nothing is called or returns, a native moves from place to place.
LEMMA PlaceMoves ==
  ASSUME HInv, control = "native", NEW p \in Place, pcs' = Append(Front(pcs), p), natives' = natives,
         p.at = "returned" => control' # "native" \/ result' \in Statuses
  PROVE  Places'
<1>1. pcs \in Seq(Place) /\ pcs # <<>> /\ Len(pcs) = Len(natives)
  BY NativeRunning DEF HInv, MInv, Places
<1>2. Front(pcs) \in Seq(Place) /\ Len(Front(pcs)) = Len(pcs) - 1 BY <1>1, FrontFacts
<1>3. /\ pcs' \in Seq(Place)
      /\ Len(pcs') = Len(pcs)
      /\ pcs'[Len(pcs')] = p
  BY <1>1, <1>2, AppendFacts
<1>4. Last(pcs') = p BY <1>3 DEF Last
<1> QED BY <1>1, <1>3, <1>4 DEF Places, place

\* A native that returns leaves the others where they are.
LEMMA PlaceLeft ==
  ASSUME HInv, control = "native", pcs' = Front(pcs), natives' = Front(natives),
         control' = "native" => result' \in Statuses
  PROVE  Places'
<1>1. /\ pcs \in Seq(Place) /\ pcs # <<>> /\ Len(pcs) = Len(natives)
      /\ natives \in Seq(Locals) /\ natives # <<>>
  BY NativeRunning DEF HInv, MInv, Places
<1>2. Front(pcs) \in Seq(Place) /\ Len(Front(pcs)) = Len(Front(natives))
  BY <1>1, FrontFacts
<1> QED BY <1>2 DEF Places

\* The host, or run() without a call of a native, moves none.
LEMMA PlaceStays ==
  ASSUME HInv, UNCHANGED <<pcs, natives>>,
         control' = "native" => result' \in Statuses \/ (control = "native" /\ result' = result)
  PROVE  Places'
BY DEF HInv, Places, place

\* A step of run() that is no call of a native goes on, or returns a status.
LEMMA StepStops ==
  ASSUME IInv, Step
  PROVE  /\ control = "run"
         /\ \/ CallNative
            \/ natives' = natives /\ (control' = "run" \/ result' \in Statuses)
<1>1. ip \in Address BY DEF IInv, TypeOK
<1>2. Code[ip].errors \subseteq Statuses BY <1>1, CodeAssembled DEF CodeWellFormed, Instruction
<1>3. {"TIME_OUT", "OK", "DATA_STACK_OVERFLOW", "BAD_CALL", "IP_STACK_OVERFLOW"} \subseteq Statuses
  BY DEF Statuses
<1>4. CASE TimeOut BY <1>3, <1>4 DEF TimeOut, Return
<1>5. CASE Func BY <1>3, <1>5 DEF Func, Execute, Continue, Fail, Return
<1>6. CASE \E f \in Pointers : Call(f)
  <2>1. PICK f \in Pointers : Call(f) BY <1>6
  <2> QED BY <1>3, <2>1 DEF Call, Execute, Continue, Fail, Return
<1>7. CASE Retu BY <1>3, <1>7 DEF Retu, Execute, Continue, Return
<1>8. CASE Data BY <1>2, <1>8 DEF Data, Execute, Continue, Fail, Return
<1>9. CASE Jump BY <1>9 DEF Jump, Execute, Continue
<1>10. CASE CallNative BY <1>10 DEF CallNative, Execute
<1> QED BY <1>4, <1>5, <1>6, <1>7, <1>8, <1>9, <1>10 DEF Step

\* A native that run() calls is at its start.
LEMMA MachinePlaces ==
  ASSUME HInv, Machine
  PROVE  Places'
<1>1. Step BY InstructionSteps DEF Machine, HInv
<1>2. /\ pcs \in Seq(Place) /\ Len(pcs) = Len(natives) /\ natives \in Seq(Locals)
  BY DEF HInv, Places, MInv, IInv, TypeOK
<1>3. control = "run" BY <1>1, StepStops DEF HInv, MInv
<1>4. CASE natives' = natives /\ (control' = "run" \/ result' \in Statuses)
  <2>1. pcs' = pcs BY <1>2, <1>4 DEF Machine
  <2> QED BY <1>4, <2>1, PlaceStays
<1>5. CASE CallNative
  <2>1. PICK n : natives' = Append(natives, n) BY <1>5 DEF CallNative
  <2>2. Len(natives') = Len(natives) + 1 BY <1>2, <2>1
  <2>3. pcs' = Append(pcs, Start) BY <1>2, <2>2 DEF Machine
  <2>4. Start \in Place BY DEF Start, Place
  <2>5. pcs' \in Seq(Place) /\ Len(pcs') = Len(natives') /\ pcs'[Len(pcs')] = Start
    BY <1>2, <2>2, <2>3, <2>4, AppendFacts
  <2>6. Last(pcs') = Start BY <2>5 DEF Last
  <2> QED BY <2>5, <2>6 DEF Places, place, Start
<1> QED BY <1>1, <1>4, <1>5, StepStops DEF HInv, MInv

\* Where a native in control is.
LEMMA PlaceType ==
  ASSUME HInv, control = "native"
  PROVE  place \in Place
<1>1. pcs \in Seq(Place) /\ pcs # <<>> BY NativeRunning DEF HInv, MInv, Places
<1> QED BY <1>1 DEF place, Last

\* A native that goes on to its next place.
LEMMA PlaceContinues ==
  ASSUME HInv, control = "native", NEW step \in {"start", "refueled", "grant", "run", "returned"}, Continues(step), natives' = natives,
         step = "returned" => control' = "run"
  PROVE  Places'
<1>1. place \in Place BY PlaceType
<1>2. [place EXCEPT !.at = step] \in Place /\ [place EXCEPT !.at = step].at = step BY <1>1 DEF Place
<1> QED BY <1>2, PlaceMoves DEF Continues

\* Whatever it returns, its place is gone.
LEMMA PlaceReturns ==
  ASSUME HInv, NEW status \in Statuses, Returns(status) \/ ReturnsOK \/ ReturnsError(status)
  PROVE  Places'
<1>1. CASE ReturnsOK BY <1>1, PlaceLeft DEF ReturnsOK, NativeOK
<1>2. CASE ReturnsError(status) BY <1>2, PlaceLeft DEF ReturnsError, NativeFails
<1> QED BY <1>1, <1>2 DEF Returns

\* So each native's steps keep the places.
LEMMA NativePlaces ==
  ASSUME HInv, PushNative \/ BlockingNative \/ ToolNative
  PROVE  Places'
<1>1. control = "native" BY DEF PushNative, BlockingNative, ToolNative, Refuel, InNative
<1>2. place \in Place BY <1>1, PlaceType
<1>3. \A status \in {"DATA_STACK_OVERFLOW", "ACCESS_VIOLATION", "ABORTED", "TERMINATED", "BAD_CALL"} :
        status \in Statuses
  BY DEF Statuses
<1>4. CASE PushNative
  <2>1. CASE ReturnsOK \/ ReturnsError("BAD_CALL") BY <1>3, <2>1, PlaceReturns
  <2>2. CASE /\ PushCall(Task.pushed[native][place.pushed + 1])
             /\ pcs' = Append(Front(pcs), [place EXCEPT !.pushed = @ + 1])
    <3>1. natives' = natives /\ control' = control /\ result' = result BY <2>2 DEF PushCall
    <3>2. [place EXCEPT !.pushed = @ + 1] \in Place /\ [place EXCEPT !.pushed = @ + 1].at = place.at
      BY <1>2 DEF Place
    <3>3. place.at = "returned" => result \in Statuses BY <1>1 DEF HInv, Places
    <3> QED BY <1>1, <2>2, <3>1, <3>2, <3>3, PlaceMoves
  <2> QED BY <1>4, <2>1, <2>2 DEF PushNative
<1>5. CASE BlockingNative
  <2>1. CASE EnterCall(Task.entered) /\ Continues("grant")
    BY <1>1, <2>1, PlaceContinues DEF EnterCall
  <2>2. CASE ReturnsError(EnterCallError(Task.entered))
    <3>1. EnterCallError(Task.entered) \in Statuses BY DEF EnterCallError, Statuses
    <3> QED BY <2>2, <3>1, PlaceReturns
  <2>3. CASE ResetTimeOut(BlockFuel) /\ Continues("run")
    BY <1>1, <2>3, PlaceContinues DEF ResetTimeOut
  <2>4. CASE Run /\ Continues("returned") BY <1>1, <2>4, PlaceContinues DEF Run
  <2>5. CASE Continues("grant") /\ UNCHANGED vars BY <1>1, <2>5, PlaceContinues DEF vars
  <2>6. CASE InPlace("returned") /\ Returns(result)
    <3>1. result \in Statuses BY <1>1, <2>6 DEF HInv, Places, InPlace
    <3> QED BY <2>6, <3>1, PlaceReturns
  <2> QED BY <1>5, <2>1, <2>2, <2>3, <2>4, <2>5, <2>6 DEF BlockingNative
<1>6. CASE ToolNative
  <2>1. CASE Refuel BY <1>1, <2>1, PlaceContinues DEF Refuel, ResetTimeOut
  <2>2. CASE PrintString
    <3>1. PrintStatus \in Statuses BY DEF PrintStatus, Statuses
    <3> QED BY <2>2, <3>1, PlaceReturns DEF PrintString
  <2>3. CASE AssertFail \/ PrintNumber \/ PrintLF
    BY <1>3, <2>3, PlaceReturns DEF AssertFail, PrintNumber, PrintLF
  <2>4. CASE Input BY <1>3, <2>4, PlaceReturns DEF Input
  <2>5. CASE FloatNative BY <1>3, <2>5, PlaceReturns DEF FloatNative
  <2>6. CASE Ends BY <1>3, <2>6, PlaceReturns DEF Ends
  <2> QED BY <1>6, <2>1, <2>2, <2>3, <2>4, <2>5, <2>6 DEF ToolNative
<1> QED BY <1>4, <1>5, <1>6

\* So every native in progress keeps a place.
LEMMA HostsPlaces ==
  ASSUME HInv, [HostsNext]_allVars
  PROVE  Places'
<1>1. CASE UNCHANGED allVars
  BY <1>1, PlaceStays DEF allVars, hostedVars, hostVars, machineVars, vars, HInv, Places, place
<1>2. CASE Driver
  <2>1. UNCHANGED <<pcs, natives, control>> \/ (UNCHANGED <<pcs, natives>> /\ control' = "run")
    BY <1>2 DEF Driver, HostEnters, HostGrants, HostRuns, HostReturns, machineVars, vars, EnterCall,
                EnterCallFails, ResetTimeOut, Run
  <2>2. control # "native" BY <1>2 DEF Driver, HostEnters, HostGrants, HostRuns, HostReturns, At
  <2> QED BY <2>1, <2>2, PlaceStays
<1> QED BY <1>1, <1>2, MachinePlaces, NativePlaces DEF HostsNext

\* What is printed are words, and the lines to be read grow fewer.
LEMMA ConsoleKept ==
  ASSUME HInv, [HostsNext]_allVars
  PROVE  ConsoleType'
<1>1. ConsoleType /\ MInv /\ Guarded BY DEF HInv
<1>2. CASE UNCHANGED console BY <1>1, <1>2 DEF ConsoleType
<1>3. ASSUME NEW words \in Seq(Word), Prints(words) PROVE ConsoleType'
  <2>1. console.printed \in Seq(Word) BY <1>1 DEF ConsoleType
  <2>2. console.printed \o words \in Seq(Word) BY <2>1
  <2> QED BY <1>1, <1>3, <2>2 DEF ConsoleType, Prints
<1>4. CASE ToolNative
  <2>1. control = "native" BY <1>4 DEF ToolNative, Refuel, InNative
  <2>2. CASE PrintString \/ AssertFail
    BY <1>1, <1>3, <2>1, <2>2, PrintedWords DEF PrintString, AssertFail
  <2>3. CASE PrintNumber
    <3>1. accessParams(2) # Refused => Param(1) \in Word BY <1>1, <2>1, ParamWords
    <3>2. accessParams(2) # Refused => <<Param(1)>> \in Seq(Word) BY <3>1
    <3> QED BY <1>2, <1>3, <2>3, <3>2 DEF PrintNumber
  <2>4. CASE Input
    <3>1. console.lines \in Seq(Seq(Word)) /\ console.lines # <<>> => Tail(console.lines) \in Seq(Seq(Word))
      BY <1>1 DEF ConsoleType
    <3> QED BY <1>1, <2>4, <3>1 DEF Input, ConsoleType
  <2> QED BY <1>2, <1>4, <2>2, <2>3, <2>4 DEF ToolNative, Refuel, PrintLF, FloatNative, Ends
<1> QED BY <1>2, <1>4 DEF HostsNext, allVars

-----------------------------------------------------------------------------
(***************************************************************************)
(* Theorems.                                                               *)
(***************************************************************************)

\* The invariant needs all its parts at once: which words an argument is depends on the frames,
\* what print reads on the guard, and a native's status on the run() it waited for.
THEOREM HostsInvariant == HostsSpec => []HInv
<1>1. HostsInit => HInv
  <2> SUFFICES ASSUME HostsInit PROVE HInv
    OBVIOUS
  <2>1. Init /\ memory = InitialMemory /\ job \in DOMAIN Jobs /\ pcs = <<>>
    BY DEF HostsInit, HostInit, MachineInit
  <2>2. MInv /\ Guarded
    BY <2>1, Initially, MachineAssumption DEF MInv, MemoryTypeOK, Guarded
  <2>3. Places BY <2>1 DEF Places, Init
  <2>4. ConsoleType
    <3>1. Task.lines \in Seq(Seq(Word)) BY <2>1, LinesAssumption DEF Task
    <3>2. <<>> \in Seq(Word) OBVIOUS
    <3> QED BY <3>1, <3>2 DEF HostsInit, ConsoleInit, ConsoleType
  <2> QED BY <2>1, <2>2, <2>3, <2>4 DEF HInv
<1>2. HInv /\ [HostsNext]_allVars => HInv'
  <2> SUFFICES ASSUME HInv, [HostsNext]_allVars PROVE HInv'
    OBVIOUS
  <2>1. IInv' BY HostsSteps, Preserved DEF HInv, MInv
  <2>2. MemoryTypeOK' /\ Guarded' BY HostsKeep, GuardStays DEF HInv
  <2>3. job' = job
    BY DEF HostsNext, Driver, HostEnters, HostGrants, HostRuns, HostReturns, Machine, PushNative,
           BlockingNative, ToolNative, Refuel, PrintString, AssertFail, PrintNumber, PrintLF, Input,
           FloatNative, Ends, Continues, Returns, ReturnsOK, ReturnsError, allVars, hostedVars, hostVars
  <2>4. Places' /\ ConsoleType' BY HostsPlaces, ConsoleKept
  <2> QED BY <2>1, <2>2, <2>3, <2>4 DEF HInv, MInv
<1> QED BY <1>1, <1>2, PTL DEF HostsSpec

\* The interpreter test's and the command line tool's host loops and natives use the Processor as
\* GAZLProcessor says hosts and natives do: what is proved of its stacks holds of both programs.
THEOREM HostsImplementProcessor == HostsSpec => Spec
<1>1. HostsInit => Init BY DEF HostsInit, HostInit, MachineInit
<1>2. HInv /\ [HostsNext]_allVars => [Next]_vars BY HostsSteps
<1> QED BY <1>1, <1>2, HostsInvariant, PTL DEF HostsSpec, Spec

\* The frames of the programs that they run stay inside the data stack, and no function that a
\* native pushed stops for want of room.
THEOREM HostsFramesInside == HostsSpec => []FramesInsideStack /\ []PushedFunctionsFit
BY HostsImplementProcessor, FramesStayInside, PushedStart, PTL

\* No native writes a constant or changes the zero guard, whatever pointers, counts and lines it is
\* given; input's terminator for a count of -1 may fall on the guard, where it writes another zero.
THEOREM HostsKeepConstants == HostsSpec => ReadOnlyKept
<1>1. HInv /\ [HostsNext]_allVars => [ReadOnlySame]_machineVars
  BY HostsKeep
<1> QED BY <1>1, HostsInvariant, PTL DEF HostsSpec, ReadOnlyKept, ReadOnlySame

\* print's scan ends in memory, at the zero guard if nowhere before, though only its first word was
\* checked.
THEOREM StringsEnd ==
  HostsSpec => [](control = "native" /\ MayPrint =>
                    /\ String \in Cell /\ Terminator \in String .. memorySize
                    /\ memory[Terminator] = 0)
<1>1. HInv => (control = "native" /\ MayPrint =>
                 /\ String \in Cell /\ Terminator \in String .. memorySize
                 /\ memory[Terminator] = 0)
  BY StringInside, MemoryTypes DEF HInv, Cell
<1> QED BY <1>1, HostsInvariant, PTL
=============================================================================
