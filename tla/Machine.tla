-------------------------------- MODULE Machine --------------------------------
(***************************************************************************)
(* A VM worker of wmvm as the machine that executes bytecode: its frames,  *)
(* operand stack, globals and queues.  (Scheduler models the same worker   *)
(* as what the scheduler sees of it.)  The frames in which the scheduler   *)
(* runs a worker cut the execution between any two opcodes and change      *)
(* nothing of this state: a worker that is not stopped just takes the next *)
(* opcode.                                                                 *)
(***************************************************************************)
EXTENDS StandardHost, Bytecode, TLC

CONSTANTS
    Program,     \* the programs that a worker may be given, by a name:
                 \* [entry, constants, functions : id -> [code, args, locals,
                 \*                               at : address -> instruction]]
    MaxInbox     \* bound of the model: messages delivered to the worker

VARIABLES
    unit,         \* name of the installed program
    frame,        \* current_frame, or NoFrame
    calls,        \* call_stack: the frames of the callers
    stack,        \* operands of every frame
    globals,
    inbox, outbox,
    status,       \* VmState ("Idle" is also Running)
    error,        \* the VmError of status "Error", or the cause of a panic
    lastReturn,   \* <<>> or the value of the run, as a sequence
    delivered,    \* history: messages the worker was sent
    said          \* history: host calls that succeeded, in order

machine == <<unit, frame, calls, stack, globals, inbox, outbox, status,
             error, lastReturn, delivered, said>>

NoFrame == [func |-> 0]
Frames  == IF frame = NoFrame THEN calls ELSE Append(calls, frame)
program == Program[unit]
CodeLen == Len(program.functions[frame.func].code)
Fetched == program.functions[frame.func].at[frame.pc]

\* A program as the machine runs it: what decode_at gives at every address.
Image(p) ==
    [p EXCEPT !.functions =
        [id \in DOMAIN @ |->
            @[id] @@ [at |-> [pc \in 0..Len(@[id].code) - 1 |->
                                 decode_at(@[id].code, pc)]]]]

\* The parts of the state that an instruction may change and most do not.
flow   == <<calls, lastReturn>>
mail   == <<inbox, outbox, delivered>>
others == <<unit, flow, globals, mail, said>>

\* A program that was refused is not installed.
MachineInit(u) ==
    /\ unit = u
    /\ frame = NoFrame /\ calls = <<>> /\ stack = <<>> /\ globals = <<>>
    /\ inbox = <<>> /\ outbox = <<>> /\ delivered = 0 /\ said = <<>>
    /\ status = IF u \in DOMAIN Program THEN "Idle" ELSE "Refused"
    /\ error = "None" /\ lastReturn = <<>>

----------------------------------------------------------------------------
\* Wrong on purpose: takes the base before the arguments leave the stack.
NewFrame__BaseBeforeArguments(id, args, base) ==
    LET f == program.functions[id]
        n == IF f.locals > Len(args) THEN f.locals ELSE Len(args)
    IN  [func |-> id, pc |-> 0, base |-> base + Len(args),
         locals |-> [i \in 1..n |-> IF i <= Len(args) THEN args[i] ELSE Nil]]

\* The frame of a call; missing locals are nil, extra arguments are kept.
NewFrame(id, args, base) ==
    LET f == program.functions[id]
        n == IF f.locals > Len(args) THEN f.locals ELSE Len(args)
    IN  [func |-> id, pc |-> 0, base |-> base,
         locals |-> [i \in 1..n |-> IF i <= Len(args) THEN args[i] ELSE Nil]]

\* A worker that waits for a message and has one goes on by itself.
Ready == \/ status = "Idle"
         \/ status = "WaitingMessage" /\ inbox # <<>>

StartEntryFrame ==
    /\ Ready /\ frame = NoFrame
    /\ frame' = NewFrame(program.entry, <<>>, 0)
    /\ UNCHANGED <<unit, calls, stack, globals, mail, status, error,
                   lastReturn, said>>

\* The next opcode is one of these.
Fetching(names) ==
    /\ Ready /\ frame # NoFrame /\ frame.pc < CodeLen
    /\ Decoded(Fetched) /\ Fetched.op \in names

Arg(i)      == Fetched.args[i]
NextPc      == frame.pc + Fetched.len
Advance     == frame' = [frame EXCEPT !.pc = NextPc]
Operands(k) == SubSeq(stack, Len(stack) - k + 1, Len(stack))
Below(k)    == SubSeq(stack, 1, Len(stack) - k)

\* The pc has already moved when an instruction is refused; what it popped is
\* gone.
Refuse(kind, rest) ==
    /\ status' = IF kind = "Panic" THEN "Panicked" ELSE "Error"
    /\ error' = kind
    /\ stack' = rest
    /\ Advance
Underflow(k) == Len(stack) < k /\ Refuse("StackUnderflow", <<>>)

Continue(rest) ==
    /\ status' = "Idle" /\ stack' = rest /\ Advance /\ UNCHANGED error

\* decode_at refuses the bytes at the pc.
BadOpcode ==
    /\ Ready /\ frame # NoFrame /\ frame.pc < CodeLen /\ ~Decoded(Fetched)
    /\ status' = "Error" /\ error' = Fetched.error
    /\ UNCHANGED <<others, frame, stack>>

----------------------------------------------------------------------------
(***************************************************************************)
(* Instructions that move and compute values.                              *)
(***************************************************************************)

\* Where an instruction reads a value by its index, and the error past the end.
Pool ==
    CASE Fetched.op = "PushConst"  -> program.constants
      [] Fetched.op = "LoadLocal"  -> frame.locals
      [] Fetched.op = "LoadGlobal" -> globals
PastPool ==
    CASE Fetched.op = "PushConst"  -> "InvalidConstant"
      [] Fetched.op = "LoadLocal"  -> "InvalidLocal"
      [] Fetched.op = "LoadGlobal" -> "InvalidGlobal"

Push ==
    /\ Fetching({"PushConst", "LoadLocal", "LoadGlobal"})
    /\ IF Arg(1) < Len(Pool) THEN Continue(Append(stack, Pool[Arg(1) + 1]))
                             ELSE Refuse(PastPool, stack)
    /\ UNCHANGED others

PushNew ==
    /\ Fetching({"PushNil", "PushTrue", "PushFalse", "NewArray", "NewTable"})
    /\ Continue(Append(stack, CASE Fetched.op = "PushNil"   -> Nil
                                [] Fetched.op = "PushTrue"  -> Bool(TRUE)
                                [] Fetched.op = "PushFalse" -> Bool(FALSE)
                                [] Fetched.op = "NewArray"  -> Array(<<>>)
                                [] Fetched.op = "NewTable"  -> Table(<<>>)))
    /\ UNCHANGED others

PopDupNop ==
    /\ Fetching({"Pop", "Dup", "Nop"})
    /\ \/ /\ Fetched.op # "Nop" /\ Underflow(1)
       \/ /\ Fetched.op = "Pop" /\ stack # <<>> /\ Continue(Below(1))
       \/ /\ Fetched.op = "Dup" /\ stack # <<>>
          /\ Continue(stack \o Operands(1))
       \/ /\ Fetched.op = "Nop" /\ Continue(stack)
    /\ UNCHANGED others

\* A field is read of a table, an index of an array too.
Load ==
    /\ Fetching({"LoadField", "LoadIndex"})
    /\ LET k      == IF Fetched.op = "LoadField" THEN 1 ELSE 2
           object == Operands(k)[1]
           i      == IF k = 1 THEN Arg(1) ELSE as_index(Operands(k)[2])
           readable == Loadable(object, i) /\ (k = 1 => object.tag = "table")
       IN  \/ Underflow(k)
           \/ /\ Len(stack) >= k
              /\ IF readable THEN Continue(Append(Below(k), Loaded(object, i)))
                             ELSE Refuse("TypeMismatch", Below(k))
    /\ UNCHANGED others

ComputeOp ==
    /\ Fetching(Unary \cup (Binary \ {"LoadIndex"}))
    /\ LET k == IF Fetched.op \in Binary THEN 2 ELSE 1
           result == Compute(Fetched.op, Operands(k))
       IN  \/ Underflow(k)
           \/ /\ Len(stack) >= k
              /\ IF IsValue(result) THEN Continue(Append(Below(k), result))
                                    ELSE Refuse(result.error, Below(k))
    /\ UNCHANGED others

StoreLocal ==
    /\ Fetching({"StoreLocal"})
    /\ \/ Underflow(1)
       \/ /\ stack # <<>> /\ Arg(1) >= Len(frame.locals)
          /\ Refuse("InvalidLocal", Below(1))
       \/ /\ stack # <<>> /\ Arg(1) < Len(frame.locals)
          /\ frame' = [frame EXCEPT !.pc = NextPc,
                                    !.locals[Arg(1) + 1] = Operands(1)[1]]
          /\ stack' = Below(1) /\ status' = "Idle" /\ UNCHANGED error
    /\ UNCHANGED others

\* Globals grow to what is stored; loading past them is refused (Push).
StoreGlobal ==
    /\ Fetching({"StoreGlobal"})
    /\ \/ Underflow(1) /\ UNCHANGED globals
       \/ /\ stack # <<>>
          /\ LET n == IF Arg(1) < Len(globals) THEN Len(globals)
                                               ELSE Arg(1) + 1
             IN  globals' = [i \in 1..n |->
                                IF i = Arg(1) + 1 THEN Operands(1)[1]
                                ELSE IF i <= Len(globals) THEN globals[i]
                                ELSE Nil]
          /\ Continue(Below(1))
    /\ UNCHANGED <<unit, flow, mail, said>>

\* The container is a value (copied when written): the operand is changed and
\* dropped, so a store shows only in what it refuses.
StoreInto ==
    /\ Fetching({"StoreField", "StoreIndex"})
    /\ LET k == IF Fetched.op = "StoreField" THEN 2 ELSE 3
           object == Operands(k)[1]
           stored == \/ Fetched.op = "StoreField" /\ object.tag = "table"
                     \/ /\ Fetched.op = "StoreIndex"
                        /\ object.tag \in {"array", "table"}
                        /\ as_index(Operands(k)[2]) # -1
       IN  \/ Underflow(k)
           \/ /\ Len(stack) >= k
              /\ IF stored THEN Continue(Below(k))
                           ELSE Refuse("TypeMismatch", Below(k))
    /\ UNCHANGED others

----------------------------------------------------------------------------
(***************************************************************************)
(* Control.                                                                *)
(***************************************************************************)

Taken(op, v) ==
    CASE op = "JumpIfFalse" -> ~truthy(v)
      [] op = "JumpIfTrue"  -> truthy(v)

\* The end of the code is a legal target: the frame then returns.
Branch ==
    /\ Fetching(Branches)
    /\ LET k     == IF Fetched.op = "Jump" THEN 0 ELSE 1
           taken == IF k = 0 THEN TRUE ELSE Taken(Fetched.op, Operands(1)[1])
       IN  \/ Underflow(k)
           \/ /\ Len(stack) >= k
              /\ \/ ~taken /\ Continue(Below(k))
                 \/ taken /\ Arg(1) > CodeLen
                    /\ Refuse("InvalidJumpTarget", Below(k))
                 \/ /\ taken /\ Arg(1) <= CodeLen
                    /\ frame' = [frame EXCEPT !.pc = Arg(1)]
                    /\ stack' = Below(k) /\ status' = "Idle"
                    /\ UNCHANGED error
    /\ UNCHANGED others

\* The arguments leave the stack; the callee's operands start where they were.
Call ==
    /\ Fetching({"Call"})
    /\ \/ /\ \/ /\ Arg(1) \notin DOMAIN program.functions
                /\ Refuse("InvalidFunctionId", stack)
             \/ /\ Arg(1) \in DOMAIN program.functions
                /\ Arg(2) > Len(stack)
                /\ Refuse("StackUnderflow", stack)
          /\ UNCHANGED calls
       \/ /\ Arg(1) \in DOMAIN program.functions /\ Arg(2) <= Len(stack)
          /\ calls' = Append(calls, [frame EXCEPT !.pc = NextPc])
          /\ frame' = NewFrame(Arg(1), Operands(Arg(2)), Len(stack) - Arg(2))
          /\ stack' = Below(Arg(2)) /\ status' = "Idle" /\ UNCHANGED error
    /\ UNCHANGED <<unit, globals, mail, lastReturn, said>>

\* finish_return: the stack is cut back to the frame's base - after the value
\* was popped, which may have been the caller's - and the value pushed, if
\* there is one.
FinishReturn(value, rest) ==
    /\ LET kept == IF Len(rest) < frame.base THEN Len(rest) ELSE frame.base
       IN  stack' = SubSeq(rest, 1, kept) \o value
    /\ IF calls = <<>>
       THEN /\ frame' = NoFrame /\ lastReturn' = value /\ status' = "Halted"
            /\ UNCHANGED calls
       ELSE /\ frame' = calls[Len(calls)]
            /\ calls' = SubSeq(calls, 1, Len(calls) - 1)
            /\ status' = "Idle" /\ UNCHANGED lastReturn
    /\ UNCHANGED <<unit, globals, mail, error, said>>

\* Halt ends the frame like Return, not the program.
Return ==
    /\ Fetching({"Return", "Halt"})
    /\ IF stack = <<>> THEN FinishReturn(<<>>, <<>>)
                       ELSE FinishReturn(Operands(1), Below(1))

\* The pc is past the code: a jump to its end, or code that ends without Return.
FallOff ==
    /\ Ready /\ frame # NoFrame /\ frame.pc >= CodeLen
    /\ FinishReturn(<<>>, stack)

----------------------------------------------------------------------------
(***************************************************************************)
(* The host and the other workers.                                         *)
(***************************************************************************)

CallHost ==
    /\ Fetching({"CallHost"})
    /\ LET id == Arg(1)
           n  == Arg(2)
           result == call_host(id, Operands(n))
       IN  \/ /\ id \notin registry
              /\ Refuse("HostError", stack) /\ UNCHANGED said
           \/ /\ id \in registry /\ n > Len(stack)
              /\ Refuse("StackUnderflow", stack) /\ UNCHANGED said
           \/ /\ id \in registry /\ n <= Len(stack)
              /\ IF IsValue(result)
                 THEN /\ Continue(Append(Below(n), result))
                      /\ said' = IF id \in Silent THEN said
                                 ELSE Append(said, <<id, Operands(n)>>)
                 ELSE Refuse(result.error, Below(n)) /\ UNCHANGED said
    /\ UNCHANGED <<unit, flow, globals, mail>>

\* Several operands are sent as one array.
Send ==
    /\ Fetching({"Send"})
    /\ \/ /\ Arg(2) > Len(stack)
          /\ Refuse("StackUnderflow", stack) /\ UNCHANGED outbox
       \/ /\ Arg(2) <= Len(stack)
          /\ LET q == Operands(Arg(2))
             IN  outbox' = Append(outbox, CASE Arg(2) = 0 -> Nil
                                            [] Arg(2) = 1 -> q[1]
                                            [] OTHER      -> Array(q))
          /\ Continue(Below(Arg(2)))
    /\ UNCHANGED <<unit, flow, globals, inbox, delivered, said>>

\* Without a message Recv waits, its pc still at the Recv; TryRecv does not.
Receive ==
    /\ Fetching({"Recv", "TryRecv"})
    /\ \/ /\ inbox # <<>>
          /\ Continue(Append(stack, Head(inbox))) /\ inbox' = Tail(inbox)
       \/ /\ inbox = <<>> /\ Fetched.op = "TryRecv"
          /\ Continue(Append(stack, Nil)) /\ UNCHANGED inbox
       \/ /\ inbox = <<>> /\ Fetched.op = "Recv"
          /\ status' = "WaitingMessage"
          /\ UNCHANGED <<stack, frame, error, inbox>>
    /\ UNCHANGED <<unit, flow, globals, outbox, delivered, said>>

Suspend ==
    /\ Fetching({"Yield", "Sleep"})
    /\ status' = IF Fetched.op = "Sleep" THEN "Sleeping" ELSE "Idle"
    /\ Advance /\ UNCHANGED <<stack, error, others>>

\* Wrong on purpose: a worker that sleeps is not woken.
Wake__OnlyWaiting ==
    /\ status = "WaitingMessage"
    /\ status' = "Idle"
    /\ UNCHANGED <<frame, stack, error, others>>

\* The host wakes a worker (also one that waits and has no message), and
\* sends it messages.
Wake ==
    /\ status \in {"Sleeping", "WaitingMessage"}
    /\ status' = "Idle"
    /\ UNCHANGED <<frame, stack, error, others>>

PushMessage(v) ==
    /\ delivered < MaxInbox
    /\ inbox' = Append(inbox, v) /\ delivered' = delivered + 1
    /\ UNCHANGED <<unit, frame, stack, status, error, flow, globals, outbox,
                   said>>

Stopped == status \in {"Halted", "Error", "Panicked"}

Step == \/ StartEntryFrame \/ BadOpcode \/ Push \/ PushNew \/ PopDupNop
        \/ Load \/ ComputeOp \/ StoreLocal \/ StoreGlobal \/ StoreInto
        \/ Branch \/ Call \/ Return \/ FallOff \/ CallHost \/ Send \/ Receive
        \/ Suspend

----------------------------------------------------------------------------

\* The operands of a frame are its own: neither the frame that runs nor any
\* of its callers has lost operands to a callee (Return pops before it cuts
\* the stack back).
OperandsOwned ==
    \A i \in 1..Len(Frames) :
        Frames[i].base <= IF i = Len(Frames) THEN Len(stack)
                                             ELSE Frames[i + 1].base
=============================================================================
