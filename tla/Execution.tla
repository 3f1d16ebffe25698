------------------------------- MODULE Execution -------------------------------
(***************************************************************************)
(* A worker that executes what the verifier has seen: programs of which    *)
(* the machine has the image, messages of any kind at any time.            *)
(***************************************************************************)
EXTENDS Machine, Verifier

\* What the machine holds of a program: for every address of a function's code
\* what decode_at gives there.
IsImage(p) ==
    \A id \in DOMAIN p.functions :
        LET code == p.functions[id].code
        IN  /\ Len(code) \in Nat
            /\ p.functions[id].at =
                   [pc \in 0..Len(code) - 1 |-> decode_at(code, pc)]

ASSUME ImagesAssumption == \A u \in DOMAIN Program : IsImage(Program[u])

WorkerNext == Step \/ Wake \/ \E v : PushMessage(v)
WorkerSpec == (\E u : MachineInit(u)) /\ [][WorkerNext]_machine

\* Every jump lands on an instruction or at the end.
Aligned(p) ==
    \A id \in DOMAIN p.functions :
        LET code   == p.functions[id].code
            starts == Sweep(code)
        IN  \A pc \in starts :
                LET d == decode_at(code, pc)
                IN  Decoded(d) /\ d.op \in Branches
                        => d.args[1] \in starts \cup {Len(code)}

Unresolved == {"InvalidConstant", "InvalidFunctionId", "InvalidJumpTarget",
               "InvalidOpcode", "UnexpectedEof"}

\* What the verifier resolved when the program was loaded is there when the
\* program runs, if its jumps land on instructions.
VerifiedResolves ==
    error \in Unresolved => ~(verify_program(program) /\ Aligned(program))

----------------------------------------------------------------------------
(***************************************************************************)
(* Where an instruction finds the operand stack.                           *)
(***************************************************************************)

\* What an instruction takes from the stack, what it leaves there, and where the
\* frame goes on after it.
Pops(i) ==
    CASE i.op \in {"Pop", "Dup", "Neg", "Not", "StoreLocal", "StoreGlobal",
                   "LoadField", "JumpIfFalse", "JumpIfTrue"} -> 1
      [] i.op \in Binary \cup {"StoreField"}     -> 2
      [] i.op = "StoreIndex"                     -> 3
      [] i.op \in {"Call", "CallHost", "Send"}   -> i.args[2]
      [] OTHER                                   -> 0
Pushes(i) ==
    CASE i.op = "Dup" -> 2
      [] i.op \in {"Pop", "StoreLocal", "StoreGlobal", "StoreField",
                   "StoreIndex", "Send", "Nop", "Yield", "Sleep"}
                  \cup Branches -> 0
      [] OTHER -> 1
Follows(i, pc) ==
    CASE i.op \in {"Return", "Halt"} -> {}
      [] i.op = "Jump"               -> {i.args[1]}
      [] i.op \in Branches \ {"Jump"} -> {i.args[1], pc + i.len}
      [] OTHER                       -> {pc + i.len}

\* The functions that are called from an address that d knows.
Called(p, d) ==
    {id \in DOMAIN p.functions :
        \E caller \in DOMAIN p.functions : \E pc \in DOMAIN d[caller] :
            /\ pc < Len(p.functions[caller].code)
            /\ LET i == p.functions[caller].at[pc]
               IN  i.op = "Call" /\ i.args[1] = id}

\* d says of every address that a function reaches how many operands the frame
\* has there: the same on every path.  A function that is called ends with a
\* Return that finds an operand; one that is not may end without.
Measures(p, d) ==
    LET called == Called(p, d) IN
    /\ p.entry \in DOMAIN p.functions
    /\ \A id \in DOMAIN p.functions :
        LET end == Len(p.functions[id].code)
            h   == d[id]
        IN  /\ DOMAIN h \subseteq 0..end /\ \A pc \in DOMAIN h : h[pc] \in Nat
            /\ 0 \in DOMAIN h /\ h[0] = 0
            /\ end \in DOMAIN h => id \notin called
            /\ \A pc \in DOMAIN h \ {end} :
                LET i == p.functions[id].at[pc]
                IN  /\ Decoded(i) /\ Pops(i) \in 0..h[pc]
                    /\ i.op = "Call" => i.args[1] \in DOMAIN p.functions
                    /\ i.op \in {"Return", "Halt"} /\ id \in called
                            => h[pc] > 0
                    /\ \A next \in Follows(i, pc) :
                          /\ next \in DOMAIN h
                          /\ h[next] = h[pc] - Pops(i) + Pushes(i)

Measured(p) == \E d : Measures(p, d)
=============================================================================
