------------------------------- MODULE Bytecode -------------------------------
(***************************************************************************)
(* The instruction encoding of wmbytecode.  An instruction is a record of  *)
(* its name and its operands; code is a sequence of bytes; addresses count *)
(* from 0, as in the source.                                               *)
(***************************************************************************)
EXTENDS Integers, Sequences

\* The raw opcode bytes.
Opcode ==
    [Nop |-> 0, Halt |-> 1,
     PushConst |-> 16, PushNil |-> 17, PushTrue |-> 18, PushFalse |-> 19,
     LoadLocal |-> 32, StoreLocal |-> 33, LoadGlobal |-> 34,
     StoreGlobal |-> 35, LoadField |-> 36, StoreField |-> 37,
     LoadIndex |-> 38, StoreIndex |-> 39,
     Pop |-> 48, Dup |-> 49,
     Add |-> 64, Sub |-> 65, Mul |-> 66, Div |-> 67, Mod |-> 68, Neg |-> 69,
     Eq |-> 80, Ne |-> 81, Lt |-> 82, Le |-> 83, Gt |-> 84, Ge |-> 85,
     Not |-> 86,
     Jump |-> 96, JumpIfFalse |-> 97, JumpIfTrue |-> 98,
     Call |-> 112, CallHost |-> 113, Return |-> 114,
     NewArray |-> 128, NewTable |-> 129,
     Send |-> 144, Recv |-> 145, TryRecv |-> 146,
     Yield |-> 160, Sleep |-> 161]

Mnemonics == DOMAIN Opcode

from_byte == [byte \in {Opcode[name] : name \in Mnemonics} |->
                 CHOOSE name \in Mnemonics : Opcode[name] = byte]

\* The widths in bytes of an instruction's operands.
Widths(name) ==
    CASE name \in {"PushConst", "LoadGlobal", "StoreGlobal", "LoadField",
                   "StoreField", "NewArray", "NewTable"}  -> <<2>>
      [] name \in {"LoadLocal", "StoreLocal"}             -> <<1>>
      [] name \in {"Jump", "JumpIfFalse", "JumpIfTrue"}   -> <<4>>
      [] name \in {"Call", "CallHost", "Send"}            -> <<2, 1>>
      [] OTHER                                            -> <<>>

Op(name)         == [op |-> name, args |-> <<>>]
Op1(name, a)     == [op |-> name, args |-> <<a>>]
Op2(name, a, b)  == [op |-> name, args |-> <<a, b>>]

Branches == {"Jump", "JumpIfFalse", "JumpIfTrue"}

----------------------------------------------------------------------------

\* The operand bytes, least significant first (append_u16, append_u32).
LittleEndian(n, width) == [i \in 1..width |-> (n \div 256^(i - 1)) % 256]

encode_op(o) ==
    LET w == Widths(o.op)
        Operand(i) == IF i > Len(w) THEN <<>>
                                    ELSE LittleEndian(o.args[i], w[i])
    IN  <<Opcode[o.op]>> \o Operand(1) \o Operand(2)

\* The length that the decoder advances by: a table of its own in the source,
\* by opcode byte.
instruction_len(byte) ==
    CASE byte \in {16, 34, 35, 36, 37, 128, 129} -> 3
      [] byte \in {32, 33}                       -> 2
      [] byte \in {96, 97, 98}                   -> 5
      [] byte \in {112, 113, 144}                -> 4
      [] OTHER                                   -> 1

\* The unsigned number in `width` bytes from address `at`.
ReadOperand(code, at, width) ==
    LET Byte(i) == code[at + i] * 256^(i - 1)
    IN  CASE width = 1 -> Byte(1)
          [] width = 2 -> Byte(1) + Byte(2)
          [] width = 4 -> Byte(1) + Byte(2) + Byte(3) + Byte(4)

InvalidOpcode == [error |-> "InvalidOpcode"]
UnexpectedEof == [error |-> "UnexpectedEof"]

\* The instruction at an address and its length, or an error: no opcode has
\* this byte, or the code ends within the operands.
decode_at(code, pc) ==
    IF pc >= Len(code) THEN UnexpectedEof ELSE
    LET byte == code[pc + 1]
        name == from_byte[byte]
        w    == Widths(name)
        Start(i) == pc + 1 + (IF i = 2 THEN w[1] ELSE 0)
    IN  IF byte \notin DOMAIN from_byte THEN InvalidOpcode
        ELSE IF \E i \in DOMAIN w : Start(i) + w[i] > Len(code)
        THEN UnexpectedEof
        ELSE [op   |-> name,
              args |-> [i \in DOMAIN w |->
                           ReadOperand(code, Start(i), w[i])],
              len  |-> instruction_len(byte)]

Decoded(d) == "op" \in DOMAIN d

\* The addresses that a sweep from 0 (BytecodeCursor, the verifier) visits,
\* up to the first one that does not decode.
Sweep(code) ==
    LET From[pc \in Nat] ==
            LET d == decode_at(code, pc)
            IN  IF pc >= Len(code) THEN {}
                ELSE IF Decoded(d) THEN {pc} \cup From[pc + d.len]
                ELSE {pc}
    IN  From[0]
=============================================================================
