---------------------------- MODULE ExecutionProofs ----------------------------
(***************************************************************************)
(* What the verifier is worth: for any program, any messages and any       *)
(* order of wakes.                                                         *)
(***************************************************************************)
EXTENDS Execution, Numbers, SequenceTheorems

(***************************************************************************)
(* The sweep.                                                              *)
(***************************************************************************)

\* next says of every address which one the sweep visits after it.
Sweeps(next, end, f) ==
    f = [pc \in Nat |-> IF pc >= end THEN {} ELSE {pc} \cup f[next[pc]]]

Onward(next, end) ==
    next \in [0..end - 1 -> Nat] /\ \A pc \in 0..end - 1 : next[pc] > pc

Closed(next, end, S) == \A q \in S : next[q] < end => next[q] \in S

\* A sweep exists: from an address it visits what every closed set has that has
\* this address.
LEMMA SweepsExist ==
    ASSUME NEW end \in Nat, NEW next, Onward(next, end)
    PROVE  \E f : Sweeps(next, end, f)
<1> DEFINE A == 0..end - 1
           From(pc) == {q \in A : \A S \in SUBSET A :
                                     pc \in S /\ Closed(next, end, S) => q \in S}
           f == [pc \in Nat |-> IF pc >= end THEN {} ELSE From(pc)]
<1>1. ASSUME NEW pc \in A PROVE From(pc) = {pc} \cup f[next[pc]]
  <2>1. next[pc] \in Nat /\ next[pc] > pc
    BY DEF Onward
  <2>2. CASE next[pc] >= end
    <3>1. f[next[pc]] = {}
      BY <2>1, <2>2
    <3>2. Closed(next, end, {pc})
      BY <2>1, <2>2 DEF Closed
    <3>3. From(pc) \subseteq {pc}
      BY <3>2
    <3>4. pc \in From(pc)
      OBVIOUS
    <3>5. QED BY <3>1, <3>3, <3>4
  <2>3. CASE next[pc] < end
    <3> DEFINE n == next[pc]
    <3>1. n \in A /\ f[n] = From(n)
      BY <2>1, <2>3
    <3> HIDE DEF f
    <3>2. Closed(next, end, From(n))
      <4> HIDE DEF n
      <4> SUFFICES ASSUME NEW q \in From(n), next[q] < end
                   PROVE  next[q] \in From(n)
        BY DEF Closed
      <4>1. next[q] \in A
        BY DEF Onward
      <4>2. ASSUME NEW S \in SUBSET A, n \in S, Closed(next, end, S)
            PROVE  next[q] \in S
        BY <4>2 DEF Closed
      <4>3. QED BY <4>1, <4>2
    <3>3. n \in From(n)
      BY <3>1
    <3>4. Closed(next, end, {pc} \cup From(n))
      BY <3>2, <3>3 DEF Closed
    <3>5. From(pc) \subseteq {pc} \cup From(n)
      BY <3>4
    <3>6. pc \in From(pc)
      OBVIOUS
    <3>7. From(n) \subseteq From(pc)
      BY <2>3, <3>1 DEF Closed
    <3>8. QED BY <3>1, <3>5, <3>6, <3>7
  <2>4. QED BY <2>1, <2>2, <2>3
<1>2. f = [pc \in Nat |-> IF pc >= end THEN {} ELSE {pc} \cup f[next[pc]]]
  <2> HIDE DEF From
  <2>1. ASSUME NEW pc \in Nat
        PROVE  (IF pc >= end THEN {} ELSE From(pc))
                 = IF pc >= end THEN {} ELSE {pc} \cup f[next[pc]]
    <3>1. CASE pc >= end
      BY <3>1
    <3>2. CASE ~(pc >= end)
      <4>1. pc \in A
        BY <3>2
      <4>2. QED BY <1>1, <3>2, <4>1
    <3>3. QED BY <3>1, <3>2
  <2>2. QED BY <2>1
<1>3. QED BY <1>2 DEF Sweeps

\* It visits the address it starts from, addresses of the code only, and after
\* each the next.
Visits(next, end, f, pc) ==
    /\ f[pc] \subseteq 0..end - 1 /\ Closed(next, end, f[pc])
    /\ pc < end => pc \in f[pc]

LEMMA SweepsClosed ==
    ASSUME NEW end \in Nat, NEW next, Onward(next, end), NEW f, Sweeps(next, end, f),
           NEW start \in Nat
    PROVE  Visits(next, end, f, start)
<1> DEFINE S == {k \in Nat : \A pc \in Nat : end - pc <= k => Visits(next, end, f, pc)}
<1>0. ASSUME NEW pc \in Nat
      PROVE  f[pc] = IF pc >= end THEN {} ELSE {pc} \cup f[next[pc]]
  BY Zenon DEF Sweeps
<1>1. ASSUME NEW pc \in Nat
      PROVE  /\ ~(pc < end) => f[pc] = {}
             /\ pc < end => f[pc] = {pc} \cup f[next[pc]]
  <2>1. CASE pc < end
    <3>1. ~(pc >= end)
      BY <2>1
    <3>2. QED BY <1>0, <2>1, <3>1, Zenon
  <2>2. CASE ~(pc < end)
    <3>1. pc >= end
      BY <2>2
    <3>2. QED BY <1>0, <2>2, <3>1, Zenon
  <2>3. QED BY <2>1, <2>2
<1>a. ASSUME NEW pc \in Nat, ~(pc < end) PROVE Visits(next, end, f, pc)
  <2>1. f[pc] = {}
    BY <1>1, <1>a
  <2>2. f[pc] \subseteq 0..end - 1 /\ Closed(next, end, f[pc])
    BY <2>1 DEF Closed
  <2>3. QED BY <1>a, <2>2 DEF Visits
<1>2. 0 \in S
  BY <1>a
<1>3. ASSUME NEW k \in Nat, k \in S PROVE k + 1 \in S
  <2>1. ASSUME NEW pc \in Nat, end - pc <= k + 1 PROVE Visits(next, end, f, pc)
    <3>1. CASE ~(pc < end)
      BY <1>a, <3>1
    <3>2. CASE pc < end
      <4>1. next[pc] \in Nat /\ next[pc] > pc
        BY <3>2 DEF Onward
      <4>2. Visits(next, end, f, next[pc])
        BY <1>3, <2>1, <3>2, <4>1
      <4>3. f[pc] = {pc} \cup f[next[pc]]
        BY <1>1, <3>2
      <4>4. Closed(next, end, f[pc])
        <5>1. Closed(next, end, f[next[pc]])
          BY <4>2 DEF Visits
        <5>2. next[pc] < end => next[pc] \in f[next[pc]]
          BY <4>2 DEF Visits
        <5>3. QED BY <4>3, <5>1, <5>2 DEF Closed
      <4>5. f[pc] \subseteq 0..end - 1
        BY <3>2, <4>2, <4>3 DEF Visits
      <4>6. QED BY <4>3, <4>4, <4>5 DEF Visits
    <3>3. QED BY <3>1, <3>2
  <2>2. QED BY <2>1
<1>4. 0..end \subseteq S
  <2> HIDE DEF S
  <2>1. QED BY <1>2, <1>3, Inductive
<1>5. QED BY <1>4

\* What decode_at gives has a length.
LEMMA DecodedLength ==
    ASSUME NEW code, NEW pc, Decoded(decode_at(code, pc))
    PROVE  decode_at(code, pc).len \in 1..5
<1> DEFINE byte == code[pc + 1]
           w    == Widths(from_byte[byte])
           d    == [op   |-> from_byte[byte],
                    args |-> [i \in DOMAIN w |->
                                 ReadOperand(code, pc + 1 + (IF i = 2 THEN w[1] ELSE 0),
                                             w[i])],
                    len  |-> instruction_len(byte)]
<1>1. decode_at(code, pc) \in {UnexpectedEof, InvalidOpcode, d}
  BY DEF decode_at
<1>2. ~Decoded(UnexpectedEof) /\ ~Decoded(InvalidOpcode)
  BY DEF Decoded, UnexpectedEof, InvalidOpcode
<1>3. decode_at(code, pc) = d
  BY <1>1, <1>2
<1>4. d.len = instruction_len(byte)
  OBVIOUS
<1>5. instruction_len(byte) \in 1..5
  BY DEF instruction_len
<1>6. QED BY <1>3, <1>4, <1>5

\* The verifier looks at the first instruction, and behind each that it looks at
\* at the next.
After(code, pc) == pc + decode_at(code, pc).len

LEMMA SweepIs ==
    ASSUME NEW code, Len(code) \in Nat
    PROVE  /\ Sweep(code) \subseteq 0..Len(code) - 1
           /\ Len(code) > 0 => 0 \in Sweep(code)
           /\ \A pc \in Sweep(code) :
                 Decoded(decode_at(code, pc)) /\ After(code, pc) < Len(code)
                     => After(code, pc) \in Sweep(code)
<1> DEFINE end  == Len(code)
           D(pc) == decode_at(code, pc)
           Equation(g) == g = [pc \in Nat |-> IF pc >= end THEN {}
                                              ELSE IF Decoded(D(pc))
                                              THEN {pc} \cup g[pc + D(pc).len]
                                              ELSE {pc}]
           next == [pc \in 0..end - 1 |-> IF Decoded(D(pc)) THEN After(code, pc) ELSE end]
           From == CHOOSE g : Equation(g)
<1>1. ASSUME NEW pc \in 0..end - 1, Decoded(D(pc))
      PROVE  After(code, pc) \in Nat /\ After(code, pc) > pc
  <2>1. D(pc).len \in 1..5
    BY <1>1, DecodedLength
  <2>2. QED BY <2>1 DEF After
<1>2. \A pc \in 0..end - 1 :
         /\ Decoded(D(pc)) => next[pc] = After(code, pc)
         /\ ~Decoded(D(pc)) => next[pc] = end
  OBVIOUS
<1>3. Onward(next, end)
  <2>1. \A pc \in 0..end - 1 : next[pc] \in Nat /\ next[pc] > pc
    <3> HIDE DEF next, D
    <3>1. QED BY <1>1, <1>2
  <2>2. QED BY <2>1 DEF Onward
<1>4. ASSUME NEW f
      PROVE  Sweeps(next, end, f) <=> Equation(f)
  <2> DEFINE B(pc) == IF pc >= end THEN {} ELSE {pc} \cup f[next[pc]]
             C(pc) == IF pc >= end THEN {}
                      ELSE IF Decoded(D(pc)) THEN {pc} \cup f[pc + D(pc).len] ELSE {pc}
  <2>1. ASSUME f[end] = {}, NEW pc \in Nat PROVE B(pc) = C(pc)
    <3>1. CASE pc >= end
      BY <3>1
    <3>2. CASE ~(pc >= end)
      <4>1. pc \in 0..end - 1
        BY <3>2
      <4>2. CASE Decoded(D(pc))
        <5>1. next[pc] = pc + D(pc).len
          BY <4>1, <4>2 DEF After
        <5> HIDE DEF next, D
        <5>2. QED BY <3>2, <4>2, <5>1
      <4>3. CASE ~Decoded(D(pc))
        <5>1. next[pc] = end
          BY <4>1, <4>3
        <5> HIDE DEF next, D
        <5>2. QED BY <2>1, <3>2, <4>3, <5>1
      <4>4. QED BY <4>2, <4>3
    <3>3. QED BY <3>1, <3>2
  <2>2. Sweeps(next, end, f) <=> f = [pc \in Nat |-> B(pc)]
    BY DEF Sweeps
  <2>3. Equation(f) <=> f = [pc \in Nat |-> C(pc)]
    OBVIOUS
  <2>4. B(end) = {} /\ C(end) = {}
    OBVIOUS
  <2> HIDE DEF B, C, Equation
  <2>5. Sweeps(next, end, f) \/ Equation(f) => f[end] = {}
    BY <2>2, <2>3, <2>4
  <2>6. f[end] = {} => [pc \in Nat |-> B(pc)] = [pc \in Nat |-> C(pc)]
    BY <2>1
  <2>7. QED BY <2>2, <2>3, <2>5, <2>6
<1>5. \E f : Equation(f)
  <2> HIDE DEF next, Equation
  <2>1. QED BY <1>3, <1>4, SweepsExist
<1>6. Equation(From)
  <2> HIDE DEF Equation
  <2>1. QED BY <1>5
<1>7. Sweep(code) = From[0]
  BY DEF Sweep
<1>8. Visits(next, end, From, 0)
  <2>1. Sweeps(next, end, From)
    <3> HIDE DEF next, Equation, From
    <3>1. QED BY <1>4, <1>6
  <2> HIDE DEF next, From
  <2>2. QED BY <1>3, <2>1, SweepsClosed
<1>9. ASSUME NEW pc \in Sweep(code), Decoded(D(pc)), After(code, pc) < end
      PROVE  After(code, pc) \in Sweep(code)
  <2> HIDE DEF next, From, D
  <2>1. pc \in 0..end - 1 /\ next[pc] = After(code, pc)
    BY <1>2, <1>7, <1>8, <1>9 DEF Visits
  <2>2. QED BY <1>7, <1>8, <1>9, <2>1 DEF Visits, Closed
<1>10. QED
  <2> HIDE DEF next, From
  <2>1. QED BY <1>7, <1>8, <1>9 DEF Visits

(***************************************************************************)
(* Stacks: of operands, and of frames.                                     *)
(***************************************************************************)

IsStack(s) == \E T : s \in Seq(T)

\* The beginning of a stack.
LEMMA CutIs ==
    ASSUME NEW s, IsStack(s), NEW n \in 0..Len(s)
    PROVE  /\ IsStack(SubSeq(s, 1, n)) /\ Len(SubSeq(s, 1, n)) = n
           /\ \A i \in 1..n : SubSeq(s, 1, n)[i] = s[i]
<1>1. PICK T : s \in Seq(T)
  BY DEF IsStack
<1>2. \A i \in 1..n : s[i] \in T
  <2>1. \A i \in 1..n : i \in 1..Len(s)
    BY <1>1
  <2>2. QED BY <1>1, <2>1, ElementOfSeq
<1>3. n \in Nat /\ n - 1 + 1 = n /\ (1 <= n \/ n = 0)
  BY <1>1
<1>4. /\ SubSeq(s, 1, n) \in Seq(T)
      /\ Len(SubSeq(s, 1, n)) = IF 1 <= n THEN n - 1 + 1 ELSE 0
      /\ \A i \in 1..n - 1 + 1 : SubSeq(s, 1, n)[i] = s[1 + i - 1]
  BY <1>2, <1>3, SubSeqProperties
<1>5. Len(SubSeq(s, 1, n)) = n
  BY <1>3, <1>4
<1>6. \A i \in 1..n : i \in 1..n - 1 + 1 /\ 1 + i - 1 = i
  BY <1>3
<1>7. QED BY <1>4, <1>5, <1>6 DEF IsStack

\* What an instruction leaves when it takes k operands.
LEMMA BelowIs ==
    ASSUME IsStack(stack), NEW k \in 0..Len(stack)
    PROVE  IsStack(Below(k)) /\ Len(Below(k)) = Len(stack) - k
<1>1. Len(stack) - k \in 0..Len(stack)
  BY DEF IsStack
<1>2. QED BY <1>1, CutIs DEF Below

\* What it takes.
LEMMA OperandsIs ==
    ASSUME IsStack(stack), NEW k \in 0..Len(stack)
    PROVE  IsStack(Operands(k)) /\ Len(Operands(k)) = k
<1>1. PICK T : stack \in Seq(T)
  BY DEF IsStack
<1> DEFINE m == Len(stack) - k + 1
           n == Len(stack)
<1>2. m \in Nat /\ n \in Nat /\ m >= 1 /\ n - m + 1 = k /\ (m <= n \/ k = 0) /\ (k = 0 => ~(m <= n))
  BY <1>1
<1>3. \A i \in m..n : stack[i] \in T
  BY <1>1, <1>2, ElementOfSeq
<1> HIDE DEF m, n
<1>4. /\ SubSeq(stack, m, n) \in Seq(T)
      /\ Len(SubSeq(stack, m, n)) = IF m <= n THEN n - m + 1 ELSE 0
  BY <1>2, <1>3, SubSeqProperties
<1>5. Len(SubSeq(stack, m, n)) = k
  BY <1>2, <1>4
<1>6. QED BY <1>4, <1>5 DEF m, n, Operands, IsStack

\* A stack with one more.
LEMMA AppendIs ==
    ASSUME NEW s, IsStack(s), NEW v
    PROVE  /\ IsStack(Append(s, v)) /\ Len(Append(s, v)) = Len(s) + 1
           /\ \A i \in 1..Len(s) : Append(s, v)[i] = s[i]
           /\ Append(s, v)[Len(s) + 1] = v
<1>1. PICK T : s \in Seq(T)
  BY DEF IsStack
<1>2. s \in Seq(T \cup {v})
  BY <1>1
<1>3. /\ Append(s, v) \in Seq(T \cup {v}) /\ Len(Append(s, v)) = Len(s) + 1
      /\ \A i \in 1..Len(s) : Append(s, v)[i] = s[i]
      /\ Append(s, v)[Len(s) + 1] = v
  BY <1>2, AppendProperties
<1>4. QED BY <1>3 DEF IsStack

\* A stack on another.
LEMMA ConcatIs ==
    ASSUME NEW s, IsStack(s), NEW t, IsStack(t)
    PROVE  IsStack(s \o t) /\ Len(s \o t) = Len(s) + Len(t)
<1>1. PICK S : s \in Seq(S)
  BY DEF IsStack
<1>2. PICK T : t \in Seq(T)
  BY DEF IsStack
<1>3. s \in Seq(S \cup T) /\ t \in Seq(S \cup T)
  BY <1>1, <1>2
<1>4. s \o t \in Seq(S \cup T) /\ Len(s \o t) = Len(s) + Len(t)
  BY <1>3, ConcatProperties
<1>5. QED BY <1>4 DEF IsStack

(***************************************************************************)
(* Execution.                                                              *)
(***************************************************************************)

Sound(p) == verify_program(p) /\ Aligned(p)

\* A frame stands where the verifier has been, or behind the code.
Located(p, fr) ==
    /\ fr = [func |-> fr.func, pc |-> fr.pc, base |-> fr.base, locals |-> fr.locals]
    /\ fr.func \in DOMAIN p.functions
    /\ fr.pc \in Nat
    /\ fr.pc < Len(p.functions[fr.func].code)
          => fr.pc \in Sweep(p.functions[fr.func].code)

FramesLocated(p, fr, cs) ==
    /\ fr # NoFrame => Located(p, fr)
    /\ IsStack(cs)
    /\ \A i \in 1..Len(cs) : Located(p, cs[i])

Safe ==
    /\ unit \in DOMAIN Program /\ Sound(program)
    /\ FramesLocated(program, frame, calls)
    /\ error \notin Unresolved

ResolvedInv ==
    IF unit \in DOMAIN Program THEN Sound(program) => Safe
                               ELSE status = "Refused" /\ error = "None"

\* A call starts where the verifier starts.
LEMMA NewFrameLocated ==
    ASSUME NEW u \in DOMAIN Program, u = unit, NEW id \in DOMAIN program.functions,
           NEW args, NEW base
    PROVE  Located(program, NewFrame(id, args, base))
<1> DEFINE fr   == NewFrame(id, args, base)
           code == program.functions[id].code
<1>1. fr.func = id /\ fr.pc = 0
      /\ fr = [func |-> fr.func, pc |-> fr.pc, base |-> fr.base, locals |-> fr.locals]
  BY DEF NewFrame
<1>2. Len(code) \in Nat
  BY ImagesAssumption DEF IsImage, program
<1>3. Len(code) > 0 => 0 \in Sweep(code)
  BY <1>2, SweepIs
<1> HIDE DEF fr
<1>4. QED BY <1>1, <1>2, <1>3 DEF Located, fr

\* What is fetched was verified, and what follows it too.
LEMMA FetchedVerified ==
    ASSUME Safe, frame # NoFrame, frame.pc < CodeLen
    PROVE  /\ Located(program, frame)
           /\ Decoded(Fetched) /\ Fetched.len \in Nat
           /\ verify_op(program, program.functions[frame.func].code, Fetched)
           /\ \A fr : /\ fr = [func |-> fr.func, pc |-> fr.pc, base |-> fr.base,
                              locals |-> fr.locals]
                     /\ fr.func = frame.func /\ fr.pc = NextPc
                     => Located(program, fr)
<1> DEFINE code == program.functions[frame.func].code
<1>1. Located(program, frame) /\ frame.func \in DOMAIN program.functions
  BY DEF Safe, FramesLocated, Located
<1>2. frame.pc \in Sweep(code) /\ frame.pc \in Nat
  BY <1>1 DEF Located, CodeLen
<1>3. /\ Len(code) \in Nat
      /\ program.functions[frame.func].at
            = [pc \in 0..Len(code) - 1 |-> decode_at(code, pc)]
  BY <1>1, ImagesAssumption DEF IsImage, program, Safe
<1>4. Fetched = decode_at(code, frame.pc)
  <2>1. frame.pc \in 0..Len(code) - 1
    BY <1>2, <1>3 DEF CodeLen
  <2>2. QED BY <1>3, <2>1 DEF Fetched
<1>5. Decoded(Fetched) /\ verify_op(program, code, Fetched)
  BY <1>1, <1>2, <1>4 DEF Safe, Sound, verify_program, verify_function
<1>6. Fetched.len \in 1..5 /\ NextPc = After(code, frame.pc)
  BY <1>4, <1>5, DecodedLength DEF NextPc, After
<1>7. NextPc < Len(code) => NextPc \in Sweep(code)
  BY <1>2, <1>3, <1>4, <1>5, <1>6, SweepIs
<1>8. NextPc \in Nat
  BY <1>2, <1>6 DEF NextPc
<1> HIDE DEF code
<1>9. ASSUME NEW fr,
             fr = [func |-> fr.func, pc |-> fr.pc, base |-> fr.base, locals |-> fr.locals],
             fr.func = frame.func, fr.pc = NextPc
      PROVE  Located(program, fr)
  BY <1>1, <1>7, <1>8, <1>9 DEF Located, code
<1>10. QED BY <1>1, <1>5, <1>6, <1>9 DEF code

(***************************************************************************)
(* Steps that stay in their frame.                                         *)
(***************************************************************************)

\* What an instruction computes is a value, or one of these refusals.
LEMMA ComputeKinds ==
    ASSUME NEW op \in Unary \cup (Binary \ {"LoadIndex"}), NEW q
    PROVE  \/ IsValue(Compute(op, q))
           \/ Compute(op, q).error \in {"TypeMismatch", "DivisionByZero", "Panic"}
<1> DEFINE Fails(r) == r.error \in {"TypeMismatch", "DivisionByZero", "Panic"}
<1>1. \A b : IsValue(Bool(b))
  BY DEF IsValue, Bool
<1>2. (\A n : IsValue(Integer(n))) /\ \A n, d : IsValue(Float(n, d))
  BY DEF IsValue, Integer, Float
<1>3. /\ Fails(Failure("TypeMismatch"))
      /\ Fails(Failure("DivisionByZero"))
      /\ Fails(Failure("Panic"))
  BY DEF Failure
<1> HIDE DEF Fails
<1>4. ASSUME NEW a, NEW b
      PROVE  /\ IsValue(binary_numeric(op, a, b)) \/ Fails(binary_numeric(op, a, b))
             /\ IsValue(binary_div(a, b)) \/ Fails(binary_div(a, b))
             /\ IsValue(binary_mod(a, b)) \/ Fails(binary_mod(a, b))
             /\ IsValue(compare_ordering(op, a, b)) \/ Fails(compare_ordering(op, a, b))
  <2>1. IsValue(binary_numeric(op, a, b)) \/ Fails(binary_numeric(op, a, b))
    BY <1>2, <1>3, Zenon DEF binary_numeric
  <2>2. IsValue(binary_div(a, b)) \/ Fails(binary_div(a, b))
    BY <1>2, <1>3, Zenon DEF binary_div
  <2>3. IsValue(binary_mod(a, b)) \/ Fails(binary_mod(a, b))
    BY <1>2, <1>3, Zenon DEF binary_mod
  <2>4. IsValue(compare_ordering(op, a, b)) \/ Fails(compare_ordering(op, a, b))
    BY <1>1, <1>3, Zenon DEF compare_ordering
  <2>5. QED BY <2>1, <2>2, <2>3, <2>4
<1>5. CASE op \in {"Add", "Sub", "Mul"}
  <2>1. Compute(op, q) = binary_numeric(op, q[1], q[2])
    BY <1>5 DEF Compute
  <2>2. QED BY <1>4, <2>1 DEF Fails
<1>6. CASE op \in {"Div", "Mod"}
  <2>1. Compute(op, q) \in {binary_div(q[1], q[2]), binary_mod(q[1], q[2])}
    BY <1>6 DEF Compute
  <2>2. QED BY <1>4, <2>1 DEF Fails
<1>7. CASE op \in {"Lt", "Le", "Gt", "Ge"}
  <2>1. Compute(op, q) = compare_ordering(op, q[1], q[2])
    BY <1>7 DEF Compute
  <2>2. QED BY <1>4, <2>1 DEF Fails
<1>8. CASE op \in {"Eq", "Ne", "Not"}
  <2>1. Compute(op, q) \in {Bool(q[1] = q[2]), Bool(q[1] # q[2]), Bool(~truthy(q[1]))}
    BY <1>8 DEF Compute
  <2>2. QED BY <1>1, <2>1
<1>9. CASE op = "Neg"
  <2>1. Compute(op, q) \in {Integer(Wrap(-q[1].integer)),
                            Float(-q[1].num, q[1].den), Failure("TypeMismatch")}
    BY <1>9 DEF Compute
  <2>2. QED BY <1>2, <1>3, <2>1 DEF Fails
<1>10. QED BY <1>5, <1>6, <1>7, <1>8, <1>9 DEF Unary, Binary

\* So is what the host answers.
LEMMA HostKinds ==
    ASSUME NEW id, NEW args
    PROVE  IsValue(call_host(id, args)) \/ call_host(id, args).error = "HostError"
<1> DEFINE Fine(r) == IsValue(r) \/ r.error = "HostError"
           q       == args \o <<Nil, Nil, Nil>>
           object  == q[1]
           key     == IF q[2].tag = "integer" THEN q[2].integer ELSE -1
           Length  == CASE object.tag = "array"  -> Integer(Len(object.items))
                        [] object.tag = "table"  ->
                               Integer(Cardinality(DOMAIN object.fields))
                        [] object.tag = "string" -> Integer(Len(object.text))
                        [] OTHER -> Failure("HostError")
           Field   == IF object.tag # "table" \/ key < 0 THEN Failure("HostError")
                      ELSE Table((key :> q[3]) @@ object.fields)
           Index   == IF \/ object.tag # "array"
                         \/ key \notin 0..Len(object.items) - 1
                      THEN Failure("HostError")
                      ELSE Array([object.items EXCEPT ![key + 1] = q[3]])
           Asserted == IF object = Bool(TRUE) THEN Nil ELSE Failure("HostError")
<1>1. /\ \A n : Fine(Integer(n))
      /\ \A f : Fine(Table(f))
      /\ \A s : Fine(Array(s))
      /\ Fine(Nil)
      /\ Fine(Failure("HostError"))
  BY DEF IsValue, Integer, Table, Array, Nil, Failure
<1>2. call_host(id, args) =
         CASE id = host_id.CORE_LEN -> Length
           [] id = host_id.CORE_SET_FIELD -> Field
           [] id = host_id.CORE_SET_INDEX -> Index
           [] id = host_id.CORE_ASSERT -> Asserted
           [] id = host_id.TIME_TICK -> Integer(0)
           [] OTHER -> Nil
  BY Zenon DEF call_host
<1>3. Fine(Length)
  <2> HIDE DEF Fine, object
  <2>1. QED BY <1>1, Zenon
<1>4. Fine(Field) /\ Fine(Index) /\ Fine(Asserted)
  <2> HIDE DEF Fine, object, key, q
  <2>1. QED BY <1>1, Zenon
<1>5. Fine(CASE id = host_id.CORE_LEN -> Length
             [] id = host_id.CORE_SET_FIELD -> Field
             [] id = host_id.CORE_SET_INDEX -> Index
             [] id = host_id.CORE_ASSERT -> Asserted
             [] id = host_id.TIME_TICK -> Integer(0)
             [] OTHER -> Nil)
  <2> HIDE DEF Fine, Length, Field, Index, Asserted
  <2>1. QED BY <1>1, <1>3, <1>4, Zenon
<1>6. QED BY <1>2, <1>5

\* The frame stays where it is, or behind the instruction.
LEMMA Still ==
    ASSUME Safe, UNCHANGED <<unit, calls, frame>>, error' \notin Unresolved
    PROVE  Safe'
BY DEF Safe, FramesLocated, program

LEMMA Onto ==
    ASSUME Safe, frame # NoFrame, frame.pc < CodeLen,
           UNCHANGED <<unit, calls>>, error' \notin Unresolved,
           frame' = [func |-> frame'.func, pc |-> frame'.pc,
                     base |-> frame'.base, locals |-> frame'.locals],
           frame'.func = frame.func, frame'.pc = NextPc
    PROVE  Safe'
<1>1. Located(program, frame')
  BY FetchedVerified
<1>2. program' = program
  BY DEF program
<1>3. QED BY <1>1, <1>2 DEF Safe, FramesLocated

LEMMA Straight ==
    ASSUME Safe, frame # NoFrame, frame.pc < CodeLen,
           UNCHANGED <<unit, calls>>, error' \notin Unresolved, Advance
    PROVE  Safe'
<1>1. frame = [func |-> frame.func, pc |-> frame.pc, base |-> frame.base,
               locals |-> frame.locals]
  BY FetchedVerified DEF Located
<1>2. frame' = [func |-> frame.func, pc |-> NextPc, base |-> frame.base,
                locals |-> frame.locals]
  BY <1>1 DEF Advance
<1>3. QED BY <1>2, Onto

\* What an instruction refuses that the verifier does not look at.
Unseen == {"StackUnderflow", "TypeMismatch", "DivisionByZero", "Panic", "HostError",
           "InvalidLocal", "InvalidGlobal"}
Proceeds == \/ \E rest : Continue(rest)
            \/ \E kind \in Unseen : \E rest : Refuse(kind, rest)

\* An instruction that goes on, or is refused for what the verifier does not see.
LEMMA Through ==
    ASSUME Safe, NEW names, Fetching(names), UNCHANGED <<unit, calls>>,
           Proceeds
    PROVE  Safe'
<1>1. Advance /\ error' \notin Unresolved
  <2>1. CASE \E rest : Continue(rest)
    BY <2>1 DEF Continue, Safe
  <2>2. CASE \E kind \in Unseen : \E rest : Refuse(kind, rest)
    BY <2>2 DEF Refuse, Unseen, Unresolved
  <2>3. QED BY <2>1, <2>2 DEF Proceeds
<1>2. frame # NoFrame /\ frame.pc < CodeLen
  BY DEF Fetching
<1>3. QED BY <1>1, <1>2, Straight

\* Moves and computations: the verifier has looked at the constant.
LEMMA MovesThrough ==
    ASSUME Safe, Push \/ PushNew \/ PopDupNop \/ Load \/ ComputeOp
    PROVE  Safe'
<1>1. CASE Push
  <2>1. UNCHANGED <<unit, calls>>
    BY <1>1 DEF Push, others, flow
  <2>2. PICK names : Fetching(names)
    BY <1>1 DEF Push
  <2>3. Fetched.op = "PushConst" => Arg(1) < Len(program.constants)
    <3>1. verify_op(program, program.functions[frame.func].code, Fetched)
      BY <2>2, FetchedVerified DEF Fetching
    <3>2. Fetched.op = "PushConst" => Fetched.op \notin Branches /\ Fetched.op # "Call"
                                     /\ Fetched.op # "CallHost"
      BY DEF Branches
    <3>3. QED BY <3>1, <3>2, Zenon DEF verify_op, Arg
  <2>4. Proceeds
    <3>1. CASE Arg(1) < Len(Pool)
      BY <1>1, <3>1 DEF Push, Proceeds
    <3>2. CASE ~(Arg(1) < Len(Pool))
      <4>1. Fetched.op \in {"PushConst", "LoadLocal", "LoadGlobal"}
            /\ Refuse(PastPool, stack)
        BY <1>1, <3>2 DEF Push, Fetching
      <4>2. Fetched.op # "PushConst"
        BY <2>3, <3>2 DEF Pool
      <4>3. PastPool \in Unseen
        BY <4>1, <4>2 DEF PastPool, Unseen
      <4>4. QED BY <4>1, <4>3 DEF Proceeds
    <3>3. QED BY <3>1, <3>2
  <2>5. QED BY <2>1, <2>2, <2>4, Through
<1>2. CASE PushNew
  <2>1. UNCHANGED <<unit, calls>>
    BY <1>2 DEF PushNew, others, flow
  <2>2. Proceeds
    BY <1>2, Zenon DEF PushNew, Proceeds
  <2>3. \E names : Fetching(names)
    BY <1>2 DEF PushNew
  <2>4. QED BY <2>1, <2>2, <2>3, Through
<1>3. CASE PopDupNop
  <2>1. UNCHANGED <<unit, calls>>
    BY <1>3 DEF PopDupNop, others, flow
  <2>2. Proceeds
    BY <1>3 DEF PopDupNop, Underflow, Unseen, Proceeds
  <2>3. \E names : Fetching(names)
    BY <1>3 DEF PopDupNop
  <2>4. QED BY <2>1, <2>2, <2>3, Through
<1>4. CASE Load
  <2>1. UNCHANGED <<unit, calls>>
    BY <1>4 DEF Load, others, flow
  <2>2. Proceeds
    BY <1>4 DEF Load, Underflow, Unseen, Proceeds
  <2>3. \E names : Fetching(names)
    BY <1>4 DEF Load
  <2>4. QED BY <2>1, <2>2, <2>3, Through
<1>5. CASE ComputeOp
  <2>1. UNCHANGED <<unit, calls>>
    BY <1>5 DEF ComputeOp, others, flow
  <2>2. Fetched.op \in Unary \cup (Binary \ {"LoadIndex"})
    BY <1>5 DEF ComputeOp, Fetching
  <2>3. Proceeds
    <3> DEFINE k == IF Fetched.op \in Binary THEN 2 ELSE 1
               result == Compute(Fetched.op, Operands(k))
    <3>1. IsValue(result) \/ result.error \in Unseen
      BY <2>2, ComputeKinds DEF Unseen
    <3>2. \/ Underflow(k)
          \/ IF IsValue(result) THEN Continue(Append(Below(k), result))
                                ELSE Refuse(result.error, Below(k))
      BY <1>5 DEF ComputeOp
    <3> HIDE DEF k, result
    <3>3. QED BY <3>1, <3>2 DEF Underflow, Unseen, Proceeds
  <2>4. \E names : Fetching(names)
    BY <1>5 DEF ComputeOp
  <2>5. QED BY <2>1, <2>3, <2>4, Through
<1>6. QED BY <1>1, <1>2, <1>3, <1>4, <1>5

\* Stores.
LEMMA StoresThrough ==
    ASSUME Safe, StoreLocal \/ StoreGlobal \/ StoreInto
    PROVE  Safe'
<1>1. CASE StoreLocal
  <2>1. UNCHANGED <<unit, calls>>
    BY <1>1 DEF StoreLocal, others, flow
  <2>2. Fetching({"StoreLocal"})
    BY <1>1 DEF StoreLocal
  <2>3. CASE \E kind \in Unseen : \E rest : Refuse(kind, rest)
    BY <2>1, <2>2, <2>3, Through DEF Proceeds
  <2>4. CASE ~ \E kind \in Unseen : \E rest : Refuse(kind, rest)
    <3>1. /\ frame' = [frame EXCEPT !.pc = NextPc,
                                    !.locals[Arg(1) + 1] = Operands(1)[1]]
          /\ UNCHANGED error
      BY <1>1, <2>4 DEF StoreLocal, Underflow, Unseen, Proceeds
    <3>2. frame # NoFrame /\ frame.pc < CodeLen
      BY <2>2 DEF Fetching
    <3>3. frame = [func |-> frame.func, pc |-> frame.pc, base |-> frame.base,
                   locals |-> frame.locals]
      BY <3>2, FetchedVerified DEF Located
    <3>4. frame' = [func |-> frame.func, pc |-> NextPc, base |-> frame.base,
                    locals |-> [frame.locals EXCEPT ![Arg(1) + 1] = Operands(1)[1]]]
      BY <3>1, <3>3
    <3>5. error' \notin Unresolved
      BY <3>1 DEF Safe
    <3>6. QED BY <2>1, <3>2, <3>4, <3>5, Onto
  <2>5. QED BY <2>3, <2>4
<1>2. CASE StoreGlobal
  <2>1. UNCHANGED <<unit, calls>>
    BY <1>2 DEF StoreGlobal, flow
  <2>2. Proceeds
    BY <1>2 DEF StoreGlobal, Underflow, Unseen, Proceeds
  <2>3. \E names : Fetching(names)
    BY <1>2 DEF StoreGlobal
  <2>4. QED BY <2>1, <2>2, <2>3, Through
<1>3. CASE StoreInto
  <2>1. UNCHANGED <<unit, calls>>
    BY <1>3 DEF StoreInto, others, flow
  <2>2. Proceeds
    BY <1>3 DEF StoreInto, Underflow, Unseen, Proceeds
  <2>3. \E names : Fetching(names)
    BY <1>3 DEF StoreInto
  <2>4. QED BY <2>1, <2>2, <2>3, Through
<1>4. QED BY <1>1, <1>2, <1>3

\* The host, the other workers, and waiting.
LEMMA CallsOutThrough ==
    ASSUME Safe, CallHost \/ Send \/ Receive \/ Suspend \/ Wake \/ \E v : PushMessage(v)
    PROVE  Safe'
<1>1. CASE CallHost
  <2>1. UNCHANGED <<unit, calls>>
    BY <1>1 DEF CallHost, flow
  <2>2. Proceeds
    <3> DEFINE result == call_host(Arg(1), Operands(Arg(2)))
    <3>1. IsValue(result) \/ result.error = "HostError"
      BY HostKinds
    <3>2. \/ Refuse("HostError", stack)
          \/ Refuse("StackUnderflow", stack)
          \/ IsValue(result) /\ Continue(Append(Below(Arg(2)), result))
          \/ ~IsValue(result) /\ Refuse(result.error, Below(Arg(2)))
      BY <1>1 DEF CallHost
    <3> HIDE DEF result
    <3>3. QED BY <3>1, <3>2 DEF Unseen, Proceeds
  <2>3. \E names : Fetching(names)
    BY <1>1 DEF CallHost
  <2>4. QED BY <2>1, <2>2, <2>3, Through
<1>2. CASE Send
  <2>1. UNCHANGED <<unit, calls>>
    BY <1>2 DEF Send, flow
  <2>2. Proceeds
    BY <1>2 DEF Send, Unseen, Proceeds
  <2>3. \E names : Fetching(names)
    BY <1>2 DEF Send
  <2>4. QED BY <2>1, <2>2, <2>3, Through
<1>3. CASE Receive
  <2>1. UNCHANGED <<unit, calls>>
    BY <1>3 DEF Receive, flow
  <2>2. \E names : Fetching(names)
    BY <1>3 DEF Receive
  <2>3. (\E rest : Continue(rest)) \/ UNCHANGED <<frame, error>>
    BY <1>3 DEF Receive
  <2>4. CASE \E rest : Continue(rest)
    BY <2>1, <2>2, <2>4, Through DEF Proceeds
  <2>5. CASE UNCHANGED <<frame, error>>
    BY <2>1, <2>5, Still DEF Safe
  <2>6. QED BY <2>3, <2>4, <2>5
<1>4. CASE Suspend
  <2>1. UNCHANGED <<unit, calls, error>> /\ Advance
    BY <1>4 DEF Suspend, others, flow
  <2>2. frame # NoFrame /\ frame.pc < CodeLen
    BY <1>4 DEF Suspend, Fetching
  <2>3. QED BY <2>1, <2>2, Straight DEF Safe
<1>5. CASE Wake \/ \E v : PushMessage(v)
  <2>1. UNCHANGED <<unit, calls, frame, error>>
    BY <1>5 DEF Wake, PushMessage, others, flow
  <2>2. QED BY <2>1, Still DEF Safe
<1>6. QED BY <1>1, <1>2, <1>3, <1>4, <1>5

(***************************************************************************)
(* Steps that leave their frame, or start one.                             *)
(***************************************************************************)

\* A jump lands where the verifier has been, or at the end.
LEMMA BranchLands ==
    ASSUME Safe, Branch
    PROVE  Safe'
<1> DEFINE code  == program.functions[frame.func].code
           taken == IF Fetched.op = "Jump" THEN TRUE
                    ELSE Taken(Fetched.op, Operands(1)[1])
           k     == IF Fetched.op = "Jump" THEN 0 ELSE 1
<1>1. UNCHANGED <<unit, calls>>
  BY DEF Branch, others, flow
<1>2. Fetching(Branches) /\ frame # NoFrame /\ frame.pc < CodeLen /\ Fetched.op \in Branches
  BY DEF Branch, Fetching
<1>3. /\ Located(program, frame) /\ Decoded(Fetched)
      /\ verify_op(program, code, Fetched)
  BY <1>2, FetchedVerified
<1>4. /\ Len(code) \in Nat
      /\ program.functions[frame.func].at
            = [pc \in 0..Len(code) - 1 |-> decode_at(code, pc)]
  BY <1>3, ImagesAssumption DEF IsImage, program, Safe, Located
<1>5. Arg(1) <= Len(code)
  BY <1>2, <1>3, SMTT(30) DEF verify_op, Arg, Branches
<1>6. Arg(1) \in Sweep(code) \cup {Len(code)}
  <2>1. frame.pc \in Sweep(code) /\ frame.pc \in 0..Len(code) - 1
    BY <1>2, <1>3, <1>4 DEF Located, CodeLen
  <2>2. Fetched = decode_at(code, frame.pc)
    BY <1>4, <2>1 DEF Fetched
  <2>3. frame.func \in DOMAIN program.functions /\ Aligned(program)
    BY <1>3 DEF Located, Safe, Sound
  <2>4. QED BY <1>2, <1>3, <2>1, <2>2, <2>3 DEF Aligned, Arg
<1>7. Sweep(code) \subseteq 0..Len(code) - 1
  BY <1>4, SweepIs
<1>8. \/ Underflow(k)
      \/ ~taken /\ Continue(Below(k))
      \/ taken /\ Arg(1) > CodeLen
      \/ frame' = [frame EXCEPT !.pc = Arg(1)] /\ UNCHANGED error
  BY DEF Branch
<1>9. CASE Underflow(k) \/ Continue(Below(k))
  <2>1. Proceeds
    BY <1>9 DEF Underflow, Unseen, Proceeds
  <2>2. QED BY <1>1, <1>2, <2>1, Through
<1>10. CASE Arg(1) > CodeLen
  <2>1. Arg(1) \in Nat /\ CodeLen = Len(code)
    BY <1>4, <1>6, <1>7 DEF CodeLen
  <2>2. QED BY <1>4, <1>5, <1>10, <2>1
<1>11. CASE frame' = [frame EXCEPT !.pc = Arg(1)] /\ UNCHANGED error
  <2>1. frame' = [func |-> frame.func, pc |-> Arg(1), base |-> frame.base,
                  locals |-> frame.locals]
    BY <1>3, <1>11 DEF Located
  <2>2. Arg(1) \in Nat /\ (Arg(1) < Len(code) => Arg(1) \in Sweep(code))
    BY <1>4, <1>6, <1>7
  <2>3. Located(program, frame')
    BY <1>3, <2>1, <2>2 DEF Located
  <2>4. program' = program
    BY <1>1 DEF program
  <2>5. QED BY <1>1, <1>11, <2>3, <2>4 DEF Safe, FramesLocated
<1>12. QED
  <2> HIDE DEF k, taken
  <2>1. QED BY <1>8, <1>9, <1>10, <1>11

\* A call enters a function that is there.
LEMMA CallEnters ==
    ASSUME Safe, Call
    PROVE  Safe'
<1>1. /\ UNCHANGED unit
      /\ Fetching({"Call"}) /\ frame # NoFrame /\ frame.pc < CodeLen /\ Fetched.op = "Call"
  BY DEF Call, Fetching
<1>2. Arg(1) \in DOMAIN program.functions
  <2>1. verify_op(program, program.functions[frame.func].code, Fetched)
    BY <1>1, FetchedVerified
  <2>2. QED BY <1>1, <2>1, SMTT(30) DEF verify_op, Arg, Branches
<1>3. CASE Refuse("StackUnderflow", stack) /\ UNCHANGED calls
  <2>1. \E kind \in Unseen : \E rest : Refuse(kind, rest)
    BY <1>3 DEF Unseen, Proceeds
  <2>2. QED BY <1>1, <1>3, <2>1, Through DEF Proceeds
<1>4. CASE ~(Refuse("StackUnderflow", stack) /\ UNCHANGED calls)
  <2> DEFINE back == [frame EXCEPT !.pc = NextPc]
             new  == NewFrame(Arg(1), Operands(Arg(2)), Len(stack) - Arg(2))
  <2>1. calls' = Append(calls, back) /\ frame' = new /\ UNCHANGED error
    BY <1>2, <1>4 DEF Call
  <2>2. Located(program, back)
    <3>1. frame = [func |-> frame.func, pc |-> frame.pc, base |-> frame.base,
                   locals |-> frame.locals]
      BY <1>1, FetchedVerified DEF Located
    <3>2. back = [func |-> frame.func, pc |-> NextPc, base |-> frame.base,
                  locals |-> frame.locals]
      BY <3>1
    <3> HIDE DEF back
    <3>3. back = [func |-> back.func, pc |-> back.pc, base |-> back.base,
                  locals |-> back.locals] /\ back.func = frame.func /\ back.pc = NextPc
      BY <3>2
    <3>4. QED BY <1>1, <3>3, FetchedVerified
  <2>3. Located(program, new)
    BY <1>2, NewFrameLocated DEF Safe
  <2> HIDE DEF back, new
  <2>4. IsStack(calls) /\ \A i \in 1..Len(calls) : Located(program, calls[i])
    BY DEF Safe, FramesLocated
  <2>5. /\ IsStack(calls') /\ Len(calls') = Len(calls) + 1
        /\ \A i \in 1..Len(calls) : calls'[i] = calls[i]
        /\ calls'[Len(calls) + 1] = back
    BY <2>1, <2>4, AppendIs
  <2>6. \A i \in 1..Len(calls') : Located(program, calls'[i])
    <3>1. Len(calls) \in Nat
      BY <2>4 DEF IsStack
    <3>2. QED BY <2>2, <2>4, <2>5, <3>1
  <2>7. program' = program
    BY <1>1 DEF program
  <2>8. QED BY <1>1, <2>1, <2>3, <2>5, <2>6, <2>7 DEF Safe, FramesLocated
<1>5. QED BY <1>3, <1>4

\* A return goes back behind a call.
LEMMA ReturnsLocated ==
    ASSUME Safe, Return \/ FallOff
    PROVE  Safe'
<1>1. PICK value, rest : FinishReturn(value, rest)
  BY DEF Return, FallOff
<1>2. UNCHANGED <<unit, error>>
  BY <1>1 DEF FinishReturn
<1>3. program' = program
  BY <1>2 DEF program
<1>4. IsStack(calls) /\ \A i \in 1..Len(calls) : Located(program, calls[i])
  BY DEF Safe, FramesLocated
<1>5. CASE calls = <<>>
  <2>1. frame' = NoFrame /\ calls' = calls
    BY <1>1, <1>5 DEF FinishReturn
  <2>2. QED BY <1>2, <1>3, <2>1 DEF Safe, FramesLocated
<1>6. CASE calls # <<>>
  <2>1. /\ frame' = calls[Len(calls)]
        /\ calls' = SubSeq(calls, 1, Len(calls) - 1)
    BY <1>1, <1>6 DEF FinishReturn
  <2>2. Len(calls) \in Nat /\ Len(calls) > 0
    BY <1>4, <1>6, EmptySeq DEF IsStack
  <2>3. Len(calls) - 1 \in 0..Len(calls)
    BY <2>2
  <2>4. /\ IsStack(calls') /\ Len(calls') = Len(calls) - 1
        /\ \A i \in 1..Len(calls) - 1 : calls'[i] = calls[i]
    BY <1>4, <2>1, <2>3, CutIs
  <2>5. \A i \in 1..Len(calls') : Located(program, calls'[i])
    BY <1>4, <2>2, <2>4
  <2>6. Located(program, frame')
    BY <1>4, <2>1, <2>2
  <2>7. QED BY <1>2, <1>3, <2>4, <2>5, <2>6 DEF Safe, FramesLocated
<1>7. QED BY <1>5, <1>6

\* The entry is there.
LEMMA EntryLocated ==
    ASSUME Safe, StartEntryFrame
    PROVE  Safe'
<1>1. /\ UNCHANGED <<unit, calls, error>>
      /\ frame' = NewFrame(program.entry, <<>>, 0)
  BY DEF StartEntryFrame
<1>2. program.entry \in DOMAIN program.functions
  BY DEF Safe, Sound, verify_program
<1>3. Located(program, frame')
  BY <1>1, <1>2, NewFrameLocated DEF Safe
<1>4. program' = program
  BY <1>1 DEF program
<1>5. QED BY <1>1, <1>3, <1>4 DEF Safe, FramesLocated

(***************************************************************************)
(* The invariant.                                                          *)
(***************************************************************************)

\* Every step of a worker that is safe leaves it safe.
LEMMA StaysSafe ==
    ASSUME Safe, WorkerNext
    PROVE  Safe'
<1>1. ~BadOpcode
  BY FetchedVerified DEF BadOpcode
<1>2. CASE StartEntryFrame
  BY <1>2, EntryLocated
<1>3. CASE Push \/ PushNew \/ PopDupNop \/ Load \/ ComputeOp
  BY <1>3, MovesThrough
<1>4. CASE StoreLocal \/ StoreGlobal \/ StoreInto
  BY <1>4, StoresThrough
<1>5. CASE CallHost \/ Send \/ Receive \/ Suspend \/ Wake \/ \E v : PushMessage(v)
  BY <1>5, CallsOutThrough
<1>6. CASE Branch
  BY <1>6, BranchLands
<1>7. CASE Call
  BY <1>7, CallEnters
<1>8. CASE Return \/ FallOff
  BY <1>8, ReturnsLocated
<1>9. QED
  BY <1>1, <1>2, <1>3, <1>4, <1>5, <1>6, <1>7, <1>8 DEF WorkerNext, Step

\* A worker starts safe, or refused.
LEMMA StartsResolved ==
    ASSUME NEW u, MachineInit(u)
    PROVE  ResolvedInv
<1>1. CASE u \in DOMAIN Program
  <2>1. frame = NoFrame /\ calls = <<>> /\ error = "None" /\ unit \in DOMAIN Program
    BY <1>1 DEF MachineInit
  <2>2. IsStack(calls) /\ Len(calls) = 0
    BY <2>1 DEF IsStack
  <2>3. QED BY <2>1, <2>2 DEF ResolvedInv, Safe, FramesLocated, Unresolved
<1>2. CASE u \notin DOMAIN Program
  BY <1>2 DEF MachineInit, ResolvedInv
<1>3. QED BY <1>1, <1>2

\* A worker whose program was refused has nothing to execute.
LEMMA RefusedRests ==
    ASSUME status = "Refused", WorkerNext
    PROVE  UNCHANGED <<unit, frame, calls, status, error>>
<1>1. ~Ready
  BY DEF Ready
<1>2. ~Step
  BY <1>1 DEF Step, StartEntryFrame, BadOpcode, Push, PushNew, PopDupNop, Load,
     ComputeOp, StoreLocal, StoreGlobal, StoreInto, Branch, Call, Return, FallOff,
     CallHost, Send, Receive, Suspend, Fetching
<1>3. QED BY <1>2 DEF WorkerNext, Wake, PushMessage, flow

\* No step changes the program.
LEMMA ProgramStays ==
    ASSUME WorkerNext
    PROVE  unit' = unit
<1>1. CASE Step
  BY <1>1 DEF Step, StartEntryFrame, BadOpcode, Push, PushNew, PopDupNop, Load,
     ComputeOp, StoreLocal, StoreGlobal, StoreInto, Branch, Call, Return, FallOff,
     CallHost, Send, Receive, Suspend, FinishReturn, others
<1>2. CASE Wake \/ \E v : PushMessage(v)
  BY <1>2 DEF Wake, PushMessage, others
<1>3. QED BY <1>1, <1>2 DEF WorkerNext

\* The invariant is inductive.
LEMMA StaysResolved ==
    ASSUME ResolvedInv, [WorkerNext]_machine
    PROVE  ResolvedInv'
<1>1. CASE UNCHANGED machine
  BY <1>1 DEF machine, ResolvedInv, Safe, FramesLocated, program
<1>2. CASE WorkerNext
  <2>1. unit' = unit /\ program' = program
    BY <1>2, ProgramStays DEF program
  <2>2. CASE unit \in DOMAIN Program
    <3>1. Sound(program) => Safe'
      BY <1>2, <2>2, StaysSafe DEF ResolvedInv
    <3>2. QED BY <2>1, <2>2, <3>1 DEF ResolvedInv
  <2>3. CASE unit \notin DOMAIN Program
    BY <1>2, <2>1, <2>3, RefusedRests DEF ResolvedInv
  <2>4. QED BY <2>2, <2>3
<1>3. QED BY <1>1, <1>2

\* Of a program that the verifier accepted (wmverifier's verify_program, when the
\* loader installs it) and whose jumps land on instructions, no worker ever meets
\* a constant, a function, an address or an opcode that is not there: in
\* whatever order it takes messages, sleeps, is woken, calls and returns.
THEOREM VerifiedProgramsResolve == WorkerSpec => []VerifiedResolves
<1>1. (\E u : MachineInit(u)) => ResolvedInv
  BY StartsResolved
<1>2. ResolvedInv /\ [WorkerNext]_machine => ResolvedInv'
  BY StaysResolved
<1>3. ResolvedInv => VerifiedResolves
  BY DEF ResolvedInv, VerifiedResolves, Safe, Sound, Unresolved
<1>4. QED BY <1>1, <1>2, <1>3, PTL DEF WorkerSpec

(***************************************************************************)
(* The operand stack.                                                      *)
(***************************************************************************)

\* A frame keeps its operands up to where its callee's start; the result of the
\* callee comes on top of them.
Top(d, fr) == fr.base + d[fr.func][fr.pc] - 1

Stands(p, fr) ==
    /\ fr = [func |-> fr.func, pc |-> fr.pc, base |-> fr.base, locals |-> fr.locals]
    /\ fr.func \in DOMAIN p.functions /\ fr.base \in Nat

Calling(p, d, fr) ==
    /\ Stands(p, fr)
    /\ fr.pc \in DOMAIN d[fr.func] /\ d[fr.func][fr.pc] > 0

Resting(p, d, fr, caller) ==
    fr.func \in Called(p, d) /\ fr.base = Top(d, caller)

CallersRest(p, d, cs) ==
    /\ IsStack(cs)
    /\ \A i \in 1..Len(cs) : Calling(p, d, cs[i])
    /\ \A i \in 2..Len(cs) : Resting(p, d, cs[i], cs[i - 1])
    /\ cs # <<>> => cs[1].base = 0

FrameRests(p, d, fr, cs) ==
    /\ Stands(p, fr)
    /\ cs = <<>> => fr.base = 0
    /\ cs # <<>> => Resting(p, d, fr, cs[Len(cs)])

\* As many operands as d says, until the worker stops; then at least those of
\* the callers.
Filled(d, fr) ==
    /\ Stopped => fr.base <= Len(stack)
    /\ ~Stopped => /\ fr.pc \in DOMAIN d[fr.func]
                   /\ Len(stack) = fr.base + d[fr.func][fr.pc]

Balanced(d) ==
    /\ unit \in DOMAIN Program
    /\ Measures(program, d)
    /\ IsStack(stack)
    /\ CallersRest(program, d, calls)
    /\ frame = NoFrame => calls = <<>> /\ (~Stopped => stack = <<>>)
    /\ frame # NoFrame => FrameRests(program, d, frame, calls) /\ Filled(d, frame)
    /\ error # "StackUnderflow"

OwnedInv ==
    IF unit \in DOMAIN Program
    THEN \A d : Measures(program, d) => Balanced(d)
    ELSE /\ status = "Refused" /\ error = "None"
         /\ frame = NoFrame /\ calls = <<>>

(***************************************************************************)
(* Instructions find what they take.                                       *)
(***************************************************************************)

Running == Ready /\ frame # NoFrame /\ frame.pc < CodeLen

\* What is fetched finds its operands, and goes on where d says how many there are.
LEMMA FetchedMeasured ==
    ASSUME NEW d, Balanced(d), Running
    PROVE  /\ Stands(program, frame) /\ frame.pc \in Nat
           /\ Len(stack) \in Nat /\ frame.base \in Nat
           /\ d[frame.func][frame.pc] \in Nat
           /\ Len(stack) = frame.base + d[frame.func][frame.pc]
           /\ Pops(Fetched) \in 0..d[frame.func][frame.pc]
           /\ Pops(Fetched) \in 0..Len(stack)
           /\ Decoded(Fetched)
           /\ Fetched.op = "Call" => Fetched.args[1] \in DOMAIN program.functions
           /\ Fetched.op \in {"Return", "Halt"} /\ frame.func \in Called(program, d)
                 => d[frame.func][frame.pc] > 0
           /\ \A next \in Follows(Fetched, frame.pc) :
                 /\ next \in DOMAIN d[frame.func]
                 /\ d[frame.func][next] \in Nat
                 /\ d[frame.func][next]
                       = d[frame.func][frame.pc] - Pops(Fetched) + Pushes(Fetched)
<1> DEFINE id  == frame.func
           end == Len(program.functions[id].code)
           h   == d[id]
<1>1. ~Stopped
  BY DEF Running, Ready, Stopped
<1>2. /\ Stands(program, frame)
      /\ frame.pc \in DOMAIN h /\ Len(stack) = frame.base + h[frame.pc]
  BY <1>1 DEF Running, Balanced, FrameRests, Filled
<1>3. id \in DOMAIN program.functions /\ frame.base \in Nat
  BY <1>2 DEF Stands
<1>4. end \in Nat
  BY <1>3, ImagesAssumption DEF IsImage, program, Balanced
<1>5. DOMAIN h \subseteq 0..end /\ \A pc \in DOMAIN h : h[pc] \in Nat
  BY <1>3, Zenon DEF Balanced, Measures
<1>6. frame.pc \in DOMAIN h \ {end}
  BY <1>2, <1>4, <1>5 DEF Running, CodeLen
<1>7. /\ Decoded(Fetched) /\ Pops(Fetched) \in 0..h[frame.pc]
      /\ Fetched.op = "Call" => Fetched.args[1] \in DOMAIN program.functions
      /\ Fetched.op \in {"Return", "Halt"} /\ id \in Called(program, d)
            => h[frame.pc] > 0
      /\ \A next \in Follows(Fetched, frame.pc) :
            /\ next \in DOMAIN h
            /\ h[next] = h[frame.pc] - Pops(Fetched) + Pushes(Fetched)
  BY <1>3, <1>6, Zenon DEF Balanced, Measures, Fetched
<1> HIDE DEF h, end
<1>8. Pops(Fetched) \in 0..Len(stack) /\ Len(stack) \in Nat
  BY <1>2, <1>3, <1>5, <1>7
<1>9. frame.pc \in Nat
  BY <1>2, <1>4, <1>5
<1>10. QED BY <1>2, <1>3, <1>5, <1>7, <1>8, <1>9 DEF h

\* What an instruction leaves when it goes on, and when it is refused.
Leaves(rest) == /\ IsStack(rest)
                /\ Len(rest) = Len(stack) - Pops(Fetched) + Pushes(Fetched)
Spares(rest) == /\ IsStack(rest)
                /\ Len(rest) >= Len(stack) - Pops(Fetched)

\* A step within the frame that leaves as many operands as d says.
LEMMA GoesOn ==
    ASSUME NEW d, Balanced(d), Running, UNCHANGED <<unit, calls, error>>, ~Stopped',
           Leaves(stack'), Stands(program, frame'), frame'.func = frame.func,
           frame'.base = frame.base, frame'.pc \in Follows(Fetched, frame.pc)
    PROVE  Balanced(d)'
<1>1. program' = program
  BY DEF program
<1>2. /\ frame'.pc \in DOMAIN d[frame.func]
      /\ Len(stack') = frame.base + d[frame.func][frame'.pc]
  <2>1. Pushes(Fetched) \in Int
    BY DEF Pushes
  <2>2. /\ Len(stack) \in Nat /\ frame.base \in Nat /\ Pops(Fetched) \in Int
        /\ d[frame.func][frame.pc] \in Nat
        /\ Len(stack) = frame.base + d[frame.func][frame.pc]
    BY FetchedMeasured
  <2>3. /\ frame'.pc \in DOMAIN d[frame.func]
        /\ d[frame.func][frame'.pc]
              = d[frame.func][frame.pc] - Pops(Fetched) + Pushes(Fetched)
    BY FetchedMeasured
  <2>4. Len(stack') = Len(stack) - Pops(Fetched) + Pushes(Fetched)
    BY DEF Leaves
  <2> DEFINE a == d[frame.func][frame.pc]
             b == d[frame.func][frame'.pc]
             m == Len(stack)
             p == Pops(Fetched)
             q == Pushes(Fetched)
             base == frame.base
  <2>5. /\ m \in Nat /\ base \in Nat /\ p \in Int /\ q \in Int /\ a \in Nat
        /\ m = base + a /\ b = a - p + q /\ Len(stack') = m - p + q
    BY <2>1, <2>2, <2>3, <2>4
  <2> HIDE DEF a, b, m, p, q, base
  <2>6. Len(stack') = base + b
    BY <2>5
  <2>7. QED BY <2>3, <2>6 DEF b, base
<1>3. FrameRests(program, d, frame, calls)
  BY DEF Balanced, Running
<1>4. FrameRests(program, d, frame', calls)
  BY <1>3 DEF FrameRests, Resting
<1>5. frame' # NoFrame
  BY DEF Stands, NoFrame
<1>6. Filled(d, frame)'
  BY <1>2 DEF Filled
<1>7. IsStack(stack)'
  BY DEF Leaves, IsStack
<1>8. QED BY <1>1, <1>4, <1>5, <1>6, <1>7 DEF Balanced

\* A step that stops the worker and takes no more than it may.
LEMMA GivesUp ==
    ASSUME NEW d, Balanced(d), Running, UNCHANGED <<unit, calls>>, Stopped',
           error' # "StackUnderflow", Spares(stack'), Advance \/ UNCHANGED frame
    PROVE  Balanced(d)'
<1>1. program' = program
  BY DEF program
<1>2. /\ Stands(program, frame)
      /\ frame = [func |-> frame.func, pc |-> frame.pc, base |-> frame.base,
                  locals |-> frame.locals]
  BY FetchedMeasured DEF Stands
<1>3. /\ Stands(program, frame') /\ frame'.func = frame.func
      /\ frame'.base = frame.base
  <2>1. CASE Advance
    <3>1. frame' = [func |-> frame.func, pc |-> NextPc, base |-> frame.base,
                    locals |-> frame.locals]
      BY <1>2, <2>1 DEF Advance
    <3>2. QED BY <1>2, <3>1 DEF Stands
  <2>2. QED BY <1>2, <2>1
<1>4. frame.base <= Len(stack') /\ Len(stack') \in Nat
  <2>1. Len(stack') \in Nat
    BY DEF Spares, IsStack
  <2>2. QED BY <2>1, FetchedMeasured DEF Spares
<1>5. FrameRests(program, d, frame, calls)
  BY DEF Balanced, Running
<1>6. FrameRests(program, d, frame', calls)
  BY <1>3, <1>5 DEF FrameRests, Resting
<1>7. frame' # NoFrame
  BY <1>3 DEF Stands, NoFrame
<1>8. Filled(d, frame)'
  BY <1>3, <1>4 DEF Filled
<1>9. IsStack(stack)'
  BY DEF Spares, IsStack
<1>10. QED BY <1>1, <1>6, <1>7, <1>8, <1>9 DEF Balanced

\* An instruction that goes on behind itself, or is refused for another reason
\* than an operand that is missing.
Feeds == /\ Fetched.op \notin {"Jump", "Return", "Halt"}
         /\ \/ \E rest : Continue(rest) /\ Leaves(rest)
            \/ \E kind : \E rest : /\ kind # "StackUnderflow"
                                   /\ Refuse(kind, rest) /\ Spares(rest)

\* Either.
LEMMA Fed ==
    ASSUME NEW d, Balanced(d), NEW names, Fetching(names), UNCHANGED <<unit, calls>>,
           Feeds
    PROVE  Balanced(d)'
<1>1. Running
  BY DEF Fetching, Running
<1>2. CASE \E rest : Continue(rest) /\ Leaves(rest)
  <2>1. Advance /\ error' = error /\ ~Stopped' /\ Leaves(stack')
    BY <1>2 DEF Continue, Stopped
  <2>2. Stands(program, frame)
    BY <1>1, FetchedMeasured
  <2>3. frame' = [func |-> frame.func, pc |-> NextPc, base |-> frame.base,
                  locals |-> frame.locals]
    BY <2>1, <2>2 DEF Advance, Stands
  <2>4. Stands(program, frame')
    BY <2>2, <2>3 DEF Stands
  <2>5. NextPc \in Follows(Fetched, frame.pc)
    BY DEF Feeds, Follows, NextPc, Branches
  <2>6. QED BY <1>1, <2>1, <2>3, <2>4, <2>5, GoesOn
<1>3. CASE \E kind : \E rest : /\ kind # "StackUnderflow"
                               /\ Refuse(kind, rest) /\ Spares(rest)
  <2>1. Stopped' /\ error' # "StackUnderflow" /\ Spares(stack') /\ Advance
    BY <1>3 DEF Refuse, Stopped
  <2>2. QED BY <1>1, <2>1, GivesUp
<1>4. QED BY <1>2, <1>3 DEF Feeds

(***************************************************************************)
(* Each instruction.                                                       *)
(***************************************************************************)

LEMMA Feeding ==
    ASSUME Fetched.op \notin {"Jump", "Return", "Halt"}
    PROVE  /\ \A rest : Continue(rest) /\ Leaves(rest) => Feeds
           /\ \A kind, rest :
                 kind # "StackUnderflow" /\ Refuse(kind, rest) /\ Spares(rest) => Feeds
BY DEF Feeds

\* An instruction that takes k operands, and leaves nothing or a value.
LEMMA Takes ==
    ASSUME IsStack(stack), Pops(Fetched) \in 0..Len(stack)
    PROVE  LET rest == Below(Pops(Fetched))
           IN  /\ Spares(rest)
               /\ Pushes(Fetched) = 0 => Leaves(rest)
               /\ Pushes(Fetched) = 1 => \A v : Leaves(Append(rest, v))
<1> DEFINE rest == Below(Pops(Fetched))
<1>1. IsStack(rest) /\ Len(rest) = Len(stack) - Pops(Fetched)
  BY BelowIs
<1>2. Len(stack) \in Nat /\ Pops(Fetched) \in Nat /\ Len(rest) \in Nat
  BY <1>1 DEF IsStack
<1> HIDE DEF rest
<1>3. \A v : IsStack(Append(rest, v)) /\ Len(Append(rest, v)) = Len(rest) + 1
  BY <1>1, AppendIs
<1>4. Spares(rest)
  BY <1>1, <1>2 DEF Spares
<1>5. Pushes(Fetched) = 0 => Leaves(rest)
  BY <1>1, <1>2 DEF Leaves
<1>6. ASSUME Pushes(Fetched) = 1, NEW v PROVE Leaves(Append(rest, v))
  BY <1>1, <1>2, <1>3, <1>6 DEF Leaves
<1>7. QED BY <1>4, <1>5, <1>6 DEF rest

\* One that takes nothing.
LEMMA Adds ==
    ASSUME IsStack(stack), Pops(Fetched) = 0
    PROVE  /\ Spares(stack)
           /\ Pushes(Fetched) = 0 => Leaves(stack)
           /\ Pushes(Fetched) = 1 => \A v : Leaves(Append(stack, v))
<1>1. Len(stack) \in Nat
  BY DEF IsStack
<1>2. \A v : IsStack(Append(stack, v)) /\ Len(Append(stack, v)) = Len(stack) + 1
  BY AppendIs
<1>3. Spares(stack)
  BY <1>1 DEF Spares
<1>4. Pushes(Fetched) = 0 => Leaves(stack)
  BY <1>1 DEF Leaves
<1>5. ASSUME Pushes(Fetched) = 1, NEW v PROVE Leaves(Append(stack, v))
  BY <1>1, <1>2, <1>5 DEF Leaves
<1>6. QED BY <1>3, <1>4, <1>5

\* Moves and computations.
LEMMA MovesFed ==
    ASSUME NEW d, Balanced(d), Push \/ PushNew \/ PopDupNop \/ Load \/ ComputeOp
    PROVE  Balanced(d)'
<1>1. PICK names : Fetching(names)
  BY DEF Push, PushNew, PopDupNop, Load, ComputeOp
<1>2. UNCHANGED <<unit, calls>>
  BY DEF Push, PushNew, PopDupNop, Load, ComputeOp, others, flow
<1>3. /\ Len(stack) \in Nat /\ IsStack(stack)
      /\ Pops(Fetched) \in 0..Len(stack)
  BY <1>1, FetchedMeasured DEF Fetching, Running, Balanced
<1>4. SUFFICES Feeds
  BY <1>1, <1>2, Fed
<1>5. CASE Push
  <2>1. Fetched.op \in {"PushConst", "LoadLocal", "LoadGlobal"}
    BY <1>5 DEF Push, Fetching
  <2>2. Pops(Fetched) = 0 /\ Pushes(Fetched) = 1
    BY <2>1 DEF Pops, Pushes, Branches, Binary
  <2>3. \/ \E v : Continue(Append(stack, v))
        \/ Refuse(PastPool, stack) /\ PastPool # "StackUnderflow"
    BY <1>5, <2>1 DEF Push, PastPool
  <2>4. QED BY <1>3, <2>1, <2>2, <2>3, Adds, Feeding
<1>6. CASE PushNew
  <2>1. Fetched.op \in {"PushNil", "PushTrue", "PushFalse", "NewArray", "NewTable"}
    BY <1>6 DEF PushNew, Fetching
  <2>2. Pops(Fetched) = 0 /\ Pushes(Fetched) = 1
    BY <2>1 DEF Pops, Pushes, Branches, Binary
  <2>3. \E v : Continue(Append(stack, v))
    BY <1>6, Zenon DEF PushNew
  <2>4. QED BY <1>3, <2>1, <2>2, <2>3, Adds, Feeding
<1>7. CASE PopDupNop
  <2>1. CASE Fetched.op = "Pop"
    <3>1. Pops(Fetched) = 1 /\ Pushes(Fetched) = 0
      BY <2>1 DEF Pops, Pushes, Branches, Binary
    <3>2. ~Underflow(1)
      BY <1>3, <3>1 DEF Underflow
    <3>3. Continue(Below(1))
      BY <1>7, <2>1, <3>2 DEF PopDupNop
    <3>4. QED BY <1>3, <2>1, <3>1, <3>3, Takes, Feeding
  <2>2. CASE Fetched.op = "Dup"
    <3>1. Pops(Fetched) = 1 /\ Pushes(Fetched) = 2
      BY <2>2 DEF Pops, Pushes, Branches, Binary
    <3>2. ~Underflow(1)
      BY <1>3, <3>1 DEF Underflow
    <3>3. Continue(stack \o Operands(1))
      BY <1>7, <2>2, <3>2 DEF PopDupNop
    <3>4. 1 \in 0..Len(stack)
      BY <1>3, <3>1
    <3>5. IsStack(Operands(1)) /\ Len(Operands(1)) = 1
      BY <1>3, <3>4, OperandsIs
    <3>6. IsStack(stack \o Operands(1)) /\ Len(stack \o Operands(1)) = Len(stack) + 1
      BY <1>3, <3>5, ConcatIs
    <3>7. Leaves(stack \o Operands(1))
      BY <1>3, <3>1, <3>6 DEF Leaves
    <3>8. QED BY <2>2, <3>3, <3>7, Feeding
  <2>3. CASE Fetched.op = "Nop"
    <3>1. Pops(Fetched) = 0 /\ Pushes(Fetched) = 0
      BY <2>3 DEF Pops, Pushes, Branches, Binary
    <3>2. Continue(stack)
      BY <1>7, <2>3 DEF PopDupNop
    <3>3. QED BY <1>3, <2>3, <3>1, <3>2, Adds, Feeding
  <2>4. QED BY <1>7, <2>1, <2>2, <2>3 DEF PopDupNop, Fetching
<1>8. CASE Load
  <2> DEFINE k == IF Fetched.op = "LoadField" THEN 1 ELSE 2
  <2>1. Fetched.op \in {"LoadField", "LoadIndex"}
    BY <1>8 DEF Load, Fetching
  <2>2. Pops(Fetched) = k /\ Pushes(Fetched) = 1
    BY <2>1 DEF Pops, Pushes, Branches, Binary
  <2>3. ~Underflow(k)
    BY <1>3, <2>2 DEF Underflow
  <2>4. \/ \E v : Continue(Append(Below(k), v))
        \/ Refuse("TypeMismatch", Below(k))
    BY <1>8, <2>3 DEF Load
  <2> HIDE DEF k
  <2>5. Spares(Below(k)) /\ \A v : Leaves(Append(Below(k), v))
    BY <1>3, <2>2, Takes
  <2>6. QED BY <2>1, <2>4, <2>5, Feeding
<1>9. CASE ComputeOp
  <2> DEFINE k == IF Fetched.op \in Binary THEN 2 ELSE 1
             result == Compute(Fetched.op, Operands(k))
  <2>1. Fetched.op \in Unary \cup (Binary \ {"LoadIndex"})
    BY <1>9 DEF ComputeOp, Fetching
  <2>2. Pops(Fetched) = k /\ Pushes(Fetched) = 1
    BY <2>1 DEF Pops, Pushes, Branches, Unary, Binary
  <2>3. ~Underflow(k)
    BY <1>3, <2>2 DEF Underflow
  <2>4. IF IsValue(result) THEN Continue(Append(Below(k), result))
                           ELSE Refuse(result.error, Below(k))
    BY <1>9, <2>3 DEF ComputeOp
  <2>5. ~IsValue(result) => result.error # "StackUnderflow"
    BY <2>1, ComputeKinds
  <2>6. Fetched.op \notin {"Jump", "Return", "Halt"}
    BY <2>1 DEF Unary, Binary
  <2> HIDE DEF k, result
  <2>7. Spares(Below(k)) /\ \A v : Leaves(Append(Below(k), v))
    BY <1>3, <2>2, Takes
  <2>8. QED BY <2>4, <2>5, <2>6, <2>7, Feeding
<1>10. QED BY <1>5, <1>6, <1>7, <1>8, <1>9

\* Stores.
LEMMA StoresFed ==
    ASSUME NEW d, Balanced(d), StoreLocal \/ StoreGlobal \/ StoreInto
    PROVE  Balanced(d)'
<1>1. PICK names : Fetching(names)
  BY DEF StoreLocal, StoreGlobal, StoreInto
<1>2. UNCHANGED <<unit, calls>>
  BY DEF StoreLocal, StoreGlobal, StoreInto, others, flow
<1>3. /\ Len(stack) \in Nat /\ IsStack(stack) /\ Running
      /\ Pops(Fetched) \in 0..Len(stack)
  BY <1>1, FetchedMeasured DEF Fetching, Running, Balanced
<1>4. CASE StoreLocal
  <2>1. Fetched.op = "StoreLocal"
    BY <1>4 DEF StoreLocal, Fetching
  <2>2. Pops(Fetched) = 1 /\ Pushes(Fetched) = 0
    BY <2>1 DEF Pops, Pushes, Branches, Binary
  <2>3. ~Underflow(1)
    BY <1>3, <2>2 DEF Underflow
  <2>4. Spares(Below(1)) /\ Leaves(Below(1))
    BY <1>3, <2>2, Takes
  <2>5. CASE Refuse("InvalidLocal", Below(1))
    <3>1. Feeds
      BY <2>1, <2>4, <2>5, Feeding
    <3>2. QED BY <1>1, <1>2, <3>1, Fed
  <2>6. CASE ~Refuse("InvalidLocal", Below(1))
    <3>1. /\ frame' = [frame EXCEPT !.pc = NextPc,
                                    !.locals[Arg(1) + 1] = Operands(1)[1]]
          /\ stack' = Below(1) /\ status' = "Idle" /\ UNCHANGED error
      BY <1>4, <2>3, <2>6 DEF StoreLocal
    <3>2. Stands(program, frame)
      BY <1>3, FetchedMeasured
    <3>3. frame' = [func |-> frame.func, pc |-> NextPc, base |-> frame.base,
                    locals |-> [frame.locals EXCEPT ![Arg(1) + 1] = Operands(1)[1]]]
      BY <3>1, <3>2 DEF Stands
    <3>4. Stands(program, frame')
      BY <3>2, <3>3 DEF Stands
    <3>5. NextPc \in Follows(Fetched, frame.pc)
      BY <2>1 DEF Follows, NextPc, Branches
    <3>6. ~Stopped'
      BY <3>1 DEF Stopped
    <3>7. QED BY <1>2, <1>3, <2>4, <3>1, <3>3, <3>4, <3>5, <3>6, GoesOn
  <2>7. QED BY <2>5, <2>6
<1>5. CASE StoreGlobal
  <2>1. Fetched.op = "StoreGlobal"
    BY <1>5 DEF StoreGlobal, Fetching
  <2>2. Pops(Fetched) = 1 /\ Pushes(Fetched) = 0
    BY <2>1 DEF Pops, Pushes, Branches, Binary
  <2>3. ~Underflow(1)
    BY <1>3, <2>2 DEF Underflow
  <2>4. Leaves(Below(1))
    BY <1>3, <2>2, Takes
  <2>5. Continue(Below(1))
    BY <1>5, <2>3 DEF StoreGlobal
  <2>6. Feeds
    BY <2>1, <2>4, <2>5, Feeding
  <2>7. QED BY <1>1, <1>2, <2>6, Fed
<1>6. CASE StoreInto
  <2> DEFINE k == IF Fetched.op = "StoreField" THEN 2 ELSE 3
  <2>1. Fetched.op \in {"StoreField", "StoreIndex"}
    BY <1>6 DEF StoreInto, Fetching
  <2>2. Pops(Fetched) = k /\ Pushes(Fetched) = 0
    BY <2>1 DEF Pops, Pushes, Branches, Binary
  <2>3. ~Underflow(k)
    BY <1>3, <2>2 DEF Underflow
  <2>4. Continue(Below(k)) \/ Refuse("TypeMismatch", Below(k))
    BY <1>6, <2>3 DEF StoreInto
  <2> HIDE DEF k
  <2>5. Spares(Below(k)) /\ Leaves(Below(k))
    BY <1>3, <2>2, Takes
  <2>6. Feeds
    BY <2>1, <2>4, <2>5, Feeding
  <2>7. QED BY <1>1, <1>2, <2>6, Fed
<1>7. QED BY <1>4, <1>5, <1>6

\* A step that leaves the frame and the stack alone.
LEMMA StillFed ==
    ASSUME NEW d, Balanced(d), UNCHANGED <<unit, calls, frame, stack, error>>,
           Stopped' <=> Stopped
    PROVE  Balanced(d)'
<1>1. program' = program
  BY DEF program
<1>2. QED BY <1>1 DEF Balanced, Filled

\* The host, the other workers, and waiting.
LEMMA CallsOutFed ==
    ASSUME NEW d, Balanced(d),
           CallHost \/ Send \/ Receive \/ Suspend \/ Wake \/ \E v : PushMessage(v)
    PROVE  Balanced(d)'
<1>1. UNCHANGED <<unit, calls>>
  BY DEF CallHost, Send, Receive, Suspend, Wake, PushMessage, others, flow
<1>2. ASSUME NEW names, Fetching(names)
      PROVE  /\ Len(stack) \in Nat /\ IsStack(stack) /\ Running
             /\ Pops(Fetched) \in 0..Len(stack)
  BY <1>2, FetchedMeasured DEF Fetching, Running, Balanced
<1>3. CASE CallHost
  <2> DEFINE result == call_host(Arg(1), Operands(Arg(2)))
  <2>1. Fetching({"CallHost"}) /\ Fetched.op = "CallHost"
    BY <1>3 DEF CallHost, Fetching
  <2>2. Pops(Fetched) = Arg(2) /\ Pushes(Fetched) = 1
    BY <2>1 DEF Pops, Pushes, Branches, Binary, Arg
  <2>3. Len(stack) \in Nat /\ IsStack(stack) /\ Arg(2) \in 0..Len(stack)
    BY <1>2, <2>1, <2>2
  <2>4. \/ Refuse("HostError", stack)
        \/ IsValue(result) /\ Continue(Append(Below(Arg(2)), result))
        \/ ~IsValue(result) /\ Refuse(result.error, Below(Arg(2)))
    BY <1>3, <2>3 DEF CallHost
  <2>5. ~IsValue(result) => result.error # "StackUnderflow"
    BY HostKinds
  <2> HIDE DEF result
  <2>6. Spares(Below(Arg(2))) /\ \A v : Leaves(Append(Below(Arg(2)), v))
    BY <2>2, <2>3, Takes
  <2>7. Spares(stack)
    BY <2>2, <2>3 DEF Spares
  <2>8. Feeds
    BY <2>1, <2>4, <2>5, <2>6, <2>7, Feeding
  <2>9. QED BY <1>1, <2>1, <2>8, Fed
<1>4. CASE Send
  <2>1. Fetching({"Send"}) /\ Fetched.op = "Send"
    BY <1>4 DEF Send, Fetching
  <2>2. Pops(Fetched) = Arg(2) /\ Pushes(Fetched) = 0
    BY <2>1 DEF Pops, Pushes, Branches, Binary, Arg
  <2>3. Len(stack) \in Nat /\ IsStack(stack) /\ Arg(2) \in 0..Len(stack)
    BY <1>2, <2>1, <2>2
  <2>4. Continue(Below(Arg(2)))
    BY <1>4, <2>3 DEF Send
  <2>5. Leaves(Below(Arg(2)))
    BY <2>2, <2>3, Takes
  <2>6. Feeds
    BY <2>1, <2>4, <2>5, Feeding
  <2>7. QED BY <1>1, <2>1, <2>6, Fed
<1>5. CASE Receive
  <2>1. Fetching({"Recv", "TryRecv"}) /\ Fetched.op \in {"Recv", "TryRecv"}
    BY <1>5 DEF Receive, Fetching
  <2>2. Pops(Fetched) = 0 /\ Pushes(Fetched) = 1
    BY <2>1 DEF Pops, Pushes, Branches, Binary
  <2>3. \A v : Leaves(Append(stack, v))
    BY <1>2, <2>1, <2>2, Adds
  <2>4. CASE \E v : Continue(Append(stack, v))
    <3>1. Feeds
      BY <2>1, <2>3, <2>4, Feeding
    <3>2. QED BY <1>1, <2>1, <3>1, Fed
  <2>5. CASE ~ \E v : Continue(Append(stack, v))
    <3>1. UNCHANGED <<stack, frame, error>> /\ status' = "WaitingMessage"
      BY <1>5, <2>5 DEF Receive
    <3>2. ~Stopped /\ ~Stopped'
      BY <2>1, <3>1 DEF Fetching, Ready, Stopped
    <3>3. QED BY <1>1, <3>1, <3>2, StillFed
  <2>6. QED BY <2>4, <2>5
<1>6. CASE Suspend
  <2>1. Fetching({"Yield", "Sleep"}) /\ Fetched.op \in {"Yield", "Sleep"}
    BY <1>6 DEF Suspend, Fetching
  <2>2. Pops(Fetched) = 0 /\ Pushes(Fetched) = 0
    BY <2>1 DEF Pops, Pushes, Branches, Binary
  <2>3. Running /\ Leaves(stack)
    BY <1>2, <2>1, <2>2, Adds
  <2>4. Advance /\ UNCHANGED <<stack, error>> /\ ~Stopped'
    BY <1>6 DEF Suspend, Stopped
  <2>5. Stands(program, frame)
    BY <2>3, FetchedMeasured
  <2>6. frame' = [func |-> frame.func, pc |-> NextPc, base |-> frame.base,
                  locals |-> frame.locals]
    BY <2>4, <2>5 DEF Advance, Stands
  <2>7. Stands(program, frame')
    BY <2>5, <2>6 DEF Stands
  <2>8. NextPc \in Follows(Fetched, frame.pc)
    BY <2>1 DEF Follows, NextPc, Branches
  <2>9. QED BY <1>1, <2>3, <2>4, <2>6, <2>7, <2>8, GoesOn
<1>7. CASE Wake
  <2>1. UNCHANGED <<frame, stack, error>> /\ ~Stopped /\ ~Stopped'
    BY <1>7 DEF Wake, Stopped
  <2>2. QED BY <1>1, <2>1, StillFed
<1>8. CASE \E v : PushMessage(v)
  <2>1. UNCHANGED <<frame, stack, error, status>>
    BY <1>8 DEF PushMessage
  <2>2. Stopped' <=> Stopped
    BY <2>1 DEF Stopped
  <2>3. QED BY <1>1, <2>1, <2>2, StillFed
<1>9. QED BY <1>3, <1>4, <1>5, <1>6, <1>7, <1>8

\* Jumps: both ways have as many operands.
LEMMA BranchFed ==
    ASSUME NEW d, Balanced(d), Branch
    PROVE  Balanced(d)'
<1> DEFINE k == IF Fetched.op = "Jump" THEN 0 ELSE 1
<1>1. UNCHANGED <<unit, calls>>
  BY DEF Branch, others, flow
<1>2. Fetching(Branches) /\ Running /\ Fetched.op \in Branches
  BY DEF Branch, Fetching, Running
<1>3. Pops(Fetched) = k /\ Pushes(Fetched) = 0
  BY <1>2 DEF Pops, Pushes, Branches, Binary
<1>4. /\ Len(stack) \in Nat /\ IsStack(stack) /\ k \in 0..Len(stack)
      /\ Stands(program, frame)
  BY <1>2, <1>3, FetchedMeasured DEF Balanced
<1>5. Leaves(Below(k))
  BY <1>3, <1>4, Takes
<1>6. Arg(1) \in Follows(Fetched, frame.pc)
  BY <1>2 DEF Follows, Arg, Branches
<1>7. ~(Arg(1) > CodeLen)
  <2>1. Arg(1) \in DOMAIN d[frame.func]
    BY <1>2, <1>6, FetchedMeasured
  <2>2. DOMAIN d[frame.func] \subseteq 0..Len(program.functions[frame.func].code)
    BY <1>4, Zenon DEF Balanced, Measures, Stands
  <2>3. Len(program.functions[frame.func].code) \in Nat
    BY <1>4, ImagesAssumption DEF IsImage, program, Balanced, Stands
  <2>4. QED BY <2>1, <2>2, <2>3 DEF CodeLen
<1>8. \/ Fetched.op # "Jump" /\ Continue(Below(k))
      \/ Arg(1) > CodeLen
      \/ /\ frame' = [frame EXCEPT !.pc = Arg(1)]
         /\ stack' = Below(k) /\ status' = "Idle" /\ UNCHANGED error
  BY <1>4 DEF Branch, Underflow
<1>9. CASE Fetched.op # "Jump" /\ Continue(Below(k))
  <2>1. Feeds
    BY <1>2, <1>5, <1>9, Feeding DEF Branches
  <2>2. QED BY <1>1, <1>2, <2>1, Fed
<1>10. CASE /\ frame' = [frame EXCEPT !.pc = Arg(1)]
            /\ stack' = Below(k) /\ status' = "Idle" /\ UNCHANGED error
  <2>1. frame' = [func |-> frame.func, pc |-> Arg(1), base |-> frame.base,
                  locals |-> frame.locals]
    BY <1>4, <1>10 DEF Stands
  <2>2. Stands(program, frame')
    BY <1>4, <2>1 DEF Stands
  <2>3. ~Stopped'
    BY <1>10 DEF Stopped
  <2>4. QED BY <1>1, <1>2, <1>5, <1>6, <1>10, <2>1, <2>2, <2>3, GoesOn
<1>11. QED
  <2> HIDE DEF k
  <2>1. QED BY <1>7, <1>8, <1>9, <1>10

(***************************************************************************)
(* Calls and returns.                                                      *)
(***************************************************************************)

\* A call leaves its caller what is below the arguments.
LEMMA CallRests ==
    ASSUME NEW d, Balanced(d), Call
    PROVE  Balanced(d)'
<1> DEFINE n    == Arg(2)
           h    == d[frame.func]
           back == [frame EXCEPT !.pc = NextPc]
           new  == NewFrame(Arg(1), Operands(n), Len(stack) - n)
<1>1. UNCHANGED unit /\ Fetching({"Call"}) /\ Running /\ Fetched.op = "Call"
  BY DEF Call, Fetching, Running
<1>2. Pops(Fetched) = n /\ Pushes(Fetched) = 1
  BY <1>1 DEF Pops, Pushes, Branches, Binary, Arg
<1>3. /\ Stands(program, frame) /\ IsStack(stack) /\ Len(stack) \in Nat
      /\ frame.base \in Nat /\ h[frame.pc] \in Nat
      /\ Len(stack) = frame.base + h[frame.pc]
      /\ n \in 0..h[frame.pc] /\ n \in 0..Len(stack)
      /\ Arg(1) \in DOMAIN program.functions
  BY <1>1, <1>2, FetchedMeasured DEF Balanced, Arg
<1>4. NextPc \in DOMAIN h /\ h[NextPc] = h[frame.pc] - n + 1
  <2>1. NextPc \in Follows(Fetched, frame.pc)
    BY <1>1 DEF Follows, NextPc, Branches
  <2>2. QED BY <1>1, <1>2, <2>1, FetchedMeasured
<1>5. /\ calls' = Append(calls, back) /\ frame' = new
      /\ stack' = Below(n) /\ status' = "Idle" /\ UNCHANGED error
  BY <1>3 DEF Call
<1>6. IsStack(stack') /\ Len(stack') = Len(stack) - n
  BY <1>3, <1>5, BelowIs DEF IsStack
<1>7. back = [func |-> frame.func, pc |-> NextPc, base |-> frame.base,
              locals |-> frame.locals]
  BY <1>3 DEF Stands
<1>8. /\ new.func = Arg(1) /\ new.pc = 0 /\ new.base = Len(stack) - n
      /\ new = [func |-> new.func, pc |-> new.pc, base |-> new.base,
                locals |-> new.locals]
  BY DEF NewFrame
<1> HIDE DEF back, new
<1>9. back.func = frame.func /\ back.pc = NextPc /\ back.base = frame.base
  BY <1>7
<1>10. Calling(program, d, back)
  <2>1. Stands(program, back)
    BY <1>3, <1>7, <1>9 DEF Stands
  <2>2. h[NextPc] > 0
    BY <1>3, <1>4
  <2>3. QED BY <1>4, <1>9, <2>1, <2>2 DEF Calling
<1>11. Resting(program, d, new, back)
  <2>1. frame.func \in DOMAIN program.functions
    BY <1>3 DEF Stands
  <2>2. frame.pc \in DOMAIN h
    BY <1>1 DEF Running, Balanced, Filled, Ready, Stopped
  <2>3. Arg(1) \in Called(program, d)
    BY <1>1, <1>3, <2>1, <2>2 DEF Called, Running, CodeLen, Fetched, Arg
  <2>4. new.base = Top(d, back)
    BY <1>3, <1>4, <1>8, <1>9 DEF Top
  <2>5. QED BY <1>8, <2>3, <2>4 DEF Resting
<1>12. CallersRest(program, d, calls')
  <2>1. /\ CallersRest(program, d, calls) /\ FrameRests(program, d, frame, calls)
        /\ IsStack(calls)
    BY <1>1 DEF Balanced, Running, CallersRest
  <2>2. /\ IsStack(calls') /\ Len(calls') = Len(calls) + 1
        /\ \A i \in 1..Len(calls) : calls'[i] = calls[i]
        /\ calls'[Len(calls) + 1] = back
    BY <1>5, <2>1, AppendIs
  <2>3. Len(calls) \in Nat /\ (calls = <<>> <=> Len(calls) = 0)
    BY <2>1, EmptySeq DEF IsStack
  <2>4. \A i \in 1..Len(calls') : Calling(program, d, calls'[i])
    BY <1>10, <2>1, <2>2, <2>3 DEF CallersRest
  <2>5. ASSUME NEW i \in 2..Len(calls')
        PROVE  Resting(program, d, calls'[i], calls'[i - 1])
    <3>1. CASE i = Len(calls) + 1
      <4>1. calls # <<>> /\ calls'[i] = back /\ calls'[i - 1] = calls[Len(calls)]
        BY <2>2, <2>3, <3>1
      <4>2. QED BY <1>9, <2>1, <4>1 DEF FrameRests, Resting
    <3>2. CASE i # Len(calls) + 1
      <4>1. i \in 2..Len(calls) /\ i \in 1..Len(calls) /\ i - 1 \in 1..Len(calls)
        BY <2>2, <2>3, <3>2
      <4>2. QED BY <2>1, <2>2, <4>1 DEF CallersRest
    <3>3. QED BY <3>1, <3>2
  <2>6. calls'[1].base = 0
    <3>1. CASE calls = <<>>
      BY <1>9, <2>1, <2>2, <2>3, <3>1 DEF FrameRests
    <3>2. CASE calls # <<>>
      BY <2>1, <2>2, <2>3, <3>2 DEF CallersRest
    <3>3. QED BY <3>1, <3>2
  <2>7. QED BY <2>2, <2>4, <2>5, <2>6 DEF CallersRest
<1>13. FrameRests(program, d, frame', calls')
  <2>1. IsStack(calls)
    BY DEF Balanced, CallersRest
  <2>2. Len(calls') = Len(calls) + 1 /\ calls'[Len(calls')] = back /\ calls' # <<>>
    <3>1. Len(calls) \in Nat
      BY <2>1 DEF IsStack
    <3>2. Len(calls') = Len(calls) + 1 /\ calls'[Len(calls) + 1] = back
      BY <1>5, <2>1, AppendIs
    <3>3. Len(<<>>) = 0
      OBVIOUS
    <3>4. QED BY <3>1, <3>2, <3>3
  <2>3. new.base \in Nat
    BY <1>3, <1>8
  <2>4. QED BY <1>3, <1>5, <1>8, <1>11, <2>2, <2>3 DEF FrameRests, Stands
<1>14. Filled(d, frame)'
  <2>1. 0 \in DOMAIN d[Arg(1)] /\ d[Arg(1)][0] = 0
    BY <1>3, Zenon DEF Balanced, Measures
  <2>2. ~Stopped'
    BY <1>5 DEF Stopped
  <2>3. Len(stack') = new.base + 0
    BY <1>3, <1>6, <1>8
  <2>4. QED BY <1>5, <1>8, <2>1, <2>2, <2>3 DEF Filled
<1>15. program' = program
  BY <1>1 DEF program
<1>16. frame' # NoFrame
  BY <1>5, <1>8 DEF NoFrame
<1>17. QED
  BY <1>1, <1>5, <1>6, <1>12, <1>13, <1>14, <1>15, <1>16 DEF Balanced, IsStack

\* The entry frame starts on an empty stack.
LEMMA EntryRests ==
    ASSUME NEW d, Balanced(d), StartEntryFrame
    PROVE  Balanced(d)'
<1>1. /\ UNCHANGED <<unit, calls, stack, status, error>>
      /\ frame = NoFrame /\ ~Stopped /\ frame' = NewFrame(program.entry, <<>>, 0)
  BY DEF StartEntryFrame, Ready, Stopped
<1>2. calls = <<>> /\ stack = <<>> /\ Len(<<>>) = 0
  BY <1>1 DEF Balanced
<1>3. program.entry \in DOMAIN program.functions
  BY Zenon DEF Balanced, Measures
<1>4. 0 \in DOMAIN d[program.entry] /\ d[program.entry][0] = 0
  BY <1>3, Zenon DEF Balanced, Measures
<1>5. /\ frame'.func = program.entry /\ frame'.pc = 0 /\ frame'.base = 0
      /\ frame' = [func |-> frame'.func, pc |-> frame'.pc, base |-> frame'.base,
                   locals |-> frame'.locals]
  BY <1>1 DEF NewFrame
<1>6. program' = program /\ (Stopped' <=> Stopped)
  BY <1>1 DEF program, Stopped
<1>7. FrameRests(program, d, frame', calls)
  BY <1>2, <1>3, <1>5 DEF FrameRests, Stands
<1>8. Filled(d, frame)'
  BY <1>1, <1>2, <1>4, <1>5, <1>6 DEF Filled
<1>9. frame' # NoFrame
  BY <1>5 DEF NoFrame
<1>10. QED BY <1>1, <1>6, <1>7, <1>8, <1>9 DEF Balanced

\* A frame that has a caller ends with a value above what it found.
Ended(value, rest) ==
    /\ IsStack(rest) /\ IsStack(value)
    /\ calls # <<>> => Len(rest) >= frame.base /\ Len(value) = 1

\* Return and the end of the code.
LEMMA ReturnEnds ==
    ASSUME NEW d, Balanced(d), Return \/ FallOff
    PROVE  \E value, rest : FinishReturn(value, rest) /\ Ended(value, rest)
<1> DEFINE h   == d[frame.func]
           end == Len(program.functions[frame.func].code)
<1>1. /\ Ready /\ frame # NoFrame /\ ~Stopped /\ IsStack(stack)
      /\ FrameRests(program, d, frame, calls) /\ Filled(d, frame)
  BY DEF Return, FallOff, Fetching, Ready, Stopped, Balanced
<1>2. /\ frame.func \in DOMAIN program.functions /\ frame.base \in Nat
      /\ frame.pc \in DOMAIN h /\ Len(stack) = frame.base + h[frame.pc]
      /\ calls # <<>> => frame.func \in Called(program, d)
  BY <1>1 DEF FrameRests, Stands, Filled, Resting
<1>3. end \in Nat
  BY <1>2, ImagesAssumption DEF IsImage, program, Balanced
<1>4. /\ DOMAIN h \subseteq 0..end /\ h[frame.pc] \in Nat
      /\ end \in DOMAIN h => frame.func \notin Called(program, d)
  BY <1>2, Zenon DEF Balanced, Measures
<1>5. IsStack(<<>>) /\ Len(<<>>) = 0 /\ Len(stack) \in Nat
  BY <1>1 DEF IsStack
<1>6. CASE Return
  <2>1. Running /\ Fetched.op \in {"Return", "Halt"}
    BY <1>6 DEF Return, Fetching, Running
  <2>2. calls # <<>> => h[frame.pc] > 0
    BY <1>2, <2>1, FetchedMeasured
  <2>3. CASE stack = <<>>
    <3>1. calls = <<>>
      BY <1>2, <1>4, <1>5, <2>2, <2>3
    <3>2. FinishReturn(<<>>, <<>>)
      BY <1>6, <2>3 DEF Return
    <3>3. QED BY <1>5, <3>1, <3>2 DEF Ended
  <2>4. CASE stack # <<>>
    <3>1. 1 \in 0..Len(stack)
      BY <1>1, <1>5, <2>4, EmptySeq DEF IsStack
    <3>2. /\ IsStack(Operands(1)) /\ Len(Operands(1)) = 1
          /\ IsStack(Below(1)) /\ Len(Below(1)) = Len(stack) - 1
      BY <1>1, <3>1, OperandsIs, BelowIs
    <3>3. calls # <<>> => Len(Below(1)) >= frame.base
      BY <1>2, <1>4, <1>5, <2>2, <3>2
    <3>4. FinishReturn(Operands(1), Below(1))
      BY <1>6, <2>4 DEF Return
    <3>5. QED BY <3>2, <3>3, <3>4 DEF Ended
  <2>5. QED BY <2>3, <2>4
<1>7. CASE FallOff
  <2>1. frame.pc = end
    BY <1>2, <1>3, <1>4, <1>7 DEF FallOff, CodeLen
  <2>2. calls = <<>>
    BY <1>2, <1>4, <2>1
  <2>3. FinishReturn(<<>>, stack)
    BY <1>7 DEF FallOff
  <2>4. QED BY <1>1, <1>5, <2>2, <2>3 DEF Ended
<1>8. QED BY <1>6, <1>7

\* It leaves its callers what is theirs.
LEMMA ReturnRests ==
    ASSUME NEW d, Balanced(d), Return \/ FallOff
    PROVE  Balanced(d)'
<1> DEFINE c == calls[Len(calls)]
<1>1. PICK value, rest : FinishReturn(value, rest) /\ Ended(value, rest)
  BY ReturnEnds
<1>2. UNCHANGED <<unit, error>> /\ program' = program
  BY <1>1 DEF FinishReturn, program
<1>3. /\ frame # NoFrame /\ FrameRests(program, d, frame, calls)
      /\ CallersRest(program, d, calls) /\ IsStack(calls)
  BY DEF Return, FallOff, Fetching, Balanced, CallersRest
<1>4. IsStack(rest) /\ IsStack(value) /\ Len(rest) \in Nat /\ frame.base \in Nat
  BY <1>1, <1>3 DEF Ended, IsStack, FrameRests, Stands
<1> DEFINE kept == IF Len(rest) < frame.base THEN Len(rest) ELSE frame.base
<1>5. /\ stack' = SubSeq(rest, 1, kept) \o value
      /\ kept \in 0..Len(rest)
  BY <1>1, <1>4 DEF FinishReturn
<1>6. IsStack(stack') /\ Len(stack') = kept + Len(value)
  <2> HIDE DEF kept
  <2>1. IsStack(SubSeq(rest, 1, kept)) /\ Len(SubSeq(rest, 1, kept)) = kept
    BY <1>4, <1>5, CutIs
  <2>2. QED BY <1>4, <1>5, <2>1, ConcatIs
<1>7. IsStack(stack)'
  BY <1>6 DEF IsStack
<1>8. CASE calls = <<>>
  <2>1. frame' = NoFrame /\ calls' = calls /\ Stopped'
    BY <1>1, <1>8 DEF FinishReturn, Stopped
  <2>2. QED BY <1>2, <1>3, <1>7, <1>8, <2>1 DEF Balanced
<1>9. CASE calls # <<>>
  <2>1. /\ frame' = c /\ calls' = SubSeq(calls, 1, Len(calls) - 1) /\ ~Stopped'
    BY <1>1, <1>9 DEF FinishReturn, Stopped
  <2>2. Len(calls) \in Nat /\ Len(calls) > 0
    BY <1>3, <1>9, EmptySeq DEF IsStack
  <2>3. Len(calls) - 1 \in 0..Len(calls) /\ Len(calls) \in 1..Len(calls)
    BY <2>2
  <2>4. /\ IsStack(calls') /\ Len(calls') = Len(calls) - 1
        /\ \A i \in 1..Len(calls) - 1 : calls'[i] = calls[i]
    BY <1>3, <2>1, <2>3, CutIs
  <2>5. Calling(program, d, c) /\ Resting(program, d, frame, c)
    BY <1>3, <1>9, <2>3 DEF CallersRest, FrameRests
  <2>6. CallersRest(program, d, calls')
    <3>1. \A i \in 1..Len(calls') : Calling(program, d, calls'[i])
      BY <1>3, <2>2, <2>4 DEF CallersRest
    <3>2. ASSUME NEW i \in 2..Len(calls')
          PROVE  Resting(program, d, calls'[i], calls'[i - 1])
      <4>1. /\ i \in 2..Len(calls) /\ i \in 1..Len(calls) - 1
            /\ i - 1 \in 1..Len(calls) - 1
        BY <2>2, <2>4
      <4>2. QED BY <1>3, <2>4, <4>1 DEF CallersRest
    <3>3. calls' # <<>> => calls'[1].base = 0
      <4>1. calls' # <<>> => 1 \in 1..Len(calls) - 1
        BY <2>2, <2>4, EmptySeq DEF IsStack
      <4>2. QED BY <1>3, <1>9, <2>4, <4>1 DEF CallersRest
    <3>4. QED BY <2>4, <3>1, <3>2, <3>3 DEF CallersRest
  <2>7. FrameRests(program, d, c, calls')
    <3>1. Stands(program, c)
      BY <2>5 DEF Calling
    <3>2. calls' = <<>> => c.base = 0
      <4>1. Len(<<>>) = 0
        OBVIOUS
      <4>2. calls' = <<>> => Len(calls) = 1
        BY <2>2, <2>4, <4>1
      <4>3. QED BY <1>3, <1>9, <4>2 DEF CallersRest
    <3>3. calls' # <<>> => Resting(program, d, c, calls'[Len(calls')])
      <4>1. calls' # <<>> => /\ Len(calls) \in 2..Len(calls)
                             /\ Len(calls) - 1 \in 1..Len(calls) - 1
        BY <2>2, <2>4, EmptySeq DEF IsStack
      <4>2. QED BY <1>3, <2>4, <4>1 DEF CallersRest
    <3>4. QED BY <3>1, <3>2, <3>3 DEF FrameRests
  <2>8. Filled(d, frame)'
    <3>1. Len(rest) >= frame.base /\ Len(value) = 1
      BY <1>1, <1>9 DEF Ended
    <3>2. Len(stack') = frame.base + 1
      BY <1>4, <1>6, <3>1
    <3>3. /\ c.pc \in DOMAIN d[c.func] /\ c.base \in Nat
          /\ frame.base = c.base + d[c.func][c.pc] - 1
      BY <2>5 DEF Calling, Stands, Resting, Top
    <3>4. d[c.func][c.pc] \in Nat
      <4>1. c.func \in DOMAIN program.functions
        BY <2>5 DEF Calling, Stands
      <4>2. QED BY <3>3, <4>1, Zenon DEF Balanced, Measures
    <3>5. Len(stack') = c.base + d[c.func][c.pc]
      <4> DEFINE k == d[c.func][c.pc]
                 b == c.base
      <4>1. k \in Nat /\ b \in Nat /\ frame.base = b + k - 1
        BY <3>3, <3>4
      <4> HIDE DEF k, b
      <4>2. Len(stack') = b + k
        BY <3>2, <4>1
      <4>3. QED BY <4>2 DEF k, b
    <3> HIDE DEF c
    <3>6. QED BY <2>1, <3>3, <3>5 DEF Filled
  <2>9. frame' # NoFrame
    BY <2>1, <2>5 DEF Calling, Stands, NoFrame
  <2>10. QED BY <1>2, <1>7, <2>1, <2>6, <2>7, <2>8, <2>9 DEF Balanced
<1>10. QED BY <1>8, <1>9

(***************************************************************************)
(* The invariant.                                                          *)
(***************************************************************************)

\* Every step keeps the operands where d says.
LEMMA StaysBalanced ==
    ASSUME NEW d, Balanced(d), WorkerNext
    PROVE  Balanced(d)'
<1>1. ~BadOpcode
  <2>1. SUFFICES ASSUME BadOpcode PROVE FALSE
    OBVIOUS
  <2>2. Running
    BY <2>1 DEF BadOpcode, Running
  <2>3. QED BY <2>1, <2>2, FetchedMeasured DEF BadOpcode
<1>2. CASE StartEntryFrame
  BY <1>2, EntryRests
<1>3. CASE Push \/ PushNew \/ PopDupNop \/ Load \/ ComputeOp
  BY <1>3, MovesFed
<1>4. CASE StoreLocal \/ StoreGlobal \/ StoreInto
  BY <1>4, StoresFed
<1>5. CASE CallHost \/ Send \/ Receive \/ Suspend \/ Wake \/ \E v : PushMessage(v)
  BY <1>5, CallsOutFed
<1>6. CASE Branch
  BY <1>6, BranchFed
<1>7. CASE Call
  BY <1>7, CallRests
<1>8. CASE Return \/ FallOff
  BY <1>8, ReturnRests
<1>9. QED
  BY <1>1, <1>2, <1>3, <1>4, <1>5, <1>6, <1>7, <1>8 DEF WorkerNext, Step

\* A worker starts balanced, or refused.
LEMMA StartsBalanced ==
    ASSUME NEW u, MachineInit(u)
    PROVE  OwnedInv
<1>1. ASSUME u \in DOMAIN Program, NEW d, Measures(program, d) PROVE Balanced(d)
  <2>1. /\ frame = NoFrame /\ calls = <<>> /\ stack = <<>> /\ error = "None"
        /\ unit \in DOMAIN Program
    BY <1>1 DEF MachineInit
  <2>2. IsStack(<<>>) /\ Len(<<>>) = 0
    BY DEF IsStack
  <2>3. CallersRest(program, d, calls)
    BY <2>1, <2>2 DEF CallersRest
  <2>4. QED BY <1>1, <2>1, <2>2, <2>3 DEF Balanced
<1>2. QED BY <1>1 DEF OwnedInv, MachineInit

\* The invariant is inductive.
LEMMA StaysOwned ==
    ASSUME OwnedInv, [WorkerNext]_machine
    PROVE  OwnedInv'
<1>1. CASE UNCHANGED machine
  <2>1. program' = program /\ UNCHANGED <<unit, status, frame, calls, error>>
    BY <1>1 DEF machine, program
  <2>2. ASSUME NEW d, Balanced(d) PROVE Balanced(d)'
    <3>1. UNCHANGED <<unit, calls, frame, stack, error>> /\ (Stopped' <=> Stopped)
      BY <1>1 DEF machine, Stopped
    <3>2. QED BY <2>2, <3>1, StillFed
  <2>3. QED BY <2>1, <2>2 DEF OwnedInv
<1>2. CASE WorkerNext
  <2>1. unit' = unit /\ program' = program
    BY <1>2, ProgramStays DEF program
  <2>2. CASE unit \in DOMAIN Program
    <3>1. ASSUME NEW d, Measures(program, d) PROVE Balanced(d)'
      BY <1>2, <2>2, <3>1, StaysBalanced DEF OwnedInv
    <3>2. QED BY <2>1, <2>2, <3>1 DEF OwnedInv
  <2>3. CASE unit \notin DOMAIN Program
    BY <1>2, <2>1, <2>3, RefusedRests DEF OwnedInv
  <2>4. QED BY <2>2, <2>3
<1>3. QED BY <1>1, <1>2

\* Frames that rest on each other own their operands.
LEMMA BalancedOwned ==
    ASSUME NEW d, Balanced(d)
    PROVE  OperandsOwned
<1>1. CASE frame = NoFrame
  <2>1. Frames = <<>> /\ Len(<<>>) = 0
    BY <1>1 DEF Balanced, Frames
  <2>2. QED BY <2>1 DEF OperandsOwned
<1>2. CASE frame # NoFrame
  <2>1. /\ FrameRests(program, d, frame, calls) /\ Filled(d, frame)
        /\ CallersRest(program, d, calls) /\ IsStack(calls) /\ IsStack(stack)
    BY <1>2 DEF Balanced, CallersRest
  <2>2. /\ Len(Frames) = Len(calls) + 1 /\ Frames[Len(calls) + 1] = frame
        /\ \A i \in 1..Len(calls) : Frames[i] = calls[i]
    BY <1>2, <2>1, AppendIs DEF Frames
  <2>3. Len(calls) \in Nat /\ (calls = <<>> <=> Len(calls) = 0)
    BY <2>1, EmptySeq DEF IsStack
  <2>4. frame.base <= Len(stack)
    <3>1. CASE Stopped
      BY <2>1, <3>1 DEF Filled
    <3>2. CASE ~Stopped
      <4>1. /\ frame.func \in DOMAIN program.functions /\ frame.base \in Nat
            /\ frame.pc \in DOMAIN d[frame.func]
            /\ Len(stack) = frame.base + d[frame.func][frame.pc]
        BY <2>1, <3>2 DEF Filled, FrameRests, Stands
      <4>2. d[frame.func][frame.pc] \in Nat
        BY <4>1, Zenon DEF Balanced, Measures
      <4>3. QED BY <4>1, <4>2
    <3>3. QED BY <3>1, <3>2
  <2>5. ASSUME NEW fr, NEW caller, Calling(program, d, caller),
               Resting(program, d, fr, caller)
        PROVE  caller.base <= fr.base
    <3>1. /\ caller.func \in DOMAIN program.functions /\ caller.base \in Nat
          /\ caller.pc \in DOMAIN d[caller.func] /\ d[caller.func][caller.pc] > 0
          /\ fr.base = caller.base + d[caller.func][caller.pc] - 1
      BY <2>5 DEF Calling, Stands, Resting, Top
    <3>2. d[caller.func][caller.pc] \in Nat
      BY <3>1, Zenon DEF Balanced, Measures
    <3>3. QED BY <3>1, <3>2
  <2>6. ASSUME NEW i \in 1..Len(calls)
        PROVE  Frames[i].base <= Frames[i + 1].base
    <3>1. Calling(program, d, calls[i]) /\ Frames[i] = calls[i]
      BY <2>1, <2>2 DEF CallersRest
    <3>2. Resting(program, d, Frames[i + 1], calls[i])
      <4>1. CASE i = Len(calls)
        <5>1. calls # <<>> /\ Frames[i + 1] = frame
          BY <2>2, <2>3, <4>1
        <5>2. QED BY <2>1, <4>1, <5>1 DEF FrameRests
      <4>2. CASE i # Len(calls)
        <5>1. i + 1 \in 2..Len(calls) /\ i + 1 \in 1..Len(calls) /\ i + 1 - 1 = i
          BY <2>3, <4>2
        <5>2. QED BY <2>1, <2>2, <5>1 DEF CallersRest
      <4>3. QED BY <4>1, <4>2
    <3>3. QED BY <2>5, <3>1, <3>2
  <2>7. \A i \in 1..Len(Frames) : i = Len(Frames) \/ i \in 1..Len(calls)
    BY <2>2, <2>3
  <2>8. QED BY <2>2, <2>4, <2>6, <2>7 DEF OperandsOwned
<1>3. QED BY <1>1, <1>2

\* In a program whose code keeps its operand stack (as what the lowering makes
\* does: Compilation's LoweredBalances), no call takes an operand of a frame
\* below it, no return cuts into its caller's, and none is ever missing:
\* finish_return's pop before the truncation, which can take the caller's
\* operand, then never does.
THEOREM OperandsStayOwned ==
    WorkerSpec => [](Measured(program) => OperandsOwned /\ error # "StackUnderflow")
<1>1. (\E u : MachineInit(u)) => OwnedInv
  BY StartsBalanced
<1>2. OwnedInv /\ [WorkerNext]_machine => OwnedInv'
  BY StaysOwned
<1>3. OwnedInv => (Measured(program) => OperandsOwned /\ error # "StackUnderflow")
  <2>1. SUFFICES ASSUME OwnedInv, Measured(program)
                 PROVE  OperandsOwned /\ error # "StackUnderflow"
    OBVIOUS
  <2>2. PICK d : Measures(program, d)
    BY <2>1 DEF Measured
  <2>3. CASE unit \in DOMAIN Program
    <3>1. Balanced(d)
      BY <2>1, <2>2, <2>3 DEF OwnedInv
    <3>2. QED BY <3>1, BalancedOwned DEF Balanced
  <2>4. CASE unit \notin DOMAIN Program
    <3>1. Frames = <<>> /\ Len(<<>>) = 0 /\ error = "None"
      BY <2>1, <2>4 DEF OwnedInv, Frames
    <3>2. QED BY <3>1 DEF OperandsOwned
  <2>5. QED BY <2>3, <2>4
<1>4. QED BY <1>1, <1>2, <1>3, PTL DEF WorkerSpec

=============================================================================
