------------------------------ MODULE Compilation ------------------------------
(***************************************************************************)
(* From a module's text to its execution: the parser, the checker, the     *)
(* lowering, the verifier and the VM put together, beside what the module  *)
(* means.  A module that is refused on the way does not run.               *)
(***************************************************************************)
EXTENDS Execution, Meaning, Checking

CONSTANTS
    Modules,     \* the modules that are compiled, a sequence
    Assembled,   \* programs that come as bytecode, from an archive: a sequence
    Inputs,      \* the messages that the host sends, in order
    Readings,    \* what the parser reads of each module's text
    Meaning      \* what each compiled module means

Source == INSTANCE Writing

\* What the compiler gives for what the parser has read: a program, unless the
\* parser, the checker or the lowering refuses it.
compile_module(reading) ==
    IF reading.errors # {} THEN [errors |-> reading.errors]
    ELSE IF check(reading.module) # {} THEN [errors |-> check(reading.module)]
    ELSE lower(reading.module)

Read == LET modules == Modules \o <<>>
        IN  [i \in DOMAIN modules |->
                Source!parse(Source!Written(modules[i]))] @@ <<>>

\* The programs of the machine: the compiled modules, then those bytecode
\* programs that pass the verifier when they are loaded.
Images ==
    LET modules   == Readings \o <<>>
        assembled == Assembled \o <<>>
        out       == [i \in DOMAIN modules |-> compile_module(modules[i])] @@ <<>>
        accepted  == {i \in DOMAIN modules : out[i].errors = {}}
        verified  == {k \in DOMAIN assembled : verify_program(assembled[k])}
    IN  [i \in accepted |-> Image(out[i].program)] @@
        [i \in {Len(modules) + k : k \in verified} |->
            Image(assembled[i - Len(modules)])]

\* What each compiled module means.
Meanings == LET modules == Modules \o <<>>
            IN  [i \in DOMAIN Images \cap DOMAIN modules |->
                    Means(modules[i], Inputs)] @@ <<>>

\* (Constants, so that they are computed once.)
ASSUME ReadingsAssumption == Readings = Read
ASSUME ProgramAssumption == Program = Images
ASSUME MeaningAssumption == Meaning = Meanings

IsCompiled == unit \in DOMAIN Meaning
meaning    == Meaning[unit]

Init == \E u \in DOMAIN Program \cup DOMAIN Readings : MachineInit(u)

\* Messages come in their order, at any time.
Deliver == /\ status # "Refused" /\ delivered < Len(Inputs)
           /\ PushMessage(Inputs[delivered + 1])

Next == Step \/ Wake \/ Deliver
Spec == Init /\ [][Next]_machine

\* The runner executes the program as long as it can, answers what it waits
\* for, and wakes it when it sleeps.
FairSpec == /\ Spec
            /\ WF_machine(Step) /\ WF_machine(Deliver) /\ WF_machine(Wake)

----------------------------------------------------------------------------

\* The parser reads from the text of a module the tree that it was written
\* from: operators bind by their strength and from left to right, whatever is
\* nested, and calls, prefixes and blocks take what belongs to them.  (Looked at
\* before the module runs.)
Unstarted == frame = NoFrame /\ status \in {"Idle", "Refused"}
ReadsAsWritten ==
    unit \in DOMAIN Readings /\ Unstarted =>
        Readings[unit] = [errors |-> {}, module |-> Modules[unit]]

\* A compiled module does what its syntax tree means: it makes the same host
\* calls in the same order, returns the same value and fails where it should -
\* through the jumps of loops, matches and short circuits, whatever is on the
\* operand stack, and whenever messages come.
ReturnsValue(v) == lastReturn = <<v>> \/ (v = Nil /\ lastReturn = <<>>)
RunsAsWritten ==
    IsCompiled =>
        /\ IsPrefix(said, meaning.said) \/ meaning.ends = "tired"
        /\ status = "Halted" =>
               /\ meaning.ends \in {"next", "return", "tired"}
               /\ meaning.ends # "tired" =>
                      said = meaning.said /\ ReturnsValue(meaning.value)
        /\ status \in {"Error", "Panicked"} =>
               /\ meaning.ends \in {"fails", "tired"}
               /\ meaning.ends = "fails" =>
                      said = meaning.said /\ error = meaning.value

\* A compiled module whose meaning ends comes to its end: no jump goes
\* round for ever.
ProgramEnds ==
    IsCompiled /\ meaning.ends \in {"next", "return", "fails"}
        ~> Stopped

\* A module that the checker accepts fails by what it computes or by what the
\* host refuses, never by names or the operand stack - and by types only after
\* it used a value of which the checker knows nothing: what was declared as any,
\* an argument (which no call compares with its parameter), a nil read past the
\* end or of a field that was not given, or operands that it does not ask about
\* (Unasked): of a comparison, an index, a remainder of floats.
CheckedIsSafe ==
    IsCompiled =>
        \/ error \in {"None", "DivisionByZero", "HostError", "Panic"}
        \/ error = "TypeMismatch" /\ meaning.unchecked

\* What the lowering makes passes the verifier, and every jump lands on an
\* instruction or at the end.  (Looked at before the program starts.)
LoweredVerifies ==
    IsCompiled /\ Unstarted => verify_program(program) /\ Aligned(program)

\* The number of operands at each address that a function reaches: found by
\* following its instructions from the first.
Depths(p) ==
    [id \in DOMAIN p.functions |->
        LET f == p.functions[id]
            Beyond(r) ==
                IF r[1] >= Len(f.code) THEN {} ELSE
                LET i == f.at[r[1]]
                IN  {<<next, r[2] - Pops(i) + Pushes(i)>> :
                        next \in Follows(i, r[1])}
            Explore[found \in SUBSET (Nat \X Int), new \in SUBSET (Nat \X Int)] ==
                IF new = {} THEN found
                ELSE LET more == found \cup new
                     IN  Explore[more, UNION {Beyond(r) : r \in new} \ more]
            reached == Explore[{}, {<<0, 0>>}]
        IN  [pc \in {r[1] : r \in reached} |->
                (CHOOSE r \in reached : r[1] = pc)[2]]]

\* The code that the lowering makes has at every address it reaches as many
\* operands on the stack, however it came there - out of loops, matches and
\* short circuits -, takes no more than that, and its functions return with a
\* value.  (Looked at before the program starts.)
LoweredBalances ==
    IsCompiled /\ Unstarted => Measures(program, Depths(program))
=============================================================================
