----------------------------- MODULE MCCompilation -----------------------------
EXTENDS Compilation

\* The record of the modules below, and ids of its fields.
Hero   == [name |-> "Hero", persistent |-> TRUE,
           fields |-> <<Param("hp", TInt), Param("mp", TInt)>>]
Ghost  == [name |-> "Ghost", persistent |-> FALSE,
           fields |-> <<Param("hp", TAny)>>]
MCfield_id == <<"Hero", "hp">> :> 7 @@ <<"Hero", "mp">> :> 5 @@
              <<"Ghost", "hp">> :> 9

N(n)     == Lit(Integer(n))
F(n, d)  == Lit(Float(n, d))
S(x)     == Lit(String(x))
X        == Var("x")
Host(ns, name, args) == CallOf(Field(Var(ns), name), args)
Say(e)   == Do(Host("ui", "say", <<S("a"), e>>))
Fn(name, args) == CallOf(Var(name), args)
Add1(e)  == BinaryOp("Add", e, N(1))
Incr     == Assign(X, Add1(X))
Start(body) == Module(<<>>, <<>>, Some(body))
LetX(n)  == Let("x", None, N(n))
LetN     == Let("n", None, N(0))

\* Modules are listed: one of f for every pair of members of two lists.
Pairs(f(_, _), q, r) ==
    [i \in 1..Len(q) * Len(r) |->
        f(q[1 + (i - 1) \div Len(r)], r[1 + ((i - 1) % Len(r))])]
Each(f(_), q) == [i \in DOMAIN q |-> f(q[i])]

\* Loops: what a body does in each round, and two bodies one in the other.
Acts == <<<<>>, <<Say(X)>>, <<Incr>>, <<Break>>,
          <<Let("y", None, X), Incr>>,
          <<If(BinaryOp("Ge", X, N(1)), <<Break>>, None)>>,
          <<If(BinaryOp("Eq", X, N(0)), <<Say(X)>>, Some(<<Break>>))>>,
          <<If(BinaryOp("Eq", X, N(1)), <<ReturnOf(None)>>, None)>>>>
Skipping == <<<<If(BinaryOp("Lt", Var("n"), N(2)), <<ContinueLoop>>, None),
                Say(X)>>>>
Bodies == Pairs(LAMBDA a, b : a \o b, Acts, Acts)
ForX(b)   == For("x", ArrayOf(<<N(0), N(1)>>), b)
WhileX(b) == While(BinaryOp("Lt", Var("n"), N(2)),
                   <<Assign(Var("n"), Add1(Var("n")))>> \o b)
ForLoops(bodies)   == [i \in DOMAIN bodies |-> ForX(bodies[i])]
WhileLoops(bodies) == [i \in DOMAIN bodies |-> WhileX(bodies[i])]
Alone(l)     == Start(<<LetX(0), LetN, l, Say(N(9))>>)
Within(a, l) == Start(<<LetX(0), LetN, For("z", ArrayOf(<<N(0), N(1)>>),
                                     a \o <<l>>)>>)
LoopModules ==
    Each(Alone, ForLoops(Bodies) \o WhileLoops(Bodies \o Skipping)) \o
    Pairs(Within, Acts, ForLoops(Acts) \o WhileLoops(Acts))

\* Functions: what is on the operand stack while they run, recursion, a return
\* from within loops, what they say while an expression is computed.
fact == Callable("fact", "func", <<Param("n", TInt)>>, TInt,
    <<If(BinaryOp("Le", Var("n"), N(1)), <<ReturnOf(Some(N(1)))>>, None),
      ReturnOf(Some(BinaryOp("Mul", Var("n"),
          Fn("fact", <<BinaryOp("Sub", Var("n"), N(1))>>))))>>)
find == Callable("find", "func", <<Param("x", TInt)>>, TInt,
    <<For("y", ArrayOf(<<N(0), N(1), N(2)>>),
          <<While(BinaryOp("Eq", X, Var("y")),
                  <<ReturnOf(Some(BinaryOp("Add", Var("y"), N(3))))>>)>>),
      ReturnOf(Some(N(8)))>>)
less == Callable("less", "func", <<Param("x", TInt), Param("y", TInt)>>, TBool,
    <<Say(X), ReturnOf(Some(BinaryOp("Lt", X, Var("y"))))>>)
take == Callable("take", "task", <<>>, TAny,
    <<Let("c", None, Await(Host("input", "choice", <<S("a")>>))),
      ReturnOf(Some(Var("c")))>>)
Callables == <<fact, find, less, take>>
Script(body) == Module(<<Hero>>, Callables, Some(body))
Less(a, b) == Fn("less", <<N(a), N(b)>>)

Terms == <<N(2), Fn("fact", <<N(3)>>), Fn("find", <<N(1)>>),
           Fn("find", <<Fn("fact", <<N(0)>>)>>),
           BinaryOp("Mul", N(7), Fn("find", <<N(9)>>)),
           UnaryOp("Neg", Fn("find", <<N(2)>>)), F(3, 2)>>
CallModules ==
    Pairs(LAMBDA a, b : Script(<<Say(BinaryOp("Sub", a, b))>>), Terms, Terms)

\* Conditions whose parts are heard, in every nest of two connectives.
Conds == <<Less(0, 1), Less(1, 1), UnaryOp("Not", Less(0, 1)),
           BinaryOp("Eq", Fn("find", <<N(0)>>), N(3))>>
Ors  == Pairs(LAMBDA a, b : BinaryOp("Or", a, b), Conds, Conds)
Ands == Pairs(LAMBDA a, b : BinaryOp("And", a, b), Conds, Conds)
Deciding(c) == Script(<<If(c, <<Say(N(1))>>, Some(<<Say(N(2))>>))>>)
CondModules ==
    Each(LAMBDA c : Script(<<Say(N(1)), If(c, <<ReturnOf(None)>>, None)>>), Conds)
    \o Each(Deciding, Ors \o Ands
         \o Pairs(LAMBDA a, b : BinaryOp("And", a, b), Ors, Conds)
         \o Pairs(LAMBDA a, b : BinaryOp("Or", a, b), Conds, Ands))

\* Matches: in which arm a value ends, in a loop that an arm leaves.
ArmLists == <<<<Arm(LitPattern(Integer(0)), <<Say(N(5))>>)>>,
              <<Arm(LitPattern(Integer(0)), <<>>),
                Arm(LitPattern(Integer(1)), <<Break>>), Arm(Wildcard, <<Say(X)>>)>>,
              <<Arm(LitPattern(Integer(1)), <<Say(N(6))>>),
                Arm(Wildcard, <<Break>>), Arm(LitPattern(Integer(0)), <<Say(X)>>)>>,
              <<Arm(Wildcard, <<Say(X)>>)>>, <<>>>>
Matching(arms, tail) == Alone(WhileX(<<Match(X, arms), Incr>> \o tail))
MatchModules ==
    Pairs(Matching, ArmLists, Acts) \o
    Each(LAMBDA x : Start(<<Match(S(x), <<Arm(NamePattern("Up"), <<Say(N(1))>>),
                                          Arm(Wildcard, <<Say(N(2))>>)>>)>>),
         <<"Up", "Down">>)

\* Values: integers at the ends of their range, divisions by zero, what is
\* read and written past the end of an array.
Computing == <<"Add", "Sub", "Mul", "Div", "Mod", "Ge", "Gt", "Ne">>
Ends == <<N(0), N(1), UnaryOp("Neg", N(1)), N(31), UnaryOp("Neg", N(32))>>
ValueModules ==
    Pairs(LAMBDA op, a : Start(<<Let("x", None, N(0)), Say(N(1)),
              For("z", ArrayOf(<<N(0), N(1), N(31)>>),
                  <<Say(BinaryOp(op, a, Var("z")))>>)>>),
          Computing, Ends) \o
    Pairs(LAMBDA op, a : Start(<<For("z", ArrayOf(<<F(1, 2), N(2), F(0, 1)>>),
                  <<Say(BinaryOp(op, a, Var("z"))),
                    Say(BinaryOp(op, Var("z"), a))>>)>>),
          Computing, <<F(3, 2), UnaryOp("Neg", F(1, 2)), N(1)>>) \o
    Pairs(LAMBDA i, v : Script(<<Let("a", None, ArrayOf(<<N(4), N(6)>>)),
              Assign(Index(Var("a"), i), v), Say(Index(Var("a"), N(0))),
              Say(Index(Var("a"), N(2))), Say(Var("a")),
              Do(Host("core", "assert", <<BinaryOp("Eq", v, N(2))>>))>>),
          <<N(0), N(1), N(2)>>, SubSeq(Terms, 1, 3)) \o
    Each(LAMBDA v : Script(
             <<Let("h", None, RecordOf("Hero", <<<<"hp", N(1)>>>>)),
               Assign(Field(Var("h"), "mp"), v),
               Assign(Field(Var("h"), "hp"), Add1(Field(Var("h"), "mp"))),
               Say(Field(Var("h"), "hp")), EmitEvent(Var("h"))>>), Terms)

\* Types: a value of each in every place that wants an integer, a boolean, an
\* array or a record.  The checker refuses what would fail, and no more.
OfEachType == <<N(1), F(1, 2), S("s"), Lit(Nil), Lit(Bool(TRUE)), ArrayOf(<<N(1)>>),
                RecordOf("Hero", <<<<"hp", N(1)>>>>)>>
SayNext(e) == Say(Add1(e))
Places(e) == <<
    <<SayNext(e)>>,
    <<Let("x", Some(TInt), e), SayNext(X)>>,
    <<LetX(0), Assign(X, e), SayNext(X)>>,
    <<Say(UnaryOp("Neg", e))>>,
    <<If(UnaryOp("Not", e), <<Say(N(1))>>, Some(<<Say(N(2))>>))>>,
    <<If(BinaryOp("Or", e, e), <<ReturnOf(None)>>, None)>>,
    <<For("y", e, <<SayNext(Var("y"))>>)>>,
    <<For("y", ArrayOf(<<N(1), e>>), <<SayNext(Var("y"))>>)>>,
    <<Let("h", None, RecordOf("Hero", <<<<"hp", e>>>>)),
      SayNext(Field(Var("h"), "hp"))>>,
    <<Let("h", Some(TNamed("Hero")), e), SayNext(Field(Var("h"), "hp"))>>,
    <<Let("x", Some(TOption(TInt)), e), Say(X)>>,
    <<ReturnOf(Some(e))>>>>
PlaceModules ==
    Pairs(LAMBDA i, e : Script(Places(e)[i]), [i \in 1..12 |-> i], OfEachType)
    \o Each(LAMBDA e : Module(<<Hero>>,
                <<Callable("get", "func", <<>>, TInt, <<ReturnOf(Some(e))>>)>>,
                Some(<<SayNext(Fn("get", <<>>))>>)), OfEachType)

\* Where the checker asks for nothing: a value of each type passed to a function,
\* declared as any, given by a function or kept in a field of type any, compared,
\* indexed, or not there.
next == Callable("next", "func", <<Param("x", TInt)>>, TInt,
                 <<ReturnOf(Some(Add1(X)))>>)
Ungoverned(e) == <<
    <<Say(Fn("next", <<e>>))>>,
    <<Let("x", Some(TAny), e), Let("y", Some(TInt), Add1(X)), Say(Var("y"))>>,
    <<Let("x", None, Fn("any", <<>>)), SayNext(X)>>,
    <<Let("g", None, RecordOf("Ghost", <<<<"hp", e>>>>)),
      SayNext(Field(Var("g"), "hp"))>>,
    <<Say(BinaryOp("Lt", e, N(3)))>>,
    <<Let("x", None, e), SayNext(Index(X, N(0)))>>,
    <<Let("x", None, ArrayOf(<<e>>)), SayNext(Index(X, N(1)))>>,
    <<Let("x", None, ArrayOf(<<N(1)>>)),
      Say(Index(X, UnaryOp("Neg", N(1))))>>,
    <<Let("h", None, RecordOf("Hero", <<<<"hp", N(1)>>>>)),
      SayNext(Field(Var("h"), "mp"))>>,
    <<SayNext(Host("ui", "say", <<S("a"), e>>))>>>>
UngovernedModule(i, e) ==
    Module(<<Hero, Ghost>>,
           <<next, Callable("any", "func", <<>>, TAny, <<ReturnOf(Some(e))>>)>>,
           Some(Ungoverned(e)[i]))
UngovernedModules ==
    Pairs(UngovernedModule, [i \in 1..10 |-> i], OfEachType)

\* What a script waits for: messages, sleep and the next tick.
Waits == <<Let("c", None, Await(Host("input", "choice", <<S("a")>>))),
           Do(Await(Host("time", "sleep", <<N(1)>>))),
           Do(Await(Host("game", "next_tick", <<>>))),
           Let("c", None, Await(Fn("take", <<>>))),
           WhileX(<<Say(Await(Fn("take", <<>>)))>>)>>
WaitModules ==
    Pairs(LAMBDA a, b : Script(<<LetN, Let("c", None, Lit(String("z"))), a, b,
                                 Say(Var("c"))>>), Waits, Waits)

\* Expressions: every operator in both operands of every other, prefixes of and
\* in everything, and what may follow an operand.
Operators == <<"Or", "And", "Eq", "Ne", "Lt", "Le", "Gt", "Ge", "Add", "Sub",
               "Mul", "Div", "Mod">>
Tree(op, inner) ==
    LET mixed == BinaryOp(inner, N(1), Var("b"))
    IN  <<BinaryOp(op, mixed, Var("c")), BinaryOp(op, Var("c"), mixed),
          UnaryOp("Neg", mixed), BinaryOp(op, UnaryOp("Not", X), mixed)>>
Leaf == <<X, UnaryOp("Neg", X), Await(X), Fn("f", <<X, N(1)>>), Index(X, X),
          Field(X, "y"), ArrayOf(<<X>>), RecordOf("Hero", <<<<"hp", X>>>>)>>
Wrapped(e) == <<UnaryOp("Not", e), Await(e), CallOf(e, <<e>>), Index(e, e),
                Field(e, "z"), ArrayOf(<<e, e>>), BinaryOp("Mul", e, e),
                RecordOf("Hero", <<<<"hp", e>>, <<"mp", e>>>>)>>
Trees == Pairs(Tree, Operators, Operators) \o Each(Wrapped, Leaf)
TextModules ==
    Each(LAMBDA es : Module(<<Hero, Ghost>>,
             <<Callable("all", "test", <<>>, TArray(TOption(TNamed("Hero"))),
                        Each(Do, es)),
               Callable("on_move", "system", <<Param("e", TNamed("Hero"))>>,
                        TNil, <<Assign(es[1], es[2]), EmitEvent(es[1])>>)>>,
             None), Trees)

MCModules == TextModules \o LoopModules \o CallModules \o CondModules \o MatchModules
             \o ValueModules \o PlaceModules \o UngovernedModules \o WaitModules
\* Bytecode that no v2 module compiles to: every instruction on some operands,
\* and jumps into the middle of an instruction.
Assemble(ops) == FoldLeft(LAMBDA code, o : code \o encode_op(o), <<>>, ops)
Assembly(ops) ==
    [entry |-> 1, constants |-> <<Integer(3), Array(<<Nil>>), Table(5 :> Nil)>>,
     functions |-> <<[code |-> Assemble(ops), args |-> 0, locals |-> 1],
                     [code |-> Assemble(<<Op1("LoadLocal", 0), Op("Dup"),
                                          Op("Halt")>>),
                      args |-> 1, locals |-> 1]>>]
Const(i) == Op1("PushConst", i)
Prepared == <<<<>>, <<Const(0)>>, <<Op("PushNil"), Const(1), Op("PushTrue")>>,
              <<Const(0), Const(2), Const(0)>>, <<Const(2), Op("PushFalse")>>,
              <<Const(1), Const(0), Op("Dup")>>>>
Tried == Each(LAMBDA name : Op(name),
              <<"Nop", "Pop", "Dup", "Add", "Div", "Neg", "Not", "Eq", "Lt",
                "LoadIndex", "StoreIndex", "TryRecv", "Recv", "Sleep",
                "Halt">>) \o
         <<Op1("LoadLocal", 0), Op1("LoadLocal", 1), Op1("StoreLocal", 0),
           Op1("StoreLocal", 1), Op1("LoadGlobal", 0), Op1("StoreGlobal", 1),
           Op1("LoadField", 5), Op1("StoreField", 5), Op1("NewArray", 0),
           Op1("NewTable", 0), Op2("Call", 2, 1), Op2("Call", 2, 0),
           Op2("CallHost", 90, 1), Op2("CallHost", 93, 0),
           Op2("Send", 1, 0), Op2("Send", 1, 1), Op2("Send", 1, 2),
           Op1("JumpIfTrue", 11)>>
\* A jump to address 6 lands on an operand: on 2 (no opcode), on 129
\* (NewTable, cut off by the end), on 16, 96 or 112 (PushConst, Jump, Call).
Misaligned ==
    Each(LAMBDA o : Assembly(<<Op1("Jump", 6), o, Op("PushNil")>>),
         <<Op1("LoadField", 2), Op1("LoadField", 16), Op1("LoadField", 96),
           Op1("StoreLocal", 129), Op1("LoadLocal", 16),
           Op1("LoadField", 112), Op1("LoadLocal", 17)>>) \o
    <<Assembly(<<Op1("Jump", 6), Op1("LoadField", 112), Op1("LoadField", 0)>>),
      Assembly(<<Op1("Jump", 6), Op1("LoadField", 96), Op1("LoadField", 9),
                 Op1("LoadField", 9)>>),
      Assembly(<<Op1("Jump", 9), Const(0)>>), Assembly(<<Const(3)>>),
      Assembly(<<Op2("Call", 3, 0)>>), Assembly(<<Op2("CallHost", 1, 0)>>),
      [Assembly(<<>>) EXCEPT !.entry = 3]>>
MCAssembled ==
    Pairs(LAMBDA q, o : Assembly(q \o <<o, Op1("StoreGlobal", 0),
                                         Op1("LoadGlobal", 0)>>),
          Prepared, Tried) \o Misaligned
\* Functions that return nothing, called as a statement or in an expression.
greet == Callable("greet", "func", <<>>, TNil, <<Say(N(1)), ReturnOf(None)>>)
VoidModules ==
    <<Module(<<>>, <<greet>>, Some(<<Do(Fn("greet", <<>>)), Say(N(2))>>)),
      Module(<<>>, <<greet>>,
             Some(<<Say(BinaryOp("Eq", N(3), Fn("greet", <<>>)))>>))>>
NoAssembled == <<>>

MCReadings == LET readings == Read IN readings
MCProgram == LET images == Images IN images
MCMeaning == LET meanings == Meanings IN meanings
MCInputs == <<String("u"), String("v")>>
=============================================================================
