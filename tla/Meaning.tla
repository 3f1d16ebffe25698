-------------------------------- MODULE Meaning --------------------------------
(***************************************************************************)
(* What a v2 module means, by the structure of its syntax tree: the        *)
(* reference that compiled code is compared with.  Bindings end with their *)
(* block, `continue` goes on with the next element, a function that        *)
(* returns nothing gives nil.                                              *)
(*                                                                         *)
(* A configuration c has the bindings of the open blocks (the innermost    *)
(* last), the host calls made, the messages to come, the value computed    *)
(* last, whether a value was used of which the checker knows nothing       *)
(* (unchecked), and what happens next: "next" (the following statement), "break", *)
(* "continue", "return", "fails" (value is the error's kind), "blocked"    *)
(* (waits for a message that does not come) or "tired" (out of fuel).      *)
(***************************************************************************)
EXTENDS Lowering, StandardHost

CONSTANT Fuel   \* bound: statements a module may execute

Going(c)      == c.then = "next"
Gives(c, v)   == [c EXCEPT !.value = v]
Becomes(c, t) == [c EXCEPT !.then = t]
Result(c, r)  == IF IsValue(r) THEN Gives(c, r)
                 ELSE [c EXCEPT !.then = "fails", !.value = r.error]

\* The innermost block that binds x.
BlockOf(c, x) == CHOOSE i \in DOMAIN c.scopes :
                    /\ x \in DOMAIN c.scopes[i]
                    /\ \A j \in DOMAIN c.scopes :
                           x \in DOMAIN c.scopes[j] => j <= i
ValueOf(c, x)     == c.scopes[BlockOf(c, x)][x]
Declare(c, x, v)  == [c EXCEPT !.scopes[Len(c.scopes)] = (x :> v) @@ @]
Set(c, x, v)      == [c EXCEPT !.scopes[BlockOf(c, x)][x] = v]
Open(c)           == [c EXCEPT !.scopes = Append(@, <<>>)]
Close(c)          == [c EXCEPT !.scopes = SubSeq(@, 1, Len(@) - 1)]

\* A value of the type.  Nil comes in the place of everything, and of a value of
\* type any nothing is known.
RECURSIVE Fits(_, _)
Fits(type, v) ==
    \/ v = Nil
    \/ type.type = "Option" /\ Fits(type.of, v)
    \/ /\ type.type = "Array" /\ v.tag = "array"
       /\ \A i \in DOMAIN v.items : Fits(type.of, v.items[i])
    \/ /\ type.type = "Named" /\ v.tag = "table"
       /\ v.fields[0] = String(type.name)
    \/ <<type.type, v.tag>> \in {<<"Bool", "bool">>, <<"Int", "integer">>,
                                <<"Float", "integer">>, <<"Float", "float">>,
                                <<"String", "string">>}
\* Remembers a value that was used and does not fit what the checker believes.
Known(c, fits) == [c EXCEPT !.unchecked = @ \/ ~fits]

\* What the checker does not ask of operands: that those of a comparison are
\* numbers, that what is indexed is an array and the index none that is
\* negative, that a remainder is not of floats, and that a value is there.
Unasked(op, q) ==
    \/ op = "LoadIndex" /\ q[1].tag = "table"
    \/ /\ ~IsValue(Compute(op, q))
       /\ \/ op \in {"Lt", "Le", "Gt", "Ge", "LoadIndex"}
          \/ op = "Mod" /\ Numeric(q[1], q[2])
          \/ \E i \in DOMAIN q : q[i] = Nil

RECURSIVE Eval(_, _, _), Run(_, _, _)

\* Evaluates es in order; the values are in c.args.
EvalAll(m, es, c0) ==
    FoldLeft(LAMBDA c, e :
                IF ~Going(c) THEN c
                ELSE LET r == Eval(m, e, c)
                     IN  [r EXCEPT !.args = Append(c.args, r.value)],
             [c0 EXCEPT !.args = <<>>], es)

HostCall(c, id, args) ==
    LET Answered(r) == IF IsValue(r) /\ id \notin Silent
                       THEN [Gives(c, r) EXCEPT !.said = Append(@, <<id, args>>)]
                       ELSE Result(c, r)
    IN  Answered(call_host(id, args))

\* The function has bindings of its own; the caller's come back.
CallFunction(m, f, c) ==
    LET Ended(b) == [b EXCEPT !.scopes = c.scopes,
                              !.then   = IF @ = "return" THEN "next" ELSE @,
                              !.value  = IF b.then = "next" THEN Nil ELSE @]
        Given(x) == c.args[CHOOSE i \in DOMAIN f.params : f.params[i].name = x]
        names    == NamesOf(f.params)
        Typed(b) == Known(b, Fits(f.type, b.value))
    IN  Typed(Ended(Run(m, f.body,
            Known([c EXCEPT !.scopes = <<[x \in names |-> Given(x)]>>],
                    \A x \in names : Fits(Named(f.params, x).type, Given(x))))))

EvalCall(m, e, c0) ==
    LET path == expr_path(e.callee)
        Call(c) == IF ~Going(c) THEN c
                   ELSE IF Len(path) = 1
                   THEN CallFunction(m, Named(m.callables, path[1]), c)
                   ELSE HostCall(c, resolve_host[path], c.args)
    IN  Call(EvalAll(m, e.args, c0))

EvalAwait(m, e, c0) ==
    LET path == expr_path(e.callee)
        Waited(c) == IF ~Going(c) \/ path # <<"input", "choice">> THEN c
                     ELSE IF c.inputs = <<>> THEN Becomes(c, "blocked")
                     ELSE [Gives(c, Head(c.inputs)) EXCEPT !.inputs = Tail(@)]
    IN  IF path = <<"game", "next_tick">> THEN Gives(c0, Nil)
        ELSE Waited(EvalCall(m, e, c0))

\* Evaluates es and computes with the instruction op.
EvalOp(m, op, es, c) ==
    LET Done(a) == IF Going(a)
                   THEN Known(Result(a, Compute(op, a.args)),
                                ~Unasked(op, a.args))
                   ELSE a
    IN  Done(EvalAll(m, es, c))

\* A field is found by the record that the value is of, not by a declaration.
FieldId(v, name) == field_id[<<v.fields[0].text, name>>]
FieldOf(v, name) ==
    IF v.tag # "table" THEN Failure("TypeMismatch")
    ELSE IF FieldId(v, name) \in DOMAIN v.fields
    THEN v.fields[FieldId(v, name)] ELSE Nil
FieldFits(m, v, name) ==
    /\ v.tag = "table"
    /\ Fits(Named(Named(m.records, v.fields[0].text).fields, name).type,
            FieldOf(v, name))

EvalField(m, e, c) ==
    LET Read(a) == IF Going(a)
                   THEN Known(Result(a, FieldOf(a.value, e.name)),
                              FieldFits(m, a.value, e.name))
                   ELSE a
    IN  Read(Eval(m, e.object, c))

EvalShort(m, e, c) ==
    LET Right(a) == IF Going(a) /\ truthy(a.value) = (e.op = "And")
                    THEN Eval(m, e.right, a) ELSE a
    IN  Right(Eval(m, e.left, c))

Eval(m, e, c) ==
    CASE e.node = "literal" -> Gives(c, e.value)
      [] e.node = "name"    -> Gives(c, ValueOf(c, e.name))
      [] e.node \in {"array", "record"} -> Gives(c, Get(constant_value(e)))
      [] e.node = "unary"   -> EvalOp(m, e.op, <<e.arg>>, c)
      [] e.node = "binary" /\ e.op \in {"And", "Or"} -> EvalShort(m, e, c)
      [] e.node = "binary" /\ e.op \notin {"And", "Or"} ->
            EvalOp(m, e.op, <<e.left, e.right>>, c)
      [] e.node = "index"   -> EvalOp(m, "LoadIndex", <<e.object, e.index>>, c)
      [] e.node = "field"   -> EvalField(m, e, c)
      [] e.node = "call"    -> EvalCall(m, e, c)
      [] e.node = "await"   -> EvalAwait(m, e.arg, c)

----------------------------------------------------------------------------

\* The iterations of a loop: `break` and `continue` end with it.
RECURSIVE Loop(_, _, _)
RECURSIVE Elements(_, _, _, _)

InLoop(c) == IF c.then = "continue" THEN Becomes(c, "next") ELSE c
AfterLoop(c) == IF c.then = "break" THEN Becomes(c, "next") ELSE c
Burn(c) == IF ~Going(c) THEN c
           ELSE IF c.fuel = 0 THEN Becomes(c, "tired")
           ELSE [c EXCEPT !.fuel = @ - 1]

Loop(m, s, c0) ==
    LET Round(b) == IF Going(b) THEN Loop(m, s, b) ELSE b
        Test(c)  == IF ~Going(c) \/ ~truthy(c.value) THEN c
                    ELSE Round(InLoop(Close(Run(m, s.body, Open(c)))))
        Fresh(c) == IF Going(c) THEN Test(Eval(m, s.cond, c)) ELSE c
    IN  Fresh(Burn(c0))

Elements(m, s, items, c0) ==
    LET Round(b) == IF Going(b) THEN Elements(m, s, Tail(items), b) ELSE b
        Fresh(c) == IF ~Going(c) THEN c
                    ELSE Round(InLoop(Close(Run(m, s.body,
                             Declare(Open(c), s.name, Head(items))))))
    IN  IF items = <<>> THEN c0 ELSE Fresh(Burn(c0))

AssignMeans(m, s, c) ==
    LET t == s.target
        x == IF t.node = "name" THEN t.name ELSE t.object.name
        Whole(a) ==
            CASE t.node = "name"  -> a.args[1]
              [] t.node = "index" ->
                    call_host(92, <<ValueOf(a, x), a.args[1], a.args[2]>>)
              [] t.node = "field" ->
                    call_host(91, <<ValueOf(a, x),
                                    Integer(FieldId(ValueOf(a, x), t.name)),
                                    a.args[1]>>)
        Store(a, v) == IF IsValue(v) THEN Set(a, x, v) ELSE Result(a, v)
        Stored(a)   == IF Going(a) THEN Store(a, Whole(a)) ELSE a
    IN  Stored(EvalAll(m, IF t.node = "index" THEN <<t.index, s.value>>
                                              ELSE <<s.value>>, c))

Matches(p, v) == CASE p.pat = "wildcard" -> TRUE
                   [] p.pat = "name"     -> v = String(p.name)
                   [] p.pat = "literal"  -> v = p.value

FirstMatch(arms, v) ==
    LET hits == {i \in DOMAIN arms : Matches(arms[i].pattern, v)}
    IN  IF hits = {} THEN <<>>
        ELSE arms[CHOOSE i \in hits : \A j \in hits : i <= j].body

\* The statement once its expression is evaluated in a.
StmtThen(m, s, a) ==
    LET Block(b) == Close(Run(m, b, Open(a)))
    IN  CASE ~Going(a)         -> a
          [] s.stmt = "let"    ->
                Known(Declare(a, s.name, a.value),
                      IsSome(s.type) => Fits(Get(s.type), a.value))
          [] s.stmt = "expr"   -> a
          [] s.stmt = "emit"   -> HostCall(a, 143, <<a.value>>)
          [] s.stmt = "return" -> Becomes(a, "return")
          [] s.stmt = "if"     ->
                IF truthy(a.value) THEN Block(s.then)
                ELSE IF IsSome(s.else) THEN Block(Get(s.else)) ELSE a
          [] s.stmt = "for"    -> AfterLoop(Elements(m, s, a.value.items, a))
          [] s.stmt = "match"  -> Block(FirstMatch(s.arms, a.value))

StmtMeans(m, s, c) ==
    CASE s.stmt \in {"break", "continue"} -> Becomes(c, s.stmt)
      [] s.stmt = "while"  -> AfterLoop(Loop(m, s, c))
      [] s.stmt = "assign" -> AssignMeans(m, s, c)
      [] s.stmt = "return" /\ ~IsSome(s.result) ->
            StmtThen(m, s, Gives(c, Nil))
      [] OTHER ->
            StmtThen(m, s, Eval(m, CASE s.stmt = "if"     -> s.cond
                                     [] s.stmt = "for"    -> s.iter
                                     [] s.stmt = "return" -> Get(s.result)
                                     [] OTHER             -> s.value, c))

Run(m, b, c0) ==
    LET One(c, s)  == IF Going(c) THEN StmtMeans(m, s, c) ELSE c
        Next(c, s) == One(Burn(c), s)
    IN  FoldLeft(Next, c0, b)

\* How a module ends, the host calls it makes, and the value it returns.
Means(m, inputs) ==
    LET Report(c) == [ends |-> c.then, said |-> c.said, unchecked |-> c.unchecked,
                      value |-> IF c.then = "next" THEN Nil ELSE c.value]
    IN  Report(Run(m, IF IsSome(m.start) THEN Get(m.start)
                      ELSE m.callables[1].body,
                   [scopes |-> <<<<>>>>, said |-> <<>>, args |-> <<>>,
                    inputs |-> inputs, value |-> Nil, unchecked |-> FALSE, fuel |-> Fuel,
                    then |-> "next"]))
=============================================================================
