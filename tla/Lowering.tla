------------------------------- MODULE Lowering -------------------------------
(***************************************************************************)
(* The lowering of a checked v2 module to bytecode (v2/lower.rs).          *)
(*                                                                         *)
(* The lowerer of a function is a record that every operator takes and     *)
(* gives back: the code so far, the slots and declared types of the        *)
(* locals, the loops it is in, the constants of the program, and the codes *)
(* of its diagnostics.                                                     *)
(***************************************************************************)
EXTENDS Syntax, Values, Bytecode, SequencesExt, TLC

CONSTANT field_id    \* <<record, field>> -> u16: a hash of the names

\* (Without the functions that StandardHost leaves out.)
resolve_host ==
    <<"core", "len">>     :> 90  @@ <<"core", "assert">>  :> 93  @@
    <<"ui", "say">>       :> 100 @@ <<"input", "choice">> :> 110 @@
    <<"time", "sleep">>   :> 120 @@ <<"time", "tick">>    :> 121 @@
    <<"world", "emit">>   :> 143

FunctionLowerer(params, fns, fields, consts) ==
    [code   |-> <<>>,
     locals |-> [x \in NamesOf(params) |->
                    (CHOOSE i \in DOMAIN params : params[i].name = x) - 1],
     types  |-> [x \in NamesOf(params) |-> Named(params, x).type],
     next   |-> Len(params),
     loops  |-> <<>>,
     consts |-> consts,
     errors |-> {},
     fns    |-> fns,
     fields |-> fields]

Gen(l, o)      == [l EXCEPT !.code = @ \o encode_op(o)]
Diagnose(l, c) == [l EXCEPT !.errors = @ \cup {c}]
Here(l)        == Len(l.code)
Emit(l, ops)   == FoldLeft(Gen, l, ops)

\* A constant is added at every use; its index is the length as a u16.
push_constant(l, v) ==
    Gen([l EXCEPT !.consts = Append(@, v)],
        Op1("PushConst", Len(l.consts) % 65536))

literal(l, v) ==
    CASE v.tag = "nil"  -> Gen(l, Op("PushNil"))
      [] v.tag = "bool" -> Gen(l, Op(IF v.bool THEN "PushTrue"
                                               ELSE "PushFalse"))
      [] OTHER          -> push_constant(l, v)

\* A jump is emitted to 0; its operand is at the address it returns with.
emit_jump(l, name) == Gen(l, Op1(name, 0))
JumpOperand(l)     == Here(l) + 1
patch_jump(l, operand, target) ==
    [l EXCEPT !.code = SubSeq(@, 1, operand) \o LittleEndian(target, 4)
                       \o SubSeq(@, operand + 5, Len(@))]
PatchAll(l, operands, target) ==
    FoldLeft(LAMBDA x, operand : patch_jump(x, operand, target), l, operands)

\* A local is never forgotten: a block's bindings stay after the block.
Saturated(slot) == IF slot < 255 THEN slot + 1 ELSE 255
allocate_local(l, name, type) ==
    [l EXCEPT !.next   = Saturated(@),
              !.locals = (name :> l.next) @@ @,
              !.types  = IF IsSome(type) THEN (name :> Get(type)) @@ @ ELSE @]

Declared(l, name) == name \in DOMAIN l.locals

local_field_id(l, local, field) ==
    IF /\ local \in DOMAIN l.types /\ l.types[local].type = "Named"
       /\ <<l.types[local].name, field>> \in DOMAIN l.fields
    THEN Some(l.fields[<<l.types[local].name, field>>])
    ELSE None

\* The value of a constant expression, or None.
RECURSIVE constant_value(_)
constant_value(e) ==
    CASE e.node = "literal" -> Some(e.value)
      [] e.node = "array"   ->
            LET q == [i \in DOMAIN e.items |-> constant_value(e.items[i])]
            IN  IF \E i \in DOMAIN q : q[i] = None THEN None
                ELSE Some(Array([i \in DOMAIN q |-> Get(q[i])]))
      [] e.node = "record"  ->
            LET Id(i) == field_id[<<e.name, e.fields[i][1]>>]
                q     == [i \in DOMAIN e.fields |->
                             constant_value(e.fields[i][2])]
                ids   == {Id(i) : i \in DOMAIN q}
                Latest(id) == CHOOSE i \in DOMAIN q :
                                /\ Id(i) = id
                                /\ \A j \in DOMAIN q : Id(j) = id => j <= i
            IN  IF \E i \in DOMAIN q : q[i] = None THEN None
                ELSE Some(Table((0 :> String(e.name)) @@
                                [id \in ids |-> Get(q[Latest(id)])]))
      [] OTHER -> None

RECURSIVE expr_declared_type(_)
expr_declared_type(e) ==
    CASE e.node = "record" -> Some(TNamed(e.name))
      [] e.node = "array"  ->
            LET first == IF e.items = <<>> THEN None
                         ELSE expr_declared_type(e.items[1])
            IN  Some(TArray(IF IsSome(first) THEN Get(first) ELSE TAny))
      [] e.node = "literal" /\ e.value.tag = "integer" -> Some(TInt)
      [] e.node = "literal" /\ e.value.tag = "float"   -> Some(TFloat)
      [] e.node = "literal" /\ e.value.tag = "string"  -> Some(TString)
      [] e.node = "literal" /\ e.value.tag = "bool"    -> Some(TBool)
      [] OTHER -> None

----------------------------------------------------------------------------
RECURSIVE expr(_, _)

Exprs(l, es) == FoldLeft(LAMBDA x, e : expr(x, e), l, es)

CallExpr(l0, e) ==
    LET path == expr_path(e.callee)
        n    == Len(e.args) % 256
        Calling(l) ==
            IF Len(path) = 1 /\ path[1] \in DOMAIN l.fns
            THEN Gen(l, Op2("Call", l.fns[path[1]], n))
            ELSE IF path \in DOMAIN resolve_host
            THEN Gen(l, Op2("CallHost", resolve_host[path], n))
            ELSE Gen(Diagnose(l, "E0311"), Op("PushNil"))
    IN  Calling(Exprs(l0, e.args))

\* What a call answers is replaced by what the wait ends with.
await_expr(l, e) ==
    LET path == expr_path(e.callee)
        ending == CASE path = <<"input", "choice">> -> <<Op("Pop"), Op("Recv")>>
                    [] path = <<"time", "sleep">>   ->
                          <<Op("Pop"), Op("Sleep"), Op("PushNil")>>
                    [] OTHER                        -> <<>>
    IN  IF e.node # "call" THEN expr(Diagnose(l, "E0312"), e)
        ELSE IF path = <<"game", "next_tick">>
        THEN Emit(l, <<Op("Yield"), Op("PushNil")>>)
        ELSE Emit(CallExpr(l, e), ending)

ShortJump(e) == IF e.op = "And" THEN "JumpIfFalse" ELSE "JumpIfTrue"

\* Wrong on purpose: forgets to drop the left operand.
ShortCircuit__KeepsLeft(l, e) ==
    LET Patched(left, right) == patch_jump(right, JumpOperand(left), Here(right))
        After(left) ==
            Patched(left, expr(emit_jump(left, ShortJump(e)), e.right))
    IN  After(Gen(expr(l, e.left), Op("Dup")))

ShortCircuit(l, e) ==
    LET Patched(left, right) == patch_jump(right, JumpOperand(left), Here(right))
        After(left) ==
            Patched(left, expr(Gen(emit_jump(left, ShortJump(e)), Op("Pop")),
                               e.right))
    IN  After(Gen(expr(l, e.left), Op("Dup")))

expr(l, e) ==
    CASE e.node = "literal" -> literal(l, e.value)
      [] e.node = "name"    ->
            IF Declared(l, e.name) THEN Gen(l, Op1("LoadLocal", l.locals[e.name]))
            ELSE Gen(Diagnose(l, "E0307"), Op("PushNil"))
      [] e.node \in {"array", "record"} ->
            IF IsSome(constant_value(e))
            THEN push_constant(l, Get(constant_value(e)))
            ELSE Gen(Diagnose(l, IF e.node = "array" THEN "E0308"
                                                     ELSE "E0309"),
                     Op("PushNil"))
      [] e.node = "unary"   -> Gen(expr(l, e.arg), Op(e.op))
      [] e.node = "binary" /\ e.op \in {"And", "Or"} -> ShortCircuit(l, e)
      [] e.node = "binary" /\ e.op \notin {"And", "Or"} ->
            Gen(expr(expr(l, e.left), e.right), Op(e.op))
      [] e.node = "field"   ->
            LET id == IF e.object.node = "name"
                      THEN local_field_id(l, e.object.name, e.name) ELSE None
            IN  IF IsSome(id) THEN Gen(expr(l, e.object), Op1("LoadField", Get(id)))
                ELSE Diagnose(expr(l, e.object), "E0310")
      [] e.node = "index"   ->
            Gen(expr(expr(l, e.object), e.index), Op("LoadIndex"))
      [] e.node = "call"    -> CallExpr(l, e)
      [] e.node = "await"   -> await_expr(l, e.arg)

----------------------------------------------------------------------------
RECURSIVE block(_, _)

AssignTo(l, target, e) ==
    LET x == IF target.node = "name" THEN target.name ELSE target.object.name
        Store(k) == Gen(k, Op1("StoreLocal", l.locals[x]))
        loaded   == Gen(l, Op1("LoadLocal", l.locals[x]))
    IN  CASE target.node \in {"field", "index"} /\ target.object.node # "name" ->
                Diagnose(l, "E0303")
          [] target.node \notin {"name", "field", "index"} ->
                Diagnose(l, "E0303")
          [] target.node = "name" ->
                IF Declared(l, x) THEN Store(expr(l, e))
                                  ELSE Diagnose(expr(l, e), "E0302")
          [] OTHER ->
                IF ~Declared(l, x) THEN Diagnose(l, "E0302")
                ELSE IF target.node = "index"
                THEN Store(Gen(expr(expr(loaded, target.index), e),
                               Op2("CallHost", 92, 3)))
                ELSE LET id == local_field_id(l, x, target.name)
                     IN  IF ~IsSome(id) THEN Diagnose(l, "E0303")
                         ELSE Store(Gen(expr(push_constant(loaded,
                                                 Integer(Get(id))), e),
                                        Op2("CallHost", 91, 3)))

\* The conditional jump of a statement is in its condition's code c, the jump
\* past the else branch in the then branch's code t.
IfStmt(l, s) ==
    LET Joined(t, e)  == patch_jump(e, JumpOperand(t), Here(e))
        Else(c, t, j) == Joined(t, block(patch_jump(j, JumpOperand(c), Here(j)),
                                         Get(s.else)))
        Then(c, t)    == IF IsSome(s.else) THEN Else(c, t, emit_jump(t, "Jump"))
                         ELSE patch_jump(t, JumpOperand(c), Here(t))
        After(c)      == Then(c, block(emit_jump(c, "JumpIfFalse"), s.then))
    IN  After(expr(l, s.cond))

\* The body of a loop: `continue` goes to `start`, what `break` left to patch
\* goes to the end, and so does the test.
EnterLoop(l, start) == [l EXCEPT !.loops = Append(@, [start  |-> start,
                                                      breaks |-> <<>>])]
LeaveLoop(l, testOperand) ==
    PatchAll([l EXCEPT !.loops = SubSeq(@, 1, Len(@) - 1)],
             Append(l.loops[Len(l.loops)].breaks, testOperand), Here(l))

WhileStmt(l, s) ==
    LET Body(c) == block(EnterLoop(emit_jump(c, "JumpIfFalse"), Here(l)), s.body)
        After(c) == LeaveLoop(Gen(Body(c), Op1("Jump", Here(l))), JumpOperand(c))
    IN  After(expr(l, s.cond))

\* A for keeps the array and the index of the element in two locals without a
\* name.  The type of the array may be one that an earlier for left behind.
\* `continue` goes to the test: the index stays as it is.
ForStmt(l, s) ==
    LET iter  == l.next
        i     == Saturated(iter)
        Evaluated == Gen(allocate_local(expr(l, s.iter), "#for_iter",
                                        expr_declared_type(s.iter)),
                         Op1("StoreLocal", iter))
        ItemType(types) ==
            IF "#for_iter" \in DOMAIN types /\ types["#for_iter"].type = "Array"
            THEN Some(types["#for_iter"].of) ELSE None
        Ready  == Gen(allocate_local(push_constant(Evaluated, Integer(0)),
                                     "#for_index", Some(TInt)),
                      Op1("StoreLocal", i))
        Test(h) == Emit(h, <<Op1("LoadLocal", i), Op1("LoadLocal", iter),
                             Op2("CallHost", 90, 1), Op("Lt")>>)
        Body(h, t) == block(EnterLoop(Emit(t,
                          <<Op1("JumpIfFalse", 0), Op1("LoadLocal", iter),
                            Op1("LoadLocal", i), Op("LoadIndex"),
                            Op1("StoreLocal", Saturated(i))>>), Here(h)), s.body)
        Close(h, t, b) ==
            LeaveLoop(Emit(push_constant(Gen(b, Op1("LoadLocal", i)), Integer(1)),
                           <<Op("Add"), Op1("StoreLocal", i),
                             Op1("Jump", Here(h))>>), JumpOperand(t))
        Round(h, t) == Close(h, t, Body(h, t))
        Loop(h)     == Round(h, Test(h))
        Item(z)     == Loop(allocate_local(z, s.name, ItemType(z.types)))
    IN  Item(Ready)

\* The arms in order, each ending in a jump past the last; no arm may match.
MatchStmt(l, s) ==
    LET Literally(p) == IF p.pat = "name" THEN String(p.name) ELSE p.value
        Test(k, arm) == Gen(literal(Gen(k, Op1("LoadLocal", l.next)),
                                    Literally(arm.pattern)), Op("Eq"))
        Out(ends, body, operands) ==
            [l    |-> PatchAll(emit_jump(body, "Jump"), operands, Here(body) + 5),
             ends |-> Append(ends, JumpOperand(body))]
        Tested(ends, arm, t) ==
            Out(ends, block(emit_jump(t, "JumpIfFalse"), arm.body),
                <<JumpOperand(t)>>)
        OneArm(acc, arm) ==
            IF arm.pattern.pat = "wildcard"
            THEN Out(acc.ends, block(acc.l, arm.body), <<>>)
            ELSE Tested(acc.ends, arm, Test(acc.l, arm))
        Arms(first) == FoldLeft(OneArm, [l |-> first, ends |-> <<>>], s.arms)
        Ended(all)  == PatchAll(all.l, all.ends, Here(all.l))
    IN  Ended(Arms(Gen(allocate_local(expr(l, s.value), "#match",
                                      expr_declared_type(s.value)),
                       Op1("StoreLocal", l.next))))

BreakFrom(l, k) == [k EXCEPT !.loops[Len(k.loops)].breaks =
                              Append(@, JumpOperand(l))]
LetStmt(l, s) ==
    IF l.next = 255 THEN Diagnose(l, "E0301")
    ELSE Gen(allocate_local(l, s.name, IF IsSome(s.type) THEN s.type
                                       ELSE expr_declared_type(s.value)),
             Op1("StoreLocal", l.next))

stmt(l, s) ==
    CASE s.stmt = "let"    -> LetStmt(expr(l, s.value), s)
      [] s.stmt = "assign" -> AssignTo(l, s.target, s.value)
      [] s.stmt = "expr"   -> Gen(expr(l, s.value), Op("Pop"))
      [] s.stmt = "return" ->
            Gen(IF IsSome(s.result) THEN expr(l, Get(s.result)) ELSE l,
                Op("Return"))
      [] s.stmt = "if"     -> IfStmt(l, s)
      [] s.stmt = "while"  -> WhileStmt(l, s)
      [] s.stmt = "for"    -> ForStmt(l, s)
      [] s.stmt = "match"  -> MatchStmt(l, s)
      [] s.stmt = "break"  ->
            IF l.loops = <<>> THEN Diagnose(l, "E0304")
            ELSE BreakFrom(l, emit_jump(l, "Jump"))
      [] s.stmt = "continue" ->
            IF l.loops = <<>> THEN Diagnose(l, "E0305")
            ELSE Gen(l, Op1("Jump", l.loops[Len(l.loops)].start))
      [] s.stmt = "emit"   ->
            Gen(Gen(expr(l, s.value), Op2("CallHost", 143, 1)), Op("Pop"))

block(l, b) == FoldLeft(stmt, l, b)

\* A Return is added unless the last byte is one (be it an operand's).
Returning(b) == IF b.code # <<>> /\ b.code[Here(b)] = Opcode.Return THEN b
                ELSE Gen(b, Op("Return"))
LowerBody(l, body) == Returning(block(l, body))

----------------------------------------------------------------------------
(***************************************************************************)
(* A module.                                                               *)
(***************************************************************************)

\* The fields of the module's records, each with its record's name.
FieldsOf(m) == UNION {{<<m.records[i].name, m.records[i].fields[j].name>> :
                          j \in DOMAIN m.records[i].fields} :
                      i \in DOMAIN m.records}

\* Two fields of one module with one id, or with the id of the record's tag.
build_schema(m) ==
    \/ \E f, g \in FieldsOf(m) : f # g /\ field_id[f] = field_id[g]
    \/ \E f \in FieldsOf(m) : field_id[f] = 0

\* Functions are numbered from 1 in the order of their names, the handler
\* after them.  The program starts in the handler, or else in the first.
lower(m) ==
    LET n      == Len(m.callables)
        fns    == [x \in NamesOf(m.callables) |->
                      CHOOSE i \in 1..n : m.callables[i].name = x]
        fields == [f \in FieldsOf(m) |-> field_id[f]]
        bodies == m.callables \o
                  IF IsSome(m.start)
                  THEN <<[params |-> <<>>, body |-> Get(m.start)]>> ELSE <<>>
        Added(acc, f, l) == [consts |-> l.consts,
                             errors |-> acc.errors \cup l.errors,
                             fs     |-> Append(acc.fs,
                                               [code   |-> l.code,
                                                args   |-> Len(f.params),
                                                locals |-> l.next])]
        One(acc, f) ==
            Added(acc, f, LowerBody(FunctionLowerer(f.params, fns, fields,
                                                    acc.consts), f.body))
        Output(out) == [errors  |-> out.errors,
                        program |-> [entry     |-> IF IsSome(m.start)
                                                   THEN n + 1 ELSE 1,
                                     functions |-> out.fs,
                                     constants |-> out.consts]]
    IN  IF build_schema(m) THEN [errors |-> {"E0300"}]
        ELSE Output(FoldLeft(One, [consts |-> <<>>, errors |-> {},
                                   fs |-> <<>>], bodies))
=============================================================================
