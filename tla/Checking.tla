------------------------------- MODULE Checking -------------------------------
(***************************************************************************)
(* The checker of v2 modules (v2/check.rs): names and types.  Its verdict  *)
(* is the set of the codes of its diagnostics, empty for a module that is  *)
(* lowered.  An environment has the module, the types of the locals, the   *)
(* return type, and whether await is allowed.                              *)
(***************************************************************************)
EXTENDS Syntax, Values, SequencesExt, TLC

StandardRoots == {"core", "game", "world", "time", "random", "input", "scene",
                  "ui", "audio", "asset", "save"}

standard_return_type(path) ==
    CASE path \in {<<"core", "len">>, <<"random", "int">>, <<"time", "tick">>,
                   <<"world", "spawn">>}                 -> TInt
      [] path \in {<<"input", "choice">>, <<"input", "text">>} -> TString
      [] path = <<"save", "load">>                       -> TBool
      [] OTHER                                           -> TAny

assignable(expected, actual) ==
    \/ expected = actual
    \/ expected = TAny
    \/ expected = TFloat /\ actual = TInt
    \/ expected.type = "Option" /\ actual = TNil

\* Wrong on purpose: strings are added too.
is_number__Strings(type) == type \in {TInt, TFloat, TString, TAny}

is_number(type) == type \in {TInt, TFloat, TAny}

\* The type of an expression and the diagnostics of its parts.
Typed(type, errs) == [type |-> type, errs |-> errs]
Unless(holds, code) == IF holds THEN {} ELSE {code}

RECURSIVE infer_expr(_, _)

ErrorsIn(es, env) ==
    UNION {infer_expr(es[i], env).errs : i \in DOMAIN es}

\* The elements are compared with the first whose type is known.
InferArray(e, env) ==
    LET One(acc, item) ==
            LET t == infer_expr(item, env)
            IN  IF acc.type = TAny THEN Typed(t.type, acc.errs \cup t.errs)
                ELSE Typed(acc.type, acc.errs \cup t.errs \cup
                               Unless(assignable(acc.type, t.type), "E0214"))
        all == FoldLeft(One, Typed(TAny, {}), e.items)
    IN  Typed(TArray(all.type), all.errs)

InferRecord(e, env) ==
    LET fields == Named(env.module.records, e.name).fields
        Check(f) ==
            IF f[1] \notin NamesOf(fields) THEN {"E0209"}
            ELSE LET t == infer_expr(f[2], env)
                 IN  t.errs \cup Unless(assignable(Named(fields, f[1]).type,
                                                   t.type), "E0214")
    IN  IF e.name \notin NamesOf(env.module.records)
        THEN Typed(TAny, {"E0208"})
        ELSE Typed(TNamed(e.name),
                   UNION {Check(e.fields[i]) : i \in DOMAIN e.fields})

\* Nothing is asked of the operands of a comparison.
InferBinary(e, env) ==
    LET l == infer_expr(e.left, env)
        r == infer_expr(e.right, env)
        errs == l.errs \cup r.errs
    IN  CASE e.op \in {"Eq", "Ne", "Lt", "Le", "Gt", "Ge"} -> Typed(TBool, errs)
          [] e.op \in {"And", "Or"} ->
                Typed(TBool, errs \cup
                      Unless(l.type = TBool /\ r.type = TBool, "E0214"))
          [] OTHER ->
                IF ~is_number(l.type) \/ ~is_number(r.type)
                THEN Typed(TAny, errs \cup {"E0210"})
                ELSE Typed(IF TFloat \in {l.type, r.type} THEN TFloat ELSE TInt,
                           errs)

\* A call is typed by the declaration; its arguments are not compared with it.
InferCall(e, env) ==
    LET args == ErrorsIn(e.args, env)
        path == expr_path(e.callee)
        fns  == env.module.callables
        c    == infer_expr(e.callee, env)
    IN  IF Len(path) = 1 /\ path[1] \in NamesOf(fns)
        THEN Typed(Named(fns, path[1]).type, args)
        ELSE IF Len(path) = 2 /\ path[1] \in StandardRoots
        THEN Typed(standard_return_type(path), args)
        ELSE Typed(TAny, args \cup c.errs \cup Unless(c.type = TAny, "E0212"))

infer_expr(e, env) ==
    CASE e.node = "literal" ->
            Typed(CASE e.value.tag = "nil"     -> TNil
                    [] e.value.tag = "bool"    -> TBool
                    [] e.value.tag = "integer" -> TInt
                    [] e.value.tag = "float"   -> TFloat
                    [] e.value.tag = "string"  -> TString, {})
      [] e.node = "name" ->
            IF e.name \in DOMAIN env.locals THEN Typed(env.locals[e.name], {})
            ELSE Typed(TAny, Unless(\/ e.name \in NamesOf(env.module.callables)
                                    \/ e.name \in StandardRoots, "E0207"))
      [] e.node = "array"  -> InferArray(e, env)
      [] e.node = "record" -> InferRecord(e, env)
      [] e.node = "unary"  ->
            LET a == infer_expr(e.arg, env)
            IN  Typed(IF e.op = "Not" THEN TBool ELSE a.type,
                      a.errs \cup
                      Unless(IF e.op = "Not" THEN assignable(TBool, a.type)
                                             ELSE is_number(a.type), "E0214"))
      [] e.node = "binary" -> InferBinary(e, env)
      [] e.node = "field"  ->
            LET o == infer_expr(e.object, env)
                fields == Named(env.module.records, o.type.name).fields
                legacy == IF e.object.node = "name"
                          THEN Unless(e.object.name \notin {"ext", "state"},
                                      "E0211") ELSE {}
            IN  IF e.object.node = "name" /\ e.object.name \in StandardRoots
                THEN Typed(standard_return_type(expr_path(e)), legacy)
                ELSE IF /\ o.type.type = "Named"
                        /\ o.type.name \in NamesOf(env.module.records)
                        /\ e.name \in NamesOf(fields)
                THEN Typed(Named(fields, e.name).type, o.errs \cup legacy)
                ELSE Typed(TAny, o.errs \cup legacy)
      [] e.node = "index"  ->
            LET o == infer_expr(e.object, env)
                i == infer_expr(e.index, env)
            IN  Typed(IF o.type.type = "Array" THEN o.type.of ELSE TAny,
                      o.errs \cup i.errs \cup Unless(i.type = TInt, "E0214"))
      [] e.node = "call"   -> InferCall(e, env)
      [] e.node = "await"  ->
            LET a == infer_expr(e.arg, env)
            IN  Typed(a.type, a.errs \cup Unless(env.await, "E0213"))

----------------------------------------------------------------------------
RECURSIVE validate_block(_, _)

Bind(env, x, type) == [env EXCEPT !.locals = (x :> type) @@ @]

\* What a statement binds, and its diagnostics.  The bindings of a block end
\* with it: only `let` changes the environment.
validate_stmt(s, env) ==
    LET Same(errs) == [env |-> env, errs |-> errs]
        Condition  == LET c == infer_expr(s.cond, env)
                      IN  c.errs \cup Unless(assignable(TBool, c.type), "E0214")
        Value      == infer_expr(s.value, env)
    IN  CASE s.stmt = "let" ->
                [env  |-> Bind(env, s.name, IF IsSome(s.type) THEN Get(s.type)
                                                              ELSE Value.type),
                 errs |-> Value.errs \cup
                          Unless(\/ ~IsSome(s.type)
                                 \/ assignable(Get(s.type), Value.type),
                                 "E0214")]
          [] s.stmt = "assign" ->
                LET t == infer_expr(s.target, env)
                IN  Same(t.errs \cup Value.errs \cup
                         Unless(assignable(t.type, Value.type), "E0214"))
          [] s.stmt \in {"expr", "emit"} -> Same(Value.errs)
          [] s.stmt = "return" ->
                LET v == IF IsSome(s.result) THEN infer_expr(Get(s.result), env)
                                            ELSE Typed(TNil, {})
                IN  Same(v.errs \cup
                         Unless(assignable(env.returns, v.type), "E0214"))
          [] s.stmt = "if" ->
                Same(Condition \cup validate_block(s.then, env) \cup
                     (IF IsSome(s.else) THEN validate_block(Get(s.else), env)
                                        ELSE {}))
          [] s.stmt = "while" ->
                Same(Condition \cup validate_block(s.body, env))
          [] s.stmt = "for" ->
                LET t == infer_expr(s.iter, env)
                IN  Same(t.errs \cup
                         IF t.type.type # "Array" THEN {"E0206"}
                         ELSE validate_block(s.body,
                                             Bind(env, s.name, t.type.of)))
          [] s.stmt = "match" ->
                Same(Value.errs \cup
                     UNION {validate_block(s.arms[i].body, env) :
                                i \in DOMAIN s.arms})
          [] s.stmt \in {"break", "continue"} -> Same({})

validate_block(b, env) ==
    LET One(acc, s) == LET r == validate_stmt(s, acc.env)
                       IN  [env |-> r.env, errs |-> acc.errs \cup r.errs]
    IN  FoldLeft(One, [env |-> env, errs |-> {}], b).errs

----------------------------------------------------------------------------

RECURSIVE validate_type(_, _)
validate_type(type, known) ==
    CASE type.type \in {"Array", "Option"} -> validate_type(type.of, known)
      [] type.type = "Named" -> Unless(type.name \in known, "E0205")
      [] OTHER -> {}

\* A persistent record holds plain values and persistent records, and no
\* record that holds itself.
RECURSIVE is_persistent_type(_, _, _)
is_persistent_type(m, type, visiting) ==
    CASE type.type \in {"Nil", "Bool", "Int", "Float", "String"} -> TRUE
      [] type.type \in {"Array", "Option"} ->
            is_persistent_type(m, type.of, visiting)
      [] type.type = "Named" ->
            /\ type.name \notin visiting
            /\ type.name \in NamesOf(m.records)
            /\ LET r == Named(m.records, type.name)
               IN  /\ r.persistent
                   /\ \A i \in DOMAIN r.fields :
                          is_persistent_type(m, r.fields[i].type,
                                             visiting \cup {type.name})
      [] OTHER -> FALSE

Repeats(q) == Cardinality(NamesOf(q)) # Len(q)

collect(m) ==
    Unless(/\ ~Repeats(m.records) /\ ~Repeats(m.callables)
           /\ NamesOf(m.records) \cap NamesOf(m.callables) = {}, "E0200")

validate_record(m, r, known) ==
    Unless(~Repeats(r.fields), "E0202") \cup
    UNION {LET t == r.fields[i].type
           IN  validate_type(t, known) \cup
               Unless(~r.persistent \/ is_persistent_type(m, t, {}), "E0203") :
               i \in DOMAIN r.fields}

validate_callable(m, f, known) ==
    Unless(~Repeats(f.params), "E0204") \cup
    UNION {validate_type(f.params[i].type, known) : i \in DOMAIN f.params} \cup
    validate_type(f.type, known) \cup
    validate_block(f.body,
                   [module  |-> m, returns |-> f.type, await |-> f.kind = "task",
                    locals  |-> [x \in NamesOf(f.params) |->
                                    Named(f.params, x).type]])

\* The codes of the diagnostics of a module.
check(m) ==
    LET known == NamesOf(m.records) \cup NamesOf(m.callables)
    IN  collect(m) \cup
        UNION {validate_record(m, m.records[i], known) :
                   i \in DOMAIN m.records} \cup
        UNION {validate_callable(m, m.callables[i], known) :
                   i \in DOMAIN m.callables} \cup
        (IF ~IsSome(m.start) THEN {}
         ELSE validate_block(Get(m.start),
                  [module |-> m, returns |-> TNil, await |-> TRUE,
                   locals |-> <<>>]))
=============================================================================
