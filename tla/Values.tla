-------------------------------- MODULE Values --------------------------------
(***************************************************************************)
(* The runtime values of wmvm and the computations of its instructions on  *)
(* them.  A computation that the VM refuses is an error record.  A float   *)
(* is the fraction it stands for: what rounding, infinities and zeros with *)
(* a sign add to it is left out, and so are handles, which no operation of *)
(* a v2 script makes.                                                      *)
(***************************************************************************)
EXTENDS Integers, Sequences

CONSTANT IntBits    \* width of an integer (64 in the code)

ASSUME IntBitsAssumption == IntBits \in Nat \ {0, 1}

\* That is so for every such width: the provers know no more of powers than that
\* they are numbers.
ASSUME WidthAssumption == 2^(IntBits - 1) >= 2

Nil        == [tag |-> "nil"]
\* Rust's division truncates: the remainder has the sign of the dividend.
Magnitude(n)   == IF n < 0 THEN -n ELSE n
Quotient(a, b) == LET q == Magnitude(a) \div Magnitude(b)
                  IN  IF (a < 0) = (b < 0) THEN q ELSE -q

\* The float n/d, in lowest terms.
Float(n, d) ==
    LET common == {g \in 1..Magnitude(d) : n % g = 0 /\ d % g = 0}
        most   == CHOOSE g \in common : \A h \in common : h <= g
    IN  [tag |-> "float", num |-> Quotient(n, IF d < 0 THEN -most ELSE most),
         den |-> Magnitude(d) \div most]

Bool(b)    == [tag |-> "bool", bool |-> b]
Integer(n) == [tag |-> "integer", integer |-> n]
String(s)  == [tag |-> "string", text |-> s]
Array(q)   == [tag |-> "array", items |-> q]
Table(f)   == [tag |-> "table", fields |-> f]     \* field id -> value

Failure(kind) == [error |-> kind]
IsValue(r)    == "tag" \in DOMAIN r

MinInt  == -(2^(IntBits - 1))
Wrap(n) == ((n - MinInt) % 2^IntBits) + MinInt    \* the release build wraps

truthy(v) ==
    CASE v.tag = "nil"     -> FALSE
      [] v.tag = "bool"    -> v.bool
      [] v.tag = "integer" -> v.integer # 0
      [] v.tag = "float"   -> v.num # 0
      [] v.tag = "string"  -> v.text # ""
      [] v.tag = "array"   -> v.items # <<>>
      [] v.tag = "table"   -> DOMAIN v.fields # {}

\* An array index or a field id: a boolean counts as 0 or 1.  What is no
\* index is -1, and so is a negative integer.
as_index(v) ==
    CASE v.tag = "integer" -> IF v.integer < 0 THEN -1 ELSE v.integer
      [] v.tag = "bool"    -> IF v.bool THEN 1 ELSE 0
      [] OTHER             -> -1

Integers(a, b) == a.tag = "integer" /\ b.tag = "integer"
Numeric(a, b)  == {a.tag, b.tag} \subseteq {"integer", "float"}
as_float(v)    == IF v.tag = "integer" THEN Float(v.integer, 1) ELSE v

Combined(op, m, n) == CASE op = "Add" -> m + n
                        [] op = "Sub" -> m - n
                        [] op = "Mul" -> m * n

\* With a float the other operand becomes one.
binary_numeric(op, a, b) ==
    LET x == as_float(a)
        y == as_float(b)
    IN  IF ~Numeric(a, b)         THEN Failure("TypeMismatch")
        ELSE IF Integers(a, b)
        THEN Integer(Wrap(Combined(op, a.integer, b.integer)))
        ELSE IF op = "Mul"        THEN Float(x.num * y.num, x.den * y.den)
        ELSE Float(Combined(op, x.num * y.den, y.num * x.den), x.den * y.den)

\* The smallest integer divided by -1 panics in every build.
Overflows(a, b) == a.integer = MinInt /\ b.integer = -1

binary_div(a, b) ==
    LET x == as_float(a)
        y == as_float(b)
    IN  IF ~Numeric(a, b)         THEN Failure("TypeMismatch")
        ELSE IF y.num = 0         THEN Failure("DivisionByZero")
        ELSE IF ~Integers(a, b)   THEN Float(x.num * y.den, x.den * y.num)
        ELSE IF Overflows(a, b)   THEN Failure("Panic")
        ELSE Integer(Quotient(a.integer, b.integer))

\* A float has no remainder.
binary_mod(a, b) ==
    IF ~Integers(a, b)            THEN Failure("TypeMismatch")
    ELSE IF b.integer = 0         THEN Failure("DivisionByZero")
    ELSE IF Overflows(a, b)       THEN Failure("Panic")
    ELSE Integer(a.integer - Quotient(a.integer, b.integer) * b.integer)

compare_ordering(op, a, b) ==
    LET x == as_float(a)
        y == as_float(b)
        m == x.num * y.den
        n == y.num * x.den
    IN  IF ~Numeric(a, b) THEN Failure("TypeMismatch")
        ELSE Bool(CASE op = "Lt" -> m < n
                    [] op = "Le" -> m <= n
                    [] op = "Gt" -> m > n
                    [] op = "Ge" -> m >= n)

\* Reading past the end of an array, or a field a table has not, gives nil.
Loadable(object, i) == object.tag \in {"array", "table"} /\ i # -1
Loaded(object, i) ==
    IF object.tag = "array"
    THEN IF i < Len(object.items) THEN object.items[i + 1] ELSE Nil
    ELSE IF i \in DOMAIN object.fields THEN object.fields[i] ELSE Nil

load_index(object, index) ==
    IF Loadable(object, as_index(index)) THEN Loaded(object, as_index(index))
                                         ELSE Failure("TypeMismatch")

Unary  == {"Neg", "Not"}
Binary == {"Add", "Sub", "Mul", "Div", "Mod", "Eq", "Ne", "Lt", "Le", "Gt",
           "Ge", "LoadIndex"}

\* What an instruction computes from its operands, the deepest first.
Compute(op, q) ==
    CASE op \in {"Add", "Sub", "Mul"}      -> binary_numeric(op, q[1], q[2])
      [] op = "Div"                        -> binary_div(q[1], q[2])
      [] op = "Mod"                        -> binary_mod(q[1], q[2])
      [] op \in {"Lt", "Le", "Gt", "Ge"}   -> compare_ordering(op, q[1], q[2])
      [] op = "Eq"                         -> Bool(q[1] = q[2])
      [] op = "Ne"                         -> Bool(q[1] # q[2])
      [] op = "LoadIndex"                  -> load_index(q[1], q[2])
      [] op = "Not"                        -> Bool(~truthy(q[1]))
      [] op = "Neg"                        ->
            CASE q[1].tag = "integer" -> Integer(Wrap(-q[1].integer))
              [] q[1].tag = "float"   -> Float(-q[1].num, q[1].den)
              [] OTHER                -> Failure("TypeMismatch")
=============================================================================
