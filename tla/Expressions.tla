----------------------------- MODULE Expressions -----------------------------
(***************************************************************************)
(* Constraint expressions: Tokenizer, ExpressionParser and                 *)
(* ExpressionEvaluator, and the ConstraintValidator and RuleEngine that    *)
(* decide with them whether a run may go on.                               *)
(*                                                                         *)
(* A text is a sequence of atoms: a word, a digit, or one other character, *)
(* so that ctx.a is <<"ctx", ".", "a">>.  A JavaScript value is a record   *)
(* of its kind and its content.  A number is the set of its value and NaN  *)
(* the empty set, with which every comparison is false.  Decimal fractions *)
(* are left out, and so is the value of a quotient; "/" is parsed like "*".*)
(***************************************************************************)
EXTENDS Integers, FiniteSets, SequencesExt

CONSTANTS
    Words,          \* the atoms made of letters
    Lists,          \* the lists of constraints a definition may have
    Environments    \* the contexts and outputs a run may have

VARIABLES
    constraints,    \* definition.constraints: the text and severity of each, and
                    \* what it was meant to say (see the properties)
    context,        \* the ConstraintContext of the run
    outcome         \* what RuleEngine.apply has done

vars == <<constraints, context, outcome>>

-----------------------------------------------------------------------------
(* Tokenizer.  Each token has its type and the atoms it was read from.     *)

Digits == {"0", "1", "2", "3", "4", "5", "6", "7", "8", "9"}
OpStarts == {"+", "-", "*", "/", "<", ">", "=", "!", "&", "|"}
Quotes == {"'", "\""}
TwoCharOps == {<<"=", "=">>, <<"!", "=">>, <<"<", "=">>, <<">", "=">>,
               <<"&", "&">>, <<"|", "|">>}

Token(type, value) == [type |-> type, value |-> value]

\* How many atoms at the start of s belong to S.
Span(s, S) ==
    LET ends == {i \in 1..Len(s) : s[i] \notin S}
    IN  IF ends = {} THEN Len(s) ELSE Min(ends) - 1

\* The token at the start of s and the number of atoms it takes; length 0 stands
\* for the thrown error.
NextToken(s) ==
    LET c == s[1]
        read(type, n) == [token |-> Token(type, SubSeq(s, 1, n)), length |-> n]
    IN  CASE c = "(" -> read("lparen", 1)
          [] c = ")" -> read("rparen", 1)
          [] c = "," -> read("comma", 1)
          [] c \in OpStarts ->
               read("op", IF SubSeq(s, 1, Min({2, Len(s)})) \in TwoCharOps THEN 2 ELSE 1)
          [] c \in Quotes ->
               LET inside == Span(Tail(s), (Words \cup Digits \cup OpStarts \cup Quotes
                                            \cup {"(", ")", ",", ".", " "}) \ {c})
               IN  [token  |-> Token("string", SubSeq(s, 2, inside + 1)),
                    length |-> Min({inside + 2, Len(s)})]
          [] c \in Digits -> read("number", Span(s, Digits \cup {"."}))
          [] c \in Words -> read("ident", Span(s, Words \cup Digits \cup {"."}))
          [] OTHER -> [token |-> Token("eof", << >>), length |-> 0]

Failed == << >>                  \* no token list is empty: it ends with eof

RECURSIVE Tokenize(_)
Tokenize(s) ==
    LET rest == SubSeq(s, Span(s, {" "}) + 1, Len(s))
    IN  IF rest = << >> THEN <<Token("eof", << >>)>>
        ELSE LET next  == NextToken(rest)
                 after == Tokenize(SubSeq(rest, next.length + 1, Len(rest)))
             IN  IF next.length = 0 \/ after = Failed THEN Failed ELSE <<next.token>> \o after

-----------------------------------------------------------------------------
(* ExpressionParser.  A result is the node and the index after it; index 0 *)
(* stands for a thrown error.                                              *)

Literal(v)       == [kind |-> "literal", value |-> v]
Ident(name)      == [kind |-> "ident", name |-> name]
Unary(op, arg)   == [kind |-> "unary", op |-> op, arg |-> arg]
Binary(op, l, r) == [kind |-> "binary", op |-> op, left |-> l, right |-> r]
Call(name, args) == [kind |-> "call", name |-> name, args |-> args]

Undefined == [kind |-> "undefined"]
Null      == [kind |-> "null"]
Bool(b)   == [kind |-> "boolean", value |-> b]
Num(s)    == [kind |-> "number", value |-> s]
Str(s)    == [kind |-> "string", value |-> s]
Obj(f)    == [kind |-> "object", value |-> f]

\* The binary operators of parseOr, parseAnd, parseComparison, parseAdd, parseMul.
OpsAt == <<{<<"|", "|">>}, {<<"&", "&">>},
           {<<"=", "=">>, <<"!", "=">>, <<"<">>, <<"<", "=">>, <<">">>, <<">", "=">>},
           {<<"+">>, <<"-">>}, {<<"*">>, <<"/">>}>>
Comparison == 3

UnaryOps == (<<"!">> :> "not" @@ <<"-">> :> "neg")

DigitValue(c) == CHOOSE n \in 0..9 : ToString(n) = c

\* Number() of a sequence of digits; NaN if there is anything else.
NumberOf(s) ==
    IF \A i \in 1..Len(s) : s[i] \in Digits
    THEN {FoldLeft(LAMBDA n, c : 10 * n + DigitValue(c), 0, s)} ELSE {}

At(node, i) == [node |-> node, i |-> i]
ParseError == At(Literal(Null), 0)

RECURSIVE ParseLevel(_, _, _), ParseRest(_, _, _), ParseUnary(_, _),
          ParsePrimary(_, _), ParseArgs(_, _, _)

\* parseOr for level 1 down to parseMul for level 5.  The loops look at the value
\* of the token and not at its type; consume("op") throws if it is not an operator.
ParseLevel(level, ts, i) ==
    IF level > Len(OpsAt) THEN ParseUnary(ts, i)
    ELSE LET left == ParseLevel(level + 1, ts, i)
         IN  IF left.i = 0 THEN ParseError ELSE ParseRest(level, ts, left)

ParseRest(level, ts, left) ==
    LET t == ts[left.i]
    IN  IF t.value \notin OpsAt[level] THEN left
        ELSE LET right == ParseLevel(level + 1, ts, left.i + 1)
                 both  == At(Binary(t.value, left.node, right.node), right.i)
             IN  IF t.type # "op" \/ right.i = 0 THEN ParseError
                 ELSE IF level = Comparison THEN both ELSE ParseRest(level, ts, both)

ParseUnary(ts, i) ==
    IF ts[i].value \notin DOMAIN UnaryOps THEN ParsePrimary(ts, i)
    ELSE LET arg == ParseUnary(ts, i + 1)
         IN  IF ts[i].type # "op" \/ arg.i = 0 THEN ParseError
             ELSE At(Unary(UnaryOps[ts[i].value], arg.node), arg.i)

ParsePrimary(ts, i) ==
    LET t == ts[i]
    IN  CASE t.type = "number" -> At(Literal(Num(NumberOf(t.value))), i + 1)
          [] t.type = "string" -> At(Literal(Str(t.value)), i + 1)
          [] t.type = "ident" ->
               CASE t.value = <<"true">>  -> At(Literal(Bool(TRUE)), i + 1)
                 [] t.value = <<"false">> -> At(Literal(Bool(FALSE)), i + 1)
                 [] t.value = <<"null">>  -> At(Literal(Null), i + 1)
                 [] OTHER ->
                      IF ts[i + 1].type # "lparen" THEN At(Ident(t.value), i + 1)
                      ELSE IF ts[i + 2].type = "rparen" THEN At(Call(t.value, << >>), i + 3)
                      ELSE LET all == ParseArgs(ts, i + 2, << >>)
                           IN  IF all.i = 0 THEN ParseError
                               ELSE At(Call(t.value, all.node), all.i)
          [] t.type = "lparen" ->
               LET inner == ParseLevel(1, ts, i + 1)
               IN  IF inner.i = 0 \/ ts[inner.i].type # "rparen" THEN ParseError
                   ELSE At(inner.node, inner.i + 1)
          [] OTHER -> ParseError

\* The arguments of a call, up to and with its closing parenthesis.
ParseArgs(ts, i, args) ==
    LET arg == ParseLevel(1, ts, i)
    IN  IF arg.i = 0 THEN ParseError
        ELSE CASE ts[arg.i].type = "comma"  -> ParseArgs(ts, arg.i + 1, Append(args, arg.node))
               [] ts[arg.i].type = "rparen" -> At(Append(args, arg.node), arg.i + 1)
               [] OTHER -> ParseError

\* parse: the whole input must be one expression.
Parse(text) ==
    LET ts   == Tokenize(text)
        tree == ParseLevel(1, ts, 1)
    IN  IF ts = Failed THEN ParseError
        ELSE IF tree.i # 0 /\ ts[tree.i].type = "eof" THEN tree ELSE ParseError

-----------------------------------------------------------------------------
(* ExpressionEvaluator and BUILTINS.  Both sides of an operator are always *)
(* evaluated; a call of an unknown function throws.                        *)

Thrown == [kind |-> "thrown"]

Truthy(v) ==
    CASE v.kind = "boolean" -> v.value
      [] v.kind = "number"  -> v.value \notin {{}, {0}}
      [] v.kind = "string"  -> v.value # << >>
      [] OTHER -> v.kind = "object"

\* Number(v).
ToNumber(v) ==
    CASE v.kind = "number"  -> v.value
      [] v.kind = "boolean" -> {IF v.value THEN 1 ELSE 0}
      [] v.kind = "null"    -> {0}
      [] v.kind = "string"  -> NumberOf(v.value)
      [] OTHER -> {}

\* l == r of JavaScript: null and undefined equal each other and nothing else;
\* values of one kind by content; otherwise as numbers.
LooselyEqual(l, r) ==
    LET missing == {"null", "undefined"}
    IN  IF l.kind \in missing \/ r.kind \in missing
        THEN l.kind \in missing /\ r.kind \in missing
        ELSE IF l.kind = r.kind THEN l.value = r.value /\ (l.kind = "number" => l.value # {})
        ELSE ToNumber(l) = ToNumber(r) /\ ToNumber(l) # {}

Less(l, r)   == \E x \in ToNumber(l), y \in ToNumber(r) : x < y
AtMost(l, r) == \E x \in ToNumber(l), y \in ToNumber(r) : x <= y

EvalBinary(op, l, r) ==
    CASE op = <<"=", "=">> -> Bool(LooselyEqual(l, r))
      [] op = <<"!", "=">> -> Bool(~ LooselyEqual(l, r))
      [] op = <<"<">>      -> Bool(Less(l, r))
      [] op = <<"<", "=">> -> Bool(AtMost(l, r))
      [] op = <<">">>      -> Bool(Less(r, l))
      [] op = <<">", "=">> -> Bool(AtMost(r, l))
      [] op = <<"&", "&">> -> Bool(Truthy(l) /\ Truthy(r))
      [] op = <<"|", "|">> -> Bool(Truthy(l) \/ Truthy(r))
      [] op = <<"+">> -> Num({x + y : x \in ToNumber(l), y \in ToNumber(r)})
      [] op = <<"-">> -> Num({x - y : x \in ToNumber(l), y \in ToNumber(r)})
      [] op = <<"*">> -> Num({x * y : x \in ToNumber(l), y \in ToNumber(r)})

\* null, undefined and the empty string.
IsEmpty(v) == v.kind \in {"null", "undefined"} \/ (v.kind = "string" /\ v.value = << >>)

\* String(v ?? "") of the strings, null and undefined.
ToText(v) == IF v.kind = "string" THEN v.value ELSE << >>

\* args[n], which is undefined past the end.
Arg(args, n) == IF n <= Len(args) THEN args[n] ELSE Undefined

Builtin(name, args) ==
    CASE name = <<"isempty">> -> Bool(IsEmpty(Arg(args, 1)))
      [] name = <<"length">>  -> Num({Len(ToText(Arg(args, 1)))})
      [] name = <<"contains">> ->
           LET hay    == ToText(Arg(args, 1))
               needle == ToText(Arg(args, 2))
           IN  Bool(\E i \in 0..Len(hay) : SubSeq(hay, i + 1, i + Len(needle)) = needle)
      [] name = <<"coalesce">> ->
           LET filled == SelectSeq(args, LAMBDA a : ~ IsEmpty(a))
           IN  IF filled = << >> THEN Null ELSE filled[1]
      [] OTHER -> Thrown

\* resolveIdent: the path from the environment, undefined where it breaks off.
ResolveIdent(name, env) ==
    FoldLeft(LAMBDA cur, p : IF cur.kind = "object" /\ p \in DOMAIN cur.value
                             THEN cur.value[p] ELSE Undefined,
             env, SelectSeq(name, LAMBDA p : p # "."))

RECURSIVE EvalNode(_, _)
EvalNode(node, env) ==
    CASE node.kind = "literal" -> node.value
      [] node.kind = "ident"   -> ResolveIdent(node.name, env)
      [] node.kind = "unary"   ->
           LET v == EvalNode(node.arg, env)
           IN  IF v = Thrown THEN Thrown
               ELSE IF node.op = "not" THEN Bool(~ Truthy(v))
               ELSE Num(IF ToNumber(v) = {} THEN {0} ELSE {- x : x \in ToNumber(v)})
      [] node.kind = "binary"  ->
           LET l == EvalNode(node.left, env)
               r == EvalNode(node.right, env)
           IN  IF l = Thrown \/ r = Thrown THEN Thrown ELSE EvalBinary(node.op, l, r)
      [] node.kind = "call"    ->
           LET args == [i \in 1..Len(node.args) |-> EvalNode(node.args[i], env)]
           IN  IF \E i \in 1..Len(args) : args[i] = Thrown THEN Thrown
               ELSE Builtin(node.name, args)

-----------------------------------------------------------------------------
(* ConstraintValidator and RuleEngine.                                     *)

\* The names an expression can use: ctx and output.
EvalContext(c) == Obj("ctx" :> Obj(c.context) @@ "output" :> Obj(c.taskOutputs))

Always == <<"always">>

\* Faulty variant: an expression that cannot be evaluated is always violated.
ViolatedWhenBroken(text, c) ==
    \/ text = Always
    \/ LET tree  == Parse(text)
           value == EvalNode(tree.node, EvalContext(c))
       IN  tree.i = 0 \/ value = Thrown \/ Truthy(value)

\* evaluateExpression.  What cannot be parsed or evaluated counts as the name of a
\* context entry if it starts with "ctx.", and as not violated otherwise.
Violated(text, c) ==
    \/ text = Always
    \/ LET tree  == Parse(text)
           value == EvalNode(tree.node, EvalContext(c))
           key   == SubSeq(text, 3, Len(text))
       IN  IF tree.i # 0 /\ value # Thrown THEN Truthy(value)
           ELSE /\ SubSeq(text, 1, 2) = <<"ctx", ".">>
                /\ ~ \E k \in DOMAIN c.context : <<k>> = key /\ ~ IsEmpty(c.context[k])

ViolatedOf(severity, list, c) ==
    {i \in 1..Len(list) : list[i].severity = severity /\ Violated(list[i].text, c)}

Init ==
    /\ constraints \in Lists
    /\ context \in Environments
    /\ outcome = [done |-> FALSE, warnings |-> {}, blocks |-> {}]

\* RuleEngine.apply: warnings are logged; if anything blocks, it throws.
Apply ==
    /\ ~ outcome.done
    /\ outcome' = [done     |-> TRUE,
                   warnings |-> ViolatedOf("warn", constraints, context),
                   blocks   |-> ViolatedOf("block", constraints, context)]
    /\ UNCHANGED <<constraints, context>>

Next == Apply

Spec == Init /\ [][Next]_vars

-----------------------------------------------------------------------------
(* Properties.  constraints[i].meant is the tree whose text it is.         *)

\* The trees whose text can be evaluated: parseUnary takes a string spelled like a
\* unary operator for that operator, and an unknown function throws.
RECURSIVE Sound(_)
Sound(node) ==
    CASE node.kind = "literal" ->
           node.value.kind = "string" => node.value.value \notin DOMAIN UnaryOps
      [] node.kind = "ident"  -> TRUE
      [] node.kind = "unary"  -> Sound(node.arg)
      [] node.kind = "binary" -> Sound(node.left) /\ Sound(node.right)
      [] node.kind = "call"   ->
           /\ node.name \in {<<"isempty">>, <<"length">>, <<"contains">>, <<"coalesce">>}
           /\ \A i \in 1..Len(node.args) : Sound(node.args[i])

Expected(c) ==
    IF Sound(c.meant) THEN Truthy(EvalNode(c.meant, EvalContext(context)))
    ELSE SubSeq(c.text, 1, 2) = <<"ctx", ".">>

\* Reading back the text of a constraint neither changes what it says nor which
\* constraints of the list decide: a run is blocked by exactly the blocking
\* constraints that are true of its context, whatever operators, parentheses and
\* calls they are written with and whichever of the others cannot be evaluated.
\* One that cannot be evaluated never blocks, unless its text begins with ctx., in
\* which case it always does.
VerdictIsMeaning ==
    outcome.done =>
        \A i \in 1..Len(constraints) :
            /\ i \in outcome.blocks <=>
                 constraints[i].severity = "block" /\ Expected(constraints[i])
            /\ i \in outcome.warnings <=>
                 constraints[i].severity = "warn" /\ Expected(constraints[i])
=============================================================================
