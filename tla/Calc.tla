--------------------------------- MODULE Calc ---------------------------------
(***************************************************************************)
(* apps/calc.c and apps/calc_engine.c: the calculator window and the       *)
(* recursive-descent parser behind it, against the grammar it implements.  *)
(* An expression is a sequence of characters; its value is the tree the    *)
(* parser builds while it computes, numbers and their arithmetic (and so   *)
(* the errors of a division by zero or a broken exponent) are left out.    *)
(* A parser returns [v, rest, err]: the tree, what is left, g_err.         *)
(***************************************************************************)
EXTENDS Integers, Sequences, SequencesExt

CONSTANTS MaxExpr,   \* characters of an expression: 120
          Buttons    \* what is pressed, apart from = and C

VARIABLES expr,
          res        \* the second line of the display: "0", "Errore" or "value"

Digits == {"1"}
NumberChars == Digits \cup {"."}
Sums == {"+", "-"}
Products == {"*", "/", "%"}

Num(s) == <<"num">> \o s
Neg(t) == <<"neg", t>>
Bin(op, l, r) == <<op, l, r>>
None == <<"none">>

\* skip_sp: what comes next, behind blanks.
Space == " "
Skip(s) == LET marks == {i \in DOMAIN s : s[i] # Space}
           IN  IF marks = {} THEN <<>> ELSE SubSeq(s, Min(marks), Len(s))

At(s, chars) == s # <<>> /\ Head(s) \in chars
Got(v, rest, err) == [v |-> v, rest |-> rest, err |-> err]

\* The number at the start of s: digits, a point, digits, each optional but for
\* one character.
DigitsAt(s) == Min({k \in 0..Len(s) : k = Len(s) \/ s[k + 1] \notin Digits})
NumberLen(s) == LET d == DigitsAt(s) IN
    IF d < Len(s) /\ s[d + 1] = "."
    THEN d + 1 + DigitsAt(SubSeq(s, d + 2, Len(s))) ELSE d

\* The tree of a loop that has gathered a and goes on with the operators and
\* operands of list.
Gather(a, list) ==
    FoldLeft(LAMBDA l, x : Got(Bin(x.op, l.v, x.arg.v), x.arg.rest, l.err \/ x.arg.err), a, list)

\* One function for the parse_ functions and the loops in two of them: factors and
\* terms are what the loops of parse_fact and parse_expr read at s.
Parse[rule \in {"expr", "fact", "pow", "prim", "factors", "terms"}, s \in Seq(STRING)] ==
    LET t == Skip(s)
        loop(ops, operand) ==
          IF At(t, ops)
          THEN LET b == Parse[operand, Tail(t)]
               IN  <<[op |-> Head(t), arg |-> b]>> \o Parse[rule, b.rest]
          ELSE <<>>
        gathered(operand, list) ==
          LET a == Parse[operand, s] IN Gather(a, Parse[list, a.rest])
    IN  CASE rule = "expr" -> gathered("fact", "terms")
          [] rule = "terms" -> loop(Sums, "fact")
          [] rule = "fact" -> gathered("pow", "factors")
          [] rule = "factors" -> loop(Products, "pow")
          \* A power takes everything to its right: parse_pow calls itself.
          [] rule = "pow" ->
               LET a == Parse["prim", s]
                   up == Skip(a.rest)
               IN  IF At(up, {"^"})
                   THEN LET b == Parse["pow", Tail(up)]
                        IN  Got(Bin("^", a.v, b.v), b.rest, a.err \/ b.err)
                   ELSE a
          [] rule = "prim" ->
               IF At(t, {"("}) THEN
                 LET e == Parse["expr", Tail(t)]
                     close == Skip(e.rest)
                 IN  IF At(close, {")"}) THEN Got(e.v, Tail(close), e.err)
                     ELSE Got(e.v, close, TRUE)
               ELSE IF At(t, {"-"}) THEN
                 LET p == Parse["prim", Tail(t)] IN Got(Neg(p.v), p.rest, p.err)
               ELSE IF At(t, {"+"}) THEN Parse["prim", Tail(t)]
               ELSE IF At(t, NumberChars) THEN
                 Got(Num(SubSeq(t, 1, NumberLen(t))), SubSeq(t, NumberLen(t) + 1, Len(t)), FALSE)
               ELSE Got(None, t, TRUE)

\* Mutant: what follows the expression is not looked at.
CalcEvalPrefix(s) == LET e == Parse["expr", s] IN [v |-> e.v, ok |-> ~e.err]

\* calc_eval: nothing may be left.
CalcEval(s) == LET e == Parse["expr", s] IN [v |-> e.v, ok |-> ~e.err /\ Skip(e.rest) = <<>>]

-----------------------------------------------------------------------------
(* The window. *)

CalcInit == expr = <<>> /\ res = "0"

Reopen == expr' = <<>> /\ res' = "0"

Press(k) == Len(expr) < MaxExpr /\ expr' = Append(expr, k) /\ UNCHANGED res

Erase == expr' = <<>> /\ res' = "0"

Backspace == expr # <<>> /\ expr' = Front(expr) /\ UNCHANGED res

\* The arithmetic may fail where the parser does not.
Equals == /\ expr # <<>>
          /\ res' \in {"Errore"} \cup (IF CalcEval(expr).ok THEN {"value"} ELSE {})
          /\ UNCHANGED expr

CalcNext == \/ \E k \in Buttons : Press(k)
            \/ Erase \/ Backspace \/ Equals \/ Reopen

-----------------------------------------------------------------------------
(* The grammar: the trees a text has, by the ways of splitting it in two;    *)
(* blanks may stand around a number and a sign, and in neither.              *)

IsNumber(s) == s # <<>> /\ ToSet(s) \subseteq NumberChars
               /\ Cardinality({i \in DOMAIN s : s[i] = "."}) <= 1

Before(s, i) == SubSeq(s, 1, i - 1)
After(s, i) == SubSeq(s, i + 1, Len(s))
Trim(s) == Reverse(Skip(Reverse(Skip(s))))

Trees[rule \in {"term", "fact", "pow", "prim"}, s \in Seq(STRING)] ==
    LET split(ops, left, right) == UNION {
          {Bin(s[i], l, r) : l \in Trees[left, Before(s, i)], r \in Trees[right, After(s, i)]}
            : i \in {k \in DOMAIN s : s[k] \in ops}}
        t == Trim(s)
    IN  CASE rule = "term" -> Trees["fact", s] \cup split(Sums, "term", "fact")
          [] rule = "fact" -> Trees["pow", s] \cup split(Products, "fact", "pow")
          [] rule = "pow" -> Trees["prim", s] \cup split({"^"}, "prim", "pow")
          [] rule = "prim" ->
               (IF IsNumber(t) THEN {Num(t)} ELSE {})
               \cup (IF At(t, {"-"}) THEN {Neg(u) : u \in Trees["prim", Tail(t)]} ELSE {})
               \cup (IF At(t, {"+"}) THEN Trees["prim", Tail(t)] ELSE {})
               \cup (IF Len(t) > 2 /\ Head(t) = "(" /\ Last(t) = ")"
                     THEN Trees["term", Front(Tail(t))] ELSE {})

\* The expression as it is pressed, and with a blank somewhere, as it is typed behind
\* the shell's calc.
Spellings == {expr} \cup {Before(expr, i) \o <<Space>> \o SubSeq(expr, i, Len(expr))
                            : i \in 1..(Len(expr) + 1)}

\* The parser accepts exactly the expressions of the grammar and builds their only
\* tree: sums and products from the left, powers from the right, signs first.
ParserIsGrammar ==
    \A s \in Spellings :
      LET parsed == CalcEval(s)
          trees == Trees["term", s]
      IN  IF parsed.ok THEN trees = {parsed.v} ELSE trees = {}
=============================================================================
