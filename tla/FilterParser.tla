---------------------------- MODULE FilterParser ----------------------------
(***************************************************************************)
(* The parser of the server browser's filter expressions, in               *)
(* serverbrowser/filter/.                                                  *)
(*                                                                         *)
(* The input is a sequence of lexemes: a number, a word or a quoted text is *)
(* one of them, and every other character is one.  So "&&" is two of them, *)
(* and operators are found the way AcceptOperator does, by trying its list *)
(* in order.  Spaces (SkipSpaces) are left out.                            *)
(*                                                                         *)
(* The parser is a machine: every step is one call of a state function of  *)
(* parse_branches.go, and changes the tree of nodes under construction.    *)
(***************************************************************************)
EXTENDS Integers, Sequences, TLC, SequencesExt

CONSTANTS
    Expressions,    \* the inputs that are parsed
    NoNode          \* the nil *TreeNode

ASSUME FilterAssumption == NoNode \notin Nat

VARIABLES
    input,          \* Scanner.input
    pos,            \* Scanner.pos: the next lexeme to be read
    mark,           \* Scanner.prevState: where Rollback goes
    tree,           \* the nodes made so far, by number; 1 is the root
    curr,           \* parser.curr
    calls,          \* the function nodes whose arguments are being read
    state           \* parser.state, or how Parse ended

fvars == <<input, pos, mark, tree, curr, calls, state>>

\* The decimal strings of the numbers that occur, and strconv.ParseInt.
Ints == -20..20 \cup {90}
Decimals == {ToString(n) : n \in Ints}
ParseInt == [s \in Decimals |-> CHOOSE n \in Ints : ToString(n) = s]
IsInt(s) == s \in Decimals
AsInt(s) == ParseInt[s]

Texts == {"'vs'", "'vs_1'", "'vs_6'"}
Signs == {"*", "/", "%", "+", "-", "&", "|", "^", "=", "!", ">", "<", "(", ")", ","}
IsWord(x) == x \notin Signs \cup Texts /\ ~IsInt(x)

-----------------------------------------------------------------------------
(* Tokens and operators, tokens.go.                                         *)

\* The precedence of an operator: 5 binds tightest.
Level(op) ==
    CASE op \in {"*", "/", "%"} -> 5
      [] op \in {"+", "-", "&", "^", "|"} -> 4
      [] op \in {"==", "=", "!=", ">=", "<=", ">", "<"} -> 3
      [] op \in {"&&", "and", "AND"} -> 2
      [] op \in {"||", "or", "OR", "like", "LIKE"} -> 1
      [] OTHER -> -1

\* The operators as lexemes, in the order in which AcceptOperator tries them.
operatorList ==
    <<<<"*">>, <<"/">>, <<"%">>, <<"+">>, <<"-">>, <<"&">>, <<"^">>, <<"|">>,
      <<"=", "=">>, <<"=">>, <<"!", "=">>, <<">", "=">>, <<"<", "=">>, <<">">>,
      <<"<">>, <<"&", "&">>, <<"and">>, <<"AND">>, <<"|", "|">>, <<"or">>,
      <<"OR">>, <<"like">>, <<"LIKE">>>>

Name(op) == CASE op = <<"=", "=">> -> "==" [] op = <<"!", "=">> -> "!="
              [] op = <<">", "=">> -> ">=" [] op = <<"<", "=">> -> "<="
              [] OTHER -> op[1]

Rest == SubSeq(input, pos, Len(input))
IsEOF == pos > Len(input)
At(i) == IF i > Len(input) THEN "eof" ELSE input[i]
Peek == At(pos)

\* The first operator of the list that the rest of the input begins with.
Accepted == {i \in 1..Len(operatorList) : IsPrefix(operatorList[i], Rest)}
AcceptOperator == operatorList[Min(Accepted)]

Op(name) == [kind |-> "op", name |-> name]
Group(type) == [kind |-> "group", name |-> type]
Func(name) == [kind |-> "func", name |-> name]
Value(x) == [kind |-> IF IsInt(x) THEN "number" ELSE
                      IF x \in Texts THEN "text" ELSE "identity",
             name |-> x]
Empty == [kind |-> "empty", name |-> ""]

-----------------------------------------------------------------------------
(* The tree, treenode.go.  Functions take a tree and return one; the node   *)
(* they make is the last one.                                               *)

Fresh(t) == Len(t) + 1
Root0 == <<[tok |-> Empty, parent |-> NoNode, items |-> <<>>]>>
NewTreeNode(t, tok) ==
    Append(t, [tok |-> tok, parent |-> NoNode, items |-> <<>>])

\* Node.Add: a new last child of n.
Add(t, n, tok) ==
    [Append(t, [tok |-> tok, parent |-> n, items |-> <<>>])
        EXCEPT ![n].items = Append(@, Fresh(t))]

\* Node.Push: the new node takes the place of n and gets n as its child.
Push(t, n, tok) ==
    LET new == Fresh(t)
        p   == t[n].parent
        t1  == [Append(t, [tok |-> tok, parent |-> p, items |-> <<n>>])
                   EXCEPT ![n].parent = new]
    IN  IF p = NoNode THEN t1
        ELSE [t1 EXCEPT ![p].items = [i \in DOMAIN @ |-> IF @[i] = n THEN new ELSE @[i]]]

LastElement(t, n) ==
    IF t[n].items = <<>> THEN NoNode ELSE Last(t[n].items)

-----------------------------------------------------------------------------
(* The parser, parse.go and parse_branches.go.                              *)

FilterInit ==
    /\ input \in Expressions
    /\ pos = 1 /\ mark = 1
    /\ tree = Root0 /\ curr = 1
    /\ calls = <<>>
    /\ state = "value"

\* A panic of the parser, which Parse returns as an error.
Panic == state' = "error" /\ UNCHANGED <<input, pos, mark, tree, curr, calls>>

\* Reads one lexeme (Next, Commit).
Take == pos' = pos + 1 /\ mark' = pos + 1

\* branchExpressionValuePart: a value, or a bracket that begins one.
ValuePart ==
    /\ state = "value"
    /\ UNCHANGED input
    /\ \/ /\ IsEOF
          /\ state' = "nil"
          /\ UNCHANGED <<pos, mark, tree, curr, calls>>
       \/ /\ ~IsEOF
          /\ \/ IsInt(Peek) \/ Peek \in Texts
             \/ IsWord(Peek) /\ At(pos + 1) # "("
          /\ Take
          /\ tree' = Add(tree, curr, Value(Peek))
          /\ state' = "operator"
          /\ UNCHANGED <<curr, calls>>
       \/ /\ Peek = "("
          /\ Take
          /\ tree' = Add(tree, curr, Group("()"))
          /\ curr' = Fresh(tree)
          /\ UNCHANGED <<calls, state>>
       \/ /\ Peek = "-" /\ IsInt(At(pos + 1))
          /\ pos' = pos + 2 /\ mark' = pos + 2
          /\ tree' = Add(tree, curr, Value(ToString(-AsInt(At(pos + 1)))))
          /\ state' = "operator"
          /\ UNCHANGED <<curr, calls>>
       \/ /\ Peek \in Signs \ {"("}
          /\ ~(Peek = "-" /\ IsInt(At(pos + 1)))
          /\ Panic

\* branchExpressionAfterWord and the beginning of branchFunctionArguments: a
\* word before a bracket is a function, whose first argument begins.
CallPart ==
    /\ state = "value" /\ ~IsEOF /\ IsWord(Peek) /\ At(pos + 1) = "("
    /\ tree' = NewTreeNode(Add(tree, curr, Func(Peek)), Group(""))
    /\ curr' = Len(tree) + 2
    /\ calls' = Append(calls, Len(tree) + 1)
    /\ pos' = pos + 2 /\ mark' = pos + 1
    /\ UNCHANGED <<input, state>>

\* Where k steps of up lead from n.
Climb(up, n, k) ==
    LET at[i \in 0..k] == IF i = 0 THEN n ELSE up[at[i - 1]]
    IN  at[k]

\* The highest operator above n, going up while the parent is one.  No path
\* upwards has more steps than the tree has nodes.
TopOperator(t, n) ==
    LET ops == {m \in DOMAIN t : t[m].tok.kind = "op"}
    IN  Climb([m \in ops |-> IF t[m].parent \in ops THEN t[m].parent ELSE m], n, Len(t))

\* Mutant: an operator is always put above the one before it.
OperatorAbove(t, n, op) ==
    IF t[n].tok.kind = "op"
    THEN [t |-> Push(t, n, Op(op)), n |-> Fresh(t)]
    ELSE [t |-> Push(t, LastElement(t, n), Op(op)), n |-> Fresh(t)]

\* parseOperator: where an operator goes when n is the current node.
ParseOperator(t, n, op) ==
    LET last   == LastElement(t, n)
        pushOn(m) == [t |-> Push(t, m, Op(op)), n |-> Fresh(t)]
    IN  IF t[n].tok.kind # "op" THEN pushOn(last)
        ELSE CASE t[n].tok.name = op -> [t |-> t, n |-> n]
               [] t[n].tok.name # op /\ Level(op) > Level(t[n].tok.name)
                    -> IF last # NoNode THEN pushOn(last) ELSE pushOn(n)
               [] t[n].tok.name # op /\ Level(op) < Level(t[n].tok.name)
                    -> pushOn(TopOperator(t, n))
               [] OTHER -> pushOn(n)

\* The first group from n upwards, or NoNode.
GroupAbove(t, n) ==
    LET nodes == DOMAIN t \cup {NoNode}
        stops(m) == IF m = NoNode THEN TRUE ELSE t[m].tok.kind = "group"
    IN  Climb([m \in nodes |-> IF stops(m) THEN m ELSE t[m].parent], n, Len(t))

\* branchExpressionOperatorPart: the end, an operator, a closing bracket, or
\* something else, which is left unread.
OperatorPart ==
    /\ state = "operator"
    /\ UNCHANGED input
    /\ \/ /\ IsEOF
          /\ state' = "nil"
          /\ UNCHANGED <<pos, mark, tree, curr, calls>>
       \/ /\ Accepted # {}
          /\ LET op == Name(AcceptOperator)
                 r  == ParseOperator(tree, curr, op)
             IN  /\ tree' = r.t /\ curr' = r.n
          /\ pos' = pos + Len(AcceptOperator) /\ mark' = pos'
          /\ state' = "value"
          /\ UNCHANGED calls
       \/ /\ Peek = ")"
          /\ LET g == GroupAbove(tree, curr) IN
             IF g = NoNode THEN Panic
             ELSE IF tree[g].tok.name = "()"
             THEN Take /\ curr' = tree[g].parent /\ UNCHANGED <<tree, calls, state>>
             ELSE state' = "nil" /\ curr' = g /\ UNCHANGED <<pos, mark, tree, calls>>
       \/ /\ ~IsEOF /\ Accepted = {} /\ Peek # ")"
          /\ pos' = mark
          /\ state' = "nil"
          /\ UNCHANGED <<mark, tree, curr, calls>>

\* The rest of branchFunctionArguments, when an argument has been read.  The
\* arguments are not kept: no function can be evaluated.
Argument ==
    /\ state = "nil" /\ calls # <<>>
    /\ UNCHANGED <<input, mark>>
    /\ \/ /\ Peek = ","
          /\ pos' = pos + 1
          /\ tree' = NewTreeNode(tree, Group(""))
          /\ curr' = Fresh(tree)
          /\ state' = "value"
          /\ UNCHANGED calls
       \/ /\ Peek = ")"
          /\ pos' = pos + 1
          /\ curr' = tree[Last(calls)].parent
          /\ calls' = Front(calls)
          /\ state' = "operator"
          /\ UNCHANGED tree
       \/ /\ Peek \notin {",", ")"}
          /\ state' = "error"
          /\ UNCHANGED <<pos, tree, curr, calls>>

\* pumpExpression after the last state function: everything must be read.
Pump ==
    /\ state = "nil" /\ calls = <<>>
    /\ state' = IF IsEOF THEN "tree" ELSE "error"
    /\ UNCHANGED <<input, pos, mark, tree, curr, calls>>

FilterNext == ValuePart \/ CallPart \/ OperatorPart \/ Argument \/ Pump

-----------------------------------------------------------------------------
(* Properties.                                                              *)

\* While an expression is parsed, every node is a child of its parent and of
\* no other node, exactly once: Push and Add, which move subtrees by three
\* pointers (treenode.go:66-94), lose and share nothing.
ParentsAgree ==
    \A n \in DOMAIN tree :
        /\ tree[n].parent # NoNode =>
              LET siblings == tree[tree[n].parent].items IN
              \E i \in DOMAIN siblings : \A j \in DOMAIN siblings : siblings[j] = n <=> j = i
        /\ \A i \in DOMAIN tree[n].items : tree[tree[n].items[i]].parent = n

\* The root that Parse returns stays the root, whatever is pushed, and what has
\* no parent beside it is an argument of a function: so parseOperator and
\* parseCloseBracket, which follow the parents of operators and brackets, never
\* follow a nil pointer (parse.go:80, parse.go:135).
Rooted ==
    /\ tree[1].tok = Empty /\ tree[1].parent = NoNode
    /\ \A n \in DOMAIN tree : tree[n].parent = NoNode => n = 1 \/ tree[n].tok = Group("")

\* The current node exists, and has a last element whenever an operator may
\* come: the panic "expecting a value before operator" (parse.go:153) is
\* unreachable.
CurrentValid ==
    /\ curr \in DOMAIN tree
    /\ state = "operator" => tree[curr].items # <<>>

\* What every state function of the parser relies on in the tree that the ones
\* before it have built (parse_branches.go).
TreeWellFormed == ParentsAgree /\ Rooted /\ CurrentValid

=============================================================================
