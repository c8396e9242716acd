------------------------------- MODULE Filter -------------------------------
(***************************************************************************)
(* The filter expressions of the server browser: serverbrowser/filter/ and *)
(* filterServersInner.  A client sends an expression, Parse turns it into a *)
(* tree (FilterParser), Eval computes a number for every server.           *)
(***************************************************************************)
EXTENDS FilterParser, FiniteSets
LOCAL INSTANCE FiniteSetsExt
LOCAL INSTANCE Bitwise

CONSTANTS
    Formed,         \* the expressions that have a meaning by the precedences
    Searches,       \* the searches as DWC formats them, by matching version
    Servers,        \* the sequence of field maps that is searched
    Likes           \* the pairs <<value, pattern>> that match in "like"

\* The game that is searched; regions and ratings are ignored for this one only.
QueryGame == "mariokartwii"

\* Bitwise operations on numbers that may be negative, on 6 bits.
Unsigned(n) == n % 64
Signed(n) == IF n >= 32 THEN n - 64 ELSE n

Unquoted(x) ==
    [t \in Texts |-> CASE t = "'vs'" -> "vs" [] t = "'vs_1'" -> "vs_1"
                       [] OTHER -> "vs_6"][x]

-----------------------------------------------------------------------------
(* Evaluation, eval.go.  A result is a value, an error that Eval returns (a *)
(* panic with a string), or a panic with an error value, which Eval does not *)
(* recover from: its type assertion fails.                                  *)

Val(x) == [k |-> "value", v |-> x]
Err == [k |-> "error", v |-> "0"]
Escapes == [k |-> "panic", v |-> "0"]
Ok(r) == r.k = "value"

Bool(b) == IF b THEN "1" ELSE "0"

\* The first result that is not a value; there is one.
FirstBad(rs) == rs[Min({i \in DOMAIN rs : ~Ok(rs[i])})]

\* toInt64
Number(s) == IF IsInt(s) THEN Val(s) ELSE Escapes

\* The functions of two numbers.
Math(op, x, y) ==
    CASE op = "+" -> ToString(AsInt(x) + AsInt(y))
      [] op = "-" -> ToString(AsInt(x) - AsInt(y))
      [] op = ">" -> Bool(AsInt(x) > AsInt(y))
      [] op = "<" -> Bool(AsInt(x) < AsInt(y))
      [] op = ">=" -> Bool(AsInt(x) >= AsInt(y))
      [] op = "<=" -> Bool(AsInt(x) <= AsInt(y))
      [] op = "&" -> ToString(Signed(Unsigned(AsInt(x)) & Unsigned(AsInt(y))))
      [] op = "|" -> ToString(Signed(Unsigned(AsInt(x)) | Unsigned(AsInt(y))))
      [] op = "^" -> ToString(Signed(Unsigned(AsInt(x)) ^^ Unsigned(AsInt(y))))

\* evalEqualsRK: the regional searches 0 to 5 count as the worldwide one.
Worldwide(rk) == IF rk = "vs_1" THEN "vs" ELSE rk

\* evalMathOperator: from left to right; a comparison with the rating is true.
EvalMath(op, toks, rs) ==
    IF Len(rs) = 2 /\ toks[1].kind = "identity" /\ toks[1].name \in {"ev", "eb"}
    THEN Val("1")
    ELSE IF \E i \in DOMAIN rs : ~Ok(rs[i]) THEN FirstBad(rs)
    ELSE Val(FoldLeft(LAMBDA x, r : Math(op, x, r.v), rs[1].v, Tail(rs)))

\* evalAnd and evalOr: up to the first argument that decides.
EvalLogic(op, rs) ==
    LET stops(r) == ~Ok(r) \/ (IF op \in {"and", "AND", "&&"} THEN r.v = "0" ELSE r.v # "0")
        at == {i \in DOMAIN rs : stops(rs[i])}
    IN  IF at = {} THEN Val(Bool(op \in {"and", "AND", "&&"}))
        ELSE IF ~Ok(rs[Min(at)]) THEN rs[Min(at)]
        ELSE Val(Bool(op \notin {"and", "AND", "&&"}))

\* evalEquals and evalNotEquals: the first argument against every other one.
EvalEquals(op, toks, rs, srv) ==
    LET rk == Len(rs) = 2 /\ op # "!=" /\ toks[1] = Value("rk")
        a  == IF rk THEN Worldwide(rs[1].v) ELSE rs[1].v
        b(i) == IF rk THEN Worldwide(rs[i].v) ELSE rs[i].v
        at == {i \in 2..Len(rs) : ~Ok(rs[i]) \/ (a = b(i)) = (op = "!=")}
    IN  IF ~Ok(rs[1]) THEN rs[1]
        ELSE IF at = {} THEN Val("1")
        ELSE IF ~Ok(rs[Min(at)]) THEN rs[Min(at)] ELSE Val("0")

\* evalLike
EvalLike(rs) ==
    IF Len(rs) # 2 THEN Err
    ELSE IF \E i \in DOMAIN rs : ~Ok(rs[i]) THEN FirstBad(rs)
    ELSE Val(Bool(<<rs[1].v, rs[2].v>> \in Likes))

Field(srv, name) == IF name \in DOMAIN srv THEN srv[name] ELSE ""

RECURSIVE EvalItems(_, _, _), SwitchFunction(_, _, _), GetString(_, _, _), GetNumber(_, _, _)

\* eval: the first child decides.
EvalItems(t, n, srv) ==
    IF t[n].items = <<>> THEN Err
    ELSE LET c == t[n].items[1] IN
         CASE t[c].tok.kind = "func" -> Escapes
           [] t[c].tok.kind = "op" -> SwitchFunction(t, c, srv)
           [] t[c].tok.kind = "group" -> EvalItems(t, c, srv)
           [] OTHER -> GetNumber(t, c, srv)

\* getNumber and getString
GetNumber(t, n, srv) ==
    CASE t[n].tok.kind = "number" -> Val(t[n].tok.name)
      [] t[n].tok.kind = "identity" -> Number(Field(srv, t[n].tok.name))
      [] t[n].tok.kind = "text" -> Number(Unquoted(t[n].tok.name))
      [] t[n].tok.kind = "op" -> SwitchFunction(t, n, srv)
      [] t[n].tok.kind = "group" -> EvalItems(t, n, srv)
      [] t[n].tok.kind = "func" -> Err
GetString(t, n, srv) ==
    CASE t[n].tok.kind = "identity" -> Val(Field(srv, t[n].tok.name))
      [] t[n].tok.kind = "text" -> Val(Unquoted(t[n].tok.name))
      [] t[n].tok.kind \notin {"identity", "text"} -> GetNumber(t, n, srv)

\* switchFunction
SwitchFunction(t, n, srv) ==
    LET op   == t[n].tok.name
        args == t[n].items
        toks == [i \in DOMAIN args |-> t[args[i]].tok]
        strs == [i \in DOMAIN args |-> GetString(t, args[i], srv)]
        nums == [i \in DOMAIN args |-> GetNumber(t, args[i], srv)]
    IN  IF Level(op) = 5 \/ Len(args) < 2 THEN Err
        ELSE CASE op \in {"=", "==", "!="} -> EvalEquals(op, toks, strs, srv)
               [] op \in {"like", "LIKE"} -> EvalLike(strs)
               [] op \in {"and", "AND", "&&", "or", "OR", "||"} -> EvalLogic(op, strs)
               [] OTHER -> EvalMath(op, toks, nums)

Eval(t, srv) == EvalItems(t, 1, srv)

\* The servers of the game that are offered for search.  Only a server of
\* version 90 is asked for its state.
Offered(s) ==
    /\ s.gamename = QueryGame /\ s["+deviceauth"] = "1"
    /\ s.dwc_mver = "90" => s.dwc_hoststate \in {"0", "2"}

\* filterServersInner: the servers on offer are asked, in their order; an error
\* empties the list and a panic ends the handler.
filterServersInner(t, servers) ==
    LET asked == SelectSeq(servers, Offered)
        rs    == [i \in DOMAIN asked |-> Eval(t, asked[i])]
        bad   == {i \in DOMAIN asked : ~Ok(rs[i])}
    IN  IF bad # {} THEN [k |-> rs[Min(bad)].k, list |-> <<>>]
        ELSE [k |-> "value", list |-> SelectSeq(asked, LAMBDA s : Eval(t, s).v # "0")]

-----------------------------------------------------------------------------
(* What an expression means.  These definitions do not come from the code:  *)
(* they say what its table of precedences says.                             *)

Depth(s, i) == Cardinality({j \in 1..i : s[j] = "("})
                 - Cardinality({j \in 1..i : s[j] = ")"})
IsOp(s, i) == i > 1 /\ Level(s[i]) > 0

\* The operators i and j of s stand between the same brackets.
Together(s, i, j) ==
    /\ IsOp(s, i) /\ IsOp(s, j) /\ Depth(s, i) = Depth(s, j)
    /\ \A k \in DOMAIN s : (i < k /\ k < j) \/ (j < k /\ k < i)
                             => Depth(s, k) >= Depth(s, i)

\* Between the same brackets there are operators of at most two precedences,
\* and no comparison is repeated without another operator in between.
Simple(s) ==
    \A i \in DOMAIN s : IsOp(s, i) =>
        LET ops == {j \in DOMAIN s : Together(s, i, j)} IN
        /\ Cardinality({Level(s[j]) : j \in ops}) <= 2
        /\ \A j \in ops : i < j /\ s[i] = s[j] /\ Level(s[i]) = 3
                 => \E k \in ops : i < k /\ k < j

\* The value of s, from the last of its loosest operators inwards.
RECURSIVE Meaning(_, _)
Meaning(s, srv) ==
    LET ops   == {i \in DOMAIN s : IsOp(s, i) /\ Depth(s, i) = 0}
        loose == {i \in ops : \A j \in ops : Level(s[i]) <= Level(s[j])}
        k     == Max(loose)
        l     == Meaning(SubSeq(s, 1, k - 1), srv)
        r     == Meaning(SubSeq(s, k + 1, Len(s)), srv)
    IN  IF ops # {}
        THEN CASE s[k] = "=" -> Bool(l = r)
               [] s[k] = "and" -> Bool(l # "0" /\ r # "0")
               [] s[k] = "or" -> Bool(l # "0" \/ r # "0")
               [] OTHER -> Math(s[k], l, r)
        ELSE IF s[1] = "(" THEN Meaning(SubSeq(s, 2, Len(s) - 1), srv)
        ELSE IF IsInt(s[1]) THEN s[1] ELSE srv[s[1]]

-----------------------------------------------------------------------------
(* Properties.                                                              *)

\* An expression with operators of two precedences between the same brackets
\* is evaluated as the table of precedences says (tokens.go:174), although an
\* operator that follows a tighter one is put above all operators up to the
\* bracket (parse.go:125-136).  With three precedences it is not.
PrecedenceRespected ==
    state = "tree" /\ input \in Formed /\ Simple(input) =>
        \A i \in DOMAIN Servers :
            LET r == Eval(tree, Servers[i]) IN
            /\ Ok(r)
            /\ (r.v # "0") = (Meaning(input, Servers[i]) # "0")

\* A search in one of the two formats of DWC (filter.go:10-17) returns the
\* servers of its game and version that meet every condition and are open for
\* it, in their order: version 03 asks for the state itself, for version 90 the
\* server sees to it (filter.go:44); the rating does not count and regions are
\* one (eval.go:151, eval.go:245).
SearchIsConjunction ==
    \A ver \in DOMAIN Searches : state = "tree" /\ input = Searches[ver] =>
        filterServersInner(tree, Servers) =
            [k |-> "value",
             list |-> SelectSeq(Servers, LAMBDA s :
                 /\ s.gamename = QueryGame /\ s.dwc_mver = ver
                 /\ s["+deviceauth"] = "1"
                 /\ s.dwc_pid # "1" /\ AsInt(s.numplayers) < 3
                 /\ IF ver = "3" THEN s.dwc_hoststate = "2"
                    ELSE s.dwc_hoststate \in {"0", "2"} /\ s.dwc_mresv # s.dwc_pid
                 /\ s.rk \in {"vs", "vs_1"} /\ s.p = "0")]

\* Evaluation ends with a value or with an error that Eval returns, as long as
\* every field and text that is used as a number is one and no function is
\* called: all other ways to fail panic with a string (eval.go:19-25).
ErrorsReturned ==
    state = "tree" /\ (\A n \in DOMAIN tree : tree[n].tok.kind \notin {"func", "text"}) =>
        \A i \in DOMAIN Servers :
            (\A n \in DOMAIN tree : tree[n].tok.kind = "identity" =>
                                     IsInt(Field(Servers[i], tree[n].tok.name)))
            => Eval(tree, Servers[i]).k # "panic"

\* The filter language does what its tables and its searches mean: parsing
\* builds a tree, precedence decides its shape, the console's search is the
\* conjunction of its tests, and what cannot be evaluated is an error and not
\* a panic (filter/parse.go:20-156, filter/eval.go:11-127).
FilterCorrect ==
    TreeWellFormed /\ PrecedenceRespected /\ SearchIsConjunction /\ ErrorsReturned

=============================================================================
