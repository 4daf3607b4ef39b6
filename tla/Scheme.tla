------------------------------- MODULE Scheme -------------------------------
(***************************************************************************)
(* The Scheme evaluator: modules/scheme/io.hpp, environment.hpp,           *)
(* primitive.hpp, eval.hpp, and modules/server/mod-scheme.hpp.             *)
(*                                                                         *)
(* The text of a value is the sequence of its tokens; the text of a string *)
(* keeps its escapes.  An environment is a sequence of frames; frames can  *)
(* be changed, so they are numbers of frames in a store.  Evaluation gives *)
(* a value and a store.  Arguments are evaluated from the left, which only *)
(* definitions among the arguments could tell.                             *)
(***************************************************************************)
EXTENDS Trees

\* Writing.
Escapable == {"\"", "\\"}
Token(type, t) == <<type, t>>
Left == Token("(", <<>>)
Right == Token(")", <<>>)
RECURSIVE writeValue(_)
writeValue(v) ==
    CASE isList(v) -> <<Left>> \o FlattenSeq(map(writeValue, v[2])) \o <<Right>>
      [] isString(v) -> <<Token("string", FlattenSeq(map(LAMBDA w : IF w \in Escapable THEN <<"\\", w>> ELSE <<w>>, v[2])))>>
      [] isSymbol(v) -> IF v[2] = <<>> THEN <<>> ELSE <<Token("word", v[2])>>
      [] Type(v) = "Number" -> <<Token("word", <<WordOf(v[2])>>)>>
      [] Type(v) = "Bool" -> <<Token("word", AsText(v))>>
      [] Type(v) = "Lambda" -> <<Token("word", <<"lambda::">>)>>
      [] OTHER -> <<Token("word", <<"nil">>)>>

\* Reading.  The backslash of an escape is read as well, after what it escapes.
RECURSIVE readString(_)
readString(t) ==
    IF t = <<>> THEN <<>>
    ELSE IF t[1] = "\\" /\ Len(t) > 1 THEN <<t[2], t[1]>> \o readString(SubSeq(t, 3, Len(t)))
    ELSE <<t[1]>> \o readString(Tail(t))
leftParenthesis == Word("(")
rightParenthesis == Word(")")
quoteSymbol == Word("'")
\* Mutant: the quotes of a string are dropped before it is tokenized.
UnquotedTokenValue(k) ==
    CASE k = Left -> leftParenthesis
      [] k = Right -> rightParenthesis
      [] k[2] # <<>> /\ k[2][1] \in DOMAIN NumberWords -> Num(NumberWords[k[2][1]])
      [] OTHER -> IF k[1] = "string" THEN Str(readString(k[2])) ELSE Sym(k[2])
\* A parenthesis is a symbol, and so is what a string of one is taken for.
TokenValue(k) ==
    CASE k = Left -> leftParenthesis
      [] k = Right -> rightParenthesis
      [] k[1] = "string" -> Str(readString(k[2]))
      [] k[1] = "word" -> IF k[2][1] \in DOMAIN NumberWords THEN Num(NumberWords[k[2][1]])
                          ELSE IF k[2] \in {<<"true">>, <<"false">>} THEN Bln(k[2] = <<"true">>)
                          ELSE IF k[2] = <<"nil">> THEN Nil
                          ELSE Sym(k[2])

\* What was read and the tokens that are left.
Read(v, rest) == [value |-> v, rest |-> rest]
RECURSIVE readToken(_), readList(_, _), readNext(_)
QuotedRead(q) == Read(Lst(<<quoteSymbol, q.value>>), q.rest)
OrQuoted(v, rest) == IF v # quoteSymbol THEN Read(v, rest) ELSE QuotedRead(readNext(rest))
readToken(tokens) == OrQuoted(TokenValue(Head(tokens)), Tail(tokens))
AppendRead(sofar, t) == readList(Append(sofar, t.value), t.rest)
readListAt(sofar, t) ==
    IF Eq(rightParenthesis, t.value) THEN Read(Lst(sofar), t.rest)
    ELSE AppendRead(sofar, IF Eq(leftParenthesis, t.value) THEN readList(<<>>, t.rest) ELSE t)
readList(sofar, tokens) ==
    IF tokens = <<>> THEN Read(Lst(sofar), tokens) ELSE readListAt(sofar, readToken(tokens))
readNextAt(t) == IF Eq(leftParenthesis, t.value) THEN readList(<<>>, t.rest) ELSE t
readNext(tokens) == IF tokens = <<>> THEN Read(Nil, tokens) ELSE readNextAt(readToken(tokens))
readValue(tokens) == readNext(tokens).value
RECURSIVE readScript(_)
readScriptAt(r) == IF isNull(r.value) THEN <<>> ELSE <<r.value>> \o readScript(r.rest)
readScript(tokens) == readScriptAt(readNext(tokens))

------------------------------------------------------------------------------
\* Environments.
Frame(variables, vals) == [variables |-> variables, vals |-> vals]
Env(frames) == <<"Env", frames>>
Result(v, store) == [value |-> v, store |-> store]

\* The values of the variables, and after a dot all of those that are left.
RECURSIVE makeBinding(_, _, _)
makeBinding(frame, variables, vals) ==
    IF variables = <<>> THEN frame
    ELSE IF Eq(variables[1], Word(".")) THEN makeBinding(frame, Tail(variables), <<Lst(vals)>>)
    ELSE IF vals = <<>> THEN frame
    ELSE makeBinding(Frame(<<variables[1]>> \o frame.variables, <<vals[1]>> \o frame.vals),
                     Tail(variables), Tail(vals))
extendEnvironment(variables, vals, env, store) ==
    Result(<<Len(store) + 1>> \o env, Append(store, makeBinding(Frame(<<>>, <<>>), variables, vals)))
defineVariable(var, val, env, store) ==
    [store EXCEPT ![env[1]] = Frame(<<var>> \o @.variables, <<val>> \o @.vals)]
RECURSIVE lookupVariableValue(_, _, _)
lookupVariableValue(var, env, store) ==
    IF env = <<>> THEN Nil
    ELSE LET frame == store[env[1]]
             at == {i \in DOMAIN frame.variables : Eq(var, frame.variables[i])}
         IN IF at = {} THEN lookupVariableValue(var, Tail(env), store)
            ELSE frame.vals[CHOOSE i \in at : \A j \in at : i <= j]

\* Primitive procedures.  Division, roots, uuid, and what display and log
\* write are left out.
primitiveSymbol == Word("primitive")
primitiveNames == <<"car", "cdr", "cons", "list", "null?", "=", "equal?", "<", ">", "+", "-", "*", "assoc", "del-assoc",
                    "subst-assoc", "tree-select-assoc", "tree-del-assoc", "tree-subst-assoc", "cadr", "caddr",
                    "cadddr", "cddr", "cdddr", "append", "display", "log", "start", "stop">>
primitiveProcedure(f) == Lst(<<primitiveSymbol, Lam(f)>>)
setupEnvironment ==
    LET names == <<"false", "true">> \o Reverse(primitiveNames)
        Object(w) == IF w \in {"true", "false"} THEN Bln(w = "true") ELSE primitiveProcedure(w)
    IN Result(<<1>>, <<Frame(map(Word, names), map(Object, names))>>)

applyPrimitive(f, args) ==
    LET a == Car(args)
        l == AsList(a)
        b == Cadr(args)
        m == AsList(b)
    IN CASE f = "car" -> Car(l)
         [] f = "cdr" -> Lst(Cdr(l))
         [] f = "cons" -> Lst(<<a>> \o m)
         [] f = "list" -> Lst(args)
         [] f = "null?" -> Bln(isNull(a) \/ a = Lst(<<>>))
         [] f \in {"=", "equal?"} -> Bln(Eq(a, b))
         [] f = "<" -> Bln(Less(a, b))
         [] f = ">" -> Bln(Less(b, a))
         [] f = "+" -> Num(AsNumber(a) + (IF Len(args) = 1 THEN 0 ELSE AsNumber(b)))
         [] f = "-" -> Num(IF Len(args) = 1 THEN 0 - AsNumber(a) ELSE AsNumber(a) - AsNumber(b))
         [] f = "*" -> Num(AsNumber(a) * AsNumber(b))
         [] f = "assoc" -> Lst(assoc(a, m))
         [] f = "del-assoc" -> Lst(delAssoc(a, m))
         [] f = "subst-assoc" -> Lst(substAssoc(a, m, AsList(Caddr(args)), FALSE))
         [] f = "tree-select-assoc" -> Lst(treeSelectAssoc(l, m))
         [] f = "tree-del-assoc" -> Lst(treeDelAssoc(l, m))
         [] f = "tree-subst-assoc" -> Lst(treeSubstAssoc(l, m, AsList(Caddr(args))))
         [] f = "cadr" -> Cadr(l)
         [] f = "caddr" -> Caddr(l)
         [] f = "cadddr" -> l[4]
         [] f = "cddr" -> Lst(Cddr(l))
         [] f = "cdddr" -> Lst(Cdr(Cddr(l)))
         [] f = "append" -> Lst(l \o m)
         [] f \in {"display", "log"} -> Bln(TRUE)
         [] f \in {"start", "stop"} -> Lam(<<>>)

------------------------------------------------------------------------------
\* Evaluation.
procedureSymbol == Word("procedure")
lambdaSymbol == Word("lambda")
beginSymbol == Word("begin")
ifSymbol == Word("if")
elseSymbol == Word("else")
makeLambda(parameters, body) == Lst(<<lambdaSymbol, parameters>> \o body)
makeIf(predicate, consequent, alternative) == Lst(<<ifSymbol, predicate, consequent, alternative>>)
sequenceToExp(exps) ==
    IF exps = <<>> THEN Lst(exps) ELSE IF Len(exps) = 1 THEN exps[1] ELSE Lst(<<beginSymbol>> \o exps)
RECURSIVE expandClauses(_)
expandClauses(clauses) ==
    IF clauses = <<>> THEN Bln(FALSE)
    ELSE LET first == AsList(clauses[1])
         IN IF ~Eq(first[1], elseSymbol)
            THEN makeIf(first[1], sequenceToExp(Tail(first)), expandClauses(Tail(clauses)))
            ELSE IF Len(clauses) = 1 THEN sequenceToExp(Tail(first)) ELSE Nil

\* A definition of a variable, or of a function with its parameters.
definitionVariable(e) == IF isSymbol(e[2]) THEN e[2] ELSE Car(AsList(e[2]))
definitionValue(e) ==
    IF ~isSymbol(e[2]) THEN makeLambda(Lst(Tail(AsList(e[2]))), SubSeq(e, 3, Len(e)))
    ELSE IF Len(e) < 3 THEN Nil ELSE e[3]

SpecialForms == {<<"'">>, <<"define">>, <<"if">>, <<"begin">>, <<"cond">>, <<"lambda">>, <<"apply">>}
RECURSIVE evalExpr(_, _, _)
\* One after the other, with the values of all of them.
listOfValues(exps, env, store) ==
    FoldLeft(LAMBDA r, e : LET v == evalExpr(e, env, r.store) IN Result(Append(r.value, v.value), v.store),
             Result(<<>>, store), exps)
evalSequence(exps, env, store) == FoldLeft(LAMBDA r, e : evalExpr(e, env, r.store), Result(Nil, store), exps)
applyFrame(body, frame) == evalSequence(body, frame.value, frame.store)
applyProcedure(e, arguments, store) ==
    CASE AsText(Car(e)) = <<"primitive">> -> Result(applyPrimitive(e[2][2], arguments), store)
      [] AsText(Car(e)) = <<"procedure">> ->
            applyFrame(AsList(e[3]), extendEnvironment(AsList(e[2]), arguments, e[4][2], store))
      [] OTHER -> Result(Nil, store)
applyEvaluated(p, args) == applyProcedure(AsList(p.value), args, p.store)
\* The arguments are evaluated before what they are applied to.
applyTo(operat, args, env) == applyEvaluated(evalExpr(operat, env, args.store), args.value)
ListResult(r) == Result(AsList(r.value), r.store)
define(var, r, env) == Result(var, defineVariable(var, r.value, env, r.store))
evalIf(test, e, env) ==
    evalExpr(IF AsBool(test.value) THEN e[3] ELSE IF Len(e) > 3 THEN e[4] ELSE Bln(FALSE), env, test.store)
evalForm(form, e, exp, env, store) ==
    CASE form = <<"'">> -> Result(e[2], store)
      [] form = <<"define">> -> define(definitionVariable(e), evalExpr(definitionValue(e), env, store), env)
      [] form = <<"if">> -> evalIf(evalExpr(e[2], env, store), e, env)
      [] form = <<"begin">> -> evalSequence(Tail(e), env, store)
      [] form = <<"cond">> -> evalExpr(expandClauses(Tail(e)), env, store)
      [] form = <<"lambda">> -> Result(Lst(<<procedureSymbol, e[2], Lst(SubSeq(e, 3, Len(e))), Env(env)>>), store)
      [] form = <<"apply">> -> applyTo(e[2], ListResult(evalExpr(e[3], env, store)), env)
      [] isSymbol(exp) -> Result(lookupVariableValue(exp, env, store), store)
      [] isList(exp) /\ form \notin SpecialForms -> applyTo(e[1], listOfValues(Tail(e), env, store), env)
      [] OTHER -> Result(exp, store)
evalExpr(exp, env, store) == evalForm(AsText(Car(AsList(exp))), AsList(exp), exp, env, store)

\* A script is evaluated before the expression.
evalScript(expr, script, start) == evalSequence(Append(script, expr), start.value, start.store).value

\* Mutant: parameters are evaluated.
Unquoted(l) == l
\* A component: the parameters and the references are quoted, so they are data.
quotedParameters(l) == map(LAMBDA v : Lst(<<quoteSymbol, v>>), l)
OrNoValue(res) == Lst(IF isNull(res) THEN <<Nil, Str(<<"Could not evaluate expression">>)>> ELSE <<res>>)
applyImplementation(script, px, params) ==
    OrNoValue(evalScript(Lst(<<params[1]>> \o quotedParameters(Tail(params) \o map(primitiveProcedure, px))),
                         script, setupEnvironment))
=============================================================================
