------------------------------- MODULE Foreign -------------------------------
(***************************************************************************)
(* Components in other languages: the values as Python objects, as Java    *)
(* objects and as the arguments of OpenCL kernels, the calls of a function *)
(* of a component and the calls that a component makes to its references:  *)
(* modules/python, modules/java and modules/opencl (eval.hpp, mod-python,  *)
(* mod-java).  The interpreter, the JVM and the device are external: what  *)
(* a function of theirs returns is given to the calls.                     *)
(***************************************************************************)
EXTENDS Scheme

Quote == "'"
Quoted(t) == <<Quote>> \o t
\* A text that starts with a quote is a symbol.
TextValue(t) == IF t # <<>> /\ t[1] = Quote THEN Sym(Tail(t)) ELSE Str(t)
NullFunction == Lam("null")
\* The functions a component may do without.
OptionalFunctions == {<<"start">>, <<"stop">>}

------------------------------------------------------------------------------
\* Python.
RECURSIVE valueToPyObject(_), pyObjectToValue(_)
valuesToPyTuple(l) == <<"tuple", [i \in DOMAIN l |-> valueToPyObject(l[i])]>>
valueToPyObject(v) ==
    CASE isList(v) -> valuesToPyTuple(v[2])
      [] Type(v) = "Lambda" -> <<"lambda", v[2]>>
      [] isSymbol(v) -> <<"str", Quoted(v[2])>>
      [] isString(v) -> <<"str", v[2]>>
      [] Type(v) = "Number" -> <<"float", v[2]>>
      [] Type(v) = "Bool" -> <<"bool", v[2]>>
      [] OTHER -> <<"None">>

\* What is neither of these, as a list or a dict, is nil.
pyObjectToValue(o) ==
    CASE o[1] = "str" -> TextValue(o[2])
      [] o[1] = "bool" -> Bln(o[2])
      [] o[1] \in {"int", "long", "float"} -> Num(o[2])
      [] o[1] = "tuple" -> Lst([i \in DOMAIN o[2] |-> pyObjectToValue(o[2][i])])
      [] o[1] \in {"lambda", "callable"} -> Lam(o[2])
      [] OTHER -> Nil

\* A script is the functions and the variables of its module.  The interpreter calls the function with the arguments;
\* a call that raises returns NULL.
NULL == <<"NULL">>
pyFunction(expr, script) == script[AsText(Car(expr))]
pyArguments(expr) == valuesToPyTuple(Tail(expr))
evalPython(expr, script, result) ==
    LET fn == AsText(Car(expr))
    IN CASE fn \notin DOMAIN script ->
              IF fn \in OptionalFunctions THEN Content(NullFunction) ELSE Failure(<<"Couldn't find function">>, 1)
         [] script[fn] = "variable" -> Failure(<<"Couldn't find callable function">>, 1)
         [] result = NULL -> Failure(<<"Function call failed">>, 1)
         [] OTHER -> Content(pyObjectToValue(result))

\* A reference is a lambda, called with the arguments of the call; its attributes are lambdas that put their name
\* first, but for eval, which is the lambda.
pyLambda_call(args) == pyObjectToValue(args)[2]
pyLambda_getattr(attrname, args) ==
    IF attrname = <<"eval">> THEN pyLambda_call(args) ELSE <<Str(attrname)>> \o pyLambda_call(args)

\* Mutant: a module has the name of the last part of the path of its script.
lastModuleName(spath) == Last(tokenize("/", Front(spath)))
\* The name of the module of a script: its path, without .py and with dots.
moduleName(spath) ==
    FoldLeft(LAMBDA t, p : IF t = <<>> THEN p ELSE t \o <<".">> \o p, <<>>, tokenize("/", Front(spath)))

\* The modules of the interpreter, by their names.  It has modules of its own before it loads any script, and a
\* module that is there is not loaded again, whatever script it is of.
sysModules == <<"c">> :> "of the interpreter"
readModule(loaded, spath, script) == loaded @@ (moduleName(spath) :> script)

------------------------------------------------------------------------------
\* Java.
RECURSIVE valueToJobject(_), jobjectToValue(_)
valuesToJarray(l) == [i \in DOMAIN l |-> valueToJobject(l[i])]
Null == <<"null">>
valueToJobject(v) ==
    CASE isList(v) -> <<"Iterable", valuesToJarray(v[2])>>
      [] Type(v) = "Lambda" -> <<"Proxy", v[2]>>
      [] isSymbol(v) -> <<"String", Quoted(v[2])>>
      [] isString(v) -> <<"String", v[2]>>
      [] Type(v) = "Number" -> <<"Double", v[2]>>
      [] Type(v) = "Bool" -> <<"Boolean", v[2]>>
      [] OTHER -> Null

\* Mutant: an empty list is a null.
emptyIsNull(o) ==
    CASE o[1] = "String" -> TextValue(o[2])
      [] o[1] = "Boolean" -> Bln(o[2])
      [] o[1] = "Double" -> Num(o[2])
      [] o[1] \in {"Iterable", "Object[]"} /\ o[2] # <<>> -> Lst([i \in DOMAIN o[2] |-> jobjectToValue(o[2][i])])
      [] OTHER -> Nil

\* Other objects, the proxies of lambdas too, become a function that answers its arguments.
jobjectToValue(o) ==
    CASE o = Null -> Nil
      [] o[1] = "String" -> TextValue(o[2])
      [] o[1] = "Boolean" -> Bln(o[2])
      [] o[1] = "Double" -> Num(o[2])
      [] o[1] \in {"Iterable", "Object[]"} -> Lst([i \in DOMAIN o[2] |-> jobjectToValue(o[2][i])])
      [] OTHER -> Lam("echo")

\* The first of the methods with the name; a method that returns null has failed.
javaMethod(expr, methods) == SelectSeq(methods, LAMBDA m : m.name = AsText(Car(expr)))[1].body
javaArguments(expr) == valuesToJarray(Tail(expr))
evalClass(expr, methods, result) ==
    LET fn == AsText(Car(expr))
    IN CASE \A i \in DOMAIN methods : methods[i].name # fn ->
              IF fn \in OptionalFunctions THEN Content(NullFunction) ELSE Failure(<<"Couldn't find function">>, 1)
         [] result = Null -> Failure(<<"Function call failed">>, 1)
         [] OTHER -> Content(jobjectToValue(result))

\* A call of a proxy: the methods of Object are answered here, with the proxy.
ObjectMethods == {<<"equals">>, <<"hashCode">>, <<"toString">>}
javaLambda(expr, answer) == IF expr # <<>> /\ AsText(Car(expr)) \in ObjectMethods THEN Lam("self") ELSE answer
\* The expression that the lambda of a proxy gets: eval takes a whole one.
\* Mutant: eval is called like the other methods.
invokeByName(func, args) == <<Sym(func)>> \o jobjectToValue(<<"Object[]", args>>)[2]
nativeInvoke(func, args) ==
    LET l == jobjectToValue(<<"Object[]", args>>)[2]
    IN IF func = <<"eval">> THEN AsList(Car(l)) ELSE <<Sym(func)>> \o l

------------------------------------------------------------------------------
\* OpenCL.  The devices of a context: GPUs before CPUs, unless the type says which.
DevicesOf(type, gpus, cpus) ==
    IF type \in {"DEFAULT", "GPU"} /\ gpus > 0 THEN [type |-> "GPU", n |-> gpus]
    ELSE IF type \in {"DEFAULT", "CPU"} /\ cpus > 0 THEN [type |-> "CPU", n |-> cpus]
    ELSE [type |-> "DEFAULT", n |-> 0]

\* A buffer in the memory of a GPU is filled by an event that the kernel waits for.
readOnlyBuffer(dev, c) == [mem |-> c, event |-> dev.type # "CPU"]
valueToKernelArg(dev, v) ==
    CASE isSymbol(v) -> readOnlyBuffer(dev, <<"char", Quoted(v[2])>>)
      [] isString(v) -> readOnlyBuffer(dev, <<"char", v[2]>>)
      [] Type(v) = "Number" -> [mem |-> <<"float", v[2]>>, event |-> FALSE]
      [] Type(v) = "Bool" -> [mem |-> <<"int", v[2]>>, event |-> FALSE]
      [] OTHER -> readOnlyBuffer(dev, <<"value", v>>)
valuesToKernelArgs(dev, l) == map(LAMBDA v : valueToKernelArg(dev, v), l)
writeBufferEvents(args) == SelectSeq(args, LAMBDA a : a.event)

\* The type and the count that the name of a kernel starts with, as float4_sum.
ValueTypes == [t \in {"float", "int", "char"} |->
                 CASE t = "float" -> "Number" [] t = "int" -> "Bool" [] t = "char" -> "String"]
valueType(t) == IF Len(t) = 1 /\ t[1] \in DOMAIN ValueTypes THEN ValueTypes[t[1]] ELSE "Nil"
\* Mutant: a count is one.
kernelResultOfOne(fn) == [type |-> valueType(SubSeq(tokenize("_", fn)[1], 1, 1)), n |-> 1]
FirstCount(s) == SelectInSeq(s, LAMBDA w : w \in DOMAIN NumberWords)
resultTypeAt(s, d) ==
    IF d = 0 THEN [type |-> valueType(s), n |-> 1]
    ELSE [type |-> valueType(SubSeq(s, 1, d - 1)), n |-> NumberWords[s[d]]]
resultTypeOf(s) == resultTypeAt(s, FirstCount(s))
kernelResultType(fn) == resultTypeOf(tokenize("_", fn)[1])

\* What a kernel wrote, in a buffer of n: a text ends where the device ended it.  The text of a buffer that has no
\* room for its end goes on with what is behind the buffer.
kernelText(t, n, behind) == IF Len(t) < n THEN t ELSE SubSeq(t, 1, n) \o behind
kernelResultToValue(mem, rtype, behind) ==
    CASE rtype.type = "String" -> TextValue(kernelText(mem[2], rtype.n, behind))
      [] rtype.type = "Number" -> Num(mem[2])
      [] rtype.type = "Bool" -> Bln(mem[2])
      [] OTHER -> mem[2]

\* The calls of an evaluation, in order; the events that they leave, and those it releases.
KernelCalls == <<"args", "buffer", "arg", "kernel", "read", "wait">>
CallsMade(fail) == IF fail = "none" THEN Len(KernelCalls) ELSE CHOOSE i \in DOMAIN KernelCalls : KernelCalls[i] = fail
Events(fail) == {e \in {"kernel", "read"} : \E i \in 1 .. CallsMade(fail) : KernelCalls[i] = e /\ e # fail}
Released(fail) ==
    CASE fail = "read" -> {"kernel"}
      [] fail \in {"wait", "none"} -> {"kernel", "read"}
      [] OTHER -> {}
\* The memory of the arguments of a kernel, which writes "ran".
kernelMemory(dev, expr) == map(LAMBDA a : a.mem, valuesToKernelArgs(dev, Tail(expr)))
evalKernel(dev, expr, ran, behind, fail) ==
    [answer |-> IF fail = "none" THEN Content(kernelResultToValue(ran, kernelResultType(AsText(Car(expr))), behind))
                ELSE Failure(<<fail>>, 1),
     waits |-> Len(writeBufferEvents(valuesToKernelArgs(dev, Tail(expr)))),
     left |-> Events(fail) \ Released(fail)]

------------------------------------------------------------------------------
\* A component answers a list of its result, or of nil, the reason and the code of its failure.
LanguageAnswer(res) ==
    Lst(IF hasContent(res) THEN <<res.content>> ELSE <<Nil, Str(res.reason), Num(res.code)>>)
evalImplementation(language, code, px, result, params) ==
    LET expr == params \o px
    IN LanguageAnswer(IF language = "python" THEN evalPython(expr, code, result) ELSE evalClass(expr, code, result))
=============================================================================
