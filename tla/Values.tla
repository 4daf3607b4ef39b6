------------------------------- MODULE Values -------------------------------
(***************************************************************************)
(* The values of the runtime and the functions on lists of them:           *)
(* kernel/value.hpp, kernel/list.hpp.  A value is a pair of its type and   *)
(* its content, so that values of different types can be compared.  A text *)
(* is a sequence of words: what the code does with the characters of a     *)
(* word does not matter, only their order does.  A number is its text.     *)
(*                                                                         *)
(* A list is a sequence.  The lazy tails of the code are lambdas without   *)
(* effects: when they run cannot be told from the values.                  *)
(***************************************************************************)
EXTENDS Integers, SequencesExt, Functions

CONSTANT Alphabet       \* the words, in the order memcmp gives them

ASSUME AlphabetAssumption == IsInjective(Alphabet)

Position == [w \in Range(Alphabet) |-> CHOOSE i \in DOMAIN Alphabet : Alphabet[i] = w]

Nil == <<"Nil">>
Sym(t) == <<"Symbol", t>>
Str(t) == <<"String", t>>
Num(n) == <<"Number", n>>
Bln(b) == <<"Bool", b>>
Lst(l) == <<"List", l>>
Lam(f) == <<"Lambda", f>>

Word(w) == Sym(<<w>>)
Type(v) == v[1]
isNull(v) == v = Nil
isSymbol(v) == Type(v) = "Symbol"
isString(v) == Type(v) = "String"
isList(v) == Type(v) = "List"
IsText(v) == Type(v) \in {"Symbol", "String"}

------------------------------------------------------------------------------
\* Conversions: each of them answers every type, with a default where there is nothing to convert.
\* A word that is a number: the digits, of which a few are enough.
NumberWords == [w \in {"0", "1", "2", "7"} |-> CASE w = "0" -> 0 [] w = "1" -> 1 [] w = "2" -> 2 [] OTHER -> 7]
WordOf(n) == CHOOSE w \in DOMAIN NumberWords : NumberWords[w] = n

AsText(v) ==
    CASE IsText(v) -> v[2]
      [] Type(v) = "Number" -> <<WordOf(v[2])>>
      [] Type(v) = "Bool" -> <<IF v[2] THEN "true" ELSE "false">>
      [] OTHER -> <<>>

AsNumber(v) ==
    CASE Type(v) = "Number" -> v[2]
      [] IsText(v) -> IF v[2] # <<>> /\ v[2][1] \in DOMAIN NumberWords THEN NumberWords[v[2][1]] ELSE 0
      [] Type(v) = "Bool" -> IF v[2] THEN 1 ELSE 0
      [] OTHER -> 0

AsBool(v) ==
    CASE Type(v) = "Bool" -> v[2]
      [] IsText(v) -> v[2] = <<"true">>
      [] Type(v) = "Number" -> v[2] # 0
      [] OTHER -> FALSE

AsList(v) == IF isList(v) THEN v[2] ELSE <<>>

------------------------------------------------------------------------------
\* Equality and order.  A symbol equals the string of the same text; values of different types are
\* neither equal nor ordered, and a copy of a lambda is not equal to it.
TextLess(s, t) ==
    \E i \in DOMAIN t : /\ Len(s) >= i - 1
                        /\ SubSeq(s, 1, i - 1) = SubSeq(t, 1, i - 1)
                        /\ (Len(s) >= i => Position[s[i]] < Position[t[i]])

RECURSIVE Eq(_, _), Less(_, _)
ListEq(l, m) == Len(l) = Len(m) /\ \A i \in DOMAIN l : Eq(l[i], m[i])

ListLess(l, m) ==
    \E i \in DOMAIN m : /\ Len(l) >= i - 1
                        /\ \A j \in 1 .. i - 1 : Eq(l[j], m[j])
                        /\ (Len(l) >= i => Less(l[i], m[i]))

Eq(v, w) ==
    CASE isList(v) -> isList(w) /\ ListEq(v[2], w[2])
      [] IsText(v) -> IsText(w) /\ v[2] = w[2]
      [] Type(v) = "Lambda" -> FALSE
      [] OTHER -> v = w

Less(v, w) ==
    CASE isList(v) -> isList(w) /\ ListLess(v[2], w[2])
      [] IsText(v) -> IsText(w) /\ TextLess(v[2], w[2])
      [] Type(v) = "Number" -> Type(w) = "Number" /\ v[2] < w[2]
      [] Type(v) = "Bool" -> Type(w) = "Bool" /\ ~v[2] /\ w[2]
      [] OTHER -> FALSE

------------------------------------------------------------------------------
\* Failures.  A failure as a value is a list of nothing and the reason, with the code unless it is 1.
Content(v) == [content |-> v]
Failure(reason, code) == [reason |-> reason, code |-> code]
hasContent(m) == "content" \in DOMAIN m
FailableValue(m) ==
    Lst(IF hasContent(m) THEN <<m.content>>
        ELSE IF m.code = 1 THEN <<Nil, Str(m.reason)>> ELSE <<Nil, Str(m.reason), Num(m.code)>>)

------------------------------------------------------------------------------
\* Lists.
map(f(_), l) == [i \in DOMAIN l |-> f(l[i])]
\* The first value of an empty list is nil.  Its rest is undefined: the code calls a null function there.
Car(l) == IF l = <<>> THEN Nil ELSE Head(l)
Cdr(l) == Tail(l)
Cadr(l) == Car(Cdr(l))
Cddr(l) == Cdr(Cdr(l))
Caddr(l) == Car(Cddr(l))
member(v, l) ==
    LET at == {i \in DOMAIN l : Eq(v, l[i])}
    IN IF at = {} THEN <<>> ELSE SubSeq(l, CHOOSE i \in at : \A j \in at : i <= j, Len(l))
listHead(l, k) == SubSeq(l, 1, IF k < Len(l) THEN k ELSE Len(l))
listTail(l, k) == SubSeq(l, k + 1, Len(l))
seq(start, end) ==
    IF start <= end THEN [i \in 1 .. end - start + 1 |-> start + i - 1]
    ELSE [i \in 1 .. start - end + 1 |-> start - i + 1]
subst(o, n, l) == map(LAMBDA v : IF Eq(o, v) THEN n ELSE v, l)
zip(l, m) == [i \in 1 .. (IF Len(l) < Len(m) THEN Len(l) ELSE Len(m)) |-> Lst(<<l[i], m[i]>>)]
unzipKeys(l) == map(LAMBDA a : Car(AsList(a)), l)
unzipValues(l) == map(LAMBDA a : Cadr(AsList(a)), l)

\* Lists of assocs: an assoc is a list whose first value is its key.
isTaggedList(v, tag) == isList(v) /\ v[2] # <<>> /\ Eq(Car(v[2]), tag)
isAssoc(v) == isList(v) /\ v[2] # <<>> /\ isSymbol(Car(v[2]))

assoc(k, l) == AsList(Car(SelectSeq(l, LAMBDA a : isTaggedList(a, k))))

delAssoc(k, l) == SelectSeq(l, LAMBDA a : ~isTaggedList(a, k))

\* Every assoc with the key is replaced; with add, one is added at the end if there was none.
substAssoc(k, n, l, add) ==
    LET replaced == map(LAMBDA a : IF isTaggedList(a, k) THEN Lst(n) ELSE a, l)
    IN IF add /\ \A i \in DOMAIN l : ~isTaggedList(l[i], k) THEN Append(replaced, Lst(n)) ELSE replaced

------------------------------------------------------------------------------
\* Paths: the texts between the slashes, as values and back.  An empty text at the end is dropped.
Between(sep, t) ==
    FoldLeft(LAMBDA acc, w : IF w = sep THEN Append(acc, <<>>) ELSE Front(acc) \o <<Append(Last(acc), w)>>, <<<<>>>>, t)
WithoutEmptyEnd(parts) == IF Last(parts) = <<>> THEN Front(parts) ELSE parts
tokenize(sep, t) == WithoutEmptyEnd(Between(sep, t))
pathTokens(t) == tokenize("/", IF t # <<>> /\ t[1] = "/" THEN Tail(t) ELSE t)
pathValues(t) == map(Str, pathTokens(t))
path(l) == FoldLeft(LAMBDA t, v : t \o <<"/">> \o AsText(v), <<>>, l)
=============================================================================
