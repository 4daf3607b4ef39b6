------------------------------ MODULE Elements ------------------------------
(***************************************************************************)
(* Elements: kernel/element.hpp.  Documents are lists of elements and      *)
(* attributes; components see them as values, lists of assocs, where the   *)
(* children of a name are grouped into one list.                           *)
(***************************************************************************)
EXTENDS Values

attribute == Word("attribute")
element == Word("element")

isElement(v) == isTaggedList(v, element)
isAttribute(v) == isTaggedList(v, attribute)
attributeName(v) == Cadr(AsList(v))
attributeValue(v) == Caddr(AsList(v))
elementName(v) == Cadr(AsList(v))
elementChildren(v) == Cddr(AsList(v))
elementHasChildren(v) == elementChildren(v) # <<>>
elementValue(v) == Car(Reverse(AsList(v)))
\* The last child is the value, unless it is a symbol or an assoc.
elementHasValue(v) == ~isSymbol(elementValue(v)) /\ ~isAssoc(elementValue(v))

Element(name, children) == Lst(<<element, name>> \o children)
Attribute(name, v) == Lst(<<attribute, name, v>>)

\* Lookups in a list of elements.
attributesNamed(name, l) == SelectSeq(AsList(l), LAMBDA v : isAttribute(v) /\ Eq(attributeName(v), name))
attributeNamed(name, l) == Car(map(attributeValue, attributesNamed(name, l)))
childrenNamed(name, l) == SelectSeq(AsList(l), LAMBDA v : isElement(v) /\ Eq(elementName(v), name))
elementChild(name, l) == Car(childrenNamed(name, l))

------------------------------------------------------------------------------
\* From elements to values.
elementToValueIsList(v) == isList(v) /\ ~isAssoc(v)

\* An assoc is merged with those that follow it and have its name: their values become one list.
SameName(v, w) == isAssoc(v) /\ isAssoc(w) /\ Eq(Car(AsList(v)), Car(AsList(w)))
Alone(a) == IF isList(Cadr(a)) THEN Lst(Cdr(a)) ELSE Cadr(a)
Together(first, next) ==
    IF elementToValueIsList(Cadr(next))
    THEN (IF Cdr(first) = <<>> THEN <<>> ELSE <<Alone(first)>>) \o AsList(Cadr(next))
    ELSE <<Alone(first), Alone(next)>>
RECURSIVE elementToValueGroupValues(_, _)
elementToValueGroupValues(v, l) ==
    IF l = <<>> \/ ~SameName(v, Car(l)) THEN <<v>> \o l
    ELSE elementToValueGroupValues(Lst(<<Car(AsList(v)), Lst(Together(AsList(v), AsList(Car(l))))>>), Cdr(l))

RECURSIVE elementToValue(_), elementsToValues(_)
elementToValue(v) ==
    CASE isAttribute(v) -> Lst(<<Sym(<<"@">> \o AsText(attributeName(v))), attributeValue(v)>>)
      [] isElement(v) /\ elementHasValue(v) ->
            Lst(<<elementName(v), IF elementToValueIsList(elementValue(v))
                                  THEN Lst(elementsToValues(AsList(elementValue(v))))
                                  ELSE elementValue(v)>>)
      [] isElement(v) /\ ~elementHasValue(v) ->
            Lst(<<elementName(v)>> \o elementsToValues(elementChildren(v)))
      [] isList(v) /\ ~isAttribute(v) /\ ~isElement(v) -> Lst(elementsToValues(AsList(v)))
      [] OTHER -> v
elementsToValues(l) ==
    IF l = <<>> THEN l ELSE elementToValueGroupValues(elementToValue(Car(l)), elementsToValues(Cdr(l)))

\* From values to elements.
RECURSIVE valueToElement(_)
valuesToElements(l) == map(valueToElement, l)
valueToElement(v) ==
    CASE isAssoc(v) ->
            LET name == Car(AsList(v))
                val == IF Len(AsList(v)) = 1 THEN Nil ELSE Cadr(AsList(v))
            IN CASE ~isList(val) /\ Car(AsText(name)) = "@" -> Attribute(Sym(Tail(AsText(name))), val)
                 [] ~isList(val) /\ Car(AsText(name)) # "@" -> Element(name, <<val>>)
                 [] isAssoc(val) -> Element(name, valuesToElements(Cdr(AsList(v))))
                 [] OTHER -> Element(name, <<Lst(valuesToElements(AsList(val)))>>)
      [] isList(v) /\ ~isAssoc(v) -> Lst(valuesToElements(AsList(v)))
      [] OTHER -> v
=============================================================================
