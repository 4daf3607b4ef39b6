---------------------------------- MODULE Cart ----------------------------------
(***************************************************************************)
(* A component over a cache: the shopping cart of                          *)
(* samples/store-cpp/shopping-cart.cpp, one list of items in memcached.    *)
(*                                                                         *)
(* A post gets the list, and puts it back with the new item; nothing keeps *)
(* another thread from changing it in between.                             *)
(***************************************************************************)
EXTENDS Stores

cartId == Str(<<"1", "2">>)
getcart(s) == AsList(ContentOrNil(itemGet(s, Lst(<<cartId>>))))

\* The entry is the title and the content of what is posted, with an id of its own.
newItem(item, id) == LET e == AsList(Car(AsList(item))) IN Lst(<<entry, Cadr(e), Lst(<<Word("id"), id>>), e[4]>>)
putcart(s, cart) == storePut(s, Lst(<<cartId>>), Lst(cart)).store
\* Mutant: the items of the cart are forgotten.
cartPostAlone(s, item, id, cart) == putcart(s, <<newItem(item, id)>>)
\* What a post does with the cart it got.
cartPost(s, item, id, cart) == putcart(s, <<newItem(item, id)>> \o cart)

NoItem == Lst(<<entry, Lst(<<Word("title"), Str(<<"Item">>)>>), Lst(<<Word("id"), Word("0")>>)>>)
findItem(id, cart) ==
    Lst(<<Head(Append(SelectSeq(cart, LAMBDA e : Eq(id, Cadr(AsList(Caddr(AsList(e)))))), NoItem))>>)
getFromCart(cart, id) ==
    IF id # <<>> THEN findItem(id[1], cart)
    ELSE Lst(<<Lst(<<Word("feed"), Lst(<<Word("title"), Str(<<"Your Cart">>)>>), Lst(<<Word("id"), cartId>>)>> \o cart)>>)
cartGet(s, id) == getFromCart(getcart(s), id)
\* Only the whole cart is deleted.
cartDel(s, id) == IF id = <<>> THEN storeDel(s, Lst(<<cartId>>)) ELSE Did(s, True)

price(item) == AsNumber(Cadr(assoc(Word("price"), Cdr(AsList(Cadr(AsList(item[4])))))))
total(s) == Num(FoldLeft(LAMBDA n, item : n + price(AsList(item)), 0, getcart(s)))
=============================================================================
