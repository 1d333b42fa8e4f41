--------------------------- MODULE MCBoundedPages ---------------------------
(* BoundedPages for TLC: raw pages of two elements, two of them per request, *)
(* two lookups at once, and lists in which pages narrow to nothing.          *)
EXTENDS BoundedPages

Element(kind, id, products, inScope) == [kind |-> kind, id |-> id, products |-> products, inScope |-> inScope]
Concept(id, products) == Element("concept", id, products, TRUE)
Product(p, inScope) == Element("product", p, <<p>>, inScope)

A == Concept("a", <<"ps4", "a5">>)      \* the PS5 title is tried first
B == Concept("b", <<"b5">>)
B2 == Concept("b2", <<"ps4b", "b5">>)   \* another concept of the game of b
Old == Concept("old", <<"ps4">>)
Bare == Concept("bare", << >>)
Late == Concept("late", <<"x1", "ps4", "b5">>) \* its game is no candidate
Bad == Element("malformed", "bad", << >>, FALSE)
PA == Product("a5", TRUE)
PB == Product("b5", TRUE)
PX == Product("x1", FALSE)

MCProducts == {"a5", "b5", "ps4", "ps4b", "x1"}
MCPs5Games == {"a5", "b5"}
MCPs5Titles == {"a5", "x1"}

Genres == {
    <<A, B, Old>>, <<B2, A, B, A>>, <<Old, Bare, Old, Bad, Bare, Old, A>>,
    <<Old, Late>>, <<Old, B>>, <<Bad, A, B>>, <<PA, A, B, Old, A>>, << >>}
Terms == {
    <<PA, B, PX>>, <<B, PB, B2, A>>, <<PX, Old, PX, Bad, Bare, Old, PA>>,
    <<Old, A>>, <<B, A, PB>>, << >>}
Wishlists == {
    <<PA, PB, Bad, PA, PX>>,
    [n \in 1..4 |-> Product(<<"x1", "a5", "ps4", "b5">>[n], TRUE)],
    <<A, Product("x1", TRUE), PB, A, PA>>}

MCOpenings == [view : {"browse"}, list : Genres] \cup [view : {"search"}, list : Terms]
              \cup [view : {"wishlist"}, list : Wishlists]
=============================================================================
