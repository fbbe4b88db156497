----------------------------- MODULE MCOrderAmounts -----------------------------
(* Two products of one store and one of the other, for a few cents. *)
EXTENDS OrderAmounts

CONSTANTS p1, p2, p3
Products == {p1, p2, p3}
Home == [p \in Products |-> IF p = p3 THEN "PALI" ELSE "SERATUS"]
Price == [p \in Products |-> CASE p = p1 -> 5 [] p = p2 -> 7 [] p = p3 -> 9]

(* Forms of one to three products in several orders, at their price or,    *)
(* once, at less.                                                          *)
Asked(p, price) == [product |-> p, quantity |-> IF p = p1 THEN 3 ELSE 1, price |-> price]
Full(p) == Asked(p, Price[p])
Less(p) == Asked(p, 3)
AskedForms ==
    {<<Full(p1)>>, <<Full(p2), Less(p1)>>,
     <<Less(p3), Full(p1), Full(p2)>>, <<Full(p1), Full(p3), Less(p2)>>}

(* A store sells one or two lines, with or without a discount.             *)
Line(p, price, taken) ==
    [product |-> p, quantity |-> 1, price |-> price, total |-> price - taken]
SoldLines ==
    {<<Line(p1, 5, 2)>>, <<Line(p2, 7, 2)>>, <<Line(p2, 4, 1)>>,
     <<Line(p1, 5, 0), Line(p1, 5, 2)>>,
     <<Line(p2, 4, 1), Line(p1, 5, 2)>>,
     <<Line(p1, 5, 0), Line(Foreign, 4, 0)>>}
SoldOrders ==
    {[lines |-> lines, shippings |-> shippings, lastId |-> Len(lines)] :
        lines \in SoldLines, shippings \in {<< >>, <<2, 1>>}}
=============================================================================
